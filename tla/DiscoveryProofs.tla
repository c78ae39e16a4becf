--------------------------- MODULE DiscoveryProofs ---------------------------
(* What holds of Multicall and of PoolDiscovery, for any factories and pairs,  *)
(* any nodes and any number of faults: the answers stay with what was asked,  *)
(* no pool is forgotten, the filter takes the pools that it should, and the   *)
(* paths mapped are those that the pools make.                                *)
EXTENDS PoolDiscovery, PathProofs

-----------------------------------------------------------------------------
(* Multicall: call() implements the contract of Calls, for any requests and  *)
(* answers, any size of the chunks and any number of retries.                *)

(* The inductive invariant                                                   *)

Frames == [params : Seq(Requests), results : Seq(AnyReply), retry_idxs : Seq(Nat)]

\* A frame has a reply for each of its first requests.
Replied(f) ==
  /\ Len(f.results) <= Len(f.params)
  /\ \A i \in DOMAIN f.results : f.results[i] \in Answers[f.params[i]] \cup {Bad}

FailedIn(f) == {i \in DOMAIN f.results : f.results[i] = Bad}

\* The frame that waits and the one it waits for: every request that failed is
\* asked again, from the position that retry_idxs says.
Waits(outer, f) ==
  /\ Len(outer.results) = Len(outer.params)
  /\ DOMAIN outer.retry_idxs = DOMAIN f.params
  /\ \A j \in DOMAIN f.params :
       /\ outer.retry_idxs[j] \in DOMAIN outer.params
       /\ f.params[j] = outer.params[outer.retry_idxs[j]]
  /\ \A i \in FailedIn(outer) : \E j \in DOMAIN f.params : outer.retry_idxs[j] = i
  /\ outer.retry_idxs # <<>>

\* Once the results of the retried requests are back, none is missing.
Innermost(f) ==
  f.retry_idxs # <<>> => Len(f.results) = Len(f.params) /\ FailedIn(f) = {}

IInv ==
  /\ frames \in Seq(Frames)
  /\ \A n \in 1..Len(frames) : Replied(frames[n])
  /\ \A n \in 1..Len(frames) : n < Len(frames) => Waits(frames[n], frames[n + 1])
  /\ Busy => Innermost(inner)

-----------------------------------------------------------------------------
(* Lemmas on the data                                                        *)

\* The positions that failed are listed, each of them.
LEMMA AllFailuresListed ==
  ASSUME NEW f \in Frames
  PROVE  LET idxs == FailedPositions(f.results)
         IN  /\ idxs \in Seq(Nat)
             /\ \A j \in DOMAIN idxs : idxs[j] \in FailedIn(f)
             /\ \A i \in FailedIn(f) : \E j \in DOMAIN idxs : idxs[j] = i
<1>. DEFINE S == FailedIn(f)
            n == Cardinality(S)
            idxs == FailedPositions(f.results)
<1>1. S \subseteq 1..Len(f.results) /\ Len(f.results) \in Nat
  BY DEF Frames, FailedIn
<1>2. IsFiniteSet(1..Len(f.results))
  BY <1>1, FS_Interval
<1>3. IsFiniteSet(S)
  BY <1>1, <1>2, FS_Subset
<1>4. n \in Nat /\ ExistsBijection(1..n, S)
  BY <1>3, FS_CardinalityType
<1>5. \E g \in [1..n -> S] : IsInjective(g)
  BY <1>4, Zenon DEF ExistsBijection, Bijection, Injection
<1>6. idxs = CHOOSE g \in [1..n -> S] : IsInjective(g)
  BY DEF FailedPositions, SetToSeq, FailedIn
<1>7. idxs \in [1..n -> S] /\ IsInjective(idxs)
  BY <1>5, <1>6, Zenon
<1>8. idxs \in Injection(1..n, S)
  BY <1>7, Zenon DEF Injection
<1>9. IsFiniteSet(1..n) /\ Cardinality(1..n) = n
  BY <1>4, FS_Interval
<1>10. idxs \in Surjection(1..n, S)
  BY <1>3, <1>8, <1>9, FS_Injection
<1>11. \A i \in S : \E j \in 1..n : idxs[j] = i
  BY <1>10, Zenon DEF Surjection
<1>12. idxs \in [1..n -> Nat]
  BY <1>1, <1>7
<1>13. idxs \in Seq(Nat)
  BY <1>4, <1>12, IsASeq
<1>. QED BY <1>4, <1>7, <1>11, <1>13

\* The requests of a chunk are the next ones.
LEMMA ChunkIsNext ==
  ASSUME IInv, Busy, ~ Complete
  PROVE  /\ Chunk \in Seq(Requests)
         /\ Len(inner.results) + Len(Chunk) <= Len(inner.params)
         /\ \A k \in 1..Len(Chunk) : Chunk[k] = inner.params[Len(inner.results) + k]
<1>. DEFINE first == Len(inner.results)
            rest == Len(inner.params) - first
            m == IF rest < Size THEN rest ELSE Size
<1>1. inner \in Frames /\ Replied(inner)
  BY DEF IInv, Busy, inner
<1>2. inner.params \in Seq(Requests) /\ first \in Nat /\ first <= Len(inner.params)
  BY <1>1 DEF Frames, Replied
<1>3. Len(inner.params) \in Nat /\ m \in Nat /\ first + m <= Len(inner.params)
  <2>1. Len(inner.params) \in Nat /\ rest \in Nat
    BY <1>2
  <2>2. m \in Nat /\ m <= rest
    <3>. HIDE DEF rest
    <3>. QED BY <2>1, SizeAssumption
  <2>. HIDE DEF m, first
  <2>. QED BY <1>2, <2>1, <2>2
<1>4. Chunk = SubSeq(inner.params, first + 1, first + m)
  BY DEF Chunk
<1>5. /\ Chunk \in Seq(Requests) /\ Len(Chunk) = m
      /\ \A k \in 1..m : Chunk[k] = inner.params[first + k]
  <2>. HIDE DEF m, first
  <2>. QED BY <1>2, <1>3, <1>4
<1>. QED BY <1>3, <1>5

\* Where a step replaces the innermost frame by one with the same requests, the
\* frames that wait still do.
LEMMA InnerReplaced ==
  ASSUME IInv, Busy, NEW f \in Frames, f.params = inner.params, Replied(f), Innermost(f),
         frames' = [frames EXCEPT ![Len(frames)] = f]
  PROVE  IInv'
<1>. DEFINE n == Len(frames)
<1>1. n \in Nat /\ n > 0 /\ n \in DOMAIN frames /\ inner = frames[n]
  BY DEF IInv, Busy, inner
<1>2. /\ frames' \in Seq(Frames) /\ Len(frames') = n /\ frames'[n] = f
      /\ \A i \in 1..n : i # n => frames'[i] = frames[i]
  BY <1>1 DEF IInv
<1>3. \A i \in 1..n : Replied(frames'[i])
  BY <1>2 DEF IInv
<1>4. ASSUME NEW i \in 1..n, i < n PROVE Waits(frames'[i], frames'[i + 1])
  <2>1. Waits(frames[i], frames[i + 1])
    BY <1>4 DEF IInv
  <2>2. frames'[i + 1] = frames[i + 1] \/ i + 1 = n
    <3>. HIDE DEF n
    <3>. QED BY <1>1, <1>2, <1>4
  <2>3. frames'[i + 1].params = frames[i + 1].params
    BY <1>1, <1>2, <2>2
  <2>4. frames'[i] = frames[i]
    <3>. HIDE DEF n
    <3>. QED BY <1>1, <1>2, <1>4
  <2>. DEFINE g == frames[i + 1]
              h == frames'[i + 1]
  <2>5. Waits(frames[i], g) /\ h.params = g.params
    BY <2>1, <2>3, Zenon
  <2>. HIDE DEF g, h
  <2>6. Waits(frames[i], h)
    BY <2>5, Zenon DEF Waits
  <2>. QED BY <2>4, <2>6, Zenon DEF h
<1>5. inner' = f
  BY <1>2 DEF inner
<1>6. Innermost(inner)'
  BY <1>5, Zenon DEF Innermost, FailedIn
<1>. DEFINE new == frames'
<1>7. /\ new \in Seq(Frames) /\ Len(new) = n
      /\ \A i \in 1..n : Replied(new[i])
      /\ \A i \in 1..n : i < n => Waits(new[i], new[i + 1])
  BY <1>2, <1>3, <1>4
<1>. HIDE DEF n
<1>8. /\ \A i \in 1..Len(new) : Replied(new[i])
      /\ \A i \in 1..Len(new) : i < Len(new) => Waits(new[i], new[i + 1])
  BY <1>7, Zenon
<1>9. /\ \A i \in 1..Len(frames') : Replied(frames[i])'
      /\ \A i \in 1..Len(frames') : i < Len(frames') => Waits(frames[i], frames[i + 1])'
  BY <1>8, Zenon DEF Replied, Waits, FailedIn
<1>. QED BY <1>6, <1>7, <1>9, Zenon DEF IInv

-----------------------------------------------------------------------------
(* The steps                                                                 *)

\* No call, or a new one.
LEMMA CallKeeps ==
  ASSUME IInv, NEW params \in Seq(Requests), Call(params)
  PROVE  IInv'
<1>1. Frame(params) \in Frames /\ Replied(Frame(params)) /\ Innermost(Frame(params))
  BY DEF Frame, Frames, Replied, Innermost
<1>2. frames' \in Seq(Frames) /\ Len(frames') = 1 /\ frames'[1] = Frame(params)
  BY <1>1 DEF Call
<1>. QED BY <1>1, <1>2 DEF IInv, inner, Replied, Waits, Innermost, FailedIn

\* Steps that leave no call in progress.
LEMMA NoneKeeps ==
  ASSUME frames' = <<>>
  PROVE  IInv'
<1>1. frames' \in Seq(Frames) /\ Len(frames') = 0 /\ ~ Busy'
  BY DEF Busy
<1>. QED BY <1>1 DEF IInv

\* A chunk is answered: its results stand where its requests do.
LEMMA CallOneKeeps ==
  ASSUME IInv, Busy, NEW reply \in Replies, CallOne(reply)
  PROVE  IInv'
<1>. DEFINE f == [inner EXCEPT !.results = @ \o reply]
<1>1. inner \in Frames /\ Replied(inner) /\ Innermost(inner)
  BY DEF IInv, Busy, inner
<1>2. ~ Complete /\ frames' = [frames EXCEPT ![Len(frames)] = f]
  BY DEF CallOne, inner
<1>3. /\ Chunk \in Seq(Requests)
      /\ Len(inner.results) + Len(Chunk) <= Len(inner.params)
      /\ \A k \in 1..Len(Chunk) : Chunk[k] = inner.params[Len(inner.results) + k]
  BY <1>2, ChunkIsNext
<1>4. /\ reply \in Seq(AnyReply) /\ Len(reply) = Len(Chunk)
      /\ \A k \in 1..Len(Chunk) : reply[k] \in Answers[Chunk[k]] \cup {Bad}
  <2>1. DOMAIN Chunk = 1..Len(Chunk) /\ Len(Chunk) \in Nat
    BY <1>3
  <2>2. /\ reply \in [DOMAIN Chunk -> AnyReply]
        /\ \A k \in DOMAIN Chunk : reply[k] \in Answers[Chunk[k]] \cup {Bad}
    BY DEF Replies
  <2>3. reply \in Seq(AnyReply)
    BY <2>1, <2>2, IsASeq
  <2>. QED BY <2>1, <2>2, <2>3 DEF CallOne
<1>5. inner.results \in Seq(AnyReply) /\ inner.params \in Seq(Requests)
  BY <1>1 DEF Frames
<1>6. /\ f \in Frames /\ f.params = inner.params /\ f.results = inner.results \o reply
      /\ f.retry_idxs = inner.retry_idxs
  <2>. DEFINE res == inner.results \o reply
  <2>1. res \in Seq(AnyReply)
    BY <1>4, <1>5
  <2>2. f = [inner EXCEPT !.results = res]
    OBVIOUS
  <2>. HIDE DEF res, f
  <2>3. f \in Frames /\ f.params = inner.params /\ f.results = res
        /\ f.retry_idxs = inner.retry_idxs
    BY <1>1, <2>1, <2>2 DEF Frames
  <2>. QED BY <2>3 DEF res
<1>. HIDE DEF f
<1>7. /\ Len(f.results) = Len(inner.results) + Len(Chunk)
      /\ \A i \in 1..Len(f.results) :
           f.results[i] = IF i <= Len(inner.results) THEN inner.results[i]
                          ELSE reply[i - Len(inner.results)]
  <2>. DEFINE res == inner.results
  <2>1. /\ res \in Seq(AnyReply) /\ reply \in Seq(AnyReply)
        /\ f.results = res \o reply /\ Len(reply) = Len(Chunk)
    BY <1>4, <1>5, <1>6
  <2>. HIDE DEF res
  <2>2. /\ Len(res \o reply) = Len(res) + Len(reply)
        /\ \A i \in 1..(Len(res) + Len(reply)) :
             (res \o reply)[i] = IF i <= Len(res) THEN res[i] ELSE reply[i - Len(res)]
    <3>. DEFINE S == AnyReply
    <3>1. res \in Seq(S) /\ reply \in Seq(S)
      BY <2>1, Zenon
    <3>. HIDE DEF S
    <3>. QED BY <3>1, ConcatProperties
  <2>. QED BY <2>1, <2>2 DEF res
<1>8. Replied(f)
  <2>1. ASSUME NEW i \in 1..Len(f.results)
        PROVE  f.results[i] \in Answers[f.params[i]] \cup {Bad}
    <3>1. CASE i <= Len(inner.results)
      BY <1>1, <1>5, <1>6, <1>7, <3>1 DEF Replied
    <3>2. CASE i > Len(inner.results)
      <4>. DEFINE k == i - Len(inner.results)
      <4>1. k \in 1..Len(Chunk) /\ i = Len(inner.results) + k
        BY <1>3, <1>5, <1>7, <3>2
      <4>2. Chunk[k] = f.params[i]
        BY <1>3, <1>6, <4>1
      <4>3. f.results[i] = reply[k]
        BY <1>5, <1>7, <3>2
      <4>. QED BY <1>4, <4>1, <4>2, <4>3
    <3>. QED BY <1>5, <3>1, <3>2
  <2>2. DOMAIN f.results = 1..Len(f.results)
    BY <1>4, <1>5, <1>6
  <2>. QED BY <1>3, <1>6, <1>7, <2>1, <2>2 DEF Replied
<1>9. Innermost(f)
  BY <1>1, <1>2, <1>6 DEF Innermost, Complete
<1>. QED BY <1>2, <1>6, <1>8, <1>9, InnerReplaced

\* What failed is asked for again, one level down.
LEMMA RetryKeeps ==
  ASSUME IInv, Retry
  PROVE  IInv'
<1>. DEFINE n == Len(frames)
            idxs == FailedPositions(inner.results)
            outer == [inner EXCEPT !.retry_idxs = idxs]
            f == Frame([j \in DOMAIN idxs |-> inner.params[idxs[j]]])
<1>1. Busy /\ Complete /\ FailedIn(inner) # {}
  BY DEF Retry, HasFailures, FailedIn
<1>2. n \in Nat /\ n > 0 /\ inner = frames[n] /\ inner \in Frames /\ Replied(inner)
  BY <1>1 DEF IInv, Busy, inner
<1>3. /\ idxs \in Seq(Nat)
      /\ \A j \in DOMAIN idxs : idxs[j] \in FailedIn(inner)
      /\ \A i \in FailedIn(inner) : \E j \in DOMAIN idxs : idxs[j] = i
  BY <1>2, AllFailuresListed
<1>4. frames' = Append([frames EXCEPT ![n] = outer], f)
  BY DEF Retry, inner
<1>. HIDE DEF idxs
<1>5. /\ outer \in Frames /\ outer.params = inner.params /\ outer.results = inner.results
      /\ outer.retry_idxs = idxs
  BY <1>2, <1>3 DEF Frames
<1>6. FailedIn(inner) \subseteq DOMAIN inner.params
  BY <1>1, <1>2 DEF FailedIn, Complete, Frames
<1>7. f.params \in Seq(Requests) /\ f \in Frames
  <2>1. [j \in DOMAIN idxs |-> inner.params[idxs[j]]] \in [1..Len(idxs) -> Requests]
    BY <1>2, <1>3, <1>6 DEF Frames
  <2>2. [j \in DOMAIN idxs |-> inner.params[idxs[j]]] \in Seq(Requests)
    BY <1>3, <2>1, IsASeq
  <2>. QED BY <2>2 DEF Frames, Frame
<1>8. Replied(f) /\ Innermost(f) /\ Replied(outer)
  BY <1>2, <1>5, <1>7 DEF Replied, Innermost, Frame, Frames
<1>9. Waits(outer, f)
  <2>1. DOMAIN f.params = DOMAIN idxs /\ \A j \in DOMAIN idxs : f.params[j] = inner.params[idxs[j]]
    BY DEF Frame
  <2>2. Len(outer.results) = Len(outer.params) /\ FailedIn(outer) = FailedIn(inner)
    BY <1>1, <1>5 DEF Complete, FailedIn
  <2>3. idxs # <<>>
    BY <1>1, <1>3
  <2>. HIDE DEF f, outer
  <2>. QED BY <1>3, <1>5, <1>6, <2>1, <2>2, <2>3 DEF Waits
<1>. HIDE DEF f, outer
<1>10. /\ frames' \in Seq(Frames) /\ Len(frames') = n + 1
       /\ frames'[n] = outer /\ frames'[n + 1] = f
       /\ \A i \in 1..(n - 1) : frames'[i] = frames[i]
  BY <1>2, <1>4, <1>5, <1>7 DEF IInv
<1>11. \A i \in 1..Len(frames') : Replied(frames'[i])
  BY <1>2, <1>8, <1>10 DEF IInv
<1>12. ASSUME NEW i \in 1..Len(frames'), i < Len(frames')
       PROVE  Waits(frames'[i], frames'[i + 1])
  <2>1. CASE i = n
    BY <1>9, <1>10, <2>1
  <2>2. CASE i = n - 1
    <3>1. Waits(frames[i], frames[i + 1]) /\ frames'[i] = frames[i]
      BY <1>2, <1>10, <2>2 DEF IInv
    <3>2. frames'[i + 1].params = frames[i + 1].params
      BY <1>2, <1>5, <1>10, <2>2
    <3>. QED BY <3>1, <3>2 DEF Waits
  <2>3. CASE i < n - 1
    <3>1. frames'[i] = frames[i] /\ frames'[i + 1] = frames[i + 1]
      BY <1>2, <1>10, <2>3
    <3>. QED BY <1>2, <2>3, <3>1 DEF IInv
  <2>. QED BY <1>2, <1>10, <1>12, <2>1, <2>2, <2>3
<1>13. Innermost(inner')
  BY <1>8, <1>10 DEF inner
<1>. QED BY <1>10, <1>11, <1>12, <1>13
         DEF IInv, Replied, Waits, Innermost, FailedIn

\* The results of the retried requests are put back, and none is missing then.
LEMMA PutBackKeeps ==
  ASSUME IInv, PutBack
  PROVE  IInv'
<1>. DEFINE n == Len(frames) - 1
            outer == frames[n]
            f == [outer EXCEPT !.results = Merged(@, outer.retry_idxs, inner.results)]
<1>1. n \in Nat /\ n > 0 /\ Len(frames) = n + 1 /\ Busy /\ Complete
  BY DEF IInv, PutBack, Finished, Complete
<1>2. /\ inner = frames[n + 1] /\ inner \in Frames /\ Replied(inner)
      /\ outer \in Frames /\ Replied(outer) /\ Waits(outer, inner)
  BY <1>1 DEF IInv, inner
<1>3. FailedIn(inner) = {}
  BY <1>1 DEF IInv, PutBack, Finished, Innermost, FailedIn
<1>4. frames' = [SubSeq(frames, 1, n) EXCEPT ![n] = f]
  <2>1. SubSeq(frames, 1, n)[n] = outer
    BY <1>1 DEF IInv
  <2>2. frames' = [SubSeq(frames, 1, n) EXCEPT
                     ![n].results = Merged(@, outer.retry_idxs, inner.results)]
    BY DEF PutBack
  <2>. QED BY <2>1, <2>2
<1>5. /\ outer.params \in Seq(Requests) /\ outer.results \in Seq(AnyReply)
      /\ DOMAIN inner.results = DOMAIN inner.params
      /\ DOMAIN outer.results = DOMAIN outer.params
      /\ DOMAIN outer.params = 1..Len(outer.params)
  BY <1>1, <1>2 DEF Frames, Complete, Waits
<1>6. /\ f.params = outer.params /\ f.retry_idxs = outer.retry_idxs
      /\ f.results = Merged(outer.results, outer.retry_idxs, inner.results)
      /\ DOMAIN f.results = DOMAIN outer.results
  BY <1>2 DEF Frames, Merged
<1>7. ASSUME NEW i \in DOMAIN f.results
      PROVE  f.results[i] \in Answers[f.params[i]] /\ f.results[i] # Bad
                /\ f.results[i] \in AnyReply
  <2>1. CASE \E j \in DOMAIN outer.retry_idxs : outer.retry_idxs[j] = i
    <3>. DEFINE j == CHOOSE j \in DOMAIN outer.retry_idxs : outer.retry_idxs[j] = i
    <3>1. j \in DOMAIN outer.retry_idxs /\ outer.retry_idxs[j] = i
      BY <2>1
    <3>2. f.results[i] = inner.results[j]
      BY <1>6, <1>7, <2>1 DEF Merged
    <3>. HIDE DEF j
    <3>3. j \in DOMAIN inner.params /\ inner.params[j] = outer.params[i]
      BY <1>2, <3>1 DEF Waits
    <3>4. inner.results[j] \in Answers[inner.params[j]] \cup {Bad} /\ inner.results[j] # Bad
      BY <1>2, <1>3, <1>5, <3>3 DEF Replied, FailedIn
    <3>5. inner.params[j] \in Requests
      BY <1>2, <3>3 DEF Frames
    <3>. QED BY <1>6, <3>2, <3>3, <3>4, <3>5 DEF AnyReply
  <2>2. CASE ~ \E j \in DOMAIN outer.retry_idxs : outer.retry_idxs[j] = i
    <3>1. f.results[i] = outer.results[i]
      BY <1>6, <1>7, <2>2 DEF Merged
    <3>2. i \notin FailedIn(outer)
      BY <1>2, <2>2 DEF Waits
    <3>3. outer.results[i] # Bad /\ outer.results[i] \in Answers[outer.params[i]]
      BY <1>2, <1>6, <1>7, <3>2 DEF Replied, FailedIn
    <3>4. outer.params[i] \in Requests
      BY <1>5, <1>6, <1>7
    <3>. QED BY <1>6, <3>1, <3>3, <3>4 DEF AnyReply
  <2>. QED BY <2>1, <2>2
<1>. HIDE DEF f
<1>8. f.results \in Seq(AnyReply) /\ Len(f.results) = Len(f.params)
  <2>1. f.results \in [1..Len(outer.params) -> AnyReply]
    BY <1>5, <1>6, <1>7 DEF Merged
  <2>2. f.results \in Seq(AnyReply)
    BY <1>5, <2>1, IsASeq
  <2>. QED BY <1>5, <1>6, <2>1, <2>2
<1>9. f \in Frames
  <2>1. f = [outer EXCEPT !.results = f.results]
    BY <1>2 DEF f, Frames
  <2>. QED BY <1>2, <1>8, <2>1 DEF Frames
<1>10. Replied(f) /\ Innermost(f)
  BY <1>7, <1>8, <1>9 DEF Replied, Innermost, FailedIn, Frames
<1>. HIDE DEF outer
<1>11. /\ frames' \in Seq(Frames) /\ Len(frames') = n /\ frames'[n] = f
       /\ \A i \in 1..(n - 1) : frames'[i] = frames[i]
  <2>. DEFINE cut == SubSeq(frames, 1, n)
  <2>1. /\ cut \in Seq(Frames) /\ Len(cut) = n /\ frames' = [cut EXCEPT ![n] = f]
        /\ \A i \in 1..n : cut[i] = frames[i]
    BY <1>1, <1>4 DEF IInv
  <2>. HIDE DEF cut, n
  <2>. QED BY <1>1, <1>9, <2>1
<1>12. ASSUME NEW i \in 1..n, i < n PROVE Waits(frames'[i], frames'[i + 1])
  <2>1. Waits(frames[i], frames[i + 1]) /\ frames'[i] = frames[i]
    BY <1>1, <1>11, <1>12 DEF IInv
  <2>2. frames'[i + 1].params = frames[i + 1].params
    BY <1>1, <1>6, <1>11, <1>12 DEF outer
  <2>. QED BY <2>1, <2>2 DEF Waits
<1>13. \A i \in 1..n : Replied(frames'[i])
  BY <1>1, <1>10, <1>11 DEF IInv
<1>14. Innermost(inner')
  BY <1>10, <1>11 DEF inner
<1>. QED BY <1>11, <1>12, <1>13, <1>14 DEF IInv, Replied, Waits, Innermost, FailedIn

\* Every step of a call keeps the invariant.
LEMMA NextKeeps ==
  ASSUME IInv, [multicallNext]_multicallVars
  PROVE  IInv'
<1>1. CASE UNCHANGED multicallVars
  BY <1>1 DEF IInv, multicallVars, Busy, inner
<1>2. CASE \E params \in Seq(Requests) : Call(params)
  BY <1>2, CallKeeps
<1>3. CASE Busy /\ \E reply \in Replies : CallOne(reply)
  BY <1>3, CallOneKeeps
<1>4. CASE Retry
  BY <1>4, RetryKeeps
<1>5. CASE PutBack
  BY <1>5, PutBackKeeps
<1>6. CASE Exceeded \/ Return \/ Disconnected \/ Forget
  BY <1>6, NoneKeeps DEF Exceeded, Return, Disconnected, Forget
<1>. QED BY <1>1, <1>2, <1>3, <1>4, <1>5, <1>6 DEF multicallNext

\* The invariant: results, waiting frames and what they wait for stay aligned.
THEOREM FramesAligned == multicallSpec => []IInv
<1>1. multicallInit => IInv
  BY DEF multicallInit, IInv, Busy
<1>. QED BY <1>1, NextKeeps, PTL DEF multicallSpec

-----------------------------------------------------------------------------
(* The refinement                                                            *)

\* What Calls sees.
asked == IF Busy THEN frames[1].params ELSE None
answer == IF Busy THEN None ELSE returned

\* A step in the middle of a call cannot be seen.
LEMMA InnerStepUnseen ==
  ASSUME IInv,
         \/ Busy /\ \E reply \in Replies : CallOne(reply)
         \/ Retry \/ PutBack
  PROVE  UNCHANGED <<asked, answer>>
<1>. DEFINE n == Len(frames)
<1>1. Busy /\ n \in Nat /\ n > 0 /\ frames \in Seq(Frames)
  BY DEF IInv, Busy, Retry, HasFailures, PutBack, Finished
<1>2. Busy' /\ frames'[1].params = frames[1].params
  <2>1. CASE \E reply \in Replies : CallOne(reply)
    BY <1>1, <2>1 DEF CallOne, Busy, Frames
  <2>2. CASE Retry
    <3>. DEFINE idxs == FailedPositions(inner.results)
                g == [frames EXCEPT ![n].retry_idxs = idxs]
                f == Frame([j \in DOMAIN idxs |-> inner.params[idxs[j]]])
    <3>1. frames' = Append(g, f)
      BY <2>2 DEF Retry
    <3>2. Len(g) = n /\ DOMAIN g = 1..n /\ g[1].params = frames[1].params
      BY <1>1 DEF Frames
    <3>. HIDE DEF g, f
    <3>. QED BY <1>1, <3>1, <3>2 DEF Busy
  <2>3. CASE PutBack
    <3>. DEFINE m == n - 1
                r == Merged(frames[m].results, frames[m].retry_idxs, inner.results)
    <3>1. m \in Nat /\ m > 0
      BY <1>1, <2>3 DEF PutBack
    <3>2. SubSeq(frames, 1, m) \in Seq(Frames) /\ Len(SubSeq(frames, 1, m)) = m
          /\ SubSeq(frames, 1, m)[1] = frames[1] /\ SubSeq(frames, 1, m)[m] = frames[m]
      BY <1>1, <3>1
    <3>3. frames' = [SubSeq(frames, 1, m) EXCEPT ![m].results = r]
      BY <2>3, <3>2 DEF PutBack
    <3>. DEFINE cut == SubSeq(frames, 1, m)
    <3>. HIDE DEF r, cut, m
    <3>4. Len(frames') = m /\ DOMAIN frames' = 1..m
      BY <3>1, <3>2, <3>3 DEF cut
    <3>5. frames'[1].params = cut[1].params
      <4>1. /\ cut \in Seq(Frames) /\ Len(cut) = m
            /\ frames' = [cut EXCEPT ![m] = [cut[m] EXCEPT !.results = r]]
        BY <3>2, <3>3 DEF cut
      <4>2. cut[m] \in Frames /\ 1 \in 1..m /\ DOMAIN cut = 1..m
        BY <3>1, <4>1
      <4>3. [cut[m] EXCEPT !.results = r].params = cut[m].params
        BY <4>2 DEF Frames
      <4>4. CASE m = 1
        BY <4>1, <4>2, <4>3, <4>4
      <4>5. CASE m # 1
        BY <4>1, <4>2, <4>5
      <4>. QED BY <4>4, <4>5
    <3>6. frames' # <<>>
      BY <3>1, <3>4
    <3>. QED BY <3>2, <3>5, <3>6 DEF cut, Busy
  <2>. QED BY <2>1, <2>2, <2>3
<1>. QED BY <1>1, <1>2 DEF asked, answer

\* Each step of a call is a step of the contract, or one that cannot be seen.
LEMMA StepRefines ==
  ASSUME IInv, [multicallNext]_multicallVars
  PROVE  [Contract!Next]_<<asked, answer>>
<1>1. frames \in Seq(Frames) /\ (Busy => asked \in Seq(Requests) /\ asked # None)
  <2>1. ASSUME Busy PROVE frames[1] \in Frames
    BY <2>1 DEF IInv, Busy
  <2>. QED BY <2>1, NoneAssumption DEF IInv, asked, Frames
<1>2. ASSUME NEW params \in Seq(Requests), Call(params) PROVE Contract!Ask
  BY <1>2 DEF Call, Contract!Ask, Busy, Frame
<1>3. CASE Busy /\ \E reply \in Replies : CallOne(reply)
  BY <1>3, InnerStepUnseen
<1>4. CASE Retry \/ PutBack
  BY <1>4, InnerStepUnseen
<1>5. ASSUME Exceeded PROVE Contract!Raise
  <2>1. Busy /\ ~ Busy' /\ returned' = BlockchainError
    BY <1>5 DEF Exceeded, HasFailures, Busy
  <2>. QED BY <1>1, <2>1 DEF Contract!Raise, asked
<1>6. ASSUME Disconnected PROVE Contract!Raise
  <2>1. Busy /\ ~ Busy' /\ returned' = ConnectionError
    BY <1>6 DEF Disconnected, Busy
  <2>. QED BY <1>1, <2>1 DEF Contract!Raise, asked
<1>7. ASSUME Forget PROVE Contract!Forget
  BY <1>7 DEF Forget, Contract!Forget, Busy
<1>8. ASSUME Return PROVE Contract!Return
  <2>1. Busy /\ ~ Busy' /\ returned' = inner.results /\ inner = frames[1]
    BY <1>8 DEF Return, Finished, Busy, inner
  <2>2. inner \in Frames /\ Replied(inner) /\ Complete
    <3>1. Len(frames) = 1 /\ Complete
      BY <1>8 DEF Return, Finished
    <3>2. 1 \in DOMAIN frames /\ frames \in Seq(Frames) /\ Replied(frames[1])
      BY <1>1, <3>1 DEF IInv
    <3>3. frames[1] \in Frames
      BY <3>2
    <3>. QED BY <2>1, <3>1, <3>2, <3>3
  <2>3. FailedIn(inner) = {}
    BY <1>8 DEF IInv, Return, Finished, Innermost, FailedIn
  <2>4. /\ DOMAIN inner.params = 1..Len(inner.params)
        /\ DOMAIN inner.results = DOMAIN inner.params
        /\ \A i \in DOMAIN inner.params : inner.params[i] \in Requests
    BY <2>2 DEF Frames, Complete
  <2>5. \A i \in DOMAIN inner.params : inner.results[i] \in Answers[inner.params[i]]
    BY <2>2, <2>3, <2>4 DEF Replied, FailedIn
  <2>6. inner.results \in [DOMAIN inner.params -> UNION {Answers[r] : r \in Requests}]
    <3>1. inner.results = [i \in DOMAIN inner.params |-> inner.results[i]]
      BY <2>2, <2>4 DEF Frames
    <3>. QED BY <2>4, <2>5, <3>1
  <2>7. inner.results \in Contract!AnswersTo(inner.params)
    BY <2>5, <2>6 DEF Contract!AnswersTo
  <2>8. asked = inner.params
    BY <2>1 DEF asked
  <2>. QED BY <1>1, <2>1, <2>7, <2>8 DEF Contract!Return, asked
<1>9. CASE UNCHANGED multicallVars
  BY <1>9 DEF multicallVars, asked, answer, Busy
<1>. QED BY <1>2, <1>3, <1>4, <1>5, <1>6, <1>7, <1>8, <1>9
         DEF multicallNext, Contract!Next

\* However a list of requests is cut into chunks, whatever fails and is asked
\* again over the levels of retries, call() of blockchain/multicall.py gives each
\* request its own answer, or raises.
THEOREM CallsAreAnswered == multicallSpec => CallsAnswered
<1>1. multicallInit => Contract!Init
  BY DEF multicallInit, Contract!Init, Busy
<1>2. IInv /\ [multicallNext]_multicallVars => [Contract!Next]_<<asked, answer>>
  BY StepRefines
<1>. QED BY <1>1, <1>2, FramesAligned, PTL
         DEF multicallSpec, CallsAnswered, Contract!Spec, Contract!callVars, asked, answer

-----------------------------------------------------------------------------
(* A call comes to its end                                                   *)

\* No level asks for more than the outermost one, and there are not too many.
SizesInv ==
  Busy => /\ Len(frames) <= MaxRetries + 1
          /\ \A n \in 1..Len(frames) : Len(frames[n].params) <= Len(frames[1].params)

\* The steps before a call at most.  On the way down: a level takes no more chunks
\* than it has requests, and the retry, and no more levels follow than are
\* allowed; on the way up: a step for each level.
StepsLeft ==
  IF inner.retry_idxs # <<>> THEN Len(frames)
  ELSE MaxRetries + 1
         + (MaxRetries + 1 - Len(frames)) * (Len(frames[1].params) + 1)
         + (Len(inner.params) - Len(inner.results))

\* A call that goes on asks for the same.
LEMMA SameRequests ==
  ASSUME IInv,
         \/ Busy /\ \E reply \in Replies : CallOne(reply)
         \/ Retry \/ PutBack
  PROVE  Busy /\ (Busy' => frames'[1].params = frames[1].params)
<1>1. Busy
  BY DEF Busy, Retry, HasFailures, PutBack, Finished
<1>2. asked' = asked
  BY InnerStepUnseen
<1>. QED BY <1>1, <1>2 DEF asked

\* No more is asked again than was asked.
LEMMA FailuresAreFewer ==
  ASSUME NEW f \in Frames
  PROVE  Len(FailedPositions(f.results)) <= Len(f.results)
<1>. DEFINE S == FailedIn(f)
            n == Cardinality(S)
            m == Len(f.results)
            idxs == FailedPositions(f.results)
<1>1. S \subseteq 1..m /\ m \in Nat
  BY DEF Frames, FailedIn
<1>2. IsFiniteSet(1..m) /\ Cardinality(1..m) = m
  BY <1>1, FS_Interval
<1>3. IsFiniteSet(S) /\ n <= m
  BY <1>1, <1>2, FS_Subset
<1>4. n \in Nat /\ ExistsBijection(1..n, S)
  BY <1>3, FS_CardinalityType
<1>5. \E g \in [1..n -> S] : IsInjective(g)
  BY <1>4, Zenon DEF ExistsBijection, Bijection, Injection
<1>6. idxs = CHOOSE g \in [1..n -> S] : IsInjective(g)
  BY DEF FailedPositions, SetToSeq, FailedIn
<1>7. idxs \in [1..n -> S]
  BY <1>5, <1>6, Zenon
<1>8. idxs \in Seq(S)
  BY <1>4, <1>7, IsASeq
<1>9. Len(idxs) = n
  <2>. HIDE DEF idxs, n, S
  <2>. QED BY <1>4, <1>7, <1>8
<1>. QED BY <1>3, <1>9

\* A chunk has a request, and its replies are the next results.
LEMMA CallOneIs ==
  ASSUME IInv, Busy, NEW reply \in Replies, CallOne(reply)
  PROVE  /\ Len(frames') = Len(frames) /\ Busy'
         /\ \A n \in 1..Len(frames) : frames'[n].params = frames[n].params
         /\ inner'.params = inner.params /\ inner'.retry_idxs = inner.retry_idxs
         /\ Len(inner'.results) > Len(inner.results)
         /\ Len(inner'.results) <= Len(inner.params)
         /\ inner.retry_idxs = <<>>
<1>. DEFINE n == Len(frames)
            f == [inner EXCEPT !.results = @ \o reply]
<1>1. /\ n \in Nat /\ n > 0 /\ inner = frames[n] /\ inner \in Frames /\ Replied(inner)
      /\ Innermost(inner) /\ frames \in Seq(Frames)
  BY DEF IInv, Busy, inner
<1>2. ~ Complete /\ frames' = [frames EXCEPT ![n] = f]
  BY DEF CallOne, inner
<1>3. Len(frames') = n /\ frames'[n] = f /\ \A i \in 1..n : i # n => frames'[i] = frames[i]
  <2>1. frames' \in Seq(Frames)
    BY CallOneKeeps DEF IInv
  <2>. HIDE DEF f, n
  <2>2. DOMAIN frames = 1..n
    BY <1>1 DEF n
  <2>3. DOMAIN frames' = 1..n /\ frames'[n] = f
        /\ \A i \in 1..n : i # n => frames'[i] = frames[i]
    BY <1>1, <1>2, <2>2
  <2>. QED BY <1>1, <2>1, <2>3
<1>4. f.params = inner.params /\ f.retry_idxs = inner.retry_idxs
      /\ f.results = inner.results \o reply
  BY <1>1 DEF Frames
<1>5. Len(Chunk) \in Nat /\ Len(Chunk) > 0
  <2>. DEFINE first == Len(inner.results)
              rest == Len(inner.params) - first
              m == IF rest < Size THEN rest ELSE Size
  <2>1. /\ inner.params \in Seq(Requests) /\ first \in Nat
        /\ first < Len(inner.params) /\ Len(inner.params) \in Nat
    BY <1>1, <1>2 DEF Frames, Replied, Complete
  <2>2. rest \in Nat /\ rest > 0
    <3>. HIDE DEF first
    <3>. QED BY <2>1
  <2>3. m \in Nat /\ m > 0 /\ m <= rest
    <3>. HIDE DEF rest
    <3>. QED BY <2>2, SizeAssumption
  <2>4. Chunk = SubSeq(inner.params, first + 1, first + m)
    BY DEF Chunk
  <2>. HIDE DEF m, rest, first
  <2>. QED BY <2>1, <2>2, <2>3, <2>4
<1>6. /\ Len(inner.results) + Len(Chunk) <= Len(inner.params)
      /\ reply \in Seq(AnyReply) /\ Len(reply) = Len(Chunk)
  <2>1. DOMAIN Chunk = 1..Len(Chunk)
    BY <1>2, ChunkIsNext
  <2>2. reply \in [1..Len(Chunk) -> AnyReply]
    BY <2>1 DEF Replies
  <2>3. reply \in Seq(AnyReply)
    BY <1>5, <2>2, IsASeq
  <2>. QED BY <1>2, <2>3, ChunkIsNext DEF CallOne
<1>7. /\ Len(f.results) = Len(inner.results) + Len(Chunk) /\ Len(inner.results) \in Nat
      /\ Len(inner.params) \in Nat
  <2>1. inner.results \in Seq(AnyReply) /\ inner.params \in Seq(Requests)
    BY <1>1 DEF Frames
  <2>2. Len(inner.results \o reply) = Len(inner.results) + Len(reply)
    <3>. DEFINE S == AnyReply
    <3>1. inner.results \in Seq(S) /\ reply \in Seq(S)
      BY <1>6, <2>1, Zenon
    <3>. HIDE DEF S
    <3>. QED BY <3>1, ConcatProperties
  <2>. QED BY <1>4, <1>6, <2>1, <2>2
<1>8. inner.retry_idxs = <<>>
  BY <1>1, <1>2 DEF Innermost, Complete
<1>. HIDE DEF f
<1>9. inner' = f /\ Busy'
  BY <1>1, <1>3 DEF inner, Busy
<1>. QED BY <1>1, <1>3, <1>4, <1>5, <1>6, <1>7, <1>8, <1>9

\* A retry is one level down, and asks for no more than this level.
LEMMA RetryIs ==
  ASSUME IInv, Retry
  PROVE  /\ Busy /\ Busy' /\ Len(frames') = Len(frames) + 1
         /\ Len(frames) <= MaxRetries
         /\ \A n \in 1..Len(frames) : frames'[n].params = frames[n].params
         /\ inner'.retry_idxs = <<>> /\ inner'.results = <<>>
         /\ Len(inner'.params) <= Len(inner.params)
         /\ Len(inner'.params) \in Nat
         /\ inner.retry_idxs = <<>> /\ Len(inner.results) = Len(inner.params)
<1>. DEFINE n == Len(frames)
            idxs == FailedPositions(inner.results)
            g == [frames EXCEPT ![n].retry_idxs = idxs]
            asks == [j \in DOMAIN idxs |-> inner.params[idxs[j]]]
            f == Frame(asks)
<1>1. /\ Busy /\ Complete /\ inner.retry_idxs = <<>> /\ n <= MaxRetries
      /\ frames' = Append(g, f)
  BY DEF Retry, HasFailures
<1>2. /\ n \in Nat /\ n > 0 /\ inner = frames[n] /\ inner \in Frames
      /\ frames \in Seq(Frames)
  BY <1>1 DEF IInv, Busy, inner
<1>3. /\ idxs \in Seq(Nat) /\ Len(idxs) <= Len(inner.results)
  BY <1>2, AllFailuresListed, FailuresAreFewer
<1>4. /\ Len(g) = n /\ DOMAIN g = 1..n
      /\ \A i \in 1..n : g[i].params = frames[i].params
  BY <1>2 DEF Frames
<1>5. f.params = asks /\ f.results = <<>> /\ f.retry_idxs = <<>>
  BY DEF Frame
<1>6. Len(asks) = Len(idxs) /\ Len(idxs) \in Nat
  <2>. HIDE DEF idxs
  <2>1. DOMAIN idxs = 1..Len(idxs) /\ Len(idxs) \in Nat
    BY <1>3
  <2>2. asks \in [1..Len(idxs) -> {inner.params[idxs[j]] : j \in DOMAIN idxs}]
    BY <2>1
  <2>3. asks \in Seq({inner.params[idxs[j]] : j \in DOMAIN idxs})
    BY <2>1, <2>2, IsASeq
  <2>. HIDE DEF asks
  <2>. QED BY <2>1, <2>2, <2>3
<1>. HIDE DEF f, g, idxs, asks
<1>7. /\ Len(frames') = n + 1 /\ frames'[n + 1] = f
      /\ \A i \in 1..n : frames'[i] = g[i]
  <2>1. g \in Seq({g[i] : i \in 1..n})
    <3>1. g \in [1..n -> {g[i] : i \in 1..n}]
      BY <1>2, <1>4 DEF g
    <3>. QED BY <1>2, <3>1, IsASeq
  <2>. QED BY <1>1, <1>2, <1>4, <2>1
<1>8. inner' = f /\ Busy'
  BY <1>2, <1>7 DEF inner, Busy
<1>. QED BY <1>1, <1>2, <1>3, <1>4, <1>5, <1>6, <1>7, <1>8 DEF Complete

\* The level that is put back is the last, and the one before is through.
LEMMA PutBackIs ==
  ASSUME IInv, PutBack
  PROVE  /\ Busy /\ Busy' /\ Len(frames') = Len(frames) - 1
         /\ \A n \in 1..Len(frames') : frames'[n].params = frames[n].params
         /\ inner'.retry_idxs # <<>>
<1>. DEFINE n == Len(frames) - 1
            cut == SubSeq(frames, 1, n)
            r == Merged(frames[n].results, frames[n].retry_idxs, inner.results)
            f == [frames[n] EXCEPT !.results = r]
<1>1. n \in Nat /\ n > 0 /\ Len(frames) = n + 1 /\ Busy /\ frames \in Seq(Frames)
  BY DEF IInv, PutBack, Finished
<1>2. frames[n] \in Frames /\ Waits(frames[n], frames[n + 1])
  BY <1>1 DEF IInv
<1>3. /\ cut \in Seq(Frames) /\ Len(cut) = n
      /\ \A i \in 1..n : cut[i] = frames[i]
  BY <1>1
<1>4. frames' = [cut EXCEPT ![n] = [cut[n] EXCEPT !.results = r]]
  BY DEF PutBack
<1>5. f.params = frames[n].params /\ f.retry_idxs = frames[n].retry_idxs
      /\ f.retry_idxs # <<>>
  BY <1>2 DEF Frames, Waits
<1>. HIDE DEF r, cut, n
<1>6. frames' = [cut EXCEPT ![n] = f]
  <2>1. cut[n] = frames[n]
    BY <1>1, <1>3
  <2>2. f = [frames[n] EXCEPT !.results = r]
    BY Zenon DEF f, r
  <2>. HIDE DEF f
  <2>. QED BY <1>4, <2>1, <2>2
<1>. HIDE DEF f
<1>7. Len(frames') = n /\ frames'[n] = f /\ \A i \in 1..n : i # n => frames'[i] = frames[i]
  <2>1. frames' \in Seq(Frames)
    BY PutBackKeeps DEF IInv
  <2>2. DOMAIN cut = 1..n
    BY <1>1, <1>3
  <2>3. DOMAIN frames' = 1..n /\ frames'[n] = f
        /\ \A i \in 1..n : i # n => frames'[i] = cut[i]
    BY <1>1, <1>6, <2>2
  <2>. QED BY <1>1, <1>3, <2>1, <2>3
<1>8. inner' = f /\ Busy'
  BY <1>1, <1>7 DEF inner, Busy
<1>. QED BY <1>1, <1>5, <1>7, <1>8 DEF n

\* Every step keeps the sizes.
LEMMA SizesStep ==
  ASSUME IInv, SizesInv, [multicallNext]_multicallVars
  PROVE  SizesInv'
<1>1. CASE UNCHANGED multicallVars
  BY <1>1 DEF SizesInv, multicallVars, Busy
<1>2. ASSUME NEW params \in Seq(Requests), Call(params) PROVE SizesInv'
  <2>1. frames' = <<Frame(params)>> /\ Len(params) \in Nat
    BY <1>2 DEF Call
  <2>2. Len(frames') = 1 /\ \A n \in 1..Len(frames') : n = 1
    BY <2>1
  <2>3. frames'[1].params = params
    BY <2>1 DEF Frame
  <2>. QED BY <2>1, <2>2, <2>3, MaxRetriesAssumption DEF SizesInv
<1>3. ASSUME Busy, NEW reply \in Replies, CallOne(reply) PROVE SizesInv'
  <2>1. /\ Len(frames') = Len(frames)
        /\ \A n \in 1..Len(frames) : frames'[n].params = frames[n].params
        /\ Len(frames) \in Nat /\ Len(frames) >= 1
    BY <1>3, CallOneIs DEF IInv, Busy
  <2>. QED BY <1>3, <2>1 DEF SizesInv
<1>4. CASE Retry
  <2>1. /\ Busy /\ Len(frames') = Len(frames) + 1 /\ Len(frames) <= MaxRetries
        /\ \A n \in 1..Len(frames) : frames'[n].params = frames[n].params
        /\ Len(inner'.params) <= Len(inner.params) /\ Len(inner'.params) \in Nat
    BY <1>4, RetryIs
  <2>2. Len(frames) \in Nat /\ Len(frames) >= 1
    BY <2>1 DEF IInv, Busy
  <2>3. /\ inner'.params = frames'[Len(frames) + 1].params
        /\ inner.params = frames[Len(frames)].params
    BY <2>1 DEF inner
  <2>4. /\ Len(frames[1].params) \in Nat
        /\ Len(inner.params) \in Nat /\ Len(inner.params) <= Len(frames[1].params)
    <3>1. frames[1] \in Frames /\ inner \in Frames
      BY <2>2 DEF IInv, inner
    <3>2. Len(inner.params) <= Len(frames[1].params)
      BY <2>1, <2>2, <2>3 DEF SizesInv
    <3>. QED BY <3>1, <3>2 DEF Frames
  <2>5. ASSUME NEW n \in 1..Len(frames')
        PROVE  Len(frames'[n].params) <= Len(frames'[1].params)
    <3>1. frames'[1].params = frames[1].params
      BY <2>1, <2>2
    <3>2. CASE n = Len(frames) + 1
      BY <2>1, <2>3, <2>4, <3>1, <3>2
    <3>3. CASE n # Len(frames) + 1
      BY <2>1, <2>2, <3>1, <3>3 DEF SizesInv
    <3>. QED BY <3>2, <3>3
  <2>. QED BY <2>1, <2>2, <2>5, MaxRetriesAssumption DEF SizesInv
<1>5. CASE PutBack
  <2>1. /\ Busy /\ Busy' /\ Len(frames') = Len(frames) - 1
        /\ \A n \in 1..Len(frames') : frames'[n].params = frames[n].params
    BY <1>5, PutBackIs
  <2>2. Len(frames) \in Nat /\ Len(frames) >= 2
    BY <1>5, <2>1 DEF IInv, PutBack
  <2>3. 1 \in 1..Len(frames') /\ \A n \in 1..Len(frames') : n \in 1..Len(frames)
    BY <2>1, <2>2
  <2>4. Len(frames') <= MaxRetries + 1
    BY <2>1, <2>2, MaxRetriesAssumption DEF SizesInv
  <2>. QED BY <2>1, <2>3, <2>4 DEF SizesInv
<1>6. CASE Exceeded \/ Return \/ Disconnected \/ Forget
  BY <1>6 DEF Exceeded, Return, Disconnected, Forget, SizesInv, Busy
<1>. QED BY <1>1, <1>2, <1>3, <1>4, <1>5, <1>6 DEF multicallNext

\* Less on the way down, whatever the width of a level.
LEMMA FewerLevels ==
  ASSUME NEW d \in Nat, NEW n \in Nat, NEW k \in Nat, d > 0, k <= n
  PROVE  /\ d * (n + 1) \in Nat /\ (d - 1) * (n + 1) + k < d * (n + 1)
<1>1. d * (n + 1) \in Nat /\ (d - 1) * (n + 1) = d * (n + 1) - (n + 1)
  OBVIOUS
<1>. QED BY <1>1

\* Each step of a call leaves it fewer.
LEMMA StepFalls ==
  ASSUME IInv, SizesInv, Busy, Busy',
         \/ \E reply \in Replies : CallOne(reply)
         \/ Retry \/ PutBack
  PROVE  StepsLeft' < StepsLeft
<1>. DEFINE n == Len(frames[1].params)
            k == Len(frames)
            d == MaxRetries + 1 - k
<1>1. /\ k \in Nat /\ k >= 1 /\ d \in Nat /\ n \in Nat /\ MaxRetries \in Nat
      /\ k <= MaxRetries + 1
      /\ frames[1] \in Frames /\ inner \in Frames /\ Replied(inner)
      /\ Len(inner.params) \in Nat /\ Len(inner.results) \in Nat
      /\ Len(inner.results) <= Len(inner.params)
  <2>1. k \in Nat /\ k >= 1 /\ k <= MaxRetries + 1 /\ MaxRetries \in Nat
    BY MaxRetriesAssumption DEF IInv, Busy, SizesInv
  <2>2. frames[1] \in Frames /\ inner \in Frames /\ Replied(inner)
    BY <2>1 DEF IInv, inner
  <2>. QED BY <2>1, <2>2 DEF Frames, Replied
<1>2. Len(frames'[1].params) = n
  BY SameRequests
<1>3. /\ StepsLeft = IF inner.retry_idxs # <<>> THEN k
                     ELSE MaxRetries + 1 + d * (n + 1)
                            + (Len(inner.params) - Len(inner.results))
      /\ StepsLeft' = IF inner'.retry_idxs # <<>> THEN Len(frames')
                      ELSE MaxRetries + 1 + (MaxRetries + 1 - Len(frames')) * (n + 1)
                             + (Len(inner'.params) - Len(inner'.results))
  BY <1>2 DEF StepsLeft
<1>4. d * (n + 1) \in Nat
  <2>. HIDE DEF n, k, d
  <2>. QED BY <1>1
<1>5. ASSUME NEW reply \in Replies, CallOne(reply) PROVE StepsLeft' < StepsLeft
  <2>1. /\ Len(frames') = k /\ inner'.params = inner.params
        /\ inner'.retry_idxs = <<>> /\ inner.retry_idxs = <<>>
        /\ Len(inner'.results) > Len(inner.results)
        /\ Len(inner'.results) <= Len(inner.params)
    BY <1>5, CallOneIs
  <2>2. Len(inner'.results) \in Nat
    <3>1. inner' \in Frames
      BY <1>5, CallOneKeeps DEF IInv, Busy, inner
    <3>. QED BY <3>1 DEF Frames
  <2>. HIDE DEF n, k, d
  <2>3. /\ StepsLeft = MaxRetries + 1 + d * (n + 1)
                         + (Len(inner.params) - Len(inner.results))
        /\ StepsLeft' = MaxRetries + 1 + d * (n + 1)
                         + (Len(inner.params) - Len(inner'.results))
    BY <1>3, <2>1 DEF k, d
  <2>. DEFINE w == d * (n + 1)
              a == Len(inner.results)
              b == Len(inner'.results)
              c == Len(inner.params)
  <2>4. /\ w \in Nat /\ a \in Nat /\ b \in Nat /\ c \in Nat /\ MaxRetries \in Nat
        /\ b > a
        /\ StepsLeft = MaxRetries + 1 + w + (c - a)
        /\ StepsLeft' = MaxRetries + 1 + w + (c - b)
    BY <1>1, <1>4, <2>1, <2>2, <2>3
  <2>. HIDE DEF w, a, b, c
  <2>. QED BY <2>4
<1>6. CASE Retry
  <2>1. /\ Len(frames') = k + 1 /\ k <= MaxRetries
        /\ inner'.retry_idxs = <<>> /\ inner'.results = <<>>
        /\ Len(inner'.params) <= Len(inner.params) /\ Len(inner'.params) \in Nat
        /\ inner.retry_idxs = <<>> /\ Len(inner.results) = Len(inner.params)
    BY <1>6, RetryIs
  <2>2. Len(inner.params) <= n
    BY <1>1 DEF SizesInv, inner
  <2>3. d > 0 /\ MaxRetries + 1 - (k + 1) = d - 1 /\ Len(inner'.params) <= n
    BY <1>1, <2>1, <2>2
  <2>4. (d - 1) * (n + 1) + Len(inner'.params) < d * (n + 1)
    <3>. HIDE DEF n, k, d
    <3>. QED BY <1>1, <2>1, <2>3, FewerLevels
  <2>5. (d - 1) * (n + 1) \in Nat
    <3>. HIDE DEF n, k, d
    <3>1. d - 1 \in Nat /\ n + 1 \in Nat
      BY <1>1, <2>3
    <3>. QED BY <3>1
  <2>6. /\ StepsLeft = MaxRetries + 1 + d * (n + 1)
                         + (Len(inner.params) - Len(inner.results))
        /\ StepsLeft' = MaxRetries + 1 + (d - 1) * (n + 1)
                          + (Len(inner'.params) - Len(inner'.results))
    <3>. HIDE DEF n, d
    <3>. QED BY <1>3, <2>1, <2>3
  <2>7. Len(inner'.results) = 0
    BY <2>1
  <2>. DEFINE w == d * (n + 1)
              v == (d - 1) * (n + 1)
              a == Len(inner.results)
              b == Len(inner'.params)
  <2>8. /\ w \in Nat /\ v \in Nat /\ a \in Nat /\ b \in Nat /\ MaxRetries \in Nat
        /\ v + b < w
        /\ StepsLeft = MaxRetries + 1 + w + (a - a)
        /\ StepsLeft' = MaxRetries + 1 + v + (b - 0)
    <3>. HIDE DEF n, k, d
    <3>. QED BY <1>1, <1>4, <2>1, <2>4, <2>5, <2>6, <2>7
  <2>. HIDE DEF w, v, a, b
  <2>. QED BY <2>8
<1>7. CASE PutBack
  <2>1. Len(frames') = k - 1 /\ inner'.retry_idxs # <<>>
    BY <1>7, PutBackIs
  <2>2. StepsLeft' = k - 1
    BY <1>3, <2>1
  <2>. HIDE DEF n, k, d
  <2>. DEFINE w == d * (n + 1)
              a == Len(inner.results)
              c == Len(inner.params)
  <2>3. /\ w \in Nat /\ a \in Nat /\ c \in Nat /\ a <= c
        /\ k \in Nat /\ k <= MaxRetries + 1 /\ MaxRetries \in Nat
        /\ \/ StepsLeft = k
           \/ StepsLeft = MaxRetries + 1 + w + (c - a)
    BY <1>1, <1>3, <1>4
  <2>. HIDE DEF w, a, c
  <2>. QED BY <2>2, <2>3
<1>. QED BY <1>5, <1>6, <1>7

\* A call of n requests takes fewer than (max_retries + 1) * (n + 2) steps until it
\* returns or raises, whatever the nodes answer and however often: each of its
\* steps leaves it fewer.
THEOREM CallRunsOut ==
  multicallSpec => [][/\ Busy => StepsLeft \in Nat
                      /\ Busy /\ Busy' => StepsLeft' < StepsLeft
                      /\ ~ Busy /\ Busy' =>
                           StepsLeft' < (MaxRetries + 1) * (Len(frames'[1].params) + 2)
                     ]_multicallVars
<1>1. ASSUME IInv, SizesInv, Busy PROVE StepsLeft \in Nat
  <2>. DEFINE n == Len(frames[1].params)
              d == MaxRetries + 1 - Len(frames)
  <2>1. /\ Len(frames) \in Nat /\ Len(frames) >= 1 /\ MaxRetries \in Nat
        /\ Len(frames) <= MaxRetries + 1
    BY <1>1, MaxRetriesAssumption DEF IInv, Busy, SizesInv
  <2>2. frames[1] \in Frames /\ inner \in Frames /\ Replied(inner)
    BY <2>1, <1>1 DEF IInv, inner
  <2>3. /\ n \in Nat /\ d \in Nat /\ Len(inner.params) - Len(inner.results) \in Nat
    BY <2>1, <2>2 DEF Frames, Replied
  <2>4. StepsLeft = IF inner.retry_idxs # <<>> THEN Len(frames)
                    ELSE MaxRetries + 1 + d * (n + 1)
                           + (Len(inner.params) - Len(inner.results))
    BY DEF StepsLeft
  <2>. HIDE DEF n, d
  <2>5. d * (n + 1) \in Nat
    BY <2>3
  <2>. DEFINE w == d * (n + 1)
              z == Len(inner.params) - Len(inner.results)
  <2>6. /\ w \in Nat /\ z \in Nat /\ MaxRetries \in Nat /\ Len(frames) \in Nat
        /\ \/ StepsLeft = Len(frames)
           \/ StepsLeft = MaxRetries + 1 + w + z
    BY <2>1, <2>3, <2>4, <2>5
  <2>. HIDE DEF w, z
  <2>. QED BY <2>6
<1>2. ASSUME IInv, SizesInv, multicallNext, Busy, Busy' PROVE StepsLeft' < StepsLeft
  BY <1>2, StepFalls DEF multicallNext, Call, Exceeded, Return, Disconnected, Forget, Busy
<1>3. ASSUME multicallNext, ~ Busy, Busy'
      PROVE  StepsLeft' < (MaxRetries + 1) * (Len(frames'[1].params) + 2)
  <2>1. PICK params \in Seq(Requests) : Call(params)
    BY <1>3 DEF multicallNext, CallOne, Retry, HasFailures, Exceeded, PutBack, Finished,
       Return, Disconnected, Forget, Busy
  <2>. DEFINE n == Len(params)
  <2>2. frames' = <<Frame(params)>> /\ n \in Nat /\ MaxRetries \in Nat
    BY <2>1, MaxRetriesAssumption DEF Call
  <2>3. Len(frames') = 1 /\ frames'[1] = Frame(params) /\ inner' = Frame(params)
    BY <2>2 DEF inner
  <2>4. /\ Frame(params).params = params /\ Len(Frame(params).results) = 0
        /\ Frame(params).retry_idxs = <<>>
    BY DEF Frame
  <2>5. StepsLeft' = MaxRetries + 1 + (MaxRetries + 1 - 1) * (n + 1) + (n - 0)
    BY <2>3, <2>4 DEF StepsLeft
  <2>6. Len(frames'[1].params) = n
    BY <2>3, <2>4
  <2>. HIDE DEF n
  <2>7. /\ (MaxRetries + 1) * (n + 2) = MaxRetries * n + 2 * MaxRetries + n + 2
        /\ (MaxRetries + 1 - 1) * (n + 1) = MaxRetries * n + MaxRetries
        /\ MaxRetries * n \in Nat
    BY <2>2
  <2>. DEFINE w == MaxRetries * n
  <2>8. /\ w \in Nat /\ n \in Nat /\ MaxRetries \in Nat
        /\ (MaxRetries + 1) * (n + 2) = w + 2 * MaxRetries + n + 2
        /\ (MaxRetries + 1 - 1) * (n + 1) = w + MaxRetries
    BY <2>2, <2>7
  <2>. DEFINE x == (MaxRetries + 1) * (n + 2)
              y == (MaxRetries + 1 - 1) * (n + 1)
  <2>9. StepsLeft' = MaxRetries + 1 + y + (n - 0)
    BY <2>5
  <2>10. x = w + 2 * MaxRetries + n + 2 /\ y = w + MaxRetries
    BY <2>8
  <2>11. w \in Nat
    BY <2>8
  <2>12. x = (MaxRetries + 1) * (Len(frames'[1].params) + 2)
    BY <2>6
  <2>. HIDE DEF w, x, y
  <2>13. StepsLeft' < x
    BY <2>2, <2>9, <2>10, <2>11
  <2>. QED BY <2>12, <2>13
<1>4. multicallInit => SizesInv
  BY DEF multicallInit, SizesInv, Busy
<1>5. IInv /\ SizesInv /\ [multicallNext]_multicallVars => SizesInv'
  BY SizesStep
<1>6. IInv /\ SizesInv /\ [multicallNext]_multicallVars =>
        [/\ Busy => StepsLeft \in Nat
         /\ Busy /\ Busy' => StepsLeft' < StepsLeft
         /\ ~ Busy /\ Busy' =>
              StepsLeft' < (MaxRetries + 1) * (Len(frames'[1].params) + 2)
        ]_multicallVars
  BY <1>1, <1>2, <1>3
<1>. QED BY <1>4, <1>5, <1>6, FramesAligned, PTL DEF multicallSpec

-----------------------------------------------------------------------------
(* The inductive invariant: the call in progress                             *)

\* What a list of answers to params looks like, request by request.
AnswersIn(params) ==
  {r \in Seq(AnyReply) : /\ DOMAIN r = DOMAIN params
                         /\ \A i \in DOMAIN params : r[i] \in Answers[params[i]]}

Phases == {"addresses", "tokens", "excluded"}
Asking == pc \in {"numbers", "apply"} \/ (pc \in Phases /\ todo # <<>>)

\* What main has asked for, or is about to.
Question ==
  CASE pc = "numbers" -> NumbersParams
    [] pc = "apply" -> FlattenSeq(UpdateParts)
    [] pc \in Phases -> Asked

CallInv ==
  /\ IInv
  /\ Len(frames) <= MaxRetries + 1
  /\ Asking => Question \in Seq(Requests)
  /\ Busy => Asking /\ frames[1].params = Question
  /\ Asking /\ Answered => returned \in AnswersIn(Question)
  /\ ~Asking => ~Busy /\ returned = None

-----------------------------------------------------------------------------
(* The work of a round                                                       *)

NumberFns == {n \in [Factories -> Nat] : \A f \in Factories : n[f] <= Len(Pairs[f])}

\* The range of the pairs of f that a phase asks for.
First(f) ==
  IF pc = "excluded" THEN FirstExcluded[f]
  ELSE IF old_numbers = None THEN 0 ELSE old_numbers[f]
Stop(f) == IF pc = "excluded" THEN pool_numbers[f] ELSE latest[f]
Span(f) == {Pairs[f][i] : i \in (First(f) + 1)..Stop(f)}
AddressesOf(f) == [n \in 1..(Stop(f) - First(f)) |-> <<"allPairs", f, First(f) + n - 1>>]

\* The factories whose turn is to come.
Left == {todo[n][1] : n \in DOMAIN todo}

TodoInv ==
  /\ todo \in Seq(Factories \X Seq(Requests))
  /\ \A m, n \in DOMAIN todo : todo[m][1] = todo[n][1] => m = n
  /\ todo # <<>> => pc \in Phases
  /\ pc \in {"addresses", "excluded"} => \A n \in DOMAIN todo :
       /\ First(todo[n][1]) < Stop(todo[n][1])
       /\ todo[n][2] = AddressesOf(todo[n][1])
  /\ pc = "tokens" => \A n \in DOMAIN todo :
       /\ todo[n][1] \in DOMAIN addresses \ DOMAIN tokens
       /\ todo[n][2] = TokenParams(addresses[todo[n][1]])

\* The levels of a recursion: each asks again for the zeros of the one before.
LevelParams(n) ==
  IF n = 1 THEN todo[1][2]
  ELSE [j \in DOMAIN levels[n - 1].idxs |-> levels[n - 1].params[levels[n - 1].idxs[j]]]

LevelsInv ==
  /\ levels \in Seq([params : Seq(Requests), decoded : Seq(AnyReply), idxs : Seq(Nat)])
  /\ Len(levels) <= MaxRetries
  /\ levels # <<>> => todo # <<>>
  /\ \A n \in DOMAIN levels :
       /\ levels[n].params = LevelParams(n)
       /\ levels[n].decoded \in AnswersIn(levels[n].params)
       /\ levels[n].idxs = ZeroPositions(levels[n].decoded)

\* The pools of the factories that were asked for their addresses are there, or
\* the nodes gave none: these are judged, or unanswered when it is for the filter.
Missing == IF pc = "excluded" THEN unanswered ELSE judged

AddressInv ==
  /\ DOMAIN addresses \subseteq Factories
  /\ \A f \in DOMAIN addresses : addresses[f] \in Seq(Pools)
  /\ pc \in Phases =>
       /\ \A f \in Factories : First(f) < Stop(f) => f \in DOMAIN addresses \cup Left
       /\ \A f \in DOMAIN addresses :
            ToSet(addresses[f]) \subseteq Span(f) /\ Span(f) \subseteq ToSet(addresses[f]) \cup Missing
  /\ pc \in {"addresses", "excluded"} => Left \cap DOMAIN addresses = {}
  /\ pc \notin Phases => addresses = <<>>

TokenInv ==
  /\ DOMAIN tokens \subseteq DOMAIN addresses
  /\ invalid \subseteq judged
  /\ pc = "tokens" => DOMAIN addresses \subseteq DOMAIN tokens \cup Left
  /\ \A f \in DOMAIN tokens :
       /\ tokens[f] \in AnswersIn(TokenParams(addresses[f]))
       /\ \A j \in DOMAIN tokens[f] :
            tokens[f][j] = Zero => addresses[f][(j + 1) \div 2] \in invalid
  /\ pc # "tokens" => tokens = <<>> /\ invalid = {}

UnansweredInv ==
  /\ round = "all" \/ pc \notin {"excluded", "paths", "search", "save", "save_numbers"}
     => unanswered = {}
  /\ pc = "excluded" =>
       \A p \in unanswered : \E f \in DOMAIN addresses : p \in Span(f) \ ToSet(addresses[f])

NumberInv ==
  /\ {pool_numbers, saved_numbers, saved_all_numbers} \subseteq NumberFns \cup {None}
  /\ IF pc \in {"addresses", "tokens"} THEN latest \in NumberFns ELSE latest = None
  /\ round = "new" /\ pc \in {"update", "apply"} => pool_numbers # None
  /\ pc \in {"filter", "excluded"} => round = "new" /\ pool_numbers # None
  /\ pc \in {"save_all", "save_all_numbers"} => round = "all"

WorkInv == TodoInv /\ LevelsInv /\ AddressInv /\ TokenInv /\ UnansweredInv /\ NumberInv

-----------------------------------------------------------------------------
(* The pools and the files                                                   *)

Paired == {p \in Pools : Tokens[p] = <<Tokens[p][1], Tokens[p][2]>> /\ Tokens[p][1] # Tokens[p][2]}
IsPools(d) ==
  d \in [DOMAIN d -> PoolRecord] /\ DOMAIN d \subseteq Pools /\ DOMAIN d \subseteq Paired

\* The pools are as on the chain, but for the fees of those that are to be updated.
AsOnChain(d, untold) ==
  \A p \in DOMAIN d : /\ d[p].tokens = Tokens[p]
                      /\ p \notin untold \/ FactoryOf(p) \in FixedFee => d[p].fee = Fees[p]

PoolInv ==
  /\ IsPools(pools) /\ AsOnChain(pools, fresh)
  /\ fresh \subseteq DOMAIN pools
  /\ pc \notin {"save_all", "save_all_numbers", "update", "apply"} => fresh = {}
  /\ saved_pools # None => IsPools(saved_pools) /\ AsOnChain(saved_pools, {})
  /\ saved_all # None => IsPools(saved_all) /\ AsOnChain(saved_all, DOMAIN saved_all)

\* The pools that numbers counts are in D.
Counted(numbers, D) ==
  numbers # None => \A f \in Factories : \A i \in 1..numbers[f] : Pairs[f][i] \in D

\* What a restart resumes from, and what main has.
Backing == IF HasPools(saved_pools) THEN DOMAIN saved_pools
         ELSE IF HasPools(saved_all) THEN DOMAIN saved_all ELSE {}
Known == DOMAIN pools \cup judged

FirstRound == round = "all" /\ pc \in {"numbers", "addresses", "tokens"}

CoverInv ==
  /\ Counted(saved_numbers, Backing \cup judged)
  /\ Counted(saved_all_numbers, Backing \cup judged)
  /\ pc \notin {"down", "start"} /\ ~FirstRound =>
       /\ Counted(pool_numbers, Known)
       /\ Counted(saved_numbers, Known) /\ Counted(saved_all_numbers, Known)
  /\ FirstRound \/ pc = "save_all" => ~HasPools(saved_pools) /\ ~HasPools(saved_all)
  /\ pc = "save_all_numbers" => ~HasPools(saved_pools) /\ saved_all = pools
  /\ pc = "save_numbers" => saved_pools = pools

ChainInv ==
  /\ created \in NumberFns /\ liquidity \in [Pools -> 0..MinLiquidity]
  /\ round \in {"all", "new"}
  /\ pc \in {"down", "start", "loop", "numbers", "addresses", "tokens", "save_all",
             "save_all_numbers", "update", "apply", "filter", "excluded", "paths",
             "search", "save", "save_numbers"}

DInv == ChainInv /\ CallInv /\ WorkInv /\ PoolInv /\ CoverInv

-----------------------------------------------------------------------------
(* What is asked and answered                                                *)

\* What a node says is an answer to what it was asked, or no answer.
LEMMA TruthIsAnswer ==
  ASSUME ChainInv, NEW r \in Requests
  PROVE  Truth(r) \in Answers[r] /\ Faulty(r) \subseteq Answers[r] \cup {Bad}
<1>1. ASSUME NEW f \in Factories, r = <<"allPairsLength", f>>
      PROVE  Truth(r) \in Answers[r] /\ Faulty(r) \subseteq Answers[r] \cup {Bad}
  <2>1. Answers[r] = 0..Len(Pairs[f]) /\ r[1] = "allPairsLength" /\ r[2] = f
    BY <1>1, NodesAssumption
  <2>2. created[f] \in Nat /\ created[f] <= Len(Pairs[f]) /\ Len(Pairs[f]) \in Nat
    BY PairsAssumption DEF ChainInv, NumberFns
  <2>3. Truth(r) = created[f]
    BY <2>1 DEF Truth
  <2>4. Faulty(r) = IF created[f] > 0 THEN {Bad, created[f] - 1} ELSE {Bad}
    BY <2>1 DEF Faulty
  <2>. QED BY <2>1, <2>2, <2>3, <2>4
<1>2. ASSUME NEW f \in Factories, NEW i \in DOMAIN Pairs[f], r = <<"allPairs", f, i - 1>>
      PROVE  Truth(r) \in Answers[r] /\ Faulty(r) \subseteq Answers[r] \cup {Bad}
  <2>1. /\ Answers[r] = {Zero, Pairs[f][i]}
        /\ r[1] = "allPairs" /\ r[2] = f /\ r[3] = i - 1
    BY <1>2, NodesAssumption
  <2>2. i - 1 + 1 = i
    BY PairsAssumption
  <2>3. Truth(r) = Pairs[f][i]
    BY <2>1, <2>2 DEF Truth
  <2>4. Faulty(r) = {Bad, Zero}
    BY <2>1 DEF Faulty
  <2>. QED BY <2>1, <2>3, <2>4
<1>3. ASSUME NEW k \in {"token0", "token1", "getReserves", "fee"}, NEW p \in Pools, r = <<k, p>>
      PROVE  Truth(r) \in Answers[r] /\ Faulty(r) \subseteq Answers[r] \cup {Bad}
  <2>1. r[1] = k /\ r[2] = p
    BY <1>3
  <2>2. CASE k = "token0"
    <3>1. Answers[r] = {Zero, Tokens[p][1]} /\ Truth(r) = Tokens[p][1] /\ Faulty(r) = {Bad, Zero}
      BY <1>3, <2>1, <2>2, NodesAssumption DEF Truth, Faulty
    <3>. QED BY <3>1
  <2>3. CASE k = "token1"
    <3>1. Answers[r] = {Zero, Tokens[p][2]} /\ Truth(r) = Tokens[p][2] /\ Faulty(r) = {Bad, Zero}
      BY <1>3, <2>1, <2>3, NodesAssumption DEF Truth, Faulty
    <3>. QED BY <3>1
  <2>4. CASE k = "getReserves"
    <3>1. Answers[r] = 0..MinLiquidity /\ Truth(r) = liquidity[p] /\ Faulty(r) = {Bad}
      BY <1>3, <2>1, <2>4, NodesAssumption DEF Truth, Faulty
    <3>2. liquidity[p] \in 0..MinLiquidity
      BY DEF ChainInv
    <3>. QED BY <3>1, <3>2
  <2>5. CASE k = "fee"
    <3>1. Answers[r] = {Fees[p]} /\ Truth(r) = Fees[p] /\ Faulty(r) = {Bad}
      BY <1>3, <2>1, <2>5, NodesAssumption DEF Truth, Faulty
    <3>. QED BY <3>1
  <2>. QED BY <2>2, <2>3, <2>4, <2>5
<1>4. \/ \E f \in Factories : r = <<"allPairsLength", f>>
      \/ \E f \in Factories : \E i \in DOMAIN Pairs[f] : r = <<"allPairs", f, i - 1>>
      \/ \E k \in {"token0", "token1", "getReserves", "fee"} : \E p \in Pools : r = <<k, p>>
  <2>. DEFINE lengths == {<<"allPairsLength", f>> : f \in Factories}
              pairs == UNION {{<<"allPairs", f, i - 1>> : i \in DOMAIN Pairs[f]} : f \in Factories}
              others == {"token0", "token1", "getReserves", "fee"} \X Pools
  <2>1. CASE r \in lengths
    BY <2>1
  <2>2. CASE r \in pairs
    <3>1. PICK f \in Factories : r \in {<<"allPairs", f, i - 1>> : i \in DOMAIN Pairs[f]}
      BY <2>2, Zenon
    <3>2. PICK i \in DOMAIN Pairs[f] : r = <<"allPairs", f, i - 1>>
      BY <3>1, Zenon
    <3>. QED BY <3>2, Zenon
  <2>3. CASE r \in others
    <3>1. r = <<r[1], r[2]>> /\ r[1] \in {"token0", "token1", "getReserves", "fee"} /\ r[2] \in Pools
      BY <2>3
    <3>. QED BY <3>1, Zenon
  <2>4. Requests = lengths \cup pairs \cup others
    BY RequestsAssumption
  <2>. HIDE DEF lengths, pairs, others
  <2>5. r \in lengths \/ r \in pairs \/ r \in others
    BY <2>4
  <2>. QED BY <2>1, <2>2, <2>3, <2>5, Zenon
<1>. QED BY <1>1, <1>2, <1>3, <1>4

\* Answers are replies.
LEMMA AnswersAreReplies ==
  ASSUME NEW r \in Requests
  PROVE  Answers[r] \subseteq AnyReply /\ Bad \in AnyReply
<1>. DEFINE U == UNION {Answers[q] : q \in Requests}
<1>1. Answers[r] \subseteq U
  OBVIOUS
<1>2. AnyReply = U \cup {Bad}
  BY DEF AnyReply
<1>. HIDE DEF U
<1>. QED BY <1>1, <1>2

\* What stands for the node's reply to a chunk is a reply in the sense of Multicall.
LEMMA NodesReply ==
  ASSUME ChainInv, IInv, NodeReplies
  PROVE  Busy /\ \E reply \in Replies : CallOne(reply)
<1>1. Busy /\ ~ Complete
  BY DEF NodeReplies
<1>2. Chunk \in Seq(Requests)
  BY <1>1, ChunkIsNext
<1>3. \A i \in DOMAIN Chunk : Chunk[i] \in Requests
  BY <1>2
<1>4. PICK reply \in
        {r \in [DOMAIN Chunk ->
                  UNION {{Truth(Chunk[i])} \cup Faulty(Chunk[i]) : i \in DOMAIN Chunk}] :
           \A i \in DOMAIN Chunk : r[i] \in {Truth(Chunk[i])} \cup Faulty(Chunk[i])} :
        CallOne(reply)
  BY Zenon DEF NodeReplies
<1>5. \A i \in DOMAIN Chunk : reply[i] \in Answers[Chunk[i]] \cup {Bad}
  BY <1>3, <1>4, TruthIsAnswer
<1>6. \A i \in DOMAIN Chunk : reply[i] \in AnyReply
  <2>1. ASSUME NEW i \in DOMAIN Chunk PROVE reply[i] \in AnyReply
    <3>1. Answers[Chunk[i]] \subseteq AnyReply /\ Bad \in AnyReply
      BY <1>3, AnswersAreReplies
    <3>. QED BY <1>5, <3>1
  <2>. QED BY <2>1
<1>7. reply \in [DOMAIN Chunk -> AnyReply]
  BY <1>4, <1>6
<1>8. reply \in Replies
  BY <1>5, <1>7, Zenon DEF Replies
<1>. QED BY <1>1, <1>4, <1>8

-----------------------------------------------------------------------------
(* The lists of requests                                                     *)

\* The factories are listed in FactorySeq, each once.
LEMMA FactoriesListed ==
  /\ FactorySeq \in Seq(Factories) /\ IsInjective(FactorySeq)
  /\ ToSet(FactorySeq) = Factories
BY FactoriesAssumption DEF Factories, ToSet

\* What the program asks is known to the nodes.
LEMMA AskedAreRequests ==
  /\ \A f \in Factories : <<"allPairsLength", f>> \in Requests
  /\ \A f \in Factories : \A i \in DOMAIN Pairs[f] : <<"allPairs", f, i - 1>> \in Requests
  /\ \A p \in Pools : {<<"token0", p>>, <<"token1", p>>, <<"getReserves", p>>, <<"fee", p>>}
                      \subseteq Requests
<1>. DEFINE lengths == {<<"allPairsLength", f>> : f \in Factories}
            pairs == UNION {{<<"allPairs", f, i - 1>> : i \in DOMAIN Pairs[f]} : f \in Factories}
            others == {"token0", "token1", "getReserves", "fee"} \X Pools
<1>1. Requests = lengths \cup pairs \cup others
  BY RequestsAssumption
<1>2. \A f \in Factories : <<"allPairsLength", f>> \in lengths
  OBVIOUS
<1>3. \A f \in Factories : \A i \in DOMAIN Pairs[f] : <<"allPairs", f, i - 1>> \in pairs
  OBVIOUS
<1>4. \A p \in Pools : {<<"token0", p>>, <<"token1", p>>, <<"getReserves", p>>, <<"fee", p>>}
                      \subseteq others
  OBVIOUS
<1>. HIDE DEF lengths, pairs, others
<1>. QED BY <1>1, <1>2, <1>3, <1>4

\* The requests for the addresses of a range of pairs of f.
AddressRange(f, first, stop) == [n \in 1..(stop - first) |-> <<"allPairs", f, first + n - 1>>]

\* They are requests that the program makes.
LEMMA AddressRangeIs ==
  ASSUME NEW f \in Factories, NEW first \in Nat, NEW stop \in Nat, stop <= Len(Pairs[f])
  PROVE  AddressRange(f, first, stop) \in Seq(Requests)
<1>1. Pairs[f] \in Seq(Pools)
  BY PairsAssumption
<1>2. ASSUME NEW n \in 1..(stop - first) PROVE <<"allPairs", f, first + n - 1>> \in Requests
  <2>. DEFINE k == first + n
  <2>1. k \in DOMAIN Pairs[f]
    BY <1>1
  <2>. HIDE DEF k
  <2>2. <<"allPairs", f, k - 1>> \in Requests
    BY <2>1, AskedAreRequests
  <2>. QED BY <2>2 DEF k
<1>. DEFINE m == stop - first
            request(n) == <<"allPairs", f, first + n - 1>>
<1>3. \A n \in 1..m : request(n) \in Requests
  BY <1>2
<1>4. AddressRange(f, first, stop) = [n \in 1..m |-> request(n)]
  BY DEF AddressRange
<1>. HIDE DEF request
<1>5. CASE m \in Nat
  <2>. HIDE DEF m
  <2>. QED BY <1>3, <1>4, <1>5
<1>6. CASE m \notin Nat
  <2>1. 1..m = 1..0
    BY <1>6
  <2>. HIDE DEF m
  <2>2. AddressRange(f, first, stop) \in [1..0 -> Requests]
    BY <1>4, <2>1
  <2>. QED BY <2>2, IsASeq
<1>. QED BY <1>5, <1>6

\* prepare_pool_addresses_params has an entry for each factory with a range.
LEMMA AddressParamsIs ==
  ASSUME NEW first \in [Factories -> Nat], NEW stop \in NumberFns
  PROVE  LET td == AddressParams(first, stop)
         IN  /\ td \in Seq(Factories \X Seq(Requests))
             /\ \A m, n \in DOMAIN td : td[m][1] = td[n][1] => m = n
             /\ \A n \in DOMAIN td :
                  /\ first[td[n][1]] < stop[td[n][1]]
                  /\ td[n][2] = AddressRange(td[n][1], first[td[n][1]], stop[td[n][1]])
             /\ \A f \in Factories : first[f] < stop[f] => \E n \in DOMAIN td : td[n][1] = f
<1>. DEFINE S == {f \in Factories : first[f] < stop[f]}
            queue == Kept(FactorySeq, S)
            params(f) == AddressRange(f, first[f], stop[f])
            td == [n \in DOMAIN queue |-> <<queue[n], params(queue[n])>>]
<1>1. /\ queue \in Seq(Factories) /\ ToSet(queue) = Factories \cap S
      /\ IsInjective(queue)
  BY FactoriesListed, KeptIs
<1>2. AddressParams(first, stop) = td
  BY Zenon DEF AddressParams, AddressRange
<1>3. \A f \in Factories : params(f) \in Seq(Requests)
  BY AddressRangeIs DEF NumberFns
<1>4. /\ \A n \in DOMAIN queue : queue[n] \in Factories /\ queue[n] \in S
      /\ \A f \in S : \E n \in DOMAIN queue : queue[n] = f
      /\ \A m, n \in DOMAIN queue : queue[m] = queue[n] => m = n
  BY <1>1 DEF ToSet, IsInjective
<1>5. DOMAIN queue = 1..Len(queue) /\ Len(queue) \in Nat
  BY <1>1
<1>. HIDE DEF queue, params
<1>6. DOMAIN td = DOMAIN queue /\ \A n \in DOMAIN queue : td[n] = <<queue[n], params(queue[n])>>
  OBVIOUS
<1>7. td \in Seq(Factories \X Seq(Requests))
  <2>1. \A n \in 1..Len(queue) : td[n] \in Factories \X Seq(Requests)
    BY <1>3, <1>4, <1>5, <1>6
  <2>2. td \in [1..Len(queue) -> Factories \X Seq(Requests)]
    BY <1>5, <2>1
  <2>. HIDE DEF td
  <2>. QED BY <1>5, <2>2, IsASeq
<1>8. \A n \in DOMAIN td : td[n][1] = queue[n] /\ td[n][2] = params(queue[n])
  BY <1>6
<1>. HIDE DEF td
<1>9. \A m, n \in DOMAIN td : td[m][1] = td[n][1] => m = n
  BY <1>4, <1>6, <1>8, Zenon
<1>10. ASSUME NEW n \in DOMAIN td
       PROVE  /\ first[td[n][1]] < stop[td[n][1]]
              /\ td[n][2] = AddressRange(td[n][1], first[td[n][1]], stop[td[n][1]])
  BY <1>4, <1>6, <1>8 DEF params
<1>11. \A f \in Factories : first[f] < stop[f] => \E n \in DOMAIN td : td[n][1] = f
  BY <1>4, <1>6, <1>8
<1>. QED BY <1>2, <1>7, <1>9, <1>10, <1>11, Zenon

\* Two requests for each pool, one for each of its tokens.
LEMMA TokenParamsIs ==
  ASSUME NEW found \in Seq(Pools)
  PROVE  /\ TokenParams(found) \in Seq(Requests)
         /\ DOMAIN TokenParams(found) = 1..(2 * Len(found))
         /\ \A i \in DOMAIN found :
              /\ 2 * i - 1 \in 1..(2 * Len(found)) /\ 2 * i \in 1..(2 * Len(found))
              /\ TokenParams(found)[2 * i - 1] = <<"token0", found[i]>>
              /\ TokenParams(found)[2 * i] = <<"token1", found[i]>>
              /\ (2 * i - 1 + 1) \div 2 = i /\ (2 * i + 1) \div 2 = i
         /\ \A n \in 1..(2 * Len(found)) : /\ (n + 1) \div 2 \in DOMAIN found
                                          /\ TokenParams(found)[n][2] = found[(n + 1) \div 2]
<1>. DEFINE t == TokenParams(found)
<1>1. /\ DOMAIN t = 1..(2 * Len(found)) /\ Len(found) \in Nat
      /\ DOMAIN found = 1..Len(found)
      /\ \A n \in 1..(2 * Len(found)) :
           t[n] = <<IF n % 2 = 1 THEN "token0" ELSE "token1", found[(n + 1) \div 2]>>
  BY DEF TokenParams
<1>2. \A n \in 1..(2 * Len(found)) : (n + 1) \div 2 \in 1..Len(found)
  BY <1>1
<1>3. \A n \in 1..(2 * Len(found)) : t[n] \in Requests
  <2>1. ASSUME NEW n \in 1..(2 * Len(found)) PROVE t[n] \in Requests
    <3>1. found[(n + 1) \div 2] \in Pools
      BY <1>1, <1>2
    <3>. QED BY <1>1, <3>1, AskedAreRequests
  <2>. QED BY <2>1
<1>4. t \in Seq(Requests)
  <2>1. t \in [1..(2 * Len(found)) -> Requests]
    BY <1>3 DEF TokenParams
  <2>2. 2 * Len(found) \in Nat
    BY <1>1
  <2>. QED BY <2>1, <2>2, IsASeq
<1>5. ASSUME NEW i \in 1..Len(found)
      PROVE  /\ 2 * i - 1 \in 1..(2 * Len(found)) /\ 2 * i \in 1..(2 * Len(found))
             /\ t[2 * i - 1] = <<"token0", found[i]>> /\ t[2 * i] = <<"token1", found[i]>>
             /\ (2 * i - 1 + 1) \div 2 = i /\ (2 * i + 1) \div 2 = i
  <2>. DEFINE k == Len(found)
  <2>1. k \in Nat /\ i \in 1..k
    BY <1>1
  <2>. HIDE DEF k
  <2>2. /\ 2 * i - 1 \in 1..(2 * k) /\ 2 * i \in 1..(2 * k)
        /\ (2 * i - 1 + 1) \div 2 = i /\ (2 * i + 1) \div 2 = i
        /\ (2 * i - 1) % 2 = 1 /\ (2 * i) % 2 = 0
    BY <2>1
  <2>. QED BY <1>1, <2>2 DEF k
<1>6. \A n \in 1..(2 * Len(found)) : t[n][2] = found[(n + 1) \div 2]
  BY <1>1
<1>. HIDE DEF t
<1>7. \A i \in DOMAIN found :
        /\ 2 * i - 1 \in 1..(2 * Len(found)) /\ 2 * i \in 1..(2 * Len(found))
        /\ t[2 * i - 1] = <<"token0", found[i]>> /\ t[2 * i] = <<"token1", found[i]>>
        /\ (2 * i - 1 + 1) \div 2 = i /\ (2 * i + 1) \div 2 = i
  BY <1>1, <1>5
<1>8. \A n \in 1..(2 * Len(found)) : /\ (n + 1) \div 2 \in DOMAIN found
                                    /\ t[n][2] = found[(n + 1) \div 2]
  BY <1>1, <1>2, <1>6
<1>. QED BY <1>1, <1>4, <1>7, <1>8, Zenon DEF t

\* One request for each factory.
LEMMA NumbersParamsIs ==
  NumbersParams \in Seq(Requests) /\ DOMAIN NumbersParams = DOMAIN FactorySeq
<1>1. FactorySeq \in Seq(Factories)
  BY FactoriesListed
<1>2. \A n \in DOMAIN FactorySeq : <<"allPairsLength", FactorySeq[n]>> \in Requests
  BY <1>1, AskedAreRequests
<1>. QED BY <1>1, <1>2 DEF NumbersParams

\* The positions of the zeros among the answers, each once.
LEMMA ZeroPositionsAre ==
  ASSUME NEW r \in Seq(AnyReply)
  PROVE  /\ ZeroPositions(r) \in Seq(Nat) /\ IsInjective(ZeroPositions(r))
         /\ \A j \in DOMAIN ZeroPositions(r) :
              ZeroPositions(r)[j] \in DOMAIN r /\ r[ZeroPositions(r)[j]] = Zero
         /\ \A i \in DOMAIN r : r[i] = Zero =>
              \E j \in DOMAIN ZeroPositions(r) : ZeroPositions(r)[j] = i
<1>. DEFINE S == {i \in DOMAIN r : r[i] = Zero}
            z == ZeroPositions(r)
<1>1. S \in SUBSET (1..Len(r)) /\ Len(r) \in Nat /\ DOMAIN r = 1..Len(r)
  OBVIOUS
<1>2. IsFiniteSet(S)
  <2>1. IsFiniteSet(1..Len(r))
    BY <1>1, FS_Interval
  <2>. QED BY <1>1, <2>1, FS_Subset
<1>3. z = SetToSeq(S)
  BY DEF ZeroPositions
<1>4. z \in Seq(S) /\ ToSet(z) = S /\ IsInjective(z)
  <2>. HIDE DEF S
  <2>. QED BY <1>2, <1>3, SetToSeqIs
<1>5. \A j \in DOMAIN z : z[j] \in S
  BY <1>4
<1>6. \A i \in S : \E j \in DOMAIN z : z[j] = i
  BY <1>4, Zenon DEF ToSet
<1>7. z \in Seq(Nat)
  <2>1. \A i \in S : i \in Nat
    BY <1>1
  <2>. HIDE DEF S, z
  <2>. QED BY <1>4, <2>1
<1>. HIDE DEF z
<1>. QED BY <1>4, <1>5, <1>6, <1>7 DEF z

-----------------------------------------------------------------------------
(* The recursion that asks for zeros again, as it returns                    *)

\* What a level makes of what the level below it found: get_tokens merges it,
\* get_pool_addresses appends it.
Found(merging, level, found) ==
  IF merging THEN Merged(level.decoded, level.idxs, found) ELSE NonZero(level.decoded) \o found

\* The function on sets of levels that the fold is defined by, up to the set D.
Returns(h, merging, ls, base, D) ==
  h = [T \in SUBSET D |->
         IF T = {} THEN base ELSE Found(merging, ls[Min(T)], h[T \ {Min(T)}])]

\* The first of the positions from a on.
LEMMA MinIsFirst ==
  ASSUME NEW a \in Nat, NEW n \in Nat, NEW T \in SUBSET (a..n), a \in T
  PROVE  Min(T) = a
<1>1. \A y \in T : a <= y /\ (y <= a => y = a)
  OBVIOUS
<1>. QED BY <1>1, Zenon DEF Min

\* There is such a function.
LEMMA ReturnsExists ==
  ASSUME NEW merging, NEW ls, NEW base, NEW n \in Nat
  PROVE  \E h : Returns(h, merging, ls, base, 1..n)
<1>. DEFINE D(m) == (n - m + 1)..n
            G == {m \in 0..n : \E h : Returns(h, merging, ls, base, D(m))}
<1>1. 0 \in G
  <2>1. \A T \in SUBSET D(0) : T = {}
    OBVIOUS
  <2>2. Returns([T \in SUBSET D(0) |-> base], merging, ls, base, D(0))
    BY <2>1 DEF Returns
  <2>. QED BY <2>2
<1>2. ASSUME NEW m \in 0..(n - 1), m \in G PROVE m + 1 \in G
  <2>. DEFINE a == n - m
  <2>1. PICK f : Returns(f, merging, ls, base, D(m))
    BY <1>2
  <2>. DEFINE g == [T \in SUBSET D(m + 1) |->
                      IF a \in T THEN Found(merging, ls[a], f[T \ {a}]) ELSE f[T]]
  <2>2. a \in Nat /\ D(m + 1) = a..n /\ D(m) = (a + 1)..n /\ m + 1 \in 0..n
    OBVIOUS
  <2>3. D(m) = D(m + 1) \ {a}
    BY <2>2
  <2>. HIDE DEF D, a
  <2>4. ASSUME NEW T \in SUBSET D(m + 1)
        PROVE  g[T] = IF T = {} THEN base ELSE Found(merging, ls[Min(T)], g[T \ {Min(T)}])
    <3>1. CASE a \in T
      <4>1. Min(T) = a
        BY <2>2, <3>1, MinIsFirst
      <4>2. T \ {a} \in SUBSET D(m + 1) /\ a \notin T \ {a}
        OBVIOUS
      <4>3. g[T \ {a}] = f[T \ {a}]
        BY <4>2, Zenon
      <4>4. g[T] = Found(merging, ls[a], f[T \ {a}])
        BY <3>1, Zenon
      <4>. HIDE DEF g
      <4>. QED BY <3>1, <4>1, <4>3, <4>4, Zenon
    <3>2. CASE a \notin T
      <4>1. T \in SUBSET D(m)
        BY <2>3, <3>2
      <4>2. g[T] = f[T]
        BY <3>2
      <4>3. f[T] = IF T = {} THEN base ELSE Found(merging, ls[Min(T)], f[T \ {Min(T)}])
        BY <2>1, <4>1, Zenon DEF Returns
      <4>4. g[T \ {Min(T)}] = f[T \ {Min(T)}]
        <5>1. T \ {Min(T)} \in SUBSET D(m + 1) /\ a \notin T \ {Min(T)}
          BY <3>2
        <5>. QED BY <5>1
      <4>. HIDE DEF g
      <4>. QED BY <4>2, <4>3, <4>4, Zenon
    <3>. QED BY <3>1, <3>2
  <2>5. g = [T \in SUBSET D(m + 1) |-> g[T]]
    OBVIOUS
  <2>. HIDE DEF g
  <2>6. Returns(g, merging, ls, base, D(m + 1))
    BY <2>4, <2>5, Zenon DEF Returns
  <2>. QED BY <2>2, <2>6
<1>3. \A m \in 0..n : m \in G
  <2>. HIDE DEF G
  <2>. QED BY <1>1, <1>2, Induction
<1>4. n \in G
  <2>. HIDE DEF G
  <2>. QED BY <1>3
<1>5. D(n) = 1..n
  OBVIOUS
<1>. HIDE DEF D
<1>6. \E h : Returns(h, merging, ls, base, D(n))
  BY <1>4
<1>. QED BY <1>5, <1>6, Zenon

\* What each level returns.
Returned(v, merging, ls, base, n) ==
  v[n + 1] = base /\ \A k \in 1..n : v[k] = Found(merging, ls[k], v[k + 1])

\* A function that is such a fold has what each level returns.
LEMMA ReturnsIs ==
  ASSUME NEW merging, NEW ls, NEW base, NEW n \in Nat, NEW h,
         Returns(h, merging, ls, base, 1..n)
  PROVE  \E v : v[1] = h[1..n] /\ Returned(v, merging, ls, base, n)
<1>. DEFINE v == [k \in 1..(n + 1) |-> h[k..n]]
<1>1. v[n + 1] = base
  <2>1. (n + 1)..n = {} /\ n + 1 \in 1..(n + 1)
    OBVIOUS
  <2>2. h[{}] = base
    BY Zenon DEF Returns
  <2>. QED BY <2>1, <2>2
<1>2. v[1] = h[1..n]
  OBVIOUS
<1>3. ASSUME NEW k \in 1..n PROVE v[k] = Found(merging, ls[k], v[k + 1])
  <2>. DEFINE T == k..n
  <2>1. /\ T \in SUBSET (1..n) /\ T \in SUBSET (k..n) /\ k \in T /\ T # {} /\ k \in Nat
        /\ T \ {k} = (k + 1)..n
    OBVIOUS
  <2>2. v[k] = h[T] /\ v[k + 1] = h[(k + 1)..n]
    OBVIOUS
  <2>. HIDE DEF T, v
  <2>3. Min(T) = k
    BY <2>1, MinIsFirst
  <2>4. h[T] = Found(merging, ls[Min(T)], h[T \ {Min(T)}])
    BY <2>1, Zenon DEF Returns
  <2>. QED BY <2>1, <2>2, <2>3, <2>4, Zenon
<1>. HIDE DEF v
<1>. QED BY <1>1, <1>2, <1>3, Zenon DEF Returned

\* What get_tokens returns, level by level.
LEMMA TokensFolded ==
  ASSUME NEW n \in Nat, DOMAIN levels = 1..n
  PROVE  \E v : /\ v[n + 1] = returned /\ v[1] = AllTokens
                /\ \A k \in 1..n : v[k] = Merged(levels[k].decoded, levels[k].idxs, v[k + 1])
<1>. DEFINE Rec(h) == h = [T \in SUBSET (1..n) |->
                             IF T = {} THEN returned
                             ELSE Merged(levels[Min(T)].decoded, levels[Min(T)].idxs,
                                         h[T \ {Min(T)}])]
            h == CHOOSE g : Rec(g)
<1>1. AllTokens = h[1..n]
  BY Zenon DEF AllTokens, FoldRight, MapThenFoldSet
<1>2. \A level, found : Found(TRUE, level, found) = Merged(level.decoded, level.idxs, found)
  BY DEF Found
<1>3. \A g : Returns(g, TRUE, levels, returned, 1..n) <=> Rec(g)
  BY <1>2, Zenon DEF Returns
<1>4. \E g : Rec(g)
  BY <1>3, ReturnsExists, Zenon
<1>5. Rec(h)
  BY <1>4, Zenon
<1>. HIDE DEF h
<1>6. Returns(h, TRUE, levels, returned, 1..n)
  BY <1>3, <1>5, Zenon
<1>7. PICK v : v[1] = h[1..n] /\ Returned(v, TRUE, levels, returned, n)
  BY <1>6, ReturnsIs
<1>8. v[n + 1] = returned /\ \A k \in 1..n : v[k] = Merged(levels[k].decoded, levels[k].idxs, v[k + 1])
  BY <1>2, <1>7, Zenon DEF Returned
<1>. QED BY <1>1, <1>7, <1>8, Zenon

\* What get_pool_addresses returns, level by level.
LEMMA AddressesFolded ==
  ASSUME NEW n \in Nat, DOMAIN levels = 1..n
  PROVE  \E v : /\ v[n + 1] = NonZero(returned) /\ v[1] = AllAddresses
                /\ \A k \in 1..n : v[k] = NonZero(levels[k].decoded) \o v[k + 1]
<1>. DEFINE Rec(h) == h = [T \in SUBSET (1..n) |->
                             IF T = {} THEN NonZero(returned)
                             ELSE NonZero(levels[Min(T)].decoded) \o h[T \ {Min(T)}]]
            h == CHOOSE g : Rec(g)
<1>1. AllAddresses = h[1..n]
  BY Zenon DEF AllAddresses, FoldRight, MapThenFoldSet
<1>2. \A level, found : Found(FALSE, level, found) = NonZero(level.decoded) \o found
  BY DEF Found
<1>3. \A g : Returns(g, FALSE, levels, NonZero(returned), 1..n) <=> Rec(g)
  BY <1>2, Zenon DEF Returns
<1>4. \E g : Rec(g)
  BY <1>3, ReturnsExists, Zenon
<1>5. Rec(h)
  BY <1>4, Zenon
<1>. HIDE DEF h
<1>6. Returns(h, FALSE, levels, NonZero(returned), 1..n)
  BY <1>3, <1>5, Zenon
<1>7. PICK v : v[1] = h[1..n] /\ Returned(v, FALSE, levels, NonZero(returned), n)
  BY <1>6, ReturnsIs
<1>8. v[n + 1] = NonZero(returned) /\ \A k \in 1..n : v[k] = NonZero(levels[k].decoded) \o v[k + 1]
  BY <1>2, <1>7, Zenon DEF Returned
<1>. QED BY <1>1, <1>7, <1>8, Zenon

\* What is asked again after the answers d to p.
Zeros(p, d) == {p[i] : i \in {j \in DOMAIN d : d[j] = Zero}}

\* At each level: what is asked, what came back, and what is asked at the next one.
LEMMA LevelsAre ==
  ASSUME TodoInv, LevelsInv, todo # <<>>
  PROVE  /\ Len(levels) \in Nat /\ DOMAIN levels = 1..Len(levels)
         /\ Asked = LevelParams(Len(levels) + 1)
         /\ \A k \in 1..(Len(levels) + 1) : LevelParams(k) \in Seq(Requests)
         /\ \A k \in 1..Len(levels) :
              LET d == levels[k].decoded
                  z == levels[k].idxs
                  p == LevelParams(k)
                  q == LevelParams(k + 1)
              IN  /\ d \in AnswersIn(p) /\ DOMAIN q = DOMAIN z /\ IsInjective(z)
                  /\ \A j \in DOMAIN z : z[j] \in DOMAIN d /\ d[z[j]] = Zero /\ q[j] = p[z[j]]
                  /\ \A i \in DOMAIN d : d[i] = Zero => \E j \in DOMAIN z : z[j] = i
                  /\ ToSet(q) = Zeros(p, d)
<1>. DEFINE n == Len(levels)
            Rows == [params : Seq(Requests), decoded : Seq(AnyReply), idxs : Seq(Nat)]
<1>1. levels \in Seq(Rows) /\ n \in Nat /\ DOMAIN levels = 1..n
  BY DEF LevelsInv
<1>2. todo[1] \in Factories \X Seq(Requests) /\ todo[1][2] \in Seq(Requests)
  BY DEF TodoInv
<1>3. \A k \in 1..n : levels[k] \in Rows
  <2>. HIDE DEF Rows
  <2>. QED BY <1>1
<1>4. /\ \A k \in 1..n : levels[k].params \in Seq(Requests) /\ levels[k].params = LevelParams(k)
      /\ \A k \in 1..n : levels[k].decoded \in AnswersIn(LevelParams(k))
      /\ \A k \in 1..n : levels[k].idxs = ZeroPositions(levels[k].decoded)
  BY <1>1, <1>3 DEF LevelsInv
<1>5. \A k \in 1..n :
        LevelParams(k + 1) = [j \in DOMAIN levels[k].idxs |->
                                LevelParams(k)[levels[k].idxs[j]]]
  <2>1. ASSUME NEW k \in 1..n
        PROVE  LevelParams(k + 1) = [j \in DOMAIN levels[k].idxs |->
                                       levels[k].params[levels[k].idxs[j]]]
    <3>1. k + 1 # 1 /\ k + 1 - 1 = k
      BY <1>1
    <3>. QED BY <3>1 DEF LevelParams
  <2>. QED BY <1>4, <2>1
<1>6. Asked = LevelParams(n + 1)
  <2>1. CASE n = 0
    <3>1. levels = <<>> /\ n + 1 = 1
      BY <1>1, <2>1
    <3>. QED BY <3>1 DEF Asked, LevelParams
  <2>2. CASE n # 0
    <3>1. levels # <<>> /\ n \in 1..n /\ n + 1 # 1 /\ n + 1 - 1 = n
      BY <1>1, <2>2
    <3>. QED BY <3>1 DEF Asked, LevelParams
  <2>. QED BY <2>1, <2>2
<1>. HIDE DEF n, Rows
<1>7. ASSUME NEW k \in 1..n
      PROVE  LET d == levels[k].decoded
                 z == levels[k].idxs
                 p == LevelParams(k)
                 q == LevelParams(k + 1)
             IN  /\ d \in AnswersIn(p) /\ DOMAIN q = DOMAIN z /\ IsInjective(z)
                 /\ \A j \in DOMAIN z : z[j] \in DOMAIN d /\ d[z[j]] = Zero /\ q[j] = p[z[j]]
                 /\ \A i \in DOMAIN d : d[i] = Zero => \E j \in DOMAIN z : z[j] = i
                 /\ ToSet(q) = Zeros(p, d) /\ q \in Seq(Requests)
  <2>. DEFINE d == levels[k].decoded
              z == levels[k].idxs
              p == LevelParams(k)
              q == LevelParams(k + 1)
  <2>1. d \in AnswersIn(p) /\ z = ZeroPositions(d) /\ p \in Seq(Requests)
    BY <1>4
  <2>2. q = [j \in DOMAIN z |-> p[z[j]]]
    BY <1>5
  <2>. HIDE DEF d, z, p, q
  <2>3. d \in Seq(AnyReply) /\ DOMAIN d = DOMAIN p
    BY <2>1 DEF AnswersIn
  <2>4. /\ z \in Seq(Nat) /\ IsInjective(z)
        /\ \A j \in DOMAIN z : z[j] \in DOMAIN d /\ d[z[j]] = Zero
        /\ \A i \in DOMAIN d : d[i] = Zero => \E j \in DOMAIN z : z[j] = i
    BY <2>1, <2>3, ZeroPositionsAre
  <2>5. DOMAIN q = DOMAIN z /\ \A j \in DOMAIN z : q[j] = p[z[j]]
    BY <2>2
  <2>6. ToSet(q) = Zeros(p, d)
    BY <2>4, <2>5 DEF ToSet, Zeros
  <2>7. q \in Seq(Requests)
    <3>1. DOMAIN z = 1..Len(z) /\ Len(z) \in Nat
      BY <2>4
    <3>2. \A i \in DOMAIN p : p[i] \in Requests
      BY <2>1
    <3>3. q \in [1..Len(z) -> Requests]
      BY <2>2, <2>3, <2>4, <3>1, <3>2
    <3>. QED BY <3>1, <3>3, IsASeq
  <2>. QED BY <2>1, <2>4, <2>5, <2>6, <2>7 DEF d, z, p, q
<1>8. \A k \in 1..(n + 1) : LevelParams(k) \in Seq(Requests)
  <2>1. ASSUME NEW k \in 1..(n + 1) PROVE LevelParams(k) \in Seq(Requests)
    <3>1. k \in 1..n \/ (k = n + 1 /\ k = 1) \/ (k = n + 1 /\ n \in 1..n)
      BY <1>1
    <3>2. CASE k = 1
      BY <1>2, <3>2 DEF LevelParams
    <3>. QED BY <1>4, <1>7, <3>1, <3>2
  <2>. QED BY <2>1
<1>. QED BY <1>1, <1>6, <1>7, <1>8 DEF n

\* V has an answer to each question of Q that is not in Z, and no other.
Answering(V, Q, Z) ==
  /\ Z \subseteq Q
  /\ \A x \in V : \E q \in Q \ Z : x \in Answers[q] \ {Zero}
  /\ \A q \in Q \ Z : \E x \in V : x \in Answers[q] \ {Zero}

\* The answers of a level come to those to what it asks again.
LEMMA LevelAnswers ==
  ASSUME NEW p \in Seq(Requests), IsInjective(p), NEW d \in AnswersIn(p),
         NEW V, NEW Z, Answering(V, Zeros(p, d), Z)
  PROVE  Answering((ToSet(d) \ {Zero}) \cup V, ToSet(p), Z)
<1>1. DOMAIN d = DOMAIN p /\ \A i \in DOMAIN p : d[i] \in Answers[p[i]]
  BY DEF AnswersIn
<1>2. \A i \in DOMAIN p : p[i] \in ToSet(p) /\ d[i] \in ToSet(d)
  BY <1>1 DEF ToSet
<1>3. Zeros(p, d) \subseteq ToSet(p)
  BY <1>1 DEF Zeros, ToSet
<1>4. \A i \in DOMAIN p : d[i] # Zero => p[i] \notin Zeros(p, d)
  BY <1>1 DEF Zeros, IsInjective
<1>5. \A i \in DOMAIN p : d[i] = Zero => p[i] \in Zeros(p, d)
  BY <1>1 DEF Zeros
<1>6. ASSUME NEW x \in (ToSet(d) \ {Zero}) \cup V
      PROVE  \E q \in ToSet(p) \ Z : x \in Answers[q] \ {Zero}
  <2>1. CASE x \in V
    BY <1>3, <2>1 DEF Answering
  <2>2. CASE x \in ToSet(d) \ {Zero}
    <3>1. PICK i \in DOMAIN p : x = d[i]
      BY <1>1, <2>2 DEF ToSet
    <3>. QED BY <1>1, <1>2, <1>4, <2>2, <3>1 DEF Answering
  <2>. QED BY <2>1, <2>2
<1>7. ASSUME NEW q \in ToSet(p) \ Z
      PROVE  \E x \in (ToSet(d) \ {Zero}) \cup V : x \in Answers[q] \ {Zero}
  <2>1. PICK i \in DOMAIN p : q = p[i]
    BY DEF ToSet
  <2>2. CASE d[i] = Zero
    BY <1>5, <2>1, <2>2 DEF Answering
  <2>3. CASE d[i] # Zero
    BY <1>1, <1>2, <2>1, <2>3
  <2>. QED BY <2>2, <2>3
<1>. QED BY <1>3, <1>6, <1>7 DEF Answering

\* What a level finds, and what it finds with those below it.
LEMMA NonZeroIs ==
  ASSUME NEW d \in Seq(AnyReply)
  PROVE  NonZero(d) \in Seq(AnyReply) /\ ToSet(NonZero(d)) = ToSet(d) \ {Zero}
<1>. DEFINE S == ToSet(d) \ {Zero}
            A == AnyReply
<1>1. d \in Seq(A) /\ NonZero(d) = Kept(d, S)
  BY DEF NonZero
<1>. HIDE DEF S, A
<1>2. NonZero(d) \in Seq(A) /\ ToSet(NonZero(d)) = ToSet(d) \cap S
  BY <1>1, KeptIs
<1>. QED BY <1>2 DEF S, A

\* get_pool_addresses finds the answers to all that was asked but for what stays zero.
LEMMA AllAddressesIs ==
  ASSUME TodoInv, LevelsInv, todo # <<>>, IsInjective(todo[1][2]), returned \in AnswersIn(Asked)
  PROVE  /\ AllAddresses \in Seq(AnyReply)
         /\ Answering(ToSet(AllAddresses), ToSet(todo[1][2]), StillZero)
<1>. DEFINE n == Len(levels)
            P(k) == LevelParams(k)
            D(k) == levels[k].decoded
<1>1. /\ n \in Nat /\ DOMAIN levels = 1..n /\ Asked = P(n + 1)
      /\ \A k \in 1..(n + 1) : P(k) \in Seq(Requests)
      /\ \A k \in 1..n : D(k) \in AnswersIn(P(k)) /\ ToSet(P(k + 1)) = Zeros(P(k), D(k))
  BY LevelsAre
<1>2. \A k \in 1..(n + 1) : IsInjective(P(k))
  <2>. DEFINE G == {k \in 1..(n + 1) : IsInjective(P(k))}
  <2>1. 1 \in G
    BY <1>1 DEF LevelParams
  <2>2. ASSUME NEW k \in 1..(n + 1 - 1), k \in G PROVE k + 1 \in G
    <3>. DEFINE z == levels[k].idxs
    <3>1. k \in 1..n /\ k + 1 \in 1..(n + 1)
      BY <1>1
    <3>2. /\ DOMAIN P(k + 1) = DOMAIN z /\ IsInjective(z) /\ DOMAIN D(k) = DOMAIN P(k)
          /\ \A j \in DOMAIN z : z[j] \in DOMAIN D(k) /\ P(k + 1)[j] = P(k)[z[j]]
      BY <3>1, LevelsAre DEF AnswersIn
    <3>. DEFINE p == P(k)
                q == P(k + 1)
    <3>3. /\ IsInjective(p) /\ IsInjective(z) /\ DOMAIN q = DOMAIN z
          /\ \A j \in DOMAIN z : z[j] \in DOMAIN p /\ q[j] = p[z[j]]
      BY <2>2, <3>2
    <3>. HIDE DEF p, q, z
    <3>4. IsInjective(q)
      BY <3>3 DEF IsInjective
    <3>5. IsInjective(P(k + 1))
      BY <3>4 DEF q
    <3>. QED BY <3>1, <3>5
  <2>3. \A k \in 1..(n + 1) : k \in G
    <3>. DEFINE last == n + 1
    <3>1. last \in Nat /\ 1 \in Nat
      BY <1>1
    <3>2. \A k \in 1..(last - 1) : k \in G => k + 1 \in G
      BY <2>2
    <3>. HIDE DEF G, last
    <3>3. \A k \in 1..last : k \in G
      BY <2>1, <3>1, <3>2, Induction
    <3>. QED BY <3>3 DEF last
  <2>. QED BY <2>3
<1>3. PICK v : /\ v[n + 1] = NonZero(returned) /\ v[1] = AllAddresses
              /\ \A k \in 1..n : v[k] = NonZero(D(k)) \o v[k + 1]
  BY <1>1, AddressesFolded, Zenon
<1>. HIDE DEF n, P, D
<1>. DEFINE Good(k) == v[k] \in Seq(AnyReply) /\ Answering(ToSet(v[k]), ToSet(P(k)), StillZero)
            G == {m \in 0..n : Good(n + 1 - m)}
<1>4. 0 \in G
  <2>1. n + 1 \in 1..(n + 1) /\ n + 1 - 0 = n + 1
    BY <1>1
  <2>2. StillZero = Zeros(Asked, returned)
    BY DEF StillZero, Zeros
  <2>3. Answering({}, StillZero, StillZero)
    BY DEF Answering
  <2>4. Asked \in Seq(Requests) /\ IsInjective(Asked)
    BY <1>1, <1>2, <2>1
  <2>5. Answering((ToSet(returned) \ {Zero}) \cup {}, ToSet(Asked), StillZero)
    BY <2>2, <2>3, <2>4, LevelAnswers
  <2>6. returned \in Seq(AnyReply)
    BY DEF AnswersIn
  <2>7. NonZero(returned) \in Seq(AnyReply) /\ ToSet(NonZero(returned)) = ToSet(returned) \ {Zero}
    BY <2>6, NonZeroIs
  <2>8. Good(n + 1)
    <3>1. ToSet(NonZero(returned)) = (ToSet(returned) \ {Zero}) \cup {}
      BY <2>7
    <3>. QED BY <1>1, <1>3, <2>5, <2>7, <3>1, Zenon
  <2>. HIDE DEF Good
  <2>. QED BY <1>1, <2>1, <2>8
<1>5. ASSUME NEW m \in 0..(n - 1), m \in G PROVE m + 1 \in G
  <2>. DEFINE k == n - m
  <2>1. k \in 1..n /\ k \in 1..(n + 1) /\ n + 1 - m = k + 1 /\ n + 1 - (m + 1) = k
        /\ m + 1 \in 0..n
    BY <1>1
  <2>2. Good(k + 1)
    BY <1>5, <2>1
  <2>. HIDE DEF k
  <2>3. /\ P(k) \in Seq(Requests) /\ IsInjective(P(k)) /\ D(k) \in AnswersIn(P(k))
        /\ ToSet(P(k + 1)) = Zeros(P(k), D(k)) /\ v[k] = NonZero(D(k)) \o v[k + 1]
    BY <1>1, <1>2, <1>3, <2>1
  <2>4. Answering((ToSet(D(k)) \ {Zero}) \cup ToSet(v[k + 1]), ToSet(P(k)), StillZero)
    <3>1. Answering(ToSet(v[k + 1]), Zeros(P(k), D(k)), StillZero)
      BY <2>2, <2>3, Zenon
    <3>. QED BY <2>3, <3>1, LevelAnswers
  <2>5. D(k) \in Seq(AnyReply)
    BY <2>3 DEF AnswersIn
  <2>6. /\ NonZero(D(k)) \in Seq(AnyReply) /\ v[k + 1] \in Seq(AnyReply)
        /\ ToSet(NonZero(D(k))) = ToSet(D(k)) \ {Zero}
    BY <2>2, <2>5, NonZeroIs
  <2>7. /\ v[k] \in Seq(AnyReply) /\ ToSet(v[k]) = (ToSet(D(k)) \ {Zero}) \cup ToSet(v[k + 1])
    <3>. DEFINE s == NonZero(D(k))
                t == v[k + 1]
                A == AnyReply
    <3>1. s \in Seq(A) /\ t \in Seq(A) /\ v[k] = s \o t /\ ToSet(s) = ToSet(D(k)) \ {Zero}
      BY <2>3, <2>6
    <3>. HIDE DEF s, t, A
    <3>2. v[k] \in Seq(A) /\ ToSet(v[k]) = ToSet(s) \cup ToSet(t)
      BY <3>1, ConcatIs
    <3>. QED BY <3>1, <3>2, Zenon DEF t, A
  <2>8. Good(k)
    BY <2>4, <2>7, Zenon
  <2>. HIDE DEF Good
  <2>. QED BY <2>1, <2>8
<1>6. n \in G
  <2>1. \A m \in 0..n : m \in G
    <3>. HIDE DEF G
    <3>. QED BY <1>1, <1>4, <1>5, Induction
  <2>. HIDE DEF G
  <2>. QED BY <1>1, <2>1
<1>7. Good(1)
  <2>1. n + 1 - n = 1
    BY <1>1
  <2>. HIDE DEF Good
  <2>. QED BY <1>6, <2>1
<1>8. P(1) = todo[1][2]
  BY DEF P, LevelParams
<1>. QED BY <1>3, <1>7, <1>8, Zenon

\* v answers p, with a zero only for what is in Z.
AnsweredBut(v, p, Z) ==
  v \in AnswersIn(p) /\ \A i \in DOMAIN p : v[i] = Zero => p[i] \in Z

\* get_tokens has an answer to each request in its place, and a zero only where
\* it stays one.
LEMMA AllTokensIs ==
  ASSUME TodoInv, LevelsInv, todo # <<>>, returned \in AnswersIn(Asked)
  PROVE  AnsweredBut(AllTokens, todo[1][2], StillZero)
<1>. DEFINE n == Len(levels)
            P(k) == LevelParams(k)
            D(k) == levels[k].decoded
            Z(k) == levels[k].idxs
<1>1. /\ n \in Nat /\ DOMAIN levels = 1..n /\ Asked = P(n + 1)
      /\ \A k \in 1..(n + 1) : P(k) \in Seq(Requests)
      /\ \A k \in 1..n : D(k) \in AnswersIn(P(k)) /\ DOMAIN P(k + 1) = DOMAIN Z(k)
      /\ \A k \in 1..n : \A j \in DOMAIN Z(k) :
           Z(k)[j] \in DOMAIN D(k) /\ P(k + 1)[j] = P(k)[Z(k)[j]]
      /\ \A k \in 1..n : \A i \in DOMAIN D(k) : D(k)[i] = Zero => \E j \in DOMAIN Z(k) : Z(k)[j] = i
  BY LevelsAre
<1>2. PICK v : /\ v[n + 1] = returned /\ v[1] = AllTokens
              /\ \A k \in 1..n : v[k] = Merged(D(k), Z(k), v[k + 1])
  BY <1>1, TokensFolded, Zenon
<1>. HIDE DEF n, P, D, Z
<1>. DEFINE Good(k) == AnsweredBut(v[k], P(k), StillZero)
            G == {m \in 0..n : Good(n + 1 - m)}
<1>3. 0 \in G
  <2>1. n + 1 - 0 = n + 1 /\ 0 \in 0..n
    BY <1>1
  <2>2. DOMAIN returned = DOMAIN Asked
    BY DEF AnswersIn
  <2>3. \A i \in DOMAIN Asked : returned[i] = Zero => Asked[i] \in StillZero
    BY <2>2 DEF StillZero
  <2>4. AnsweredBut(returned, Asked, StillZero)
    BY <2>3 DEF AnsweredBut
  <2>5. Good(n + 1)
    BY <1>1, <1>2, <2>4, Zenon
  <2>. HIDE DEF Good
  <2>. QED BY <2>1, <2>5
<1>4. ASSUME NEW m \in 0..(n - 1), m \in G PROVE m + 1 \in G
  <2>. DEFINE k == n - m
  <2>1. k \in 1..n /\ k \in 1..(n + 1) /\ n + 1 - m = k + 1 /\ n + 1 - (m + 1) = k
        /\ m + 1 \in 0..n
    BY <1>1
  <2>2. Good(k + 1)
    BY <1>4, <2>1
  <2>. HIDE DEF k
  <2>. DEFINE p == P(k)
              q == P(k + 1)
              d == D(k)
              z == Z(k)
              u == v[k + 1]
  <2>3. /\ p \in Seq(Requests) /\ d \in AnswersIn(p) /\ DOMAIN q = DOMAIN z
        /\ \A j \in DOMAIN z : z[j] \in DOMAIN d /\ q[j] = p[z[j]]
        /\ \A i \in DOMAIN d : d[i] = Zero => \E j \in DOMAIN z : z[j] = i
        /\ v[k] = Merged(d, z, u) /\ AnsweredBut(u, q, StillZero)
    BY <1>1, <1>2, <2>1, <2>2
  <2>. HIDE DEF p, q, d, z, u, P
  <2>4. /\ d \in Seq(AnyReply) /\ DOMAIN d = DOMAIN p /\ \A i \in DOMAIN p : d[i] \in Answers[p[i]]
        /\ DOMAIN u = DOMAIN z /\ \A j \in DOMAIN z : u[j] \in Answers[q[j]]
        /\ \A j \in DOMAIN z : u[j] = Zero => q[j] \in StillZero
    BY <2>3 DEF AnswersIn, AnsweredBut
  <2>5. DOMAIN v[k] = DOMAIN p
    BY <2>3, <2>4 DEF Merged
  <2>6. ASSUME NEW i \in DOMAIN p
        PROVE  v[k][i] \in Answers[p[i]] /\ (v[k][i] = Zero => p[i] \in StillZero)
    <3>1. CASE \E j \in DOMAIN z : z[j] = i
      <4>. DEFINE j == CHOOSE j \in DOMAIN z : z[j] = i
      <4>1. j \in DOMAIN z /\ z[j] = i
        BY <3>1
      <4>2. v[k][i] = u[j]
        BY <2>3, <2>4, <3>1 DEF Merged
      <4>. HIDE DEF j
      <4>. QED BY <2>3, <2>4, <4>1, <4>2
    <3>2. CASE ~ \E j \in DOMAIN z : z[j] = i
      <4>1. v[k][i] = d[i] /\ d[i] # Zero
        BY <2>3, <2>4, <3>2 DEF Merged
      <4>. QED BY <2>4, <4>1
    <3>. QED BY <3>1, <3>2
  <2>7. v[k] \in Seq(AnyReply)
    <3>1. \A i \in DOMAIN p : v[k][i] \in AnyReply
      <4>1. ASSUME NEW i \in DOMAIN p PROVE v[k][i] \in AnyReply
        <5>1. p[i] \in Requests
          BY <2>3
        <5>2. Answers[p[i]] \subseteq AnyReply
          BY <5>1, AnswersAreReplies
        <5>. QED BY <2>6, <5>2
      <4>. QED BY <4>1
    <3>2. DOMAIN p = 1..Len(p) /\ Len(p) \in Nat
      BY <2>3
    <3>3. v[k] = [i \in DOMAIN d |-> v[k][i]]
      BY <2>3 DEF Merged
    <3>4. v[k] \in [1..Len(p) -> AnyReply]
      BY <2>4, <3>1, <3>2, <3>3
    <3>. QED BY <3>2, <3>4, IsASeq
  <2>8. AnsweredBut(v[k], p, StillZero)
    BY <2>5, <2>6, <2>7 DEF AnsweredBut, AnswersIn
  <2>9. Good(k)
    BY <2>8 DEF p
  <2>. HIDE DEF Good
  <2>. QED BY <2>1, <2>9
<1>5. n \in G
  <2>1. \A m \in 0..n : m \in G
    <3>. HIDE DEF G
    <3>. QED BY <1>1, <1>3, <1>4, Induction
  <2>. HIDE DEF G
  <2>. QED BY <1>1, <2>1
<1>6. Good(1)
  <2>1. n + 1 - n = 1
    BY <1>1
  <2>. HIDE DEF Good
  <2>. QED BY <1>5, <2>1
<1>7. P(1) = todo[1][2]
  BY DEF P, LevelParams
<1>. QED BY <1>2, <1>6, <1>7, Zenon

-----------------------------------------------------------------------------
(* The updates of the pools                                                  *)

\* Where the answers for a pool begin, less one.
Before(p) ==
  Len(FlattenSeq(SubSeq(UpdateParts, 1,
        (CHOOSE n \in DOMAIN SetToSeq(fresh) : SetToSeq(fresh)[n] = p) - 1)))

\* create_update_params has the reserves of each pool, and its fee where that is asked.
LEMMA UpdatePartsAre ==
  ASSUME fresh \subseteq Pools
  PROVE  /\ FlattenSeq(UpdateParts) \in Seq(Requests)
         /\ \A p \in fresh :
              /\ Before(p) + 1 \in DOMAIN FlattenSeq(UpdateParts)
              /\ FlattenSeq(UpdateParts)[Before(p) + 1] = <<"getReserves", p>>
              /\ FactoryOf(p) \notin FixedFee =>
                   /\ Before(p) + 2 \in DOMAIN FlattenSeq(UpdateParts)
                   /\ FlattenSeq(UpdateParts)[Before(p) + 2] = <<"fee", p>>
<1>. DEFINE order == SetToSeq(fresh)
            part(p) == IF FactoryOf(p) \in FixedFee THEN <<<<"getReserves", p>>>>
                       ELSE <<<<"getReserves", p>>, <<"fee", p>>>>
            T == Seq(Requests)
<1>1. IsFiniteSet(fresh)
  BY PairsAssumption, FS_Subset
<1>2. order \in Seq(fresh) /\ ToSet(order) = fresh
  BY <1>1, SetToSeqIs
<1>3. \A p \in fresh :
        /\ part(p) \in Seq(Requests) /\ 1 \in DOMAIN part(p)
        /\ part(p)[1] = <<"getReserves", p>>
        /\ FactoryOf(p) \notin FixedFee => 2 \in DOMAIN part(p) /\ part(p)[2] = <<"fee", p>>
  <2>1. ASSUME NEW p \in fresh
        PROVE  /\ part(p) \in Seq(Requests) /\ 1 \in DOMAIN part(p)
               /\ part(p)[1] = <<"getReserves", p>>
               /\ FactoryOf(p) \notin FixedFee =>
                    2 \in DOMAIN part(p) /\ part(p)[2] = <<"fee", p>>
    <3>. DEFINE r == <<"getReserves", p>>
                e == <<"fee", p>>
    <3>1. r \in Requests /\ e \in Requests
      BY AskedAreRequests
    <3>2. part(p) = IF FactoryOf(p) \in FixedFee THEN <<r>> ELSE <<r, e>>
      OBVIOUS
    <3>. HIDE DEF r, e, part
    <3>. QED BY <3>1, <3>2 DEF r, e
  <2>. QED BY <2>1
<1>4. UpdateParts = [n \in DOMAIN order |-> part(order[n])]
  BY Zenon DEF UpdateParts
<1>5. DOMAIN order = 1..Len(order) /\ Len(order) \in Nat /\ \A n \in DOMAIN order : order[n] \in fresh
  BY <1>2
<1>. HIDE DEF order, part
<1>6. UpdateParts \in Seq(T) /\ DOMAIN UpdateParts = DOMAIN order
      /\ \A n \in DOMAIN order : UpdateParts[n] = part(order[n])
  <2>1. \A n \in 1..Len(order) : part(order[n]) \in T
    BY <1>3, <1>5
  <2>2. UpdateParts \in [1..Len(order) -> T]
    BY <1>4, <1>5, <2>1
  <2>. HIDE DEF T
  <2>3. UpdateParts \in Seq(T)
    BY <1>5, <2>2, IsASeq
  <2>. QED BY <1>4, <2>3
<1>7. FlattenSeq(UpdateParts) \in Seq(Requests)
  BY <1>6, FlattenSeqIs
<1>8. ASSUME NEW p \in fresh
      PROVE  /\ Before(p) + 1 \in DOMAIN FlattenSeq(UpdateParts)
             /\ FlattenSeq(UpdateParts)[Before(p) + 1] = <<"getReserves", p>>
             /\ FactoryOf(p) \notin FixedFee =>
                  /\ Before(p) + 2 \in DOMAIN FlattenSeq(UpdateParts)
                  /\ FlattenSeq(UpdateParts)[Before(p) + 2] = <<"fee", p>>
  <2>. DEFINE k == CHOOSE n \in DOMAIN order : order[n] = p
  <2>1. k \in DOMAIN order /\ order[k] = p
    <3>1. \E n \in DOMAIN order : order[n] = p
      BY <1>2 DEF ToSet
    <3>. QED BY <3>1
  <2>2. Before(p) = Len(FlattenSeq(SubSeq(UpdateParts, 1, k - 1)))
    BY DEF Before, order
  <2>. HIDE DEF k
  <2>3. UpdateParts[k] = part(p) /\ k \in DOMAIN UpdateParts
    BY <1>6, <2>1
  <2>4. ASSUME NEW j \in DOMAIN part(p)
        PROVE  /\ Before(p) + j \in DOMAIN FlattenSeq(UpdateParts)
               /\ FlattenSeq(UpdateParts)[Before(p) + j] = part(p)[j]
    <3>1. j \in DOMAIN UpdateParts[k]
      BY <2>3
    <3>2. /\ Len(FlattenSeq(SubSeq(UpdateParts, 1, k - 1))) + j \in DOMAIN FlattenSeq(UpdateParts)
          /\ FlattenSeq(UpdateParts)[Len(FlattenSeq(SubSeq(UpdateParts, 1, k - 1))) + j]
               = UpdateParts[k][j]
      BY <1>6, <2>3, <3>1, FlattenAt
    <3>. QED BY <2>2, <2>3, <3>2, Zenon
  <2>. QED BY <1>3, <2>4
<1>. QED BY <1>7, <1>8

-----------------------------------------------------------------------------
(* The pools that are created                                                *)

\* The factory of a pool is the one that has created it.
LEMMA FactoryOfIs ==
  ASSUME NEW f \in Factories, NEW p \in ToSet(Pairs[f])
  PROVE  FactoryOf(p) = f
<1>1. ASSUME NEW g \in Factories, p \in ToSet(Pairs[g]) PROVE g = f
  BY <1>1, PairsAssumption DEF ToSet
<1>. QED BY <1>1, Zenon DEF FactoryOf

\* The ranges of pairs that a phase asks for are on the chain.
LEMMA RangesAre ==
  ASSUME NumberInv, pc \in Phases, NEW f \in Factories
  PROVE  /\ First(f) \in Nat /\ Stop(f) \in Nat /\ Stop(f) <= Len(Pairs[f])
         /\ \A i \in (First(f) + 1)..Stop(f) : i \in DOMAIN Pairs[f]
         /\ Span(f) \subseteq ToSet(Pairs[f]) /\ Span(f) \subseteq Pools
         /\ AddressesOf(f) = AddressRange(f, First(f), Stop(f))
         /\ AddressesOf(f) \in Seq(Requests)
<1>1. Pairs[f] \in Seq(Pools)
  BY PairsAssumption
<1>2. /\ pool_numbers # None => pool_numbers \in [Factories -> Nat] /\ pool_numbers[f] \in Nat
                                /\ pool_numbers[f] <= Len(Pairs[f])
      /\ pc # "excluded" => latest[f] \in Nat /\ latest[f] <= Len(Pairs[f])
      /\ pc = "excluded" => pool_numbers # None
  BY DEF NumberInv, NumberFns, Phases
<1>3. pc = "excluded" => FirstExcluded[f] \in Nat
  BY <1>2, BoundsAssumption DEF FirstExcluded
<1>4. First(f) \in Nat /\ Stop(f) \in Nat /\ Stop(f) <= Len(Pairs[f])
  <2>1. CASE pc = "excluded"
    BY <1>2, <1>3, <2>1 DEF First, Stop
  <2>2. CASE pc # "excluded"
    BY <1>2, <2>2 DEF First, Stop, old_numbers
  <2>. QED BY <2>1, <2>2
<1>5. \A i \in (First(f) + 1)..Stop(f) : i \in DOMAIN Pairs[f]
  BY <1>1, <1>4
<1>6. Span(f) \subseteq ToSet(Pairs[f]) /\ Span(f) \subseteq Pools
  BY <1>1, <1>5 DEF Span, ToSet
<1>7. AddressesOf(f) = AddressRange(f, First(f), Stop(f))
  BY DEF AddressesOf, AddressRange
<1>8. AddressesOf(f) \in Seq(Requests)
  BY <1>4, <1>7, AddressRangeIs
<1>. QED BY <1>4, <1>5, <1>6, <1>7, <1>8

\* The pools of a factory are created with their own tokens, but for the invalid ones.
LEMMA CreatedForIs ==
  ASSUME AddressInv, TokenInv, NumberInv, pc = "tokens", NEW f \in DOMAIN tokens
  PROVE  /\ DOMAIN CreatedFor(f) = ToSet(addresses[f]) \ invalid
         /\ \A p \in DOMAIN CreatedFor(f) :
              /\ p \in Pools /\ p \in Paired /\ FactoryOf(p) = f
              /\ CreatedFor(f)[p] \in PoolRecord
              /\ CreatedFor(f)[p].tokens = Tokens[p]
              /\ f \in FixedFee => CreatedFor(f)[p].fee = Fees[p]
<1>. DEFINE found == addresses[f]
            valid == {i \in DOMAIN found : found[i] \notin invalid}
            at(p) == CHOOSE j \in valid : found[j] = p
            pool(p) == [tokens |-> <<tokens[f][2 * at(p) - 1], tokens[f][2 * at(p)]>>,
                        liquidity |-> 0,
                        fee |-> IF f \in FixedFee THEN Fees[p] ELSE 0]
            D == {found[i] : i \in valid}
<1>1. f \in Factories /\ found \in Seq(Pools) /\ ToSet(found) \subseteq Span(f)
  BY DEF AddressInv, TokenInv, Phases
<1>2. /\ tokens[f] \in AnswersIn(TokenParams(found))
      /\ \A j \in DOMAIN tokens[f] : tokens[f][j] = Zero => found[(j + 1) \div 2] \in invalid
  BY DEF TokenInv
<1>3. Span(f) \subseteq ToSet(Pairs[f]) /\ Span(f) \subseteq Pools
  BY <1>1, RangesAre DEF Phases
<1>4. CreatedFor(f) = [p \in D |-> pool(p)]
  BY Zenon DEF CreatedFor
<1>5. D = ToSet(found) \ invalid
  BY DEF ToSet
<1>6. ASSUME NEW p \in D
      PROVE  p \in Pools /\ p \in Paired /\ FactoryOf(p) = f /\ pool(p) \in PoolRecord
             /\ pool(p).tokens = Tokens[p] /\ (f \in FixedFee => pool(p).fee = Fees[p])
  <2>1. p \in ToSet(found)
    BY <1>5
  <2>2. p \in Pools /\ FactoryOf(p) = f
    BY <1>1, <1>3, <2>1, FactoryOfIs
  <2>. DEFINE i == at(p)
  <2>3. i \in DOMAIN found /\ found[i] \notin invalid /\ found[i] = p
    <3>1. \E j \in valid : found[j] = p
      OBVIOUS
    <3>2. i \in valid /\ found[i] = p
      BY <3>1
    <3>. QED BY <3>2
  <2>. HIDE DEF i, found
  <2>. DEFINE t == TokenParams(found)
              s == tokens[f]
              a == 2 * i - 1
              b == 2 * i
  <2>4. /\ a \in DOMAIN t /\ b \in DOMAIN t /\ (a + 1) \div 2 = i /\ (b + 1) \div 2 = i
        /\ t[a] = <<"token0", p>> /\ t[b] = <<"token1", p>>
    BY <1>1, <2>3, TokenParamsIs
  <2>. HIDE DEF a, b, t
  <2>5. s \in Seq(AnyReply) /\ DOMAIN s = DOMAIN t /\ \A k \in DOMAIN t : s[k] \in Answers[t[k]]
    BY <1>2 DEF AnswersIn, t
  <2>6. s[a] # Zero /\ s[b] # Zero
    <3>1. \A k \in DOMAIN t : s[k] = Zero => found[(k + 1) \div 2] \in invalid
      BY <1>2, <2>5
    <3>2. s[a] = Zero => found[i] \in invalid
      BY <2>4, <3>1
    <3>3. s[b] = Zero => found[i] \in invalid
      BY <2>4, <3>1
    <3>. QED BY <2>3, <3>2, <3>3
  <2>7. s[a] \in Answers[<<"token0", p>>] /\ s[b] \in Answers[<<"token1", p>>]
    BY <2>4, <2>5
  <2>8. s[a] = Tokens[p][1] /\ s[b] = Tokens[p][2]
    <3>1. /\ Answers[<<"token0", p>>] = {Zero, Tokens[p][1]}
          /\ Answers[<<"token1", p>>] = {Zero, Tokens[p][2]}
      BY <2>2, NodesAssumption, Zenon
    <3>2. s[a] \in {Zero, Tokens[p][1]} /\ s[b] \in {Zero, Tokens[p][2]}
      BY <2>7, <3>1, Zenon
    <3>. QED BY <2>6, <3>2
  <2>9. Tokens[p] = <<s[a], s[b]>> /\ p \in Paired
    <3>1. Tokens[p] = <<Tokens[p][1], Tokens[p][2]>> /\ Tokens[p][1] # Tokens[p][2]
      BY <2>2, <2>6, <2>8, TokensAssumption
    <3>. QED BY <2>2, <2>8, <3>1 DEF Paired
  <2>10. s[a] \in AnyReply /\ s[b] \in AnyReply
    BY <2>4, <2>5
  <2>11. Fees[p] \in AnyReply
    <3>. DEFINE r == <<"fee", p>>
    <3>1. r \in Requests
      BY <2>2, AskedAreRequests
    <3>2. Answers[r] = {Fees[p]}
      BY <2>2, NodesAssumption
    <3>. HIDE DEF r
    <3>. QED BY <3>1, <3>2, AnswersAreReplies
  <2>12. pool(p) = [tokens |-> <<s[a], s[b]>>, liquidity |-> 0,
                    fee |-> IF f \in FixedFee THEN Fees[p] ELSE 0]
    BY DEF i, a, b
  <2>. HIDE DEF pool
  <2>13. pool(p) \in PoolRecord
    BY <2>10, <2>11, <2>12 DEF PoolRecord
  <2>. QED BY <2>2, <2>9, <2>12, <2>13
<1>. HIDE DEF pool, D, found
<1>7. DOMAIN CreatedFor(f) = D /\ \A p \in D : CreatedFor(f)[p] = pool(p)
  BY <1>4
<1>. QED BY <1>5, <1>6, <1>7 DEF found

\* create_pools: the pools are as on the chain, and none of the range is missing that
\* was not judged.
LEMMA NewPoolsAre ==
  ASSUME AddressInv, TokenInv, NumberInv, pc = "tokens", todo = <<>>
  PROVE  /\ IsPools(NewPools) /\ AsOnChain(NewPools, DOMAIN NewPools)
         /\ \A f \in Factories : Span(f) \subseteq DOMAIN NewPools \cup judged
<1>. DEFINE D == UNION {DOMAIN CreatedFor(f) : f \in DOMAIN addresses}
            of(p) == CHOOSE f \in DOMAIN addresses : p \in DOMAIN CreatedFor(f)
<1>1. Left = {}
  BY DEF Left
<1>2. DOMAIN tokens = DOMAIN addresses
  BY <1>1 DEF TokenInv
<1>3. NewPools = [p \in D |-> CreatedFor(of(p))[p]]
  BY Zenon DEF NewPools
<1>4. \A p \in D : of(p) \in DOMAIN addresses /\ p \in DOMAIN CreatedFor(of(p))
  <2>1. ASSUME NEW p \in D PROVE \E f \in DOMAIN addresses : p \in DOMAIN CreatedFor(f)
    BY <2>1
  <2>. QED BY <2>1
<1>5. \A p \in D : /\ p \in Pools /\ p \in Paired /\ CreatedFor(of(p))[p] \in PoolRecord
                   /\ CreatedFor(of(p))[p].tokens = Tokens[p]
                   /\ FactoryOf(p) \in FixedFee => CreatedFor(of(p))[p].fee = Fees[p]
  <2>1. ASSUME NEW p \in D
        PROVE  /\ p \in Pools /\ p \in Paired /\ CreatedFor(of(p))[p] \in PoolRecord
               /\ CreatedFor(of(p))[p].tokens = Tokens[p]
               /\ FactoryOf(p) \in FixedFee => CreatedFor(of(p))[p].fee = Fees[p]
    <3>. DEFINE f == of(p)
    <3>1. f \in DOMAIN tokens /\ p \in DOMAIN CreatedFor(f)
      BY <1>2, <1>4
    <3>. HIDE DEF f
    <3>2. /\ p \in Pools /\ p \in Paired /\ CreatedFor(f)[p] \in PoolRecord /\ FactoryOf(p) = f
          /\ CreatedFor(f)[p].tokens = Tokens[p]
          /\ f \in FixedFee => CreatedFor(f)[p].fee = Fees[p]
      BY <3>1, CreatedForIs
    <3>. QED BY <3>2, Zenon DEF f
  <2>. HIDE DEF D, of
  <2>. QED BY <2>1
<1>6. \A f \in DOMAIN addresses : DOMAIN CreatedFor(f) \subseteq D
  OBVIOUS
<1>. HIDE DEF D, of
<1>7. DOMAIN NewPools = D /\ \A p \in D : NewPools[p] = CreatedFor(of(p))[p]
  BY <1>3
<1>8. IsPools(NewPools)
  <2>1. NewPools = [p \in D |-> NewPools[p]]
    BY <1>3, <1>7
  <2>2. \A p \in D : NewPools[p] \in PoolRecord
    BY <1>5, <1>7
  <2>3. NewPools \in [D -> PoolRecord]
    BY <2>1, <2>2
  <2>. QED BY <1>5, <1>7, <2>3 DEF IsPools
<1>9. AsOnChain(NewPools, DOMAIN NewPools)
  BY <1>5, <1>7, Zenon DEF AsOnChain
<1>10. ASSUME NEW f \in Factories PROVE Span(f) \subseteq D \cup judged
  <2>1. CASE First(f) < Stop(f)
    <3>1. f \in DOMAIN addresses
      BY <1>1, <2>1 DEF AddressInv, Phases
    <3>2. Span(f) \subseteq ToSet(addresses[f]) \cup judged
      BY <3>1 DEF AddressInv, Phases, Missing
    <3>3. DOMAIN CreatedFor(f) = ToSet(addresses[f]) \ invalid
      BY <1>2, <3>1, CreatedForIs
    <3>4. invalid \subseteq judged
      BY DEF TokenInv
    <3>. QED BY <1>6, <3>1, <3>2, <3>3, <3>4
  <2>2. CASE ~ (First(f) < Stop(f))
    <3>1. First(f) \in Nat /\ Stop(f) \in Nat
      BY RangesAre DEF Phases
    <3>2. Span(f) = {}
      BY <2>2, <3>1 DEF Span
    <3>. QED BY <3>2
  <2>. QED BY <2>1, <2>2
<1>. QED BY <1>7, <1>8, <1>9, <1>10

-----------------------------------------------------------------------------
(* The call in progress, step by step                                        *)

\* A call that begins asks what is in question.
LEMMA AsksKeeps ==
  ASSUME IInv, NEW params \in Seq(Requests), Call(params), Asking', Question' = params
  PROVE  CallInv'
<1>1. IInv'
  BY CallKeeps
<1>2. frames' = <<Frame(params)>>
  BY DEF Call
<1>3. Len(frames') = 1 /\ Busy' /\ frames'[1].params = params
  BY <1>2 DEF Busy, Frame
<1>4. Len(frames') <= MaxRetries + 1
  BY <1>3, MaxRetriesAssumption
<1>. QED BY <1>1, <1>3, <1>4, Zenon DEF CallInv, Answered

\* No call, and no answer.
LEMMA QuietKeeps ==
  ASSUME frames' = <<>>, returned' = None, Asking' => Question' \in Seq(Requests)
  PROVE  CallInv'
<1>1. IInv'
  BY NoneKeeps
<1>2. ~ Busy' /\ ~ Answered'
  BY DEF Busy, Answered
<1>3. Len(frames') <= MaxRetries + 1
  BY MaxRetriesAssumption
<1>. QED BY <1>1, <1>2, <1>3, Zenon DEF CallInv

\* Where nothing is asked, nothing is in progress.
LEMMA IdleIsQuiet ==
  ASSUME CallInv, ~ Asking
  PROVE  frames = <<>> /\ returned = None
BY DEF CallInv, Busy

\* The steps of the caller between its calls.
LEMMA IdleKeeps ==
  ASSUME CallInv, ~ Asking, UNCHANGED multicallVars, Asking' => Question' \in Seq(Requests)
  PROVE  CallInv'
<1>1. frames' = <<>> /\ returned' = None
  BY IdleIsQuiet DEF multicallVars
<1>. QED BY <1>1, QuietKeeps

\* What is in question does not change in a call.
LEMMA QuestionStays ==
  ASSUME UNCHANGED <<pc, todo, levels, fresh>>
  PROVE  (Asking' <=> Asking) /\ (Asking => Question' = Question)
<1>1. Asked' = Asked
  BY DEF Asked
<1>2. UpdateParts' = UpdateParts
  BY DEF UpdateParts
<1>. QED BY <1>1, <1>2 DEF Asking, Phases, Question, NumbersParams

\* The steps of a call: what it asks stays, and what it returns are answers to it.
LEMMA CallGoesOn ==
  ASSUME ChainInv, CallInv, MulticallStep \/ NodeReplies \/ LoseConnection
  PROVE  CallInv'
<1>1. UNCHANGED <<pc, todo, levels, fresh>>
  BY DEF MulticallStep, NodeReplies, LoseConnection, workVars
<1>2. (Asking' <=> Asking) /\ (Asking => Question' = Question)
  BY <1>1, QuestionStays
<1>3. IInv /\ Busy /\ Asking /\ frames[1].params = Question
  <2>1. Busy
    BY DEF MulticallStep, NodeReplies, LoseConnection, Retry, Exceeded, HasFailures, PutBack,
           Return, Finished, Disconnected
  <2>. QED BY <2>1 DEF CallInv
<1>4. frames \in Seq(Frames) /\ Len(frames) \in Nat /\ Len(frames) <= MaxRetries + 1
  BY <1>3 DEF CallInv, IInv
<1>5. Question \in Seq(Requests) /\ Question # None
  BY <1>3, NoneAssumption DEF CallInv
<1>6. CASE \/ Busy /\ \E reply \in Replies : CallOne(reply)
           \/ Retry \/ PutBack
  <2>1. IInv'
    BY <1>3, <1>6, CallOneKeeps, RetryKeeps, PutBackKeeps
  <2>2. asked' = asked
    BY <1>3, <1>6, InnerStepUnseen
  <2>3. asked = Question
    BY <1>3 DEF asked
  <2>4. Busy' /\ frames'[1].params = Question
    BY <1>5, <2>2, <2>3 DEF asked
  <2>5. Len(frames') <= MaxRetries + 1
    <3>1. CASE \E reply \in Replies : CallOne(reply)
      <4>1. PICK reply \in Replies : CallOne(reply)
        BY <3>1
      <4>2. frames' = [frames EXCEPT ![Len(frames)].results = @ \o reply]
        BY <4>1 DEF CallOne
      <4>. QED BY <1>4, <4>2
    <3>2. CASE Retry
      <4>. DEFINE idxs == FailedPositions(inner.results)
                  g == [frames EXCEPT ![Len(frames)].retry_idxs = idxs]
                  f == Frame([j \in DOMAIN idxs |-> inner.params[idxs[j]]])
      <4>1. frames' = Append(g, f) /\ Len(frames) <= MaxRetries
        BY <3>2 DEF Retry
      <4>2. Len(g) = Len(frames)
        BY <1>4
      <4>. HIDE DEF g, f
      <4>3. Len(frames') = Len(frames) + 1
        BY <1>4, <4>1, <4>2
      <4>. QED BY <1>4, <4>1, <4>3, MaxRetriesAssumption
    <3>3. CASE PutBack
      <4>. DEFINE n == Len(frames) - 1
                  cut == SubSeq(frames, 1, n)
                  r == Merged(cut[n].results, frames[n].retry_idxs, inner.results)
      <4>1. frames' = [cut EXCEPT ![n].results = r] /\ n \in Nat /\ n > 0
        BY <1>4, <3>3 DEF PutBack
      <4>2. cut \in Seq(Frames) /\ Len(cut) = n
        BY <1>4, <4>1
      <4>. HIDE DEF cut, r
      <4>3. Len(frames') = n
        <5>. HIDE DEF n
        <5>. QED BY <4>1, <4>2
      <4>. QED BY <1>4, <4>3, MaxRetriesAssumption
    <3>. QED BY <1>6, <3>1, <3>2, <3>3
  <2>6. ~ Answered'
    BY <2>4 DEF Answered
  <2>. QED BY <1>2, <1>3, <1>5, <2>1, <2>4, <2>5, <2>6, Zenon DEF CallInv
<1>7. ASSUME frames' = <<>>, Answered' => returned' \in AnswersIn(Question) PROVE CallInv'
  <2>1. IInv' /\ ~ Busy'
    BY <1>7, NoneKeeps DEF Busy
  <2>2. Len(frames') <= MaxRetries + 1
    BY <1>7, MaxRetriesAssumption
  <2>. QED BY <1>2, <1>3, <1>5, <1>7, <2>1, <2>2, Zenon DEF CallInv
<1>8. CASE Exceeded \/ Disconnected
  BY <1>7, <1>8 DEF Exceeded, Disconnected, Answered
<1>9. CASE Return
  <2>1. returned' = inner.results /\ inner = frames[1] /\ frames' = <<>>
    BY <1>9 DEF Return, Finished, inner
  <2>2. inner \in Frames /\ Replied(inner) /\ Complete
    BY <1>3, <1>4, <1>9, <2>1 DEF IInv, Return, Finished, Busy
  <2>3. FailedIn(inner) = {}
    BY <1>3, <1>9 DEF IInv, Return, Finished, Innermost, FailedIn
  <2>4. inner.results \in Seq(AnyReply) /\ DOMAIN inner.results = DOMAIN inner.params
    BY <2>2 DEF Frames, Complete
  <2>5. \A i \in DOMAIN inner.params : inner.results[i] \in Answers[inner.params[i]]
    BY <2>2, <2>3, <2>4 DEF Replied, FailedIn
  <2>6. returned' \in AnswersIn(Question)
    BY <1>3, <2>1, <2>4, <2>5 DEF AnswersIn
  <2>. QED BY <1>7, <2>1, <2>6
<1>10. CASE NodeReplies
  BY <1>3, <1>6, <1>10, NodesReply
<1>11. CASE LoseConnection
  BY <1>8, <1>11 DEF LoseConnection
<1>12. CASE MulticallStep
  BY <1>6, <1>8, <1>9, <1>12 DEF MulticallStep
<1>. QED BY <1>10, <1>11, <1>12

\* Nothing about the call changes.
LEMMA CallStays ==
  ASSUME CallInv, UNCHANGED <<frames, returned, pc, todo, levels, fresh>>
  PROVE  CallInv'
<1>1. (Asking' <=> Asking) /\ (Asking => Question' = Question)
  BY QuestionStays
<1>2. IInv'
  BY DEF CallInv, IInv, Busy, inner
<1>3. (Busy' <=> Busy) /\ (Answered' <=> Answered)
  BY DEF Busy, Answered
<1>. QED BY <1>1, <1>2, <1>3 DEF CallInv

-----------------------------------------------------------------------------
(* The work of a round, step by step                                         *)

\* Between the phases there is no work.
LEMMA IdleWork ==
  ASSUME WorkInv, pc \notin Phases
  PROVE  todo = <<>> /\ levels = <<>> /\ addresses = <<>> /\ tokens = <<>> /\ invalid = {}
BY DEF WorkInv, TodoInv, LevelsInv, AddressInv, TokenInv, Phases

\* A step that ends with no work needs only what is left: histories and numbers.
LEMMA NoWorkKeeps ==
  ASSUME pc' \notin Phases, todo' = <<>>, levels' = <<>>, addresses' = <<>>, tokens' = <<>>,
         invalid' = {}, UnansweredInv', NumberInv'
  PROVE  WorkInv'
<1>1. TodoInv'
  BY DEF TodoInv, Phases
<1>2. LevelsInv'
  BY MaxRetriesAssumption DEF LevelsInv
<1>3. AddressInv'
  BY DEF AddressInv, Phases
<1>4. TokenInv'
  BY DEF TokenInv, Phases
<1>. QED BY <1>1, <1>2, <1>3, <1>4 DEF WorkInv

\* The ranges of a phase stay while it goes on.
LEMMA RangesStay ==
  ASSUME UNCHANGED <<round, pool_numbers, latest>>, (pc' = "excluded") <=> (pc = "excluded")
  PROVE  \A f : First(f)' = First(f) /\ Stop(f)' = Stop(f) /\ Span(f)' = Span(f)
                /\ AddressesOf(f)' = AddressesOf(f)
<1>1. \A f : First(f)' = First(f) /\ Stop(f)' = Stop(f)
  BY DEF First, Stop, FirstExcluded, old_numbers
<1>. QED BY <1>1 DEF Span, AddressesOf

\* Nothing of it changes.
LEMMA WorkStays ==
  ASSUME WorkInv,
         UNCHANGED <<pc, round, pool_numbers, latest, todo, levels, addresses, tokens, invalid,
                     saved_numbers, saved_all_numbers, historyVars>>
  PROVE  WorkInv'
<1>1. \A f : First(f)' = First(f) /\ Stop(f)' = Stop(f) /\ Span(f)' = Span(f)
             /\ AddressesOf(f)' = AddressesOf(f)
  BY RangesStay
<1>2. Left' = Left /\ Missing' = Missing
  BY DEF Left, Missing, historyVars
<1>3. TodoInv'
  BY <1>1 DEF WorkInv, TodoInv
<1>4. LevelsInv'
  BY DEF WorkInv, LevelsInv, LevelParams
<1>5. AddressInv'
  BY <1>1, <1>2 DEF WorkInv, AddressInv
<1>6. TokenInv'
  BY <1>2 DEF WorkInv, TokenInv, historyVars
<1>7. UnansweredInv'
  BY <1>1 DEF WorkInv, UnansweredInv, historyVars
<1>8. NumberInv'
  BY DEF WorkInv, NumberInv
<1>. QED BY <1>3, <1>4, <1>5, <1>6, <1>7, <1>8 DEF WorkInv

\* Zeros are asked for again, one level down.
LEMMA AskZerosAgainKeeps ==
  ASSUME CallInv, WorkInv, AskZerosAgain
  PROVE  WorkInv' /\ CallInv'
<1>. DEFINE n == Len(levels)
            Rows == [params : Seq(Requests), decoded : Seq(AnyReply), idxs : Seq(Nat)]
            z == ZeroPositions(returned)
            p == [j \in DOMAIN z |-> Asked[z[j]]]
            row == [params |-> Asked, decoded |-> returned, idxs |-> z]
<1>1. /\ UNCHANGED <<pc, round, pool_numbers, latest, todo, addresses, tokens, invalid,
                     saved_numbers, saved_all_numbers, historyVars, fresh>>
      /\ pc \in Phases /\ Answered /\ ~ GivesUp /\ HasZeros
      /\ levels' = Append(levels, row)
  BY DEF AskZerosAgain, ThisLevel, Phases, mainVars, fileVars
<1>2. Call(p)
  BY DEF AskZerosAgain, ThisLevel
<1>3. Asking /\ todo # <<>> /\ returned \in AnswersIn(Asked)
  BY <1>1 DEF CallInv, Asking, Question, Answered, Phases
<1>4. /\ n \in Nat /\ DOMAIN levels = 1..n /\ Asked = LevelParams(n + 1)
      /\ Asked \in Seq(Requests)
  BY <1>3, LevelsAre DEF WorkInv
<1>5. returned \in Seq(AnyReply) /\ DOMAIN returned = DOMAIN Asked
  BY <1>3 DEF AnswersIn
<1>6. z \in Seq(Nat) /\ \A j \in DOMAIN z : z[j] \in DOMAIN Asked
  BY <1>5, ZeroPositionsAre
<1>. HIDE DEF z
<1>7. p \in Seq(Requests)
  <2>1. DOMAIN z = 1..Len(z) /\ Len(z) \in Nat
    BY <1>6
  <2>2. \A i \in DOMAIN Asked : Asked[i] \in Requests
    BY <1>4
  <2>3. p \in [1..Len(z) -> Requests]
    BY <1>6, <2>1, <2>2
  <2>. QED BY <2>1, <2>3, IsASeq
<1>8. row \in Rows
  BY <1>4, <1>5, <1>6
<1>9. levels \in Seq(Rows) /\ n <= MaxRetries
  BY DEF WorkInv, LevelsInv
<1>10. n < MaxRetries
  <2>1. n # MaxRetries
    BY <1>1, Zenon DEF GivesUp
  <2>. HIDE DEF n
  <2>. QED BY <1>4, <1>9, <2>1, MaxRetriesAssumption
<1>. HIDE DEF row, Rows
<1>11. /\ levels' \in Seq(Rows) /\ Len(levels') = n + 1 /\ DOMAIN levels' = 1..(n + 1)
       /\ levels'[n + 1] = row /\ \A k \in 1..n : levels'[k] = levels[k]
  BY <1>1, <1>4, <1>8, <1>9
<1>12. \A k \in 1..(n + 1) : LevelParams(k)' = LevelParams(k)
  <2>1. ASSUME NEW k \in 1..(n + 1) PROVE LevelParams(k)' = LevelParams(k)
    <3>1. k = 1 \/ (k # 1 /\ k - 1 \in 1..n)
      BY <1>4
    <3>2. CASE k = 1
      BY <1>1, <3>2 DEF LevelParams
    <3>3. CASE k # 1 /\ k - 1 \in 1..n
      <4>1. levels'[k - 1] = levels[k - 1]
        BY <1>11, <3>3
      <4>. QED BY <3>3, <4>1 DEF LevelParams
    <3>. QED BY <3>1, <3>2, <3>3
  <2>. QED BY <2>1
<1>13. LevelsInv'
  <2>1. ASSUME NEW k \in 1..(n + 1)
        PROVE  /\ levels'[k].params = LevelParams(k)
               /\ levels'[k].decoded \in AnswersIn(levels'[k].params)
               /\ levels'[k].idxs = ZeroPositions(levels'[k].decoded)
    <3>1. k = n + 1 \/ k \in 1..n
      BY <1>4
    <3>2. CASE k = n + 1
      <4>1. levels'[k] = row
        BY <1>11, <3>2
      <4>2. row.params = Asked /\ row.decoded = returned /\ row.idxs = ZeroPositions(returned)
        BY DEF row, z
      <4>. QED BY <1>3, <1>4, <3>2, <4>1, <4>2
    <3>3. CASE k \in 1..n
      <4>1. levels'[k] = levels[k] /\ k \in DOMAIN levels
        BY <1>4, <1>11, <3>3
      <4>. QED BY <4>1 DEF WorkInv, LevelsInv
    <3>. QED BY <3>1, <3>2, <3>3
  <2>2. \A k \in DOMAIN levels' :
          /\ levels'[k].params = LevelParams(k)'
          /\ levels'[k].decoded \in AnswersIn(levels'[k].params)
          /\ levels'[k].idxs = ZeroPositions(levels'[k].decoded)
    BY <1>11, <1>12, <2>1
  <2>3. Len(levels') <= MaxRetries
    BY <1>4, <1>10, <1>11, MaxRetriesAssumption
  <2>. QED BY <1>1, <1>3, <1>11, <2>2, <2>3 DEF LevelsInv, Rows
<1>14. \A f : First(f)' = First(f) /\ Stop(f)' = Stop(f) /\ Span(f)' = Span(f)
              /\ AddressesOf(f)' = AddressesOf(f)
  BY <1>1, RangesStay
<1>15. Left' = Left /\ Missing' = Missing
  BY <1>1 DEF Left, Missing, historyVars
<1>16. TodoInv' /\ AddressInv' /\ TokenInv' /\ UnansweredInv' /\ NumberInv'
  <2>1. TodoInv'
    BY <1>1, <1>14 DEF WorkInv, TodoInv
  <2>2. AddressInv'
    BY <1>1, <1>14, <1>15 DEF WorkInv, AddressInv
  <2>3. TokenInv'
    BY <1>1, <1>15 DEF WorkInv, TokenInv, historyVars
  <2>4. UnansweredInv'
    BY <1>1, <1>14 DEF WorkInv, UnansweredInv, historyVars
  <2>5. NumberInv'
    BY <1>1 DEF WorkInv, NumberInv
  <2>. QED BY <2>1, <2>2, <2>3, <2>4, <2>5
<1>17. CallInv'
  <2>1. Asking'
    BY <1>1, <1>3 DEF Asking, Phases
  <2>2. Asked' = p
    <3>1. levels' # <<>> /\ levels'[Len(levels')] = row
      BY <1>4, <1>11
    <3>2. row.idxs = z /\ row.params = Asked
      BY DEF row
    <3>. HIDE DEF p
    <3>3. Asked' = [j \in DOMAIN row.idxs |-> row.params[row.idxs[j]]]
      BY <3>1 DEF Asked
    <3>. QED BY <3>2, <3>3, Zenon DEF p
  <2>3. Question' = p
    BY <1>1, <2>2 DEF Question, Phases
  <2>. HIDE DEF p
  <2>. QED BY <1>2, <1>7, <2>1, <2>3, AsksKeeps DEF CallInv
<1>. QED BY <1>13, <1>16, <1>17 DEF WorkInv

\* The factory whose turn it is goes, the others stay.
LEMMA TailIs ==
  ASSUME TodoInv, todo # <<>>, todo' = Tail(todo)
  PROVE  /\ todo[1] \in Factories \X Seq(Requests) /\ todo[1][1] \in Left /\ 1 \in DOMAIN todo
         /\ todo' \in Seq(Factories \X Seq(Requests))
         /\ \A n \in DOMAIN todo' : n + 1 \in DOMAIN todo /\ todo'[n] = todo[n + 1]
         /\ \A m, n \in DOMAIN todo' : todo'[m][1] = todo'[n][1] => m = n
         /\ Left' = Left \ {todo[1][1]}
         /\ \A n \in DOMAIN todo' : todo'[n][1] # todo[1][1]
<1>. DEFINE T == Factories \X Seq(Requests)
            k == Len(todo)
<1>1. todo \in Seq(T) /\ k \in Nat /\ k > 0 /\ DOMAIN todo = 1..k /\ todo[1] \in T
  BY DEF TodoInv
<1>2. /\ todo' \in Seq(T) /\ DOMAIN todo' = 1..(k - 1)
      /\ \A n \in 1..(k - 1) : todo'[n] = todo[n + 1]
  <2>. HIDE DEF T
  <2>. QED BY <1>1
<1>. HIDE DEF T, k
<1>3. \A m, n \in 1..k : todo[m][1] = todo[n][1] => m = n
  BY <1>1, Zenon DEF TodoInv
<1>4. \A n \in 1..(k - 1) : n + 1 \in 1..k /\ n + 1 # 1 /\ 1 \in 1..k
  BY <1>1
<1>5. \A m, n \in 1..(k - 1) : todo'[m][1] = todo'[n][1] => m = n
  BY <1>1, <1>2, <1>3, <1>4
<1>6. \A n \in 1..(k - 1) : todo'[n][1] # todo[1][1]
  BY <1>2, <1>3, <1>4
<1>7. Left' = Left \ {todo[1][1]}
  <2>1. ASSUME NEW n \in 1..k, todo[n][1] # todo[1][1]
        PROVE  \E m \in 1..(k - 1) : todo'[m][1] = todo[n][1]
    <3>1. n - 1 \in 1..(k - 1) /\ n - 1 + 1 = n
      BY <1>1, <2>1
    <3>2. todo'[n - 1] = todo[n]
      BY <1>2, <3>1
    <3>. QED BY <3>1, <3>2
  <2>2. \A n \in 1..(k - 1) : \E m \in 1..k : todo'[n][1] = todo[m][1]
    BY <1>2, <1>4
  <2>3. Left' = {todo'[n][1] : n \in 1..(k - 1)} /\ Left = {todo[n][1] : n \in 1..k}
    BY <1>1, <1>2 DEF Left
  <2>4. ASSUME NEW x \in Left' PROVE x \in Left \ {todo[1][1]}
    <3>1. PICK n \in 1..(k - 1) : x = todo'[n][1]
      BY <2>3
    <3>2. x # todo[1][1]
      BY <1>6, <3>1
    <3>. QED BY <2>2, <2>3, <3>1, <3>2
  <2>5. ASSUME NEW x \in Left \ {todo[1][1]} PROVE x \in Left'
    <3>1. PICK n \in 1..k : x = todo[n][1]
      BY <2>3
    <3>. QED BY <2>1, <2>3, <3>1
  <2>. QED BY <2>4, <2>5
<1>8. todo[1][1] \in Left /\ 1 \in DOMAIN todo
  BY <1>1 DEF Left
<1>. QED BY <1>1, <1>2, <1>4, <1>5, <1>6, <1>7, <1>8 DEF T

\* A pair is asked for by its own request.
LEMMA PairAnswers ==
  ASSUME NumberInv, pc \in Phases, NEW f \in Factories
  PROVE  /\ IsInjective(AddressesOf(f))
         /\ \A q \in ToSet(AddressesOf(f)) :
              /\ Pairs[q[2]][q[3] + 1] \in Span(f)
              /\ Answers[q] \ {Zero} = {Pairs[q[2]][q[3] + 1]}
         /\ \A p \in Span(f) : \E q \in ToSet(AddressesOf(f)) : p = Pairs[q[2]][q[3] + 1]
         /\ \A q, r \in ToSet(AddressesOf(f)) :
              Pairs[q[2]][q[3] + 1] = Pairs[r[2]][r[3] + 1] => q = r
<1>. DEFINE a == First(f)
            b == Stop(f)
            s == AddressesOf(f)
            req(n) == <<"allPairs", f, a + n - 1>>
<1>1. /\ a \in Nat /\ b \in Nat /\ b <= Len(Pairs[f])
      /\ \A i \in (a + 1)..b : i \in DOMAIN Pairs[f]
      /\ s = [n \in 1..(b - a) |-> req(n)]
  <2>1. s = AddressRange(f, a, b)
    BY RangesAre
  <2>. QED BY <2>1, RangesAre DEF AddressRange
<1>2. DOMAIN s = 1..(b - a) /\ \A n \in 1..(b - a) : s[n] = req(n)
  BY <1>1
<1>3. \A n \in 1..(b - a) :
        /\ req(n)[1] = "allPairs" /\ req(n)[2] = f /\ req(n)[3] = a + n - 1
        /\ a + n \in (a + 1)..b /\ a + n - 1 + 1 = a + n /\ a + n \in DOMAIN Pairs[f]
  BY <1>1
<1>4. IsInjective(s)
  <2>1. ASSUME NEW m \in 1..(b - a), NEW n \in 1..(b - a), s[m] = s[n] PROVE m = n
    <3>1. req(m)[3] = req(n)[3]
      BY <1>2, <2>1
    <3>. QED BY <1>1, <1>3, <3>1
  <2>. QED BY <1>2, <2>1 DEF IsInjective
<1>5. ASSUME NEW n \in 1..(b - a)
      PROVE  /\ Pairs[f][a + n] \in Span(f) /\ Pairs[f][a + n] \in Pools
             /\ Answers[req(n)] \ {Zero} = {Pairs[f][a + n]}
             /\ Pairs[req(n)[2]][req(n)[3] + 1] = Pairs[f][a + n]
  <2>. DEFINE k == a + n
  <2>1. k \in DOMAIN Pairs[f] /\ k \in (a + 1)..b /\ k - 1 = a + n - 1
    BY <1>1, <1>3
  <2>2. Pairs[req(n)[2]][req(n)[3] + 1] = Pairs[f][k]
    BY <1>3
  <2>. HIDE DEF k, a, b
  <2>3. Pairs[f][k] \in Span(f)
    BY <2>1 DEF Span, a, b
  <2>4. Pairs[f][k] \in Pools
    BY <2>1, PairsAssumption
  <2>5. Answers[<<"allPairs", f, k - 1>>] = {Zero, Pairs[f][k]}
    BY <2>1, NodesAssumption
  <2>6. Answers[req(n)] \ {Zero} = {Pairs[f][k]}
    BY <2>1, <2>4, <2>5, PairsAssumption
  <2>. QED BY <2>2, <2>3, <2>4, <2>6 DEF k
<1>. HIDE DEF req, s
<1>6. ASSUME NEW q \in ToSet(s)
      PROVE  \E n \in 1..(b - a) : q = req(n)
  BY <1>2 DEF ToSet
<1>7. \A n \in 1..(b - a) : req(n) \in ToSet(s)
  BY <1>2 DEF ToSet
<1>8. ASSUME NEW p \in Span(f)
      PROVE  \E q \in ToSet(s) : p = Pairs[q[2]][q[3] + 1]
  <2>1. PICK i \in (a + 1)..b : p = Pairs[f][i]
    BY DEF Span
  <2>2. i - a \in 1..(b - a) /\ a + (i - a) = i
    BY <1>1
  <2>. QED BY <1>5, <1>7, <2>1, <2>2
<1>9. ASSUME NEW q \in ToSet(s), NEW r \in ToSet(s),
             Pairs[q[2]][q[3] + 1] = Pairs[r[2]][r[3] + 1]
      PROVE  q = r
  <2>1. PICK m \in 1..(b - a) : q = req(m)
    BY <1>6
  <2>2. PICK n \in 1..(b - a) : r = req(n)
    BY <1>6
  <2>3. Pairs[f][a + m] = Pairs[f][a + n]
    BY <1>5, <1>9, <2>1, <2>2
  <2>4. a + m = a + n
    BY <1>3, <2>3, PairsAssumption
  <2>5. m = n
    BY <1>1, <2>4
  <2>. QED BY <2>1, <2>2, <2>5
<1>. QED BY <1>4, <1>5, <1>6, <1>8, <1>9 DEF s

\* The pairs that the nodes gave no address for.
Lost == {Pairs[r[2]][r[3] + 1] : r \in StillZero}

\* The addresses of the range of a factory are found, but for what stays zero.
LEMMA AddressesFound ==
  ASSUME CallInv, WorkInv, pc \in {"addresses", "excluded"}, Answered
  PROVE  /\ todo # <<>> /\ todo[1][1] \in Factories \ DOMAIN addresses
         /\ AllAddresses \in Seq(Pools)
         /\ ToSet(AllAddresses) \subseteq Span(todo[1][1])
         /\ Span(todo[1][1]) \subseteq ToSet(AllAddresses) \cup Lost
         /\ Lost \subseteq Span(todo[1][1]) \ ToSet(AllAddresses)
<1>. DEFINE f == todo[1][1]
            s == AddressesOf(f)
            A == AllAddresses
            pair(q) == Pairs[q[2]][q[3] + 1]
<1>1. Asking /\ todo # <<>> /\ returned \in AnswersIn(Asked) /\ pc \in Phases
  BY DEF CallInv, Asking, Question, Answered, Phases
<1>2. todo[1][2] = s /\ f \in Factories /\ f \in Left
  BY <1>1 DEF WorkInv, TodoInv, Left
<1>3. f \notin DOMAIN addresses
  BY <1>2 DEF WorkInv, AddressInv
<1>4. /\ IsInjective(s)
      /\ \A q \in ToSet(s) : pair(q) \in Span(f) /\ Answers[q] \ {Zero} = {pair(q)}
      /\ \A p \in Span(f) : \E q \in ToSet(s) : p = pair(q)
      /\ \A q, r \in ToSet(s) : pair(q) = pair(r) => q = r
  BY <1>1, <1>2, PairAnswers DEF WorkInv
<1>5. A \in Seq(AnyReply) /\ Answering(ToSet(A), ToSet(s), StillZero)
  BY <1>1, <1>2, <1>4, AllAddressesIs DEF WorkInv
<1>6. Lost = {pair(r) : r \in StillZero}
  BY DEF Lost
<1>. HIDE DEF s, A, pair, f
<1>7. ASSUME NEW x \in ToSet(A) PROVE \E q \in ToSet(s) \ StillZero : x = pair(q)
  BY <1>4, <1>5 DEF Answering
<1>8. ASSUME NEW q \in ToSet(s) \ StillZero PROVE pair(q) \in ToSet(A)
  BY <1>4, <1>5 DEF Answering
<1>9. StillZero \subseteq ToSet(s)
  BY <1>5 DEF Answering
<1>10. ToSet(A) \subseteq Span(f)
  BY <1>4, <1>7
<1>11. Span(f) \subseteq ToSet(A) \cup Lost
  BY <1>4, <1>6, <1>8
<1>12. Lost \subseteq Span(f) \ ToSet(A)
  <2>1. ASSUME NEW r \in StillZero PROVE pair(r) \in Span(f) /\ pair(r) \notin ToSet(A)
    BY <1>4, <1>7, <1>9
  <2>. QED BY <1>6, <2>1
<1>13. A \in Seq(Pools)
  <2>1. Span(f) \subseteq Pools
    BY <1>1, <1>2, RangesAre DEF WorkInv, f
  <2>2. DOMAIN A = 1..Len(A) /\ Len(A) \in Nat /\ A = [i \in 1..Len(A) |-> A[i]]
    BY <1>5
  <2>3. \A i \in 1..Len(A) : A[i] \in Pools
    BY <1>10, <2>1, <2>2 DEF ToSet
  <2>4. A \in [1..Len(A) -> Pools]
    BY <2>2, <2>3
  <2>. QED BY <2>2, <2>4, IsASeq
<1>. QED BY <1>1, <1>2, <1>3, <1>10, <1>11, <1>12, <1>13 DEF f, A

\* A factory's addresses are found; the next one's turn comes.
LEMMA GetPoolAddressesKeeps ==
  ASSUME CallInv, WorkInv, GetPoolAddresses
  PROVE  WorkInv' /\ CallInv'
<1>. DEFINE f == todo[1][1]
            A == AllAddresses
<1>1. /\ UNCHANGED <<pc, round, pool_numbers, latest, tokens, invalid, fresh,
                     saved_numbers, saved_all_numbers>>
      /\ pc \in {"addresses", "excluded"} /\ pc \in Phases /\ Answered
      /\ todo' = Tail(todo) /\ levels' = <<>> /\ frames' = <<>> /\ returned' = None
      /\ addresses' = Updated(addresses, [g \in {f} |-> A])
      /\ pc = "addresses" => judged' = judged \cup Lost /\ unanswered' = unanswered
      /\ pc = "excluded" => judged' = judged /\ unanswered' = unanswered \cup Lost
  BY DEF GetPoolAddresses, NextFactory, FactoryDone, Forget, Phases, mainVars, fileVars, Lost
<1>2. /\ todo # <<>> /\ f \in Factories \ DOMAIN addresses
      /\ A \in Seq(Pools) /\ ToSet(A) \subseteq Span(f)
      /\ Span(f) \subseteq ToSet(A) \cup Lost /\ Lost \subseteq Span(f) \ ToSet(A)
  BY <1>1, AddressesFound
<1>3. /\ todo' \in Seq(Factories \X Seq(Requests))
      /\ \A n \in DOMAIN todo' : n + 1 \in DOMAIN todo /\ todo'[n] = todo[n + 1]
      /\ \A m, n \in DOMAIN todo' : todo'[m][1] = todo'[n][1] => m = n
      /\ Left' = Left \ {f} /\ \A n \in DOMAIN todo' : todo'[n][1] # f
  BY <1>1, <1>2, TailIs DEF WorkInv
<1>4. \A g : First(g)' = First(g) /\ Stop(g)' = Stop(g) /\ Span(g)' = Span(g)
             /\ AddressesOf(g)' = AddressesOf(g)
  BY <1>1, RangesStay
<1>. HIDE DEF f, A
<1>5. /\ DOMAIN addresses' = DOMAIN addresses \cup {f} /\ addresses'[f] = A
      /\ \A g \in DOMAIN addresses : addresses'[g] = addresses[g]
  BY <1>1, <1>2 DEF Updated
<1>6. TodoInv'
  <2>1. \A n \in DOMAIN todo' : /\ First(todo'[n][1]) < Stop(todo'[n][1])
                                /\ todo'[n][2] = AddressesOf(todo'[n][1])
    BY <1>1, <1>3 DEF WorkInv, TodoInv
  <2>2. \A n \in DOMAIN todo' : \A g : g = todo'[n][1] =>
          First(g)' < Stop(g)' /\ todo'[n][2] = AddressesOf(g)'
    BY <1>4, <2>1
  <2>. QED BY <1>1, <1>3, <2>2 DEF TodoInv
<1>7. LevelsInv'
  BY <1>1, MaxRetriesAssumption DEF LevelsInv
<1>8. Missing \subseteq Missing' /\ Lost \subseteq Missing'
  BY <1>1 DEF Missing
<1>9. AddressInv'
  <2>1. DOMAIN addresses' \subseteq Factories /\ \A g \in DOMAIN addresses' : addresses'[g] \in Seq(Pools)
    BY <1>2, <1>5 DEF WorkInv, AddressInv
  <2>2. \A g \in Factories : First(g)' < Stop(g)' => g \in DOMAIN addresses' \cup Left'
    BY <1>1, <1>3, <1>4, <1>5 DEF WorkInv, AddressInv
  <2>3. \A g \in DOMAIN addresses' :
          ToSet(addresses'[g]) \subseteq Span(g) /\ Span(g) \subseteq ToSet(addresses'[g]) \cup Missing'
    <3>1. \A g \in DOMAIN addresses :
            ToSet(addresses[g]) \subseteq Span(g) /\ Span(g) \subseteq ToSet(addresses[g]) \cup Missing
      BY <1>1 DEF WorkInv, AddressInv
    <3>. QED BY <1>2, <1>5, <1>8, <3>1
  <2>4. Left' \cap DOMAIN addresses' = {}
    BY <1>1, <1>3, <1>5 DEF WorkInv, AddressInv
  <2>5. \A g \in DOMAIN addresses' :
          /\ ToSet(addresses'[g]) \subseteq Span(g)'
          /\ Span(g)' \subseteq ToSet(addresses'[g]) \cup Missing'
    BY <1>4, <2>3
  <2>. QED BY <1>1, <2>1, <2>2, <2>4, <2>5 DEF AddressInv
<1>10. TokenInv'
  <2>1. tokens' = <<>> /\ invalid' = {} /\ pc' # "tokens"
    BY <1>1 DEF WorkInv, TokenInv
  <2>. QED BY <2>1 DEF TokenInv
<1>11. UnansweredInv'
  <2>1. pc = "excluded" => round # "all"
    BY DEF WorkInv, NumberInv
  <2>2. pc = "excluded" =>
          \A p \in unanswered' : \E g \in DOMAIN addresses' : p \in Span(g) \ ToSet(addresses'[g])
    BY <1>1, <1>2, <1>5 DEF WorkInv, UnansweredInv
  <2>3. pc = "excluded" =>
          \A p \in unanswered' : \E g \in DOMAIN addresses' : p \in Span(g)' \ ToSet(addresses'[g])
    BY <1>4, <2>2
  <2>4. pc # "excluded" => unanswered' = {}
    BY <1>1 DEF WorkInv, UnansweredInv
  <2>. QED BY <1>1, <2>1, <2>3, <2>4 DEF UnansweredInv
<1>12. NumberInv'
  BY <1>1 DEF WorkInv, NumberInv
<1>13. CallInv'
  <2>1. ASSUME Asking' PROVE Question' \in Seq(Requests)
    <3>1. todo' # <<>>
      BY <1>1, <2>1 DEF Asking, Phases
    <3>2. todo'[1][2] \in Seq(Requests)
      BY <1>3, <3>1
    <3>3. Question' = todo'[1][2]
      BY <1>1 DEF Question, Asked, Phases
    <3>. QED BY <3>2, <3>3
  <2>. QED BY <1>1, <2>1, QuietKeeps
<1>. QED BY <1>6, <1>7, <1>9, <1>10, <1>11, <1>12, <1>13 DEF WorkInv

\* A factory's tokens are found; the pools of those that stay zero are invalid.
LEMMA GetTokensKeeps ==
  ASSUME CallInv, WorkInv, GetTokens
  PROVE  WorkInv' /\ CallInv'
<1>. DEFINE f == todo[1][1]
            T == AllTokens
            found == addresses[f]
            lost == {r[2] : r \in StillZero}
<1>1. /\ UNCHANGED <<pc, round, pool_numbers, latest, addresses, fresh, unanswered,
                     saved_numbers, saved_all_numbers>>
      /\ pc = "tokens" /\ pc \in Phases /\ Answered
      /\ todo' = Tail(todo) /\ levels' = <<>> /\ frames' = <<>> /\ returned' = None
      /\ tokens' = Updated(tokens, [g \in {f} |-> T])
      /\ invalid' = invalid \cup lost /\ judged' = judged \cup lost
  BY DEF GetTokens, NextFactory, FactoryDone, Forget, Phases, mainVars, fileVars
<1>2. Asking /\ todo # <<>> /\ returned \in AnswersIn(Asked)
  BY <1>1 DEF CallInv, Asking, Question, Answered, Phases
<1>3. todo[1][2] = TokenParams(found) /\ f \in DOMAIN addresses \ DOMAIN tokens
  BY <1>1, <1>2 DEF WorkInv, TodoInv
<1>4. T \in AnswersIn(TokenParams(found)) /\ \A i \in DOMAIN TokenParams(found) :
         T[i] = Zero => TokenParams(found)[i] \in StillZero
  BY <1>2, <1>3, AllTokensIs DEF WorkInv, AnsweredBut
<1>5. found \in Seq(Pools)
  BY <1>3 DEF WorkInv, AddressInv
<1>6. \A j \in DOMAIN T : T[j] = Zero => found[(j + 1) \div 2] \in lost
  <2>1. /\ DOMAIN TokenParams(found) = 1..(2 * Len(found))
        /\ \A n \in 1..(2 * Len(found)) : TokenParams(found)[n][2] = found[(n + 1) \div 2]
    BY <1>5, TokenParamsIs
  <2>2. DOMAIN T = DOMAIN TokenParams(found)
    BY <1>4 DEF AnswersIn
  <2>. DEFINE t == TokenParams(found)
  <2>3. \A n \in DOMAIN t : t[n] \in StillZero => t[n][2] \in lost
    OBVIOUS
  <2>. HIDE DEF T, found, lost, t
  <2>4. \A n \in DOMAIN t : T[n] = Zero => t[n][2] \in lost
    BY <1>4, <2>3 DEF t
  <2>. QED BY <2>1, <2>2, <2>4 DEF t
<1>7. /\ todo' \in Seq(Factories \X Seq(Requests))
      /\ \A n \in DOMAIN todo' : n + 1 \in DOMAIN todo /\ todo'[n] = todo[n + 1]
      /\ \A m, n \in DOMAIN todo' : todo'[m][1] = todo'[n][1] => m = n
      /\ Left' = Left \ {f} /\ \A n \in DOMAIN todo' : todo'[n][1] # f
  BY <1>1, <1>2, TailIs DEF WorkInv
<1>8. \A g : First(g)' = First(g) /\ Stop(g)' = Stop(g) /\ Span(g)' = Span(g)
             /\ AddressesOf(g)' = AddressesOf(g)
  BY <1>1, RangesStay
<1>. HIDE DEF f, T, lost, found
<1>9. /\ DOMAIN tokens' = DOMAIN tokens \cup {f} /\ tokens'[f] = T
      /\ \A g \in DOMAIN tokens : tokens'[g] = tokens[g]
  BY <1>1, <1>3 DEF Updated
<1>10. TodoInv'
  <2>1. \A n \in DOMAIN todo' : /\ todo'[n][1] \in DOMAIN addresses \ DOMAIN tokens'
                                /\ todo'[n][2] = TokenParams(addresses[todo'[n][1]])
    BY <1>1, <1>7, <1>9 DEF WorkInv, TodoInv
  <2>. QED BY <1>1, <1>7, <2>1 DEF TodoInv
<1>11. LevelsInv'
  BY <1>1, MaxRetriesAssumption DEF LevelsInv
<1>12. AddressInv'
  <2>1. Missing \subseteq Missing'
    BY <1>1 DEF Missing
  <2>2. \A g \in Factories : First(g) < Stop(g) => g \in DOMAIN addresses
    BY <1>1 DEF WorkInv, AddressInv, TodoInv, Left
  <2>3. \A g \in Factories : First(g)' < Stop(g)' => g \in DOMAIN addresses
    BY <1>8, <2>2
  <2>4. \A g \in DOMAIN addresses :
          ToSet(addresses[g]) \subseteq Span(g) /\ Span(g) \subseteq ToSet(addresses[g]) \cup Missing
    BY <1>1 DEF WorkInv, AddressInv
  <2>5. \A g \in DOMAIN addresses :
          /\ ToSet(addresses[g]) \subseteq Span(g)'
          /\ Span(g)' \subseteq ToSet(addresses[g]) \cup Missing'
    BY <1>8, <2>1, <2>4
  <2>6. DOMAIN addresses \subseteq Factories /\ \A g \in DOMAIN addresses : addresses[g] \in Seq(Pools)
    BY DEF WorkInv, AddressInv
  <2>. QED BY <1>1, <2>3, <2>5, <2>6 DEF AddressInv
<1>13. TokenInv'
  <2>1. DOMAIN tokens' \subseteq DOMAIN addresses
    BY <1>3, <1>9 DEF WorkInv, TokenInv
  <2>2. invalid' \subseteq judged'
    BY <1>1 DEF WorkInv, TokenInv
  <2>3. DOMAIN addresses \subseteq DOMAIN tokens' \cup Left'
    BY <1>1, <1>7, <1>9 DEF WorkInv, TokenInv
  <2>4. ASSUME NEW g \in DOMAIN tokens'
        PROVE  /\ tokens'[g] \in AnswersIn(TokenParams(addresses[g]))
               /\ \A j \in DOMAIN tokens'[g] :
                    tokens'[g][j] = Zero => addresses[g][(j + 1) \div 2] \in invalid'
    <3>1. CASE g = f
      <4>1. tokens'[g] = T /\ addresses[g] = found
        BY <1>9, <3>1 DEF found
      <4>. QED BY <1>1, <1>4, <1>6, <4>1
    <3>2. CASE g \in DOMAIN tokens
      <4>1. tokens'[g] = tokens[g]
        BY <1>9, <3>2
      <4>. QED BY <1>1, <3>2, <4>1 DEF WorkInv, TokenInv
    <3>. QED BY <1>9, <3>1, <3>2
  <2>. QED BY <1>1, <2>1, <2>2, <2>3, <2>4 DEF TokenInv
<1>14. UnansweredInv'
  BY <1>1 DEF WorkInv, UnansweredInv
<1>15. NumberInv'
  BY <1>1 DEF WorkInv, NumberInv
<1>16. CallInv'
  <2>1. ASSUME Asking' PROVE Question' \in Seq(Requests)
    <3>1. todo' # <<>>
      BY <1>1, <2>1 DEF Asking, Phases
    <3>2. todo'[1][2] \in Seq(Requests)
      BY <1>7, <3>1
    <3>3. Question' = todo'[1][2]
      BY <1>1 DEF Question, Asked, Phases
    <3>. QED BY <3>2, <3>3
  <2>. QED BY <1>1, <2>1, QuietKeeps
<1>. QED BY <1>10, <1>11, <1>12, <1>13, <1>14, <1>15, <1>16 DEF WorkInv

\* The tokens of the pools are asked for once all their addresses are there.
LEMMA PrepareTokensParamsKeeps ==
  ASSUME CallInv, WorkInv, PrepareTokensParams
  PROVE  WorkInv' /\ CallInv'
<1>. DEFINE queue == Kept(FactorySeq, DOMAIN addresses)
            D == DOMAIN addresses
<1>1. /\ UNCHANGED <<round, pool_numbers, latest, levels, addresses, tokens, invalid, fresh,
                     saved_numbers, saved_all_numbers, historyVars, multicallVars>>
      /\ pc = "addresses" /\ pc' = "tokens" /\ todo = <<>>
      /\ todo' = [n \in DOMAIN queue |-> <<queue[n], TokenParams(addresses[queue[n]])>>]
  BY DEF PrepareTokensParams, mainVars, fileVars
<1>2. D \subseteq Factories /\ \A f \in D : addresses[f] \in Seq(Pools)
  BY DEF WorkInv, AddressInv
<1>3. queue \in Seq(Factories) /\ ToSet(queue) = Factories \cap D /\ IsInjective(queue)
  BY FactoriesListed, KeptIs
<1>4. /\ \A n \in DOMAIN queue : queue[n] \in D
      /\ \A f \in D : \E n \in DOMAIN queue : queue[n] = f
      /\ \A m, n \in DOMAIN queue : queue[m] = queue[n] => m = n
      /\ DOMAIN queue = 1..Len(queue) /\ Len(queue) \in Nat
  BY <1>2, <1>3 DEF ToSet, IsInjective
<1>. HIDE DEF queue
<1>5. DOMAIN todo' = DOMAIN queue
      /\ \A n \in DOMAIN queue : todo'[n] = <<queue[n], TokenParams(addresses[queue[n]])>>
  BY <1>1
<1>6. todo' \in Seq(Factories \X Seq(Requests))
  <2>1. ASSUME NEW n \in 1..Len(queue) PROVE todo'[n] \in Factories \X Seq(Requests)
    <3>. DEFINE found == addresses[queue[n]]
    <3>1. queue[n] \in Factories /\ found \in Seq(Pools)
      BY <1>2, <1>4
    <3>2. todo'[n] = <<queue[n], TokenParams(found)>>
      BY <1>4, <1>5
    <3>. HIDE DEF found
    <3>3. TokenParams(found) \in Seq(Requests)
      BY <3>1, TokenParamsIs
    <3>. QED BY <3>1, <3>2, <3>3
  <2>2. todo' \in [1..Len(queue) -> Factories \X Seq(Requests)]
    BY <1>1, <1>4, <2>1
  <2>. QED BY <1>4, <2>2, IsASeq
<1>7. \A n \in DOMAIN todo' : todo'[n][1] = queue[n]
        /\ todo'[n][2] = TokenParams(addresses[queue[n]])
  BY <1>5
<1>8. levels = <<>> /\ tokens = <<>> /\ invalid = {} /\ Left = {}
  BY <1>1 DEF WorkInv, LevelsInv, TokenInv, Left
<1>9. Left' = D
  <2>1. Left' = {queue[n] : n \in DOMAIN queue}
    BY <1>5, <1>7 DEF Left
  <2>. QED BY <1>4, <2>1
<1>10. TodoInv'
  <2>1. \A m, n \in DOMAIN todo' : todo'[m][1] = todo'[n][1] => m = n
    BY <1>4, <1>5, <1>7
  <2>2. \A n \in DOMAIN todo' :
          /\ todo'[n][1] \in DOMAIN addresses \ DOMAIN tokens
          /\ todo'[n][2] = TokenParams(addresses[todo'[n][1]])
    BY <1>4, <1>5, <1>7, <1>8
  <2>. QED BY <1>1, <1>6, <2>1, <2>2 DEF TodoInv, Phases
<1>11. LevelsInv'
  BY <1>1, <1>8, MaxRetriesAssumption DEF LevelsInv
<1>12. \A f : First(f)' = First(f) /\ Stop(f)' = Stop(f) /\ Span(f)' = Span(f)
  BY <1>1, RangesStay
<1>13. AddressInv'
  <2>1. \A f \in Factories : First(f) < Stop(f) => f \in D
    BY <1>1, <1>8 DEF WorkInv, AddressInv, Phases
  <2>2. \A f \in D : ToSet(addresses[f]) \subseteq Span(f)
                     /\ Span(f) \subseteq ToSet(addresses[f]) \cup judged
    BY <1>1 DEF WorkInv, AddressInv, Missing, Phases
  <2>3. \A f \in Factories : First(f)' < Stop(f)' => f \in D
    BY <1>12, <2>1
  <2>4. \A f \in D : ToSet(addresses[f]) \subseteq Span(f)'
                     /\ Span(f)' \subseteq ToSet(addresses[f]) \cup judged
    BY <1>12, <2>2
  <2>5. Missing' = judged /\ pc' \in Phases /\ pc' \notin {"addresses", "excluded"}
    BY <1>1 DEF Missing, historyVars, Phases
  <2>6. addresses' = addresses
    BY <1>1
  <2>. HIDE DEF D
  <2>7. /\ \A f \in DOMAIN addresses' : ToSet(addresses'[f]) \subseteq Span(f)'
                                     /\ Span(f)' \subseteq ToSet(addresses'[f]) \cup Missing'
        /\ DOMAIN addresses' \subseteq Factories
        /\ \A f \in DOMAIN addresses' : addresses'[f] \in Seq(Pools)
        /\ \A f \in Factories : First(f)' < Stop(f)' => f \in DOMAIN addresses' \cup Left'
    BY <1>2, <2>3, <2>4, <2>5, <2>6 DEF D
  <2>. QED BY <2>5, <2>7 DEF AddressInv
<1>14. TokenInv'
  <2>1. tokens' = <<>> /\ invalid' = {} /\ D \subseteq Left' /\ addresses' = addresses
    BY <1>1, <1>8, <1>9
  <2>. QED BY <1>1, <2>1 DEF TokenInv
<1>15. UnansweredInv'
  BY <1>1 DEF WorkInv, UnansweredInv, historyVars
<1>16. NumberInv'
  BY <1>1 DEF WorkInv, NumberInv
<1>17. CallInv'
  <2>1. ~ Asking
    BY <1>1 DEF Asking
  <2>2. ASSUME Asking' PROVE Question' \in Seq(Requests)
    <3>1. todo' # <<>>
      BY <1>1, <2>2 DEF Asking, Phases
    <3>2. todo'[1][2] \in Seq(Requests)
      BY <1>6, <3>1
    <3>3. Question' = todo'[1][2]
      BY <1>1, <1>8 DEF Question, Asked, Phases
    <3>. QED BY <3>2, <3>3
  <2>. QED BY <1>1, <2>1, <2>2, IdleKeeps
<1>. QED BY <1>10, <1>11, <1>13, <1>14, <1>15, <1>16, <1>17 DEF WorkInv

\* get_pool_numbers: the answers are numbers of pairs.
LEMMA NumbersAre ==
  ASSUME CallInv, pc = "numbers", Answered
  PROVE  [f \in Factories |-> returned[CHOOSE n \in DOMAIN FactorySeq : FactorySeq[n] = f]]
           \in NumberFns
<1>. DEFINE at(f) == CHOOSE n \in DOMAIN FactorySeq : FactorySeq[n] = f
            now == [f \in Factories |-> returned[at(f)]]
<1>1. returned \in AnswersIn(NumbersParams)
  <2>1. Question = NumbersParams /\ Asking
    BY DEF Asking, Question, Phases
  <2>. QED BY <2>1 DEF CallInv
<1>2. DOMAIN returned = DOMAIN FactorySeq
      /\ \A n \in DOMAIN FactorySeq : returned[n] \in Answers[<<"allPairsLength", FactorySeq[n]>>]
  BY <1>1 DEF AnswersIn, NumbersParams
<1>3. ASSUME NEW f \in Factories PROVE returned[at(f)] \in 0..Len(Pairs[f])
  <2>1. \E n \in DOMAIN FactorySeq : FactorySeq[n] = f
    BY FactoriesListed DEF ToSet
  <2>2. at(f) \in DOMAIN FactorySeq /\ FactorySeq[at(f)] = f
    BY <2>1
  <2>3. returned[at(f)] \in Answers[<<"allPairsLength", f>>]
    BY <1>2, <2>2
  <2>. QED BY <2>3, NodesAssumption
<1>. HIDE DEF at
<1>4. \A f \in Factories : Len(Pairs[f]) \in Nat
  BY PairsAssumption
<1>5. now \in [Factories -> Nat] /\ \A f \in Factories : now[f] <= Len(Pairs[f])
  BY <1>3, <1>4
<1>. HIDE DEF now
<1>6. now \in NumberFns
  BY <1>5 DEF NumberFns
<1>. QED BY <1>6, Zenon DEF now, at

\* The ranges of a phase that begins, and nothing found yet.
LEMMA RangesKeep ==
  ASSUME NumberInv', pc' \in {"addresses", "excluded"}, levels' = <<>>, addresses' = <<>>,
         tokens' = <<>>, invalid' = {}, unanswered' = {},
         NEW first, NEW stop, first \in [Factories -> Nat], stop \in NumberFns,
         \A f \in Factories : First(f)' = first[f] /\ Stop(f)' = stop[f],
         todo' = AddressParams(first, stop)
  PROVE  WorkInv' /\ (Question' \in Seq(Requests) \/ ~ Asking')
<1>1. /\ todo' \in Seq(Factories \X Seq(Requests))
      /\ \A m, n \in DOMAIN todo' : todo'[m][1] = todo'[n][1] => m = n
      /\ \A n \in DOMAIN todo' :
           /\ first[todo'[n][1]] < stop[todo'[n][1]]
           /\ todo'[n][2] = AddressRange(todo'[n][1], first[todo'[n][1]], stop[todo'[n][1]])
      /\ \A f \in Factories : first[f] < stop[f] => \E n \in DOMAIN todo' : todo'[n][1] = f
  BY AddressParamsIs
<1>2. \A f \in Factories : AddressesOf(f)' = AddressRange(f, first[f], stop[f])
  BY DEF AddressesOf, AddressRange
<1>3. \A n \in DOMAIN todo' : todo'[n][1] \in Factories /\ todo'[n][2] \in Seq(Requests)
  BY <1>1
<1>4. TodoInv'
  <2>1. \A n \in DOMAIN todo' : \A f : f = todo'[n][1] =>
          First(f)' < Stop(f)' /\ todo'[n][2] = AddressesOf(f)'
    <3>1. ASSUME NEW n \in DOMAIN todo', NEW f, f = todo'[n][1]
          PROVE  first[f] < stop[f] /\ todo'[n][2] = AddressRange(f, first[f], stop[f])
      BY <1>1, <3>1
    <3>2. \A n \in DOMAIN todo' : todo'[n][1] \in Factories
      BY <1>3
    <3>. QED BY <1>2, <3>1, <3>2
  <2>. QED BY <1>1, <2>1 DEF TodoInv, Phases
<1>5. LevelsInv'
  BY MaxRetriesAssumption DEF LevelsInv
<1>6. AddressInv'
  <2>1. \A f \in Factories : First(f)' < Stop(f)' => f \in Left'
    BY <1>1 DEF Left
  <2>. QED BY <2>1 DEF AddressInv, Phases
<1>7. TokenInv'
  BY DEF TokenInv
<1>8. UnansweredInv'
  BY DEF UnansweredInv
<1>9. ASSUME Asking' PROVE Question' \in Seq(Requests)
  <2>1. todo' # <<>> /\ pc' \in Phases
    BY <1>9 DEF Asking, Phases
  <2>2. todo'[1][2] \in Seq(Requests)
    BY <1>1, <2>1
  <2>3. Question' = todo'[1][2]
    BY DEF Question, Asked, Phases
  <2>. QED BY <2>2, <2>3
<1>. QED BY <1>4, <1>5, <1>6, <1>7, <1>8, <1>9 DEF WorkInv

\* The numbers of pairs are asked: the ranges that follow are those of the new pairs.
LEMMA GetPoolNumbersKeeps ==
  ASSUME CallInv, WorkInv, GetPoolNumbers, ChainInv
  PROVE  WorkInv' /\ CallInv'
<1>. DEFINE now == [f \in Factories |->
                      returned[CHOOSE n \in DOMAIN FactorySeq : FactorySeq[n] = f]]
            first == [f \in Factories |-> IF old_numbers = None THEN 0 ELSE old_numbers[f]]
<1>1. /\ UNCHANGED <<round, pool_numbers, levels, addresses, tokens, invalid, fresh,
                     saved_numbers, saved_all_numbers, historyVars>>
      /\ pc = "numbers" /\ Answered
      /\ frames' = <<>> /\ returned' = None
      /\ \/ old_numbers = now /\ pc' = "filter" /\ latest' = latest /\ todo' = todo
         \/ pc' = "addresses" /\ latest' = now /\ todo' = AddressParams(first, now)
  BY DEF GetPoolNumbers, mainVars, fileVars, workVars, Forget
<1>2. now \in NumberFns
  BY <1>1, NumbersAre
<1>3. pc \notin Phases
  BY <1>1 DEF Phases
<1>4. levels = <<>> /\ addresses = <<>> /\ tokens = <<>> /\ invalid = {} /\ todo = <<>>
  BY <1>3, IdleWork
<1>5. unanswered = {} /\ {pool_numbers, saved_numbers, saved_all_numbers} \subseteq NumberFns \cup {None}
      /\ latest = None
  BY <1>1 DEF WorkInv, UnansweredInv, NumberInv
<1>. HIDE DEF now
<1>6. CASE old_numbers = now /\ pc' = "filter" /\ latest' = latest /\ todo' = todo
  <2>1. round = "new" /\ pool_numbers # None
    <3>1. now # None
      BY <1>2, NoFileAssumption DEF NumberFns
    <3>. QED BY <1>6, <3>1 DEF old_numbers, ChainInv
  <2>2. NumberInv'
    BY <1>1, <1>5, <1>6, <2>1 DEF NumberInv
  <2>3. UnansweredInv'
    BY <1>1, <1>5, <1>6 DEF UnansweredInv, historyVars
  <2>4. WorkInv'
    BY <1>1, <1>4, <1>6, <2>2, <2>3, NoWorkKeeps DEF Phases
  <2>5. ~ Asking'
    BY <1>6 DEF Asking, Phases
  <2>. QED BY <1>1, <2>4, <2>5, QuietKeeps
<1>7. CASE pc' = "addresses" /\ latest' = now /\ todo' = AddressParams(first, now)
  <2>1. NumberInv'
    BY <1>1, <1>2, <1>5, <1>7 DEF NumberInv
  <2>2. first \in [Factories -> Nat]
    BY <1>5 DEF old_numbers, NumberFns
  <2>3. \A f \in Factories : First(f)' = first[f] /\ Stop(f)' = now[f]
    BY <1>1, <1>7 DEF First, Stop, old_numbers
  <2>. HIDE DEF first
  <2>4. WorkInv' /\ (Question' \in Seq(Requests) \/ ~ Asking')
    BY <1>1, <1>2, <1>4, <1>5, <1>7, <2>1, <2>2, <2>3, RangesKeep DEF historyVars
  <2>. QED BY <1>1, <2>4, QuietKeeps
<1>. QED BY <1>1, <1>6, <1>7

\* get_excluded_ranges and the requests for them.
LEMMA FilterPoolsKeeps ==
  ASSUME CallInv, WorkInv, FilterPools
  PROVE  WorkInv' /\ CallInv'
<1>1. /\ UNCHANGED <<round, pool_numbers, latest, levels, addresses, tokens, invalid, fresh,
                     saved_numbers, saved_all_numbers, historyVars, multicallVars>>
      /\ pc = "filter" /\ pc' = "excluded"
      /\ todo' = AddressParams(FirstExcluded, pool_numbers)
  BY DEF FilterPools, mainVars, fileVars
<1>2. pc \notin Phases /\ ~ Asking
  BY <1>1 DEF Phases, Asking
<1>3. levels = <<>> /\ addresses = <<>> /\ tokens = <<>> /\ invalid = {}
  BY <1>2, IdleWork
<1>4. unanswered = {} /\ {pool_numbers, saved_numbers, saved_all_numbers} \subseteq NumberFns \cup {None}
      /\ latest = None /\ pool_numbers # None /\ round = "new"
  BY <1>1 DEF WorkInv, UnansweredInv, NumberInv
<1>5. NumberInv'
  BY <1>1, <1>4 DEF NumberInv
<1>6. pool_numbers \in NumberFns
  BY <1>4
<1>7. FirstExcluded \in [Factories -> Nat]
  BY <1>6, BoundsAssumption DEF NumberFns, FirstExcluded
<1>8. \A f \in Factories : First(f)' = FirstExcluded[f] /\ Stop(f)' = pool_numbers[f]
  BY <1>1 DEF First, Stop, FirstExcluded
<1>9. WorkInv' /\ (Question' \in Seq(Requests) \/ ~ Asking')
  BY <1>1, <1>3, <1>4, <1>5, <1>6, <1>7, <1>8, RangesKeep DEF historyVars
<1>. QED BY <1>1, <1>2, <1>9, IdleKeeps

\* A step that asks nothing, between two phases.
LEMMA IdleStepKeeps ==
  ASSUME CallInv, ~ Asking, UNCHANGED multicallVars,
         pc' \notin Phases, pc' \notin {"numbers", "apply"},
         todo' = <<>>, levels' = <<>>, addresses' = <<>>, tokens' = <<>>, invalid' = {},
         UnansweredInv', NumberInv'
  PROVE  WorkInv' /\ CallInv'
<1>1. WorkInv'
  BY NoWorkKeeps
<1>2. ~ Asking'
  BY DEF Asking
<1>. QED BY <1>1, <1>2, IdleKeeps

\* create_pools ends the work of a round.
LEMMA CreatePoolsKeeps ==
  ASSUME CallInv, WorkInv, CreatePools
  PROVE  WorkInv' /\ CallInv'
<1>1. /\ UNCHANGED <<round, saved_numbers, saved_all_numbers, historyVars, multicallVars>>
      /\ pc = "tokens" /\ todo = <<>> /\ pool_numbers' = latest /\ latest' = None
      /\ pc' = IF round = "all" THEN "save_all" ELSE "update"
      /\ todo' = <<>> /\ levels' = <<>> /\ addresses' = <<>> /\ tokens' = <<>> /\ invalid' = {}
  BY DEF CreatePools, fileVars
<1>2. ~ Asking /\ unanswered = {}
  BY <1>1 DEF Asking, WorkInv, UnansweredInv
<1>3. latest \in NumberFns /\ latest # None
  BY <1>1, NoFileAssumption DEF WorkInv, NumberInv, NumberFns
<1>4. NumberInv'
  BY <1>1, <1>3 DEF WorkInv, NumberInv
<1>5. UnansweredInv'
  BY <1>1, <1>2 DEF UnansweredInv, historyVars
<1>6. pc' \notin Phases /\ pc' \notin {"numbers", "apply"}
  BY <1>1 DEF Phases
<1>. QED BY <1>1, <1>2, <1>4, <1>5, <1>6, IdleStepKeeps

\* So does the filter.
LEMMA RemoveLowLiquidityPoolsKeeps ==
  ASSUME CallInv, WorkInv, RemoveLowLiquidityPools
  PROVE  WorkInv' /\ CallInv'
<1>1. /\ UNCHANGED <<round, pool_numbers, saved_numbers, saved_all_numbers, unanswered,
                     multicallVars>>
      /\ pc = "excluded" /\ todo = <<>> /\ pc' = "paths"
      /\ latest' = None /\ todo' = <<>> /\ levels' = <<>>
      /\ addresses' = <<>> /\ tokens' = <<>> /\ invalid' = {}
  BY DEF RemoveLowLiquidityPools, NoWork, fileVars
<1>2. ~ Asking
  BY <1>1 DEF Asking
<1>3. NumberInv'
  BY <1>1 DEF WorkInv, NumberInv
<1>4. UnansweredInv'
  BY <1>1 DEF WorkInv, UnansweredInv
<1>5. pc' \notin Phases /\ pc' \notin {"numbers", "apply"}
  BY <1>1 DEF Phases
<1>. QED BY <1>1, <1>2, <1>3, <1>4, <1>5, IdleStepKeeps

\* Saving, searching and what else main does without asking.
LEMMA QuietStepsKeep ==
  ASSUME ChainInv, CallInv, WorkInv,
         \/ SaveAllPools \/ SaveAllNumbers \/ NothingToUpdate \/ BuildPaths \/ FindPaths
         \/ PathsFound \/ SavePools \/ SavePoolNumbers \/ SyncPools \/ Start
  PROVE  WorkInv' /\ CallInv'
<1>. DEFINE Late == {"paths", "search", "save", "save_numbers"}
            Next1 == pc' \in {"start", "loop", "save_all_numbers", "update", "filter"} \cup Late
            Next2 == (pc' \in {"update", "filter"} => pc \in {"save_all_numbers", "update"})
                     /\ (pc' = "save_all_numbers" => pc = "save_all")
                     /\ (pc' = "filter" => round = "new" /\ pc = "update")
            Late1 == \/ unanswered' = {}
                     \/ unanswered' = unanswered /\ (round = "new" /\ pc \in Late => pc' \in Late)
<1>1. UNCHANGED <<workVars, multicallVars, round, pool_numbers>>
  BY DEF SaveAllPools, SaveAllNumbers, NothingToUpdate, BuildPaths, FindPaths, PathsFound,
         SavePools, SavePoolNumbers, SyncPools, Start, mainVars
<1>2. pc \in {"save_all", "save_all_numbers", "update", "loop", "down"} \cup Late
  BY DEF SaveAllPools, SaveAllNumbers, NothingToUpdate, BuildPaths, FindPaths, PathsFound,
         SavePools, SavePoolNumbers, SyncPools, Start
<1>3. Next1 /\ Next2
  <2>1. CASE SaveAllPools \/ SaveAllNumbers \/ SavePools \/ SavePoolNumbers
    BY <2>1 DEF SaveAllPools, SaveAllNumbers, SavePools, SavePoolNumbers
  <2>2. CASE NothingToUpdate
    BY <2>2 DEF NothingToUpdate, AfterUpdate
  <2>3. CASE BuildPaths \/ FindPaths \/ PathsFound
    BY <2>3 DEF BuildPaths, FindPaths, PathsFound
  <2>4. CASE SyncPools \/ Start
    BY <2>4 DEF SyncPools, Start
  <2>. QED BY <2>1, <2>2, <2>3, <2>4
<1>4. Late1
  <2>1. CASE SaveAllPools \/ SaveAllNumbers \/ NothingToUpdate
    BY <2>1 DEF SaveAllPools, SaveAllNumbers, NothingToUpdate, historyVars
  <2>2. CASE BuildPaths \/ FindPaths \/ PathsFound
    BY <2>2 DEF BuildPaths, FindPaths, PathsFound, historyVars
  <2>3. CASE SavePools \/ SavePoolNumbers
    BY <2>3 DEF SavePools, SavePoolNumbers
  <2>4. CASE SyncPools \/ Start
    BY <2>4 DEF SyncPools, Start, historyVars
  <2>. QED BY <2>1, <2>2, <2>3, <2>4
<1>5. saved_numbers' \in {saved_numbers, pool_numbers}
      /\ saved_all_numbers' \in {saved_all_numbers, pool_numbers}
  BY DEF SaveAllPools, SaveAllNumbers, NothingToUpdate, BuildPaths, FindPaths, PathsFound,
         SavePools, SavePoolNumbers, SyncPools, Start, fileVars
<1>6. pc \notin Phases /\ pc' \notin Phases /\ pc' \notin {"numbers", "apply"} /\ ~ Asking
  BY <1>2, <1>3 DEF Phases, Asking
<1>7. /\ todo' = <<>> /\ levels' = <<>> /\ addresses' = <<>> /\ tokens' = <<>> /\ invalid' = {}
      /\ latest' = latest
  BY <1>1, <1>6, IdleWork DEF workVars
<1>8. NumberInv'
  <2>1. {pool_numbers', saved_numbers', saved_all_numbers'} \subseteq NumberFns \cup {None}
    BY <1>1, <1>5 DEF WorkInv, NumberInv
  <2>2. latest' = None
    BY <1>6, <1>7 DEF WorkInv, NumberInv, Phases
  <2>3. round = "new" /\ pc' \in {"update", "filter"} => pool_numbers # None
    BY <1>3 DEF WorkInv, NumberInv
  <2>4. pc' = "save_all_numbers" => round = "all"
    BY <1>3 DEF WorkInv, NumberInv
  <2>. QED BY <1>1, <1>3, <2>1, <2>2, <2>3, <2>4 DEF NumberInv
<1>9. UnansweredInv'
  BY <1>1, <1>2, <1>3, <1>4 DEF WorkInv, UnansweredInv, ChainInv
<1>. QED BY <1>1, <1>6, <1>7, <1>8, <1>9, IdleStepKeeps

\* The calls of a phase: one factory after the other.
LEMMA AskNextKeeps ==
  ASSUME CallInv, WorkInv, AskNext
  PROVE  WorkInv' /\ CallInv'
<1>1. /\ UNCHANGED <<pc, round, pool_numbers, latest, todo, levels, addresses, tokens, invalid,
                     saved_numbers, saved_all_numbers, historyVars>>
      /\ pc \in Phases /\ todo # <<>> /\ levels = <<>> /\ Call(todo[1][2])
  BY DEF AskNext, Phases, workVars, mainVars, fileVars
<1>2. WorkInv'
  BY <1>1, WorkStays
<1>3. todo[1][2] \in Seq(Requests)
  BY <1>1 DEF WorkInv, TodoInv
<1>4. Asking' /\ Question' = todo[1][2]
  BY <1>1 DEF Asking, Question, Asked, Phases
<1>. QED BY <1>1, <1>2, <1>3, <1>4, AsksKeeps DEF CallInv

\* update_pools asks for what it is to update.
LEMMA AskUpdatesKeeps ==
  ASSUME CallInv, WorkInv, PoolInv, AskUpdates
  PROVE  WorkInv' /\ CallInv'
<1>1. /\ UNCHANGED <<round, pool_numbers, latest, todo, levels, addresses, tokens, invalid, fresh,
                     saved_numbers, saved_all_numbers, historyVars>>
      /\ pc = "update" /\ pc' = "apply" /\ Call(FlattenSeq(UpdateParts))
  BY DEF AskUpdates, workVars, mainVars, fileVars
<1>2. fresh \subseteq Pools
  BY DEF PoolInv, IsPools
<1>3. FlattenSeq(UpdateParts) \in Seq(Requests)
  BY <1>2, UpdatePartsAre
<1>4. UpdateParts' = UpdateParts
  BY <1>1 DEF UpdateParts
<1>5. Asking' /\ Question' = FlattenSeq(UpdateParts)
  BY <1>1, <1>4 DEF Asking, Question, Phases
<1>6. CallInv'
  BY <1>1, <1>3, <1>5, AsksKeeps DEF CallInv
<1>7. pc \notin Phases /\ pc' \notin Phases
  BY <1>1 DEF Phases
<1>8. NumberInv'
  BY <1>1 DEF WorkInv, NumberInv
<1>9. UnansweredInv'
  BY <1>1 DEF WorkInv, UnansweredInv, historyVars
<1>10. WorkInv'
  BY <1>1, <1>7, <1>8, <1>9, IdleWork, NoWorkKeeps
<1>. QED BY <1>6, <1>10

\* The updates are entered, and nothing is asked any more.
LEMMA ApplyUpdatesKeeps ==
  ASSUME ChainInv, CallInv, WorkInv, ApplyUpdates
  PROVE  WorkInv' /\ CallInv'
<1>1. /\ UNCHANGED <<round, pool_numbers, latest, todo, levels, addresses, tokens, invalid,
                     saved_numbers, saved_all_numbers, historyVars>>
      /\ pc = "apply" /\ pc' = AfterUpdate
      /\ frames' = <<>> /\ returned' = None
  BY DEF ApplyUpdates, Forget, mainVars, fileVars
<1>2. pc' \in {"filter", "loop", "paths"} /\ (pc' = "filter" <=> round = "new")
  BY <1>1 DEF AfterUpdate
<1>3. pc \notin Phases /\ pc' \notin Phases /\ ~ Asking'
  BY <1>1, <1>2 DEF Phases, Asking
<1>4. NumberInv'
  BY <1>1, <1>2 DEF WorkInv, NumberInv
<1>5. UnansweredInv'
  BY <1>1, <1>2 DEF WorkInv, UnansweredInv, historyVars
<1>6. WorkInv'
  BY <1>1, <1>3, <1>4, <1>5, IdleWork, NoWorkKeeps
<1>. QED BY <1>1, <1>3, <1>6, QuietKeeps

\* Main's next round begins by asking for the numbers.
LEMMA PollKeeps ==
  ASSUME CallInv, WorkInv, Poll
  PROVE  WorkInv' /\ CallInv'
<1>1. /\ UNCHANGED <<pool_numbers, latest, todo, levels, addresses, tokens, invalid,
                     saved_numbers, saved_all_numbers, historyVars>>
      /\ pc = "loop" /\ pc' = "numbers" /\ Call(NumbersParams)
  BY DEF Poll, workVars, fileVars
<1>2. pc \notin Phases /\ pc' \notin Phases /\ Asking' /\ Question' = NumbersParams
  BY <1>1 DEF Phases, Asking, Question, NumbersParams
<1>3. CallInv'
  BY <1>1, <1>2, AsksKeeps, NumbersParamsIs DEF CallInv
<1>4. NumberInv'
  BY <1>1 DEF WorkInv, NumberInv
<1>5. UnansweredInv'
  BY <1>1 DEF WorkInv, UnansweredInv, historyVars
<1>6. WorkInv'
  BY <1>1, <1>2, <1>4, <1>5, IdleWork, NoWorkKeeps
<1>. QED BY <1>3, <1>6

\* load_data: main works with what is in the files, or asks how many pairs there are.
LEMMA LoadDataKeeps ==
  ASSUME CallInv, WorkInv, LoadData
  PROVE  WorkInv' /\ CallInv'
<1>1. /\ UNCHANGED <<latest, todo, levels, addresses, tokens, invalid,
                     saved_numbers, saved_all_numbers, unanswered>>
      /\ pc = "start" /\ round' = "all"
      /\ \/ /\ pc' \in {"loop", "paths", "update"} /\ UNCHANGED multicallVars
            /\ pool_numbers' \in {saved_numbers, saved_all_numbers}
         \/ pc' = "numbers" /\ Call(NumbersParams) /\ UNCHANGED pool_numbers
  BY DEF LoadData, Resume, fileVars
<1>2. pc \notin Phases /\ pc' \notin Phases /\ ~ Asking
  BY <1>1 DEF Phases, Asking
<1>3. NumberInv'
  <2>1. {pool_numbers', saved_numbers', saved_all_numbers'} \subseteq NumberFns \cup {None}
    BY <1>1 DEF WorkInv, NumberInv
  <2>2. latest' = None
    BY <1>1 DEF WorkInv, NumberInv
  <2>. QED BY <1>1, <2>1, <2>2 DEF NumberInv
<1>4. UnansweredInv'
  BY <1>1 DEF WorkInv, UnansweredInv
<1>5. WorkInv'
  BY <1>1, <1>2, <1>3, <1>4, IdleWork, NoWorkKeeps
<1>6. CASE pc' \in {"loop", "paths", "update"} /\ UNCHANGED multicallVars
  <2>1. ~ Asking'
    BY <1>6 DEF Asking, Phases
  <2>. QED BY <1>2, <1>5, <1>6, <2>1, IdleKeeps
<1>7. CASE pc' = "numbers" /\ Call(NumbersParams)
  <2>1. Asking' /\ Question' = NumbersParams
    BY <1>7 DEF Asking, Question, NumbersParams, Phases
  <2>2. CallInv'
    BY <1>7, <2>1, AsksKeeps, NumbersParamsIs DEF CallInv
  <2>. QED BY <1>5, <2>2
<1>. QED BY <1>1, <1>6, <1>7

\* Whoever leaves main() leaves its work and its calls.
LEMMA LeaveKeeps ==
  ASSUME WorkInv, NEW next \in {"start", "down"}, Leave(next)
  PROVE  WorkInv' /\ CallInv'
<1>1. /\ UNCHANGED <<saved_numbers, saved_all_numbers>>
      /\ pc' = next /\ pool_numbers' = None /\ round' = "all" /\ unanswered' = {}
      /\ latest' = None /\ todo' = <<>> /\ levels' = <<>>
      /\ addresses' = <<>> /\ tokens' = <<>> /\ invalid' = {}
      /\ frames' = <<>> /\ returned' = None
  BY DEF Leave, NoWork, Forget, fileVars
<1>2. pc' \notin Phases /\ ~ Asking'
  BY <1>1 DEF Phases, Asking
<1>3. NumberInv'
  BY <1>1 DEF WorkInv, NumberInv
<1>4. UnansweredInv'
  BY <1>1 DEF UnansweredInv
<1>5. WorkInv'
  BY <1>1, <1>2, <1>3, <1>4, NoWorkKeeps
<1>. QED BY <1>1, <1>2, <1>5, QuietKeeps

\* What happens on the chain, and in a call, leaves the work of main alone.
LEMMA OutsideKeeps ==
  ASSUME ChainInv, CallInv, WorkInv,
         \/ MulticallStep \/ NodeReplies \/ LoseConnection
         \/ (\E f \in Factories : CreatePair(f)) \/ (\E p \in Pools : MoveLiquidity(p))
  PROVE  WorkInv' /\ CallInv'
<1>1. UNCHANGED <<pc, round, pool_numbers, latest, todo, levels, addresses, tokens, invalid, fresh,
                  saved_numbers, saved_all_numbers, historyVars>>
  BY DEF MulticallStep, NodeReplies, LoseConnection, CreatePair, MoveLiquidity, workVars, mainVars,
         fileVars
<1>2. WorkInv'
  BY <1>1, WorkStays
<1>3. CASE MulticallStep \/ NodeReplies \/ LoseConnection
  BY <1>2, <1>3, CallGoesOn
<1>4. CASE (\E f \in Factories : CreatePair(f)) \/ (\E p \in Pools : MoveLiquidity(p))
  <2>1. UNCHANGED <<frames, returned>>
    BY <1>4 DEF CreatePair, MoveLiquidity, multicallVars
  <2>. QED BY <1>1, <1>2, <2>1, CallStays
<1>. QED BY <1>3, <1>4

-----------------------------------------------------------------------------
(* The pools, step by step                                                   *)

\* Nothing about the pools changes.
LEMMA PoolsStay ==
  ASSUME PoolInv, UNCHANGED <<pools, fresh, saved_pools, saved_all>>,
         fresh = {} \/ pc' \in {"save_all", "save_all_numbers", "update", "apply"}
  PROVE  PoolInv'
<1>1. IsPools(pools)' /\ AsOnChain(pools, fresh)' /\ (fresh \subseteq DOMAIN pools)'
  BY DEF PoolInv, IsPools, AsOnChain
<1>2. /\ (saved_pools # None => IsPools(saved_pools) /\ AsOnChain(saved_pools, {}))'
      /\ (saved_all # None => IsPools(saved_all) /\ AsOnChain(saved_all, DOMAIN saved_all))'
  BY DEF PoolInv, IsPools, AsOnChain
<1>. QED BY <1>1, <1>2 DEF PoolInv

\* What is as on the chain, with fewer pools; and the pools of two dictionaries.
LEMMA FewerPools ==
  ASSUME NEW d, IsPools(d), NEW untold, AsOnChain(d, untold), NEW D, D \subseteq DOMAIN d
  PROVE  LET e == [p \in D |-> d[p]]
         IN  IsPools(e) /\ AsOnChain(e, untold)
BY DEF IsPools, AsOnChain

\* A dictionary of pools, updated with another one.
LEMMA MorePools ==
  ASSUME NEW d, IsPools(d), AsOnChain(d, {}), NEW e, IsPools(e), NEW untold, AsOnChain(e, untold)
  PROVE  /\ DOMAIN Updated(d, e) = DOMAIN d \cup DOMAIN e
         /\ IsPools(Updated(d, e)) /\ AsOnChain(Updated(d, e), untold)
<1>. DEFINE D == DOMAIN d \cup DOMAIN e
            u == Updated(d, e)
<1>1. u = [x \in D |-> IF x \in DOMAIN e THEN e[x] ELSE d[x]]
  BY DEF Updated
<1>2. DOMAIN u = D /\ \A x \in D : u[x] = IF x \in DOMAIN e THEN e[x] ELSE d[x]
  BY <1>1
<1>3. \A x \in D : u[x] \in PoolRecord /\ x \in Pools /\ x \in Paired
  BY <1>2 DEF IsPools
<1>4. u \in [D -> PoolRecord]
  BY <1>1, <1>2, <1>3
<1>. HIDE DEF u
<1>5. IsPools(u)
  BY <1>2, <1>3, <1>4 DEF IsPools
<1>6. AsOnChain(u, untold)
  <2>1. ASSUME NEW x \in D
        PROVE  u[x].tokens = Tokens[x]
               /\ (x \notin untold \/ FactoryOf(x) \in FixedFee => u[x].fee = Fees[x])
    <3>1. CASE x \in DOMAIN e
      BY <1>2, <3>1 DEF AsOnChain
    <3>2. CASE x \notin DOMAIN e
      BY <1>2, <3>2 DEF AsOnChain
    <3>. QED BY <3>1, <3>2
  <2>. QED BY <1>2, <2>1 DEF AsOnChain
<1>. QED BY <1>2, <1>5, <1>6 DEF u

\* The new pools are main's, alone or added to those that it has.
LEMMA CreatePoolsPools ==
  ASSUME WorkInv, PoolInv, CreatePools
  PROVE  /\ PoolInv'
         /\ DOMAIN pools' = IF round = "all" THEN DOMAIN NewPools
                            ELSE DOMAIN pools \cup DOMAIN NewPools
<1>1. /\ UNCHANGED <<saved_pools, saved_all>>
      /\ pc = "tokens" /\ todo = <<>> /\ pc' \in {"save_all", "update"}
      /\ pools' = IF round = "all" THEN NewPools ELSE Updated(pools, NewPools)
      /\ fresh' = DOMAIN NewPools
  BY DEF CreatePools, fileVars
<1>2. IsPools(NewPools) /\ AsOnChain(NewPools, DOMAIN NewPools)
  BY <1>1, NewPoolsAre DEF WorkInv
<1>3. IsPools(pools) /\ AsOnChain(pools, {})
  BY <1>1 DEF PoolInv
<1>4. /\ DOMAIN Updated(pools, NewPools) = DOMAIN pools \cup DOMAIN NewPools
      /\ IsPools(Updated(pools, NewPools)) /\ AsOnChain(Updated(pools, NewPools), DOMAIN NewPools)
  BY <1>2, <1>3, MorePools
<1>5. IsPools(pools)' /\ AsOnChain(pools, fresh)' /\ fresh' \subseteq DOMAIN pools'
  <2>. DEFINE q == pools'
              n == fresh'
  <2>1. IsPools(q) /\ AsOnChain(q, n) /\ n \subseteq DOMAIN q
    BY <1>1, <1>2, <1>4
  <2>. QED BY <2>1 DEF IsPools, AsOnChain
<1>6. /\ (saved_pools # None => IsPools(saved_pools) /\ AsOnChain(saved_pools, {}))'
      /\ (saved_all # None => IsPools(saved_all) /\ AsOnChain(saved_all, DOMAIN saved_all))'
  BY <1>1 DEF PoolInv, IsPools, AsOnChain
<1>. QED BY <1>1, <1>4, <1>5, <1>6 DEF PoolInv

\* apply_updates gives each pool the answers to its own requests.
LEMMA ApplyUpdatesPools ==
  ASSUME CallInv, PoolInv, ApplyUpdates
  PROVE  PoolInv' /\ DOMAIN pools' = DOMAIN pools
<1>. DEFINE F(p) == FactoryOf(p) \in FixedFee
            updated == [p \in fresh |->
                          [pools[p] EXCEPT !.liquidity = returned[Before(p) + 1],
                                           !.fee = IF F(p) THEN @ ELSE returned[Before(p) + 2]]]
            new(p) == [tokens |-> pools[p].tokens, liquidity |-> returned[Before(p) + 1],
                       fee |-> IF F(p) THEN pools[p].fee ELSE returned[Before(p) + 2]]
            asked1 == FlattenSeq(UpdateParts)
<1>1. /\ UNCHANGED <<saved_pools, saved_all>>
      /\ pc = "apply" /\ Answered /\ fresh' = {} /\ pools' = Updated(pools, updated)
  BY Zenon DEF ApplyUpdates, Before, fileVars
<1>2. returned \in AnswersIn(asked1)
  <2>1. Asking /\ Question = asked1
    BY <1>1 DEF Asking, Question, Phases
  <2>. QED BY <1>1, <2>1 DEF CallInv
<1>3. fresh \subseteq Pools /\ fresh \subseteq DOMAIN pools /\ IsPools(pools) /\ AsOnChain(pools, fresh)
  BY DEF PoolInv, IsPools
<1>4. ASSUME NEW p \in fresh
      PROVE  /\ updated[p] = new(p) /\ new(p) \in PoolRecord
             /\ new(p).tokens = Tokens[p] /\ new(p).fee = Fees[p]
  <2>. DEFINE i == Before(p) + 1
              j == Before(p) + 2
  <2>1. /\ i \in DOMAIN asked1 /\ asked1[i] = <<"getReserves", p>>
        /\ ~ F(p) => j \in DOMAIN asked1 /\ asked1[j] = <<"fee", p>>
    BY <1>3, UpdatePartsAre
  <2>. HIDE DEF i, j, asked1
  <2>2. /\ DOMAIN returned = DOMAIN asked1 /\ returned \in Seq(AnyReply)
        /\ \A k \in DOMAIN asked1 : returned[k] \in Answers[asked1[k]]
    BY <1>2 DEF AnswersIn
  <2>3. returned[i] \in 0..MinLiquidity /\ (~ F(p) => returned[j] = Fees[p])
    <3>1. returned[i] \in Answers[<<"getReserves", p>>]
      BY <2>1, <2>2
    <3>2. ~ F(p) => returned[j] \in Answers[<<"fee", p>>]
      BY <2>1, <2>2
    <3>3. p \in Pools
      BY <1>3
    <3>. QED BY <3>1, <3>2, <3>3, NodesAssumption
  <2>4. ~ F(p) => returned[j] \in AnyReply
    BY <2>1, <2>2
  <2>5. /\ pools[p] \in PoolRecord /\ pools[p].tokens = Tokens[p]
        /\ F(p) => pools[p].fee = Fees[p]
    BY <1>3 DEF IsPools, AsOnChain
  <2>6. new(p) = [tokens |-> pools[p].tokens, liquidity |-> returned[i],
                  fee |-> IF F(p) THEN pools[p].fee ELSE returned[j]]
    BY DEF i, j
  <2>7. updated[p] = [pools[p] EXCEPT !.liquidity = returned[i],
                                      !.fee = IF F(p) THEN @ ELSE returned[j]]
    BY DEF i, j
  <2>. HIDE DEF new, updated, F
  <2>8. returned[i] \in Nat
    BY <2>3, BoundsAssumption
  <2>9. pools[p] = [tokens |-> pools[p].tokens, liquidity |-> pools[p].liquidity,
                    fee |-> pools[p].fee]
        /\ pools[p].tokens \in AnyReply \X AnyReply /\ pools[p].fee \in AnyReply \cup {0}
    BY <2>5 DEF PoolRecord
  <2>10. new(p) \in PoolRecord
    BY <2>4, <2>6, <2>8, <2>9 DEF PoolRecord
  <2>11. updated[p] = new(p)
    BY <2>6, <2>7, <2>9
  <2>12. new(p).tokens = Tokens[p] /\ new(p).fee = Fees[p]
    BY <2>3, <2>5, <2>6
  <2>. QED BY <2>10, <2>11, <2>12
<1>5. DOMAIN updated = fresh
  OBVIOUS
<1>. HIDE DEF updated, new, F
<1>6. pools' = [x \in DOMAIN pools |-> IF x \in fresh THEN updated[x] ELSE pools[x]]
  <2>1. DOMAIN pools \cup fresh = DOMAIN pools
    BY <1>3
  <2>. QED BY <1>1, <1>5, <2>1 DEF Updated
<1>. DEFINE q == pools'
<1>7. /\ DOMAIN q = DOMAIN pools
      /\ \A x \in DOMAIN pools : q[x] = IF x \in fresh THEN new(x) ELSE pools[x]
  BY <1>4, <1>6
<1>8. \A x \in DOMAIN pools : q[x] \in PoolRecord
  BY <1>3, <1>4, <1>7 DEF IsPools
<1>9. q \in [DOMAIN pools -> PoolRecord]
  BY <1>6, <1>7, <1>8
<1>10. \A x \in DOMAIN pools : q[x].tokens = Tokens[x] /\ q[x].fee = Fees[x]
  BY <1>3, <1>4, <1>7 DEF AsOnChain
<1>11. IsPools(q) /\ AsOnChain(q, {})
  <2>. HIDE DEF q
  <2>. QED BY <1>3, <1>7, <1>9, <1>10 DEF IsPools, AsOnChain
<1>12. IsPools(pools)' /\ AsOnChain(pools, fresh)' /\ (fresh \subseteq DOMAIN pools)'
  BY <1>1, <1>11 DEF IsPools, AsOnChain
<1>13. /\ (saved_pools # None => IsPools(saved_pools) /\ AsOnChain(saved_pools, {}))'
       /\ (saved_all # None => IsPools(saved_all) /\ AsOnChain(saved_all, DOMAIN saved_all))'
  BY <1>1 DEF PoolInv, IsPools, AsOnChain
<1>. QED BY <1>1, <1>7, <1>12, <1>13 DEF PoolInv

\* The pools are written to the files as they are.
LEMMA SavePoolsPools ==
  ASSUME PoolInv, SaveAllPools \/ SavePools
  PROVE  PoolInv'
<1>1. UNCHANGED <<pools, fresh>>
      /\ \/ saved_all' = pools /\ UNCHANGED saved_pools /\ pc' = "save_all_numbers"
         \/ saved_pools' = pools /\ UNCHANGED saved_all /\ pc = "save" /\ pc' = "save_numbers"
  BY DEF SaveAllPools, SavePools, workVars, mainVars
<1>2. /\ IsPools(pools) /\ AsOnChain(pools, fresh) /\ fresh \subseteq DOMAIN pools
      /\ pc = "save" => fresh = {}
      /\ saved_pools # None => IsPools(saved_pools) /\ AsOnChain(saved_pools, {})
      /\ saved_all # None => IsPools(saved_all) /\ AsOnChain(saved_all, DOMAIN saved_all)
  BY DEF PoolInv
<1>3. AsOnChain(pools, DOMAIN pools)
  BY <1>2 DEF AsOnChain
<1>4. IsPools(pools)' /\ AsOnChain(pools, fresh)' /\ (fresh \subseteq DOMAIN pools)'
  BY <1>1, <1>2 DEF IsPools, AsOnChain
<1>5. CASE saved_all' = pools /\ UNCHANGED saved_pools /\ pc' = "save_all_numbers"
  BY <1>1, <1>2, <1>3, <1>4, <1>5 DEF PoolInv, IsPools, AsOnChain
<1>6. CASE saved_pools' = pools /\ UNCHANGED saved_all /\ pc = "save" /\ pc' = "save_numbers"
  BY <1>1, <1>2, <1>4, <1>6 DEF PoolInv, IsPools, AsOnChain
<1>. QED BY <1>1, <1>5, <1>6

\* sync changes nothing but the liquidity.
LEMMA SyncPoolsPools ==
  ASSUME ChainInv, PoolInv, SyncPools
  PROVE  PoolInv' /\ DOMAIN pools' = DOMAIN pools
<1>1. /\ UNCHANGED <<fresh, saved_all>> /\ pc = "loop" /\ pc' = pc
      /\ pools' = [p \in DOMAIN pools |-> [pools[p] EXCEPT !.liquidity = liquidity[p]]]
      /\ saved_pools' = saved_pools \/ saved_pools' = pools'
  BY DEF SyncPools, workVars
<1>2. IsPools(pools) /\ AsOnChain(pools, {}) /\ fresh = {}
  BY <1>1 DEF PoolInv
<1>. DEFINE q == pools'
<1>3. DOMAIN q = DOMAIN pools
      /\ \A p \in DOMAIN pools : q[p] = [pools[p] EXCEPT !.liquidity = liquidity[p]]
  BY <1>1
<1>4. ASSUME NEW p \in DOMAIN pools
      PROVE  q[p] \in PoolRecord /\ q[p].tokens = Tokens[p] /\ q[p].fee = Fees[p]
  <2>1. /\ pools[p] \in PoolRecord /\ p \in Pools
        /\ pools[p].tokens = Tokens[p] /\ pools[p].fee = Fees[p]
    BY <1>2 DEF IsPools, AsOnChain
  <2>2. liquidity[p] \in Nat
    BY <2>1, BoundsAssumption DEF ChainInv
  <2>3. q[p] = [pools[p] EXCEPT !.liquidity = liquidity[p]]
    BY <1>3
  <2>. HIDE DEF q
  <2>. QED BY <2>1, <2>2, <2>3 DEF PoolRecord
<1>5. q \in [DOMAIN pools -> PoolRecord]
  BY <1>1, <1>3, <1>4
<1>6. IsPools(q) /\ AsOnChain(q, {})
  <2>. HIDE DEF q
  <2>. QED BY <1>2, <1>3, <1>4, <1>5 DEF IsPools, AsOnChain
<1>7. IsPools(pools)' /\ AsOnChain(pools, fresh)' /\ (fresh \subseteq DOMAIN pools)'
  BY <1>1, <1>2, <1>6 DEF IsPools, AsOnChain
<1>8. (saved_all # None => IsPools(saved_all) /\ AsOnChain(saved_all, DOMAIN saved_all))'
  BY <1>1 DEF PoolInv, IsPools, AsOnChain
<1>9. (saved_pools # None => IsPools(saved_pools) /\ AsOnChain(saved_pools, {}))'
  <2>1. CASE saved_pools' = saved_pools
    BY <2>1 DEF PoolInv, IsPools, AsOnChain
  <2>2. CASE saved_pools' = pools'
    BY <1>6, <2>2 DEF IsPools, AsOnChain
  <2>. QED BY <1>1, <2>1, <2>2
<1>. QED BY <1>1, <1>2, <1>3, <1>7, <1>8, <1>9 DEF PoolInv

\* The filter takes pools out.
LEMMA RemoveLowPools ==
  ASSUME PoolInv, RemoveLowLiquidityPools
  PROVE  /\ PoolInv'
         /\ DOMAIN pools \cup judged \subseteq DOMAIN pools' \cup judged'
<1>. DEFINE excluded == UNION {ToSet(addresses[f]) : f \in DOMAIN addresses}
            low == {p \in DOMAIN pools \ excluded : pools[p].liquidity < MinLiquidity}
            D == DOMAIN pools \ low
            q == [p \in D |-> pools[p]]
<1>1. /\ UNCHANGED <<saved_pools, saved_all>>
      /\ pc = "excluded" /\ pc' = "paths" /\ fresh' = {}
      /\ pools' = q /\ judged' = judged \cup low
  BY DEF RemoveLowLiquidityPools, NoWork, fileVars
<1>2. IsPools(pools) /\ AsOnChain(pools, {})
  BY <1>1 DEF PoolInv
<1>3. IsPools(q) /\ AsOnChain(q, {}) /\ DOMAIN q = D
  <2>1. D \subseteq DOMAIN pools
    OBVIOUS
  <2>. HIDE DEF D
  <2>. QED BY <1>2, <2>1, FewerPools
<1>. HIDE DEF q
<1>4. IsPools(pools)' /\ AsOnChain(pools, fresh)' /\ (fresh \subseteq DOMAIN pools)'
  BY <1>1, <1>3 DEF IsPools, AsOnChain
<1>5. /\ (saved_pools # None => IsPools(saved_pools) /\ AsOnChain(saved_pools, {}))'
      /\ (saved_all # None => IsPools(saved_all) /\ AsOnChain(saved_all, DOMAIN saved_all))'
  BY <1>1 DEF PoolInv, IsPools, AsOnChain
<1>6. PoolInv'
  BY <1>1, <1>4, <1>5 DEF PoolInv
<1>7. DOMAIN pools \cup judged \subseteq DOMAIN pools' \cup judged'
  BY <1>1, <1>3
<1>. QED BY <1>6, <1>7

\* load_data takes the pools of a file as they are, those of all_pools.json to update them.
LEMMA LoadDataPools ==
  ASSUME PoolInv, LoadData
  PROVE  PoolInv'
<1>1. /\ UNCHANGED <<saved_pools, saved_all>> /\ pc = "start"
      /\ \/ HasPools(saved_pools) /\ pools' = saved_pools /\ fresh' = fresh
         \/ /\ HasPools(saved_all) /\ pools' = saved_all /\ fresh' = DOMAIN saved_all
            /\ pc' = "update"
         \/ UNCHANGED <<pools, fresh>>
  BY DEF LoadData, Resume, fileVars
<1>2. /\ IsPools(pools) /\ AsOnChain(pools, {}) /\ fresh = {}
      /\ HasPools(saved_pools) => IsPools(saved_pools) /\ AsOnChain(saved_pools, {})
      /\ HasPools(saved_all) => IsPools(saved_all) /\ AsOnChain(saved_all, DOMAIN saved_all)
  BY <1>1 DEF PoolInv, HasPools
<1>3. /\ IsPools(pools)' /\ AsOnChain(pools, fresh)' /\ (fresh \subseteq DOMAIN pools)'
      /\ fresh' = {} \/ pc' = "update"
  <2>. DEFINE q == pools'
              n == fresh'
  <2>1. /\ IsPools(q) /\ AsOnChain(q, n) /\ n \subseteq DOMAIN q
        /\ n = {} \/ pc' = "update"
    BY <1>1, <1>2
  <2>. QED BY <2>1 DEF IsPools, AsOnChain
<1>4. /\ (saved_pools # None => IsPools(saved_pools) /\ AsOnChain(saved_pools, {}))'
      /\ (saved_all # None => IsPools(saved_all) /\ AsOnChain(saved_all, DOMAIN saved_all))'
  BY <1>1 DEF PoolInv, IsPools, AsOnChain
<1>. QED BY <1>3, <1>4 DEF PoolInv

\* Nothing is in memory once main() is left.
LEMMA LeavePools ==
  ASSUME PoolInv, NEW next \in {"start", "down"}, Leave(next)
  PROVE  PoolInv'
<1>1. UNCHANGED <<saved_pools, saved_all>> /\ pools' = <<>> /\ fresh' = {}
  BY DEF Leave, NoWork, fileVars
<1>2. IsPools(pools)' /\ AsOnChain(pools, fresh)' /\ (fresh \subseteq DOMAIN pools)'
  <2>. DEFINE q == pools'
  <2>1. DOMAIN q = {} /\ q = [p \in {} |-> q[p]]
    BY <1>1
  <2>. HIDE DEF q
  <2>2. IsPools(q) /\ AsOnChain(q, {})
    BY <2>1 DEF IsPools, AsOnChain
  <2>. QED BY <1>1, <2>2 DEF IsPools, AsOnChain, q
<1>3. /\ (saved_pools # None => IsPools(saved_pools) /\ AsOnChain(saved_pools, {}))'
      /\ (saved_all # None => IsPools(saved_all) /\ AsOnChain(saved_all, DOMAIN saved_all))'
  BY <1>1 DEF PoolInv, IsPools, AsOnChain
<1>. QED BY <1>1, <1>2, <1>3 DEF PoolInv

\* The steps that leave pools and files of pools alone.
LEMMA OtherStepsPools ==
  ASSUME ChainInv, PoolInv,
         \/ MulticallStep \/ NodeReplies \/ LoseConnection
         \/ AskNext \/ AskZerosAgain \/ GetPoolAddresses \/ GetTokens
         \/ GetPoolNumbers \/ PrepareTokensParams \/ SaveAllNumbers
         \/ NothingToUpdate \/ AskUpdates \/ FilterPools
         \/ BuildPaths \/ FindPaths \/ PathsFound \/ SavePoolNumbers \/ Poll \/ Start
         \/ (\E f \in Factories : CreatePair(f)) \/ (\E p \in Pools : MoveLiquidity(p))
  PROVE  PoolInv' /\ UNCHANGED <<pools, fresh, saved_pools, saved_all>>
<1>. DEFINE Holders == {"save_all", "save_all_numbers", "update", "apply"}
            Same == UNCHANGED <<pools, fresh, saved_pools, saved_all>>
            Kind == pc \notin Holders \/ pc' \in Holders \/ fresh = {}
<1>1. Same
  <2>1. CASE \/ MulticallStep \/ NodeReplies \/ LoseConnection
             \/ AskNext \/ AskZerosAgain \/ GetPoolAddresses \/ GetTokens
    BY <2>1 DEF MulticallStep, NodeReplies, LoseConnection, AskNext, AskZerosAgain,
         GetPoolAddresses, GetTokens, NextFactory, mainVars, workVars, fileVars
  <2>2. CASE \/ GetPoolNumbers \/ PrepareTokensParams \/ SaveAllNumbers
             \/ NothingToUpdate \/ AskUpdates \/ FilterPools
    BY <2>2 DEF GetPoolNumbers, PrepareTokensParams, SaveAllNumbers, NothingToUpdate, AskUpdates,
         FilterPools, mainVars, workVars, fileVars
  <2>3. CASE \/ BuildPaths \/ FindPaths \/ PathsFound \/ SavePoolNumbers \/ Poll \/ Start
    BY <2>3 DEF BuildPaths, FindPaths, PathsFound, SavePoolNumbers, Poll, Start, mainVars, workVars,
         fileVars
  <2>4. CASE (\E f \in Factories : CreatePair(f)) \/ (\E p \in Pools : MoveLiquidity(p))
    BY <2>4 DEF CreatePair, MoveLiquidity, mainVars, workVars, fileVars
  <2>. QED BY <2>1, <2>2, <2>3, <2>4
<1>2. Kind
  <2>1. CASE \/ MulticallStep \/ NodeReplies \/ LoseConnection
             \/ AskNext \/ AskZerosAgain \/ GetPoolAddresses \/ GetTokens
    BY <2>1 DEF MulticallStep, NodeReplies, LoseConnection, AskNext, AskZerosAgain,
         GetPoolAddresses, GetTokens
  <2>2. CASE \/ GetPoolNumbers \/ PrepareTokensParams \/ SaveAllNumbers
             \/ NothingToUpdate \/ AskUpdates \/ FilterPools
    BY <2>2 DEF GetPoolNumbers, PrepareTokensParams, SaveAllNumbers, NothingToUpdate, AskUpdates,
         FilterPools
  <2>3. CASE \/ BuildPaths \/ FindPaths \/ PathsFound \/ SavePoolNumbers \/ Poll \/ Start
    BY <2>3 DEF BuildPaths, FindPaths, PathsFound, SavePoolNumbers, Poll, Start
  <2>4. CASE (\E f \in Factories : CreatePair(f)) \/ (\E p \in Pools : MoveLiquidity(p))
    BY <2>4 DEF CreatePair, MoveLiquidity
  <2>. QED BY <2>1, <2>2, <2>3, <2>4
<1>3. fresh = {} \/ pc' \in Holders
  BY <1>2 DEF PoolInv
<1>. QED BY <1>1, <1>3, PoolsStay

-----------------------------------------------------------------------------
(* The numbers and the pools they count, step by step                        *)

\* What counts some pools counts them among more.
LEMMA CountedMono ==
  ASSUME NEW numbers, NEW D, NEW E, Counted(numbers, D), D \subseteq E
  PROVE  Counted(numbers, E)
BY DEF Counted

\* The numbers and the files stay, and nothing is lost.
LEMMA CoverStays ==
  ASSUME CoverInv, UNCHANGED <<pool_numbers, fileVars>>,
         judged \subseteq judged', Known \subseteq Known',
         pc' \notin {"down", "start"} /\ ~ FirstRound' => pc \notin {"down", "start"} /\ ~ FirstRound,
         FirstRound' => FirstRound,
         \/ pc' \notin {"save_all", "save_all_numbers", "save_numbers"}
         \/ pc' = pc /\ UNCHANGED pools
  PROVE  CoverInv'
<1>1. Backing' = Backing /\ (HasPools(saved_pools)' <=> HasPools(saved_pools))
      /\ (HasPools(saved_all)' <=> HasPools(saved_all))
  BY DEF Backing, HasPools, fileVars
<1>2. Counted(saved_numbers', Backing' \cup judged') /\ Counted(saved_all_numbers', Backing' \cup judged')
  <2>1. Backing \cup judged \subseteq Backing' \cup judged'
    BY <1>1
  <2>2. Counted(saved_numbers, Backing' \cup judged') /\ Counted(saved_all_numbers, Backing' \cup judged')
    BY <2>1, CountedMono DEF CoverInv
  <2>. QED BY <2>2 DEF fileVars
<1>3. pc' \notin {"down", "start"} /\ ~ FirstRound' =>
        /\ Counted(pool_numbers', Known')
        /\ Counted(saved_numbers', Known') /\ Counted(saved_all_numbers', Known')
  <2>1. ASSUME pc' \notin {"down", "start"}, ~ FirstRound'
        PROVE  /\ Counted(pool_numbers, Known')
               /\ Counted(saved_numbers, Known') /\ Counted(saved_all_numbers, Known')
    <3>1. /\ Counted(pool_numbers, Known)
          /\ Counted(saved_numbers, Known) /\ Counted(saved_all_numbers, Known)
      BY <2>1 DEF CoverInv
    <3>. QED BY <3>1, CountedMono
  <2>. QED BY <2>1 DEF fileVars
<1>4. FirstRound' \/ pc' = "save_all" => ~ HasPools(saved_pools)' /\ ~ HasPools(saved_all)'
  BY <1>1 DEF CoverInv
<1>5. /\ pc' = "save_all_numbers" => ~ HasPools(saved_pools)' /\ saved_all' = pools'
      /\ pc' = "save_numbers" => saved_pools' = pools'
  BY <1>1 DEF CoverInv, fileVars
<1>. QED BY <1>2, <1>3, <1>4, <1>5 DEF CoverInv, Counted

\* The steps that leave numbers, pools and files alone, and at most judge.
LEMMA OtherStepsCover ==
  ASSUME ChainInv, CoverInv, NumberInv',
         \/ MulticallStep \/ NodeReplies \/ LoseConnection
         \/ AskNext \/ AskZerosAgain \/ GetPoolAddresses \/ GetTokens
         \/ GetPoolNumbers \/ PrepareTokensParams
         \/ NothingToUpdate \/ AskUpdates \/ FilterPools
         \/ BuildPaths \/ FindPaths \/ PathsFound \/ Poll \/ Start
         \/ (\E f \in Factories : CreatePair(f)) \/ (\E p \in Pools : MoveLiquidity(p))
  PROVE  CoverInv'
<1>. DEFINE FR == {"numbers", "addresses", "tokens"}
            Same == UNCHANGED <<pool_numbers, fileVars, pools>> /\ judged \subseteq judged'
            Kind == \/ pc' = pc /\ round' = round
                    \/ pc \in FR /\ pc' \in FR /\ round' = round
                    \/ pc = "loop" /\ pc' \in FR /\ round' = "new"
                    \/ pc = "down" /\ pc' = "start"
                    \/ pc' = "filter" /\ pc \in {"numbers", "update"}
                    \/ /\ pc \in {"update", "filter", "paths", "search"} /\ round' = round
                       /\ pc' \in {"apply", "loop", "paths", "excluded", "search", "save"}
<1>1. Same
  <2>1. CASE \/ MulticallStep \/ NodeReplies \/ LoseConnection
             \/ AskNext \/ AskZerosAgain \/ GetPoolAddresses \/ GetTokens
    BY <2>1 DEF MulticallStep, NodeReplies, LoseConnection, AskNext, AskZerosAgain,
         GetPoolAddresses, GetTokens, NextFactory, mainVars, historyVars
  <2>2. CASE \/ GetPoolNumbers \/ PrepareTokensParams
             \/ NothingToUpdate \/ AskUpdates \/ FilterPools
    BY <2>2 DEF GetPoolNumbers, PrepareTokensParams, NothingToUpdate, AskUpdates,
         FilterPools, mainVars, historyVars
  <2>3. CASE \/ BuildPaths \/ FindPaths \/ PathsFound \/ Poll \/ Start
    BY <2>3 DEF BuildPaths, FindPaths, PathsFound, Poll, Start, mainVars, historyVars
  <2>4. CASE (\E f \in Factories : CreatePair(f)) \/ (\E p \in Pools : MoveLiquidity(p))
    BY <2>4 DEF CreatePair, MoveLiquidity, mainVars, historyVars
  <2>. QED BY <2>1, <2>2, <2>3, <2>4
<1>2. Kind
  <2>1. CASE \/ MulticallStep \/ NodeReplies \/ LoseConnection
             \/ AskNext \/ AskZerosAgain \/ GetPoolAddresses \/ GetTokens
    BY <2>1 DEF MulticallStep, NodeReplies, LoseConnection, AskNext, AskZerosAgain,
         GetPoolAddresses, GetTokens, NextFactory, mainVars
  <2>2. CASE GetPoolNumbers \/ PrepareTokensParams
    BY <2>2 DEF GetPoolNumbers, PrepareTokensParams, mainVars
  <2>3. CASE NothingToUpdate \/ AskUpdates \/ FilterPools
    BY <2>3 DEF NothingToUpdate, AskUpdates, FilterPools, AfterUpdate, mainVars
  <2>4. CASE BuildPaths \/ FindPaths \/ PathsFound
    BY <2>4 DEF BuildPaths, FindPaths, PathsFound, mainVars
  <2>5. CASE Poll \/ Start
    BY <2>5 DEF Poll, Start
  <2>6. CASE (\E f \in Factories : CreatePair(f)) \/ (\E p \in Pools : MoveLiquidity(p))
    BY <2>6 DEF CreatePair, MoveLiquidity, mainVars
  <2>. QED BY <2>1, <2>2, <2>3, <2>4, <2>5, <2>6
<1>3. pc' = "filter" => round' = "new" /\ (pc = "numbers" => round' = round)
  <2>1. pc = "numbers" /\ pc' = "filter" => round' = round
    BY DEF MulticallStep, NodeReplies, LoseConnection, AskNext, AskZerosAgain, GetPoolAddresses,
           GetTokens, GetPoolNumbers, PrepareTokensParams, NothingToUpdate, AskUpdates, FilterPools,
           BuildPaths, FindPaths, PathsFound, Poll, Start, CreatePair, MoveLiquidity, mainVars
  <2>. QED BY <2>1 DEF NumberInv
<1>4. /\ pc' \notin {"down", "start"} /\ ~ FirstRound' => pc \notin {"down", "start"} /\ ~ FirstRound
      /\ FirstRound' => FirstRound
      /\ \/ pc' \notin {"save_all", "save_all_numbers", "save_numbers"}
         \/ pc' = pc /\ UNCHANGED pools
  BY <1>1, <1>2, <1>3 DEF FirstRound
<1>5. Known \subseteq Known'
  BY <1>1 DEF Known
<1>. QED BY <1>1, <1>4, <1>5, CoverStays

\* create_pools: what a round counts is what was there and what it found.
LEMMA CreatePoolsCover ==
  ASSUME ChainInv, WorkInv, PoolInv, CoverInv, CreatePools
  PROVE  CoverInv'
<1>1. /\ UNCHANGED <<fileVars, judged, round>>
      /\ pc = "tokens" /\ todo = <<>> /\ pc' = IF round = "all" THEN "save_all" ELSE "update"
      /\ pool_numbers' = latest
  BY DEF CreatePools, historyVars
<1>2. DOMAIN pools' = IF round = "all" THEN DOMAIN NewPools ELSE DOMAIN pools \cup DOMAIN NewPools
  BY CreatePoolsPools
<1>3. \A f \in Factories : Span(f) \subseteq DOMAIN NewPools \cup judged
  BY <1>1, NewPoolsAre DEF WorkInv
<1>4. DOMAIN NewPools \cup judged \subseteq Known' /\ (round = "new" => Known \subseteq Known')
  BY <1>1, <1>2 DEF Known
<1>5. Backing' = Backing /\ (HasPools(saved_pools)' <=> HasPools(saved_pools))
      /\ (HasPools(saved_all)' <=> HasPools(saved_all))
  BY <1>1 DEF Backing, HasPools, fileVars
<1>6. latest \in NumberFns
  BY <1>1 DEF WorkInv, NumberInv
<1>7. Counted(latest, Known')
  <2>1. ASSUME NEW f \in Factories, NEW i \in 1..latest[f] PROVE Pairs[f][i] \in Known'
    <3>1. First(f) \in Nat /\ Stop(f) = latest[f] /\ latest[f] \in Nat
      BY <1>1, <1>6, RangesAre DEF WorkInv, Phases, Stop, NumberFns
    <3>2. CASE i > First(f)
      <4>1. Pairs[f][i] \in Span(f)
        BY <3>1, <3>2 DEF Span
      <4>. QED BY <1>3, <1>4, <4>1
    <3>3. CASE ~ (i > First(f))
      <4>1. First(f) > 0
        BY <3>1, <3>3
      <4>2. old_numbers # None /\ First(f) = old_numbers[f]
        BY <1>1, <4>1 DEF First
      <4>3. round = "new" /\ pool_numbers # None /\ First(f) = pool_numbers[f]
        BY <4>2 DEF old_numbers, ChainInv
      <4>4. Counted(pool_numbers, Known)
        BY <1>1, <4>3 DEF CoverInv, FirstRound
      <4>5. i \in 1..pool_numbers[f]
        BY <3>1, <3>3, <4>3
      <4>6. Pairs[f][i] \in Known
        BY <4>3, <4>4, <4>5 DEF Counted
      <4>. QED BY <1>4, <4>3, <4>6
    <3>. QED BY <3>2, <3>3
  <2>. QED BY <2>1 DEF Counted
<1>8. Counted(saved_numbers, Known') /\ Counted(saved_all_numbers, Known')
  <2>1. CASE round = "all"
    <3>1. Backing = {}
      BY <1>1, <2>1 DEF CoverInv, FirstRound, Backing
    <3>2. Backing \cup judged \subseteq Known'
      BY <1>4, <3>1
    <3>. QED BY <3>2, CountedMono DEF CoverInv
  <2>2. CASE round = "new"
    <3>1. Counted(saved_numbers, Known) /\ Counted(saved_all_numbers, Known)
      BY <1>1, <2>2 DEF CoverInv, FirstRound
    <3>. QED BY <1>4, <2>2, <3>1, CountedMono
  <2>. QED BY <2>1, <2>2 DEF ChainInv
<1>9. /\ Counted(saved_numbers, Backing \cup judged) /\ Counted(saved_all_numbers, Backing \cup judged)
      /\ pc' = "save_all" => ~ HasPools(saved_pools) /\ ~ HasPools(saved_all)
  BY <1>1 DEF CoverInv, FirstRound
<1>10. /\ Counted(saved_numbers', Backing' \cup judged') /\ Counted(saved_all_numbers', Backing' \cup judged')
       /\ Counted(saved_numbers', Known') /\ Counted(saved_all_numbers', Known')
       /\ Counted(pool_numbers', Known')
  BY <1>1, <1>5, <1>7, <1>8, <1>9 DEF fileVars
<1>11. ~ FirstRound' /\ pc' \notin {"save_all_numbers", "save_numbers"}
  BY <1>1 DEF FirstRound
<1>. QED BY <1>1, <1>5, <1>9, <1>10, <1>11 DEF CoverInv, Counted

\* Updating and filtering the pools loses none that was not judged.
LEMMA UpdateAndFilterCover ==
  ASSUME CallInv, PoolInv, CoverInv, ApplyUpdates \/ RemoveLowLiquidityPools
  PROVE  CoverInv'
<1>1. /\ UNCHANGED <<pool_numbers, fileVars>> /\ judged \subseteq judged'
      /\ pc \in {"apply", "excluded"} /\ pc' \in {"filter", "loop", "paths"}
  BY DEF ApplyUpdates, RemoveLowLiquidityPools, AfterUpdate, historyVars
<1>2. Known \subseteq Known'
  <2>1. CASE ApplyUpdates
    <3>1. DOMAIN pools' = DOMAIN pools
      BY <2>1, ApplyUpdatesPools
    <3>. QED BY <1>1, <3>1 DEF Known
  <2>2. CASE RemoveLowLiquidityPools
    BY <2>2, RemoveLowPools DEF Known
  <2>. QED BY <2>1, <2>2
<1>. QED BY <1>1, <1>2, CoverStays DEF FirstRound

\* The pools go to a file before the number that counts them, and what the file holds is
\* no longer judged.
LEMMA SaveAllPoolsCover ==
  ASSUME PoolInv, CoverInv, SaveAllPools
  PROVE  CoverInv'
<1>1. /\ UNCHANGED <<saved_pools, saved_numbers, saved_all_numbers, pools, pool_numbers, round>>
      /\ pc = "save_all" /\ pc' = "save_all_numbers"
      /\ saved_all' = pools /\ judged' = judged \ DOMAIN pools
  BY DEF SaveAllPools, mainVars
<1>2. /\ ~ HasPools(saved_pools) /\ ~ HasPools(saved_all)
      /\ Counted(saved_numbers, Known) /\ Counted(saved_all_numbers, Known)
      /\ Counted(pool_numbers, Known)
  BY <1>1 DEF CoverInv, FirstRound
<1>3. Known' = Known
  BY <1>1 DEF Known
<1>4. Backing' = DOMAIN pools
  <2>1. pools # None
    BY NoFileAssumption DEF PoolInv, IsPools
  <2>. QED BY <1>1, <1>2, <2>1 DEF Backing, HasPools
<1>5. Backing' \cup judged' = Known'
  BY <1>1, <1>4 DEF Known
<1>6. ~ HasPools(saved_pools)' /\ ~ FirstRound'
  BY <1>1, <1>2 DEF HasPools, FirstRound
<1>7. /\ Counted(saved_numbers', Known') /\ Counted(saved_all_numbers', Known')
      /\ Counted(pool_numbers', Known')
  BY <1>1, <1>2, <1>3
<1>8. Counted(saved_numbers', Backing' \cup judged') /\ Counted(saved_all_numbers', Backing' \cup judged')
  BY <1>5, <1>7
<1>. QED BY <1>1, <1>6, <1>7, <1>8 DEF CoverInv, Counted

\* The number is saved when the pools that it counts are.
LEMMA SaveAllNumbersCover ==
  ASSUME PoolInv, CoverInv, SaveAllNumbers
  PROVE  CoverInv'
<1>1. /\ UNCHANGED <<saved_pools, saved_numbers, saved_all, pools, pool_numbers, round, judged>>
      /\ pc = "save_all_numbers" /\ pc' = "update" /\ saved_all_numbers' = pool_numbers
  BY DEF SaveAllNumbers, mainVars, historyVars
<1>2. /\ ~ HasPools(saved_pools) /\ saved_all = pools
      /\ Counted(saved_numbers, Known) /\ Counted(pool_numbers, Known)
  BY <1>1 DEF CoverInv, FirstRound
<1>3. Known' = Known
  BY <1>1 DEF Known
<1>4. Backing' = DOMAIN pools
  <2>1. pools # None
    BY NoFileAssumption DEF PoolInv, IsPools
  <2>. QED BY <1>1, <1>2, <2>1 DEF Backing, HasPools
<1>5. Backing' \cup judged' = Known'
  BY <1>1, <1>4 DEF Known
<1>6. /\ Counted(saved_numbers', Known') /\ Counted(saved_all_numbers', Known')
      /\ Counted(pool_numbers', Known')
  BY <1>1, <1>2, <1>3
<1>7. Counted(saved_numbers', Backing' \cup judged') /\ Counted(saved_all_numbers', Backing' \cup judged')
  BY <1>5, <1>6
<1>8. ~ FirstRound'
  BY <1>1 DEF FirstRound
<1>. QED BY <1>1, <1>6, <1>7, <1>8 DEF CoverInv, Counted

\* The same for the files of the round that follows, and for those the timer saves.
LEMMA SavePoolsCover ==
  ASSUME PoolInv', CoverInv, DOMAIN pools' = DOMAIN pools, saved_pools' = pools',
         judged' = judged \ DOMAIN pools, pc \in {"save", "loop"},
         pc' \in {"save_numbers", "loop"},
         UNCHANGED <<saved_numbers, saved_all, saved_all_numbers, pool_numbers>>
  PROVE  CoverInv'
<1>1. /\ Counted(saved_numbers, Known) /\ Counted(saved_all_numbers, Known)
      /\ Counted(pool_numbers, Known)
  BY DEF CoverInv, FirstRound
<1>2. Known' = Known
  BY DEF Known
<1>3. Known' \subseteq Backing' \cup judged'
  <2>1. saved_pools' # None
    BY NoFileAssumption DEF PoolInv, IsPools
  <2>2. CASE DOMAIN pools = {}
    BY <2>2 DEF Known
  <2>3. CASE DOMAIN pools # {}
    <3>1. Backing' = DOMAIN pools'
      BY <2>1, <2>3 DEF Backing, HasPools
    <3>. QED BY <3>1 DEF Known
  <2>. QED BY <2>2, <2>3
<1>4. /\ Counted(saved_numbers', Known') /\ Counted(saved_all_numbers', Known')
      /\ Counted(pool_numbers', Known')
  BY <1>1, <1>2
<1>5. Counted(saved_numbers', Backing' \cup judged') /\ Counted(saved_all_numbers', Backing' \cup judged')
  BY <1>3, <1>4, CountedMono
<1>6. ~ FirstRound'
  BY DEF FirstRound
<1>. QED BY <1>4, <1>5, <1>6 DEF CoverInv, Counted

\* So is that of the filtered pools.
LEMMA SavePoolNumbersCover ==
  ASSUME PoolInv, CoverInv, SavePoolNumbers
  PROVE  CoverInv'
<1>1. /\ UNCHANGED <<saved_pools, saved_all, saved_all_numbers, pools, pool_numbers, judged>>
      /\ pc = "save_numbers" /\ pc' = "loop" /\ saved_numbers' = pool_numbers
  BY DEF SavePoolNumbers, mainVars
<1>2. /\ saved_pools = pools /\ Counted(pool_numbers, Known) /\ Counted(saved_all_numbers, Known)
      /\ Counted(saved_all_numbers, Backing \cup judged)
  BY <1>1 DEF CoverInv, FirstRound
<1>3. Known' = Known /\ Backing' = Backing
  BY <1>1 DEF Known, Backing, HasPools
<1>4. Known \subseteq Backing \cup judged
  <2>1. pools # None
    BY NoFileAssumption DEF PoolInv, IsPools
  <2>2. CASE DOMAIN pools = {}
    BY <2>2 DEF Known
  <2>3. CASE DOMAIN pools # {}
    BY <1>2, <2>1, <2>3 DEF Known, Backing, HasPools
  <2>. QED BY <2>2, <2>3
<1>5. Counted(pool_numbers, Backing \cup judged)
  BY <1>2, <1>4, CountedMono
<1>6. /\ Counted(saved_numbers', Known') /\ Counted(saved_all_numbers', Known')
      /\ Counted(pool_numbers', Known')
  BY <1>1, <1>2, <1>3
<1>7. Counted(saved_numbers', Backing' \cup judged') /\ Counted(saved_all_numbers', Backing' \cup judged')
  BY <1>1, <1>2, <1>3, <1>5
<1>8. ~ FirstRound'
  BY <1>1 DEF FirstRound
<1>. QED BY <1>1, <1>6, <1>7, <1>8 DEF CoverInv, Counted

\* An iteration of the main loop may save main's pools; the number of an earlier save counts them too.
LEMMA SyncPoolsCover ==
  ASSUME ChainInv, PoolInv, CoverInv, SyncPools
  PROVE  CoverInv'
<1>1. /\ UNCHANGED <<saved_numbers, saved_all, saved_all_numbers, pool_numbers, round>>
      /\ pc = "loop" /\ pc' = "loop"
      /\ \/ UNCHANGED <<saved_pools, judged>>
         \/ saved_pools' = pools' /\ judged' = judged \ DOMAIN pools
  BY DEF SyncPools
<1>2. PoolInv' /\ DOMAIN pools' = DOMAIN pools
  BY SyncPoolsPools
<1>3. CASE UNCHANGED <<saved_pools, judged>>
  <2>1. Known' = Known
    BY <1>2, <1>3 DEF Known
  <2>. QED BY <1>1, <1>3, <2>1, CoverStays DEF FirstRound, fileVars
<1>4. CASE saved_pools' = pools' /\ judged' = judged \ DOMAIN pools
  BY <1>1, <1>2, <1>4, SavePoolsCover
<1>. QED BY <1>1, <1>3, <1>4

\* load_data: the number comes with the file that it counts.
LEMMA LoadDataCover ==
  ASSUME CoverInv, LoadData
  PROVE  CoverInv'
<1>. DEFINE Resumed(file, numbers) ==
              /\ pools' = file /\ pool_numbers' = numbers /\ judged' = judged \ DOMAIN file
              /\ pc' \in {"loop", "paths", "update"} /\ Backing = DOMAIN file
              /\ numbers \in {saved_numbers, saved_all_numbers}
<1>1. /\ UNCHANGED fileVars /\ pc = "start" /\ round' = "all"
      /\ \/ \E file, numbers : Resumed(file, numbers)
         \/ /\ ~ HasPools(saved_pools) /\ ~ HasPools(saved_all) /\ pc' = "numbers"
            /\ UNCHANGED <<pools, pool_numbers, judged>>
  BY DEF LoadData, Resume, Backing
<1>2. Backing' = Backing /\ (HasPools(saved_pools)' <=> HasPools(saved_pools))
      /\ (HasPools(saved_all)' <=> HasPools(saved_all))
      /\ UNCHANGED <<saved_numbers, saved_all_numbers>>
  BY <1>1 DEF Backing, HasPools, fileVars
<1>3. Counted(saved_numbers, Backing \cup judged) /\ Counted(saved_all_numbers, Backing \cup judged)
  BY DEF CoverInv
<1>4. ASSUME NEW file, NEW numbers, Resumed(file, numbers) PROVE CoverInv'
  <2>1. Known' = Backing \cup judged /\ Backing' \cup judged' = Backing \cup judged
    BY <1>2, <1>4 DEF Known
  <2>2. /\ Counted(saved_numbers', Known') /\ Counted(saved_all_numbers', Known')
        /\ Counted(pool_numbers', Known')
        /\ Counted(saved_numbers', Backing' \cup judged')
        /\ Counted(saved_all_numbers', Backing' \cup judged')
    <3>1. Counted(numbers, Backing \cup judged)
      BY <1>3, <1>4
    <3>. QED BY <1>2, <1>3, <1>4, <2>1, <3>1
  <2>3. ~ FirstRound' /\ pc' \notin {"save_all", "save_all_numbers", "save_numbers"}
    BY <1>4 DEF FirstRound
  <2>. QED BY <2>2, <2>3 DEF CoverInv, Counted
<1>5. CASE /\ ~ HasPools(saved_pools) /\ ~ HasPools(saved_all) /\ pc' = "numbers"
           /\ UNCHANGED <<pools, pool_numbers, judged>>
  <2>1. FirstRound'
    BY <1>1, <1>5 DEF FirstRound
  <2>2. Counted(saved_numbers', Backing' \cup judged') /\ Counted(saved_all_numbers', Backing' \cup judged')
    BY <1>2, <1>3, <1>5
  <2>. QED BY <1>2, <1>5, <2>1, <2>2 DEF CoverInv, Counted
<1>. QED BY <1>1, <1>4, <1>5

\* What main loses with its memory, the files still have.
LEMMA LeaveCover ==
  ASSUME CoverInv, NEW next \in {"start", "down"}, Leave(next)
  PROVE  CoverInv'
<1>1. UNCHANGED <<fileVars, judged>> /\ pc' \in {"start", "down"}
  BY DEF Leave
<1>2. Backing' = Backing /\ UNCHANGED <<saved_numbers, saved_all_numbers>>
  BY <1>1 DEF Backing, HasPools, fileVars
<1>3. Counted(saved_numbers', Backing' \cup judged') /\ Counted(saved_all_numbers', Backing' \cup judged')
  BY <1>1, <1>2 DEF CoverInv
<1>4. ~ FirstRound' /\ pc' \notin {"save_all", "save_all_numbers", "save_numbers"}
  BY <1>1 DEF FirstRound
<1>. QED BY <1>1, <1>3, <1>4 DEF CoverInv, Counted

-----------------------------------------------------------------------------
(* The invariant                                                             *)

\* The chain only grows, and main is where its program has it.
LEMMA ChainKeeps ==
  ASSUME ChainInv, Next
  PROVE  ChainInv'
<1>. DEFINE Points == {"down", "start", "loop", "numbers", "addresses", "tokens", "save_all",
                       "save_all_numbers", "update", "apply", "filter", "excluded", "paths",
                       "search", "save", "save_numbers"}
            Main == UNCHANGED chainVars /\ round' \in {round, "all", "new"} /\ pc' \in {pc} \cup Points
<1>1. CASE MulticallStep \/ NodeReplies \/ LoseConnection \/ AskNext \/ AskZerosAgain
  <2>1. Main
    BY <1>1 DEF MulticallStep, NodeReplies, LoseConnection, AskNext, AskZerosAgain, mainVars
  <2>. QED BY <2>1 DEF ChainInv, chainVars
<1>2. CASE GetPoolAddresses \/ GetTokens \/ GetPoolNumbers \/ PrepareTokensParams \/ CreatePools
  <2>1. Main
    BY <1>2 DEF GetPoolAddresses, GetTokens, NextFactory, GetPoolNumbers, PrepareTokensParams,
                CreatePools, mainVars
  <2>. QED BY <2>1 DEF ChainInv, chainVars
<1>3. CASE SaveAllPools \/ SaveAllNumbers \/ SavePools \/ SavePoolNumbers
  <2>1. Main
    BY <1>3 DEF SaveAllPools, SaveAllNumbers, SavePools, SavePoolNumbers, mainVars
  <2>. QED BY <2>1 DEF ChainInv, chainVars
<1>4. CASE NothingToUpdate \/ AskUpdates \/ ApplyUpdates \/ FilterPools \/ RemoveLowLiquidityPools
  <2>1. Main
    BY <1>4 DEF NothingToUpdate, AskUpdates, ApplyUpdates, FilterPools, RemoveLowLiquidityPools,
                AfterUpdate, mainVars
  <2>. QED BY <2>1 DEF ChainInv, chainVars
<1>5. CASE BuildPaths \/ FindPaths \/ PathsFound
  <2>1. Main
    BY <1>5 DEF BuildPaths, FindPaths, PathsFound, mainVars
  <2>. QED BY <2>1 DEF ChainInv, chainVars
<1>6. CASE LoadData \/ Start \/ Poll \/ SyncPools
  <2>1. Main
    BY <1>6 DEF LoadData, Resume, Start, Poll, SyncPools, mainVars
  <2>. QED BY <2>1 DEF ChainInv, chainVars
<1>7. CASE Restart \/ Exit \/ Crash
  <2>1. Main
    BY <1>7 DEF Restart, Exit, Crash, Leave
  <2>. QED BY <2>1 DEF ChainInv, chainVars
<1>8. ASSUME NEW f \in Factories, CreatePair(f) PROVE ChainInv'
  <2>1. /\ UNCHANGED <<liquidity, round, pc>> /\ created[f] < Len(Pairs[f])
        /\ created' = [created EXCEPT ![f] = created[f] + 1]
    BY <1>8 DEF CreatePair, mainVars
  <2>2. \A g \in Factories : created[g] \in Nat /\ Len(Pairs[g]) \in Nat /\ created[g] <= Len(Pairs[g])
    BY PairsAssumption DEF ChainInv, NumberFns
  <2>3. created' \in NumberFns
    BY <2>1, <2>2 DEF ChainInv, NumberFns
  <2>. QED BY <2>1, <2>3 DEF ChainInv
<1>9. ASSUME NEW p \in Pools, MoveLiquidity(p) PROVE ChainInv'
  <2>1. UNCHANGED <<created, round, pc>> /\ liquidity' = [liquidity EXCEPT ![p] = 0]
    BY <1>9 DEF MoveLiquidity, mainVars, Thin
  <2>2. 0 \in 0..MinLiquidity
    BY BoundsAssumption
  <2>. QED BY <2>1, <2>2 DEF ChainInv
<1>. QED BY <1>1, <1>2, <1>3, <1>4, <1>5, <1>6, <1>7, <1>8, <1>9, Zenon DEF Next, Program, Environment

\* The start has the invariant.
LEMMA InitInv == Init => DInv
<1>. SUFFICES ASSUME Init PROVE DInv
  OBVIOUS
<1>1. /\ pc = "down" /\ round = "all" /\ pools = <<>> /\ pool_numbers = None
      /\ latest = None /\ todo = <<>> /\ levels = <<>>
      /\ addresses = <<>> /\ tokens = <<>> /\ invalid = {} /\ fresh = {}
      /\ saved_pools = None /\ saved_numbers = None
      /\ saved_all = None /\ saved_all_numbers = None
      /\ judged = {} /\ unanswered = {} /\ multicallInit
  BY DEF Init
<1>2. pc \notin Phases /\ ~ Asking
  BY <1>1 DEF Phases, Asking
<1>3. ChainInv
  <2>1. created \in [Factories -> 0..1] /\ \A f \in Factories : created[f] <= Len(Pairs[f])
    BY DEF Init
  <2>2. created \in NumberFns
    BY <2>1 DEF NumberFns
  <2>3. liquidity \in [Pools -> 0..MinLiquidity]
    <3>1. liquidity \in [Pools -> {0, MinLiquidity}]
      BY DEF Init, Thin
    <3>2. {0, MinLiquidity} \subseteq 0..MinLiquidity
      BY BoundsAssumption
    <3>. QED BY <3>1, <3>2
  <2>. QED BY <1>1, <2>2, <2>3 DEF ChainInv
<1>4. CallInv
  <2>1. IInv /\ frames = <<>> /\ returned = None
    BY <1>1 DEF multicallInit, IInv, Busy
  <2>2. Len(frames) <= MaxRetries + 1
    BY <2>1, MaxRetriesAssumption
  <2>. QED BY <1>2, <2>1, <2>2 DEF CallInv, Busy
<1>5. WorkInv
  <2>1. TodoInv
    BY <1>1, <1>2 DEF TodoInv, Phases
  <2>2. LevelsInv
    BY <1>1, MaxRetriesAssumption DEF LevelsInv
  <2>3. AddressInv /\ TokenInv
    BY <1>1, <1>2 DEF AddressInv, TokenInv, Phases
  <2>4. UnansweredInv /\ NumberInv
    BY <1>1 DEF UnansweredInv, NumberInv
  <2>. QED BY <2>1, <2>2, <2>3, <2>4 DEF WorkInv
<1>6. PoolInv
  <2>1. IsPools(pools) /\ AsOnChain(pools, fresh)
    <3>1. DOMAIN pools = {} /\ pools = [p \in {} |-> pools[p]]
      BY <1>1
    <3>. QED BY <3>1 DEF IsPools, AsOnChain
  <2>. QED BY <1>1, <2>1 DEF PoolInv
<1>7. CoverInv
  BY <1>1 DEF CoverInv, Counted, HasPools, FirstRound
<1>. QED BY <1>3, <1>4, <1>5, <1>6, <1>7 DEF DInv

\* Every step keeps it.
LEMMA StepKeeps == DInv /\ Next => DInv'
<1>. SUFFICES ASSUME DInv, Next PROVE DInv'
  OBVIOUS
<1>. USE DEF DInv
<1>1. ChainInv'
  BY ChainKeeps
<1>2. CASE \/ MulticallStep \/ NodeReplies \/ LoseConnection
           \/ (\E f \in Factories : CreatePair(f)) \/ (\E p \in Pools : MoveLiquidity(p))
  <2>1. WorkInv' /\ CallInv'
    BY <1>2, OutsideKeeps
  <2>2. PoolInv'
    BY <1>2, OtherStepsPools
  <2>3. CoverInv'
    BY <1>2, <2>1, OtherStepsCover DEF WorkInv
  <2>. QED BY <1>1, <2>1, <2>2, <2>3
<1>3. CASE AskNext \/ AskZerosAgain \/ GetPoolAddresses \/ GetTokens \/ PrepareTokensParams
  <2>1. WorkInv' /\ CallInv'
    BY <1>3, AskNextKeeps, AskZerosAgainKeeps, GetPoolAddressesKeeps, GetTokensKeeps,
       PrepareTokensParamsKeeps
  <2>2. PoolInv'
    BY <1>3, OtherStepsPools
  <2>3. CoverInv'
    BY <1>3, <2>1, OtherStepsCover DEF WorkInv
  <2>. QED BY <1>1, <2>1, <2>2, <2>3
<1>4. CASE GetPoolNumbers \/ AskUpdates \/ FilterPools \/ Poll
  <2>1. WorkInv' /\ CallInv'
    BY <1>4, GetPoolNumbersKeeps, AskUpdatesKeeps, FilterPoolsKeeps, PollKeeps
  <2>2. PoolInv'
    BY <1>4, OtherStepsPools
  <2>3. CoverInv'
    BY <1>4, <2>1, OtherStepsCover DEF WorkInv
  <2>. QED BY <1>1, <2>1, <2>2, <2>3
<1>5. CASE NothingToUpdate \/ BuildPaths \/ FindPaths \/ PathsFound \/ Start
  <2>1. WorkInv' /\ CallInv'
    BY <1>5, QuietStepsKeep
  <2>2. PoolInv'
    BY <1>5, OtherStepsPools
  <2>3. CoverInv'
    BY <1>5, <2>1, OtherStepsCover DEF WorkInv
  <2>. QED BY <1>1, <2>1, <2>2, <2>3
<1>6. CASE CreatePools
  BY <1>1, <1>6, CreatePoolsKeeps, CreatePoolsPools, CreatePoolsCover
<1>7. CASE SaveAllPools \/ SaveAllNumbers
  <2>1. WorkInv' /\ CallInv'
    BY <1>7, QuietStepsKeep
  <2>2. PoolInv'
    BY <1>7, SavePoolsPools, OtherStepsPools
  <2>. QED BY <1>1, <1>7, <2>1, <2>2, SaveAllPoolsCover, SaveAllNumbersCover
<1>8. CASE SavePools
  <2>1. WorkInv' /\ CallInv' /\ PoolInv'
    BY <1>8, QuietStepsKeep, SavePoolsPools
  <2>2. /\ UNCHANGED <<pools, saved_numbers, saved_all, saved_all_numbers, pool_numbers>>
        /\ pc = "save" /\ pc' = "save_numbers" /\ saved_pools' = pools
        /\ judged' = judged \ DOMAIN pools
    BY <1>8 DEF SavePools, mainVars
  <2>3. CoverInv'
    BY <2>1, <2>2, SavePoolsCover
  <2>. QED BY <1>1, <2>1, <2>3
<1>9. CASE SavePoolNumbers
  BY <1>1, <1>9, QuietStepsKeep, OtherStepsPools, SavePoolNumbersCover
<1>10. CASE SyncPools
  BY <1>1, <1>10, QuietStepsKeep, SyncPoolsPools, SyncPoolsCover
<1>11. CASE ApplyUpdates
  BY <1>1, <1>11, ApplyUpdatesKeeps, ApplyUpdatesPools, UpdateAndFilterCover
<1>12. CASE RemoveLowLiquidityPools
  BY <1>1, <1>12, RemoveLowLiquidityPoolsKeeps, RemoveLowPools, UpdateAndFilterCover
<1>13. CASE LoadData
  BY <1>1, <1>13, LoadDataKeeps, LoadDataPools, LoadDataCover
<1>14. CASE Restart \/ Exit \/ Crash
  <2>1. PICK next \in {"start", "down"} : Leave(next)
    BY <1>14 DEF Restart, Exit, Crash
  <2>. QED BY <1>1, <2>1, LeaveKeeps, LeavePools, LeaveCover
<1>. QED BY <1>2, <1>3, <1>4, <1>5, <1>6, <1>7, <1>8, <1>9, <1>10, <1>11, <1>12, <1>13, <1>14
         DEF Next, Program, Environment

\* So does a step that changes nothing.
LEMMA StutterKeeps == DInv /\ UNCHANGED vars => DInv'
<1>. SUFFICES ASSUME DInv, UNCHANGED vars PROVE DInv'
  OBVIOUS
<1>1. /\ UNCHANGED <<pc, round, pool_numbers, latest, todo, levels, addresses, tokens, invalid, fresh>>
      /\ UNCHANGED <<saved_numbers, saved_all_numbers, historyVars, frames, returned>>
      /\ UNCHANGED <<pools, saved_pools, saved_all, fileVars, judged, created, liquidity>>
  BY DEF vars, chainVars, fileVars, workVars, mainVars, historyVars, multicallVars
<1>2. WorkInv'
  BY <1>1, WorkStays DEF DInv
<1>3. CallInv'
  BY <1>1, CallStays DEF DInv
<1>4. PoolInv'
  BY <1>1, PoolsStay DEF DInv, PoolInv
<1>5. CoverInv'
  BY <1>1, CoverStays DEF DInv, Known, FirstRound
<1>6. ChainInv'
  BY <1>1 DEF DInv, ChainInv
<1>. QED BY <1>2, <1>3, <1>4, <1>5, <1>6 DEF DInv

\* The invariant of the discovery: the levels of the retries ask for the zeros of one
\* another, addresses and tokens are those of the ranges asked for, and each number
\* counts pools that the file or the memory it goes with holds, or that were judged.
THEOREM DiscoveryInvariant == Spec => []DInv
<1>1. DInv /\ [Next]_vars => DInv'
  BY StepKeeps, StutterKeeps
<1>. QED BY <1>1, InitInv, PTL DEF Spec

-----------------------------------------------------------------------------
(* What follows                                                              *)

\* main's pools are pools of the chain, the levels of its retries keep to max_retries,
\* and there are two tokens for each address (pools.py).
THEOREM DiscoveryTypes == Spec => []TypeOK
<1>1. ASSUME DInv PROVE TypeOK
  <2>1. created \in [Factories -> Nat] /\ liquidity \in [Pools -> 0..MinLiquidity]
        /\ \A f \in Factories : created[f] <= Len(Pairs[f])
    BY <1>1 DEF DInv, ChainInv, NumberFns
  <2>2. DOMAIN pools \subseteq Pools /\ fresh \subseteq DOMAIN pools
    BY <1>1 DEF DInv, PoolInv, IsPools
  <2>3. pool_numbers = None \/ pool_numbers \in [Factories -> Nat]
    BY <1>1 DEF DInv, WorkInv, NumberInv, NumberFns
  <2>4. Len(frames) <= MaxRetries + 1 /\ Len(levels) <= MaxRetries
        /\ (todo # <<>> \/ levels = <<>>)
    BY <1>1 DEF DInv, CallInv, WorkInv, LevelsInv
  <2>5. DOMAIN addresses \subseteq Factories /\ DOMAIN tokens \subseteq DOMAIN addresses
    BY <1>1 DEF DInv, WorkInv, AddressInv, TokenInv
  <2>6. ASSUME NEW f \in DOMAIN tokens PROVE Len(tokens[f]) = 2 * Len(addresses[f])
    <3>1. addresses[f] \in Seq(Pools) /\ tokens[f] \in AnswersIn(TokenParams(addresses[f]))
      BY <1>1, <2>5 DEF DInv, WorkInv, AddressInv, TokenInv
    <3>. DEFINE found == addresses[f]
                k == 2 * Len(found)
                s == tokens[f]
    <3>2. DOMAIN TokenParams(found) = 1..k /\ k \in Nat
      BY <3>1, TokenParamsIs
    <3>3. s \in Seq(AnyReply) /\ DOMAIN s = 1..k
      BY <3>1, <3>2 DEF AnswersIn
    <3>. HIDE DEF k, s
    <3>4. Len(s) = k
      BY <3>2, <3>3
    <3>. QED BY <3>4 DEF s, k
  <2>. QED BY <2>1, <2>2, <2>3, <2>4, <2>5, <2>6, Zenon DEF TypeOK
<1>. QED BY <1>1, DiscoveryInvariant, PTL

\* No pool falls behind the number that counts it, in memory or in what a restart resumes
\* from: whatever the nodes leave out, and wherever main() breaks off (pools.py:43,
\* main.py:106, loader.py:83).
THEOREM PoolsNotForgotten == Spec => []NoPoolForgotten
<1>1. ASSUME DInv PROVE NoPoolForgotten
  <2>1. ASSUME NEW file, NEW numbers, Counted(numbers, DOMAIN file \cup judged)
        PROVE  Covers(file, numbers)
    BY <2>1 DEF Counted, Covers
  <2>2. pc = "loop" => Covers(pools, pool_numbers)
    BY <1>1, <2>1 DEF DInv, CoverInv, Known, FirstRound
  <2>3. HasPools(saved_pools) => Covers(saved_pools, saved_numbers)
    BY <1>1, <2>1 DEF DInv, CoverInv, Backing
  <2>4. ~ HasPools(saved_pools) /\ HasPools(saved_all) => Covers(saved_all, saved_all_numbers)
    BY <1>1, <2>1 DEF DInv, CoverInv, Backing
  <2>. QED BY <2>2, <2>3, <2>4 DEF NoPoolForgotten
<1>. QED BY <1>1, DiscoveryInvariant, PTL

\* The pools that main works with carry their own tokens and fees, however the answers
\* were put together from lists, retries and chunks (pools.py:404, update.py:108).
THEOREM PoolsTold == Spec => []PoolsAsOnChain
<1>1. ASSUME DInv PROVE PoolsAsOnChain
  BY <1>1 DEF DInv, PoolInv, AsOnChain, PoolsAsOnChain
<1>. QED BY <1>1, DiscoveryInvariant, PTL

\* What main asks for is asked and answered by the rules of Multicall.
LEMMA CallerSteps ==
  ASSUME DInv, DInv', Next
  PROVE  [multicallNext]_multicallVars
<1>1. ASSUME NEW params, Call(params) PROVE multicallNext
  <2>1. frames' = <<Frame(params)>> /\ frames' \in Seq(Frames)
    BY <1>1 DEF Call, DInv, CallInv, IInv
  <2>2. Frame(params) \in Frames /\ Frame(params).params = params
    <3>1. frames'[1] = Frame(params) /\ 1 \in DOMAIN frames'
      BY <2>1
    <3>. QED BY <2>1, <3>1 DEF Frame
  <2>3. params \in Seq(Requests)
    BY <2>2 DEF Frames
  <2>. QED BY <1>1, <2>3 DEF multicallNext
<1>2. CASE MulticallStep \/ LoseConnection
  BY <1>2 DEF MulticallStep, LoseConnection, multicallNext
<1>3. CASE NodeReplies
  BY <1>3, NodesReply DEF DInv, CallInv, multicallNext
<1>4. CASE AskNext \/ AskZerosAgain \/ AskUpdates \/ Poll
  BY <1>1, <1>4 DEF AskNext, AskZerosAgain, AskUpdates, Poll
<1>5. CASE GetPoolAddresses \/ GetTokens \/ GetPoolNumbers \/ ApplyUpdates \/ Restart \/ Exit \/ Crash
  BY <1>5 DEF GetPoolAddresses, GetTokens, NextFactory, GetPoolNumbers, ApplyUpdates, Restart, Exit,
              Crash, Leave, multicallNext
<1>6. CASE PrepareTokensParams \/ CreatePools \/ SaveAllPools \/ SaveAllNumbers \/ NothingToUpdate
  BY <1>6 DEF PrepareTokensParams, CreatePools, SaveAllPools, SaveAllNumbers, NothingToUpdate
<1>7. CASE FilterPools \/ RemoveLowLiquidityPools \/ BuildPaths \/ FindPaths \/ PathsFound
  BY <1>7 DEF FilterPools, RemoveLowLiquidityPools, BuildPaths, FindPaths, PathsFound
<1>8. CASE SavePools \/ SavePoolNumbers \/ Start \/ SyncPools
  BY <1>8 DEF SavePools, SavePoolNumbers, Start, SyncPools
<1>9. CASE (\E f \in Factories : CreatePair(f)) \/ (\E p \in Pools : MoveLiquidity(p))
  BY <1>9 DEF CreatePair, MoveLiquidity
<1>10. CASE LoadData
  BY <1>1, <1>10 DEF LoadData
<1>. QED BY <1>2, <1>3, <1>4, <1>5, <1>6, <1>7, <1>8, <1>9, <1>10 DEF Next, Program, Environment

\* The calls of the discovery, on nodes that fail, lag and break off, are calls of
\* Multicall, and so each request has its own answer or the call raises (multicall.py:126).
THEOREM DiscoveryCallsAnswered == Spec => CallsAnswered
<1>1. Init => multicallInit
  BY DEF Init
<1>2. DInv /\ DInv' /\ [Next]_vars => [multicallNext]_multicallVars
  BY CallerSteps DEF vars, multicallVars
<1>3. Spec => multicallSpec
  BY <1>1, <1>2, DiscoveryInvariant, PTL DEF Spec, multicallSpec
<1>. QED BY <1>3, CallsAreAnswered, PTL

\* The newest pools of a factory are those whose addresses the filter asks for.
LEMMA YoungAreExcluded ==
  ASSUME DInv, pc = "excluded", todo = <<>>, NEW p
  PROVE  (\E f \in DOMAIN addresses : p \in ToSet(addresses[f])) <=> Young(p) /\ p \notin unanswered
<1>1. pc \in Phases /\ Left = {} /\ Missing = unanswered
  BY DEF Phases, Left, Missing
<1>2. /\ \A f \in Factories : First(f) < Stop(f) => f \in DOMAIN addresses
      /\ \A f \in DOMAIN addresses :
           f \in Factories /\ ToSet(addresses[f]) \subseteq Span(f)
           /\ Span(f) \subseteq ToSet(addresses[f]) \cup unanswered
  BY <1>1 DEF DInv, WorkInv, AddressInv
<1>3. pool_numbers \in NumberFns
  BY DEF DInv, WorkInv, NumberInv
<1>4. ASSUME NEW f \in Factories
      PROVE  /\ Stop(f) = pool_numbers[f] /\ Stop(f) \in Nat /\ First(f) \in Nat
             /\ First(f) = IF Stop(f) > Exclude THEN Stop(f) - Exclude ELSE 0
             /\ Span(f) \subseteq ToSet(Pairs[f])
  <2>1. First(f) \in Nat /\ Stop(f) \in Nat /\ Span(f) \subseteq ToSet(Pairs[f])
    BY <1>1, RangesAre DEF DInv, WorkInv
  <2>. QED BY <2>1 DEF First, Stop, FirstExcluded
<1>5. ASSUME NEW f \in DOMAIN addresses, p \in ToSet(addresses[f])
      PROVE  Young(p) /\ p \notin unanswered
  <2>1. f \in Factories /\ p \in Span(f)
    BY <1>2, <1>5
  <2>2. PICK i \in (First(f) + 1)..Stop(f) : p = Pairs[f][i]
    BY <2>1 DEF Span
  <2>3. i \in 1..pool_numbers[f] /\ i + Exclude > pool_numbers[f]
    BY <1>4, <2>1, BoundsAssumption
  <2>4. Young(p)
    BY <2>1, <2>2, <2>3 DEF Young
  <2>5. ASSUME p \in unanswered PROVE FALSE
    <3>1. PICK g \in DOMAIN addresses : p \in Span(g) \ ToSet(addresses[g])
      BY <2>5 DEF DInv, WorkInv, UnansweredInv
    <3>2. FactoryOf(p) = f /\ FactoryOf(p) = g
      BY <1>2, <1>4, <2>1, <3>1, FactoryOfIs
    <3>. QED BY <1>5, <3>1, <3>2
  <2>. QED BY <2>4, <2>5
<1>6. ASSUME Young(p), p \notin unanswered
      PROVE  \E f \in DOMAIN addresses : p \in ToSet(addresses[f])
  <2>1. PICK f \in Factories : \E i \in 1..pool_numbers[f] :
                                 i + Exclude > pool_numbers[f] /\ Pairs[f][i] = p
    BY <1>6 DEF Young
  <2>2. PICK i \in 1..pool_numbers[f] : i + Exclude > pool_numbers[f] /\ Pairs[f][i] = p
    BY <2>1
  <2>3. i \in (First(f) + 1)..Stop(f) /\ First(f) < Stop(f)
    BY <1>4, <2>2, BoundsAssumption
  <2>4. p \in Span(f)
    BY <2>2, <2>3 DEF Span
  <2>. QED BY <1>2, <1>6, <2>3, <2>4
<1>. QED BY <1>5, <1>6

\* What the code does in every case: pools of a factory with fewer than Exclude of them are
\* all exempt, too (get_excluded_ranges, filterer.py:56).
FilterExact ==
  [][(pc = "excluded" /\ pc' = "paths") =>
       \A p \in DOMAIN pools :
         p \in DOMAIN pools' <=> \/ Young(p) /\ p \notin unanswered
                                \/ pools[p].liquidity >= MinLiquidity]_vars

\* The filter parts with thin pools only, with none of the newest of its factory but those
\* that no node gave the address of, and with all the others (filterer.py:54, 100).
THEOREM FilterIsExact == Spec => FilterExact
<1>. DEFINE Kind == \A p \in DOMAIN pools :
                      p \in DOMAIN pools' <=> \/ Young(p) /\ p \notin unanswered
                                             \/ pools[p].liquidity >= MinLiquidity
<1>1. ASSUME DInv, Next, pc = "excluded", pc' = "paths" PROVE Kind
  <2>1. RemoveLowLiquidityPools
    <3>1. CASE MulticallStep \/ NodeReplies \/ LoseConnection \/ AskNext \/ AskZerosAgain
               \/ GetPoolAddresses \/ GetTokens
      BY <1>1, <3>1 DEF MulticallStep, NodeReplies, LoseConnection, AskNext, AskZerosAgain,
                        GetPoolAddresses, GetTokens, NextFactory
    <3>2. CASE GetPoolNumbers \/ PrepareTokensParams \/ CreatePools \/ SaveAllPools \/ SaveAllNumbers
               \/ NothingToUpdate \/ AskUpdates \/ ApplyUpdates \/ FilterPools
      BY <1>1, <3>2 DEF GetPoolNumbers, PrepareTokensParams, CreatePools, SaveAllPools,
                        SaveAllNumbers, NothingToUpdate, AskUpdates, ApplyUpdates, FilterPools
    <3>3. CASE BuildPaths \/ FindPaths \/ PathsFound \/ SavePools \/ SavePoolNumbers \/ LoadData
               \/ Poll \/ Start \/ SyncPools
      BY <1>1, <3>3 DEF BuildPaths, FindPaths, PathsFound, SavePools, SavePoolNumbers, LoadData,
                        Poll, Start, SyncPools
    <3>4. CASE Restart \/ Exit \/ Crash
      BY <1>1, <3>4 DEF Restart, Exit, Crash, Leave
    <3>5. CASE (\E f \in Factories : CreatePair(f)) \/ (\E p \in Pools : MoveLiquidity(p))
      BY <1>1, <3>5 DEF CreatePair, MoveLiquidity
    <3>. QED BY <1>1, <3>1, <3>2, <3>3, <3>4, <3>5 DEF Next, Program, Environment
  <2>. DEFINE excluded == UNION {ToSet(addresses[f]) : f \in DOMAIN addresses}
              low == {p \in DOMAIN pools \ excluded : pools[p].liquidity < MinLiquidity}
  <2>2. todo = <<>> /\ pools' = [p \in DOMAIN pools \ low |-> pools[p]]
    BY <2>1 DEF RemoveLowLiquidityPools
  <2>3. ASSUME NEW p \in DOMAIN pools
        PROVE  p \in DOMAIN pools' <=> \/ Young(p) /\ p \notin unanswered
                                      \/ pools[p].liquidity >= MinLiquidity
    <3>1. p \in DOMAIN pools' <=> p \notin low
      BY <2>2
    <3>2. p \in excluded <=> Young(p) /\ p \notin unanswered
      <4>1. p \in excluded <=> \E f \in DOMAIN addresses : p \in ToSet(addresses[f])
        OBVIOUS
      <4>. HIDE DEF excluded
      <4>. QED BY <1>1, <2>2, <4>1, YoungAreExcluded
    <3>3. pools[p].liquidity \in Nat /\ MinLiquidity \in Nat
      BY <1>1, BoundsAssumption DEF DInv, PoolInv, IsPools, PoolRecord
    <3>. HIDE DEF excluded
    <3>4. p \in low <=> p \notin excluded /\ pools[p].liquidity < MinLiquidity
      OBVIOUS
    <3>. HIDE DEF low
    <3>. QED BY <3>1, <3>2, <3>3, <3>4
  <2>. QED BY <2>3
<1>2. DInv /\ [Next]_vars => [pc = "excluded" /\ pc' = "paths" => Kind]_vars
  BY <1>1
<1>. QED BY <1>2, DiscoveryInvariant, PTL DEF Spec, FilterExact

\* In particular where the docstring of get_excluded_ranges agrees: from factories with at
\* least Exclude pools, old thin pools go and others stay (filterer.py:44, 100).
THEOREM OldThinPoolsLeave == Spec => OldThinPoolsGo
<1>. DEFINE Exact == \A p \in DOMAIN pools :
                       p \in DOMAIN pools' <=> \/ Young(p) /\ p \notin unanswered
                                              \/ pools[p].liquidity >= MinLiquidity
            Agreed == \A p \in DOMAIN pools :
                        \/ Disputed(p)
                        \/ p \in DOMAIN pools' <=> \/ Young(p) /\ p \notin unanswered
                                                  \/ pools[p].liquidity >= MinLiquidity
<1>1. [pc = "excluded" /\ pc' = "paths" => Exact]_vars
        => [pc = "excluded" /\ pc' = "paths" => Agreed]_vars
  OBVIOUS
<1>. QED BY <1>1, FilterIsExact, PTL DEF FilterExact, OldThinPoolsGo

-----------------------------------------------------------------------------
(* The paths                                                                 *)

\* A token that is itself a pool would be among the pools that _find_neighbors and
\* _finalize_path compare with current_path, where tokens and pools are mixed.
NoPoolIsToken ==
  /\ \A p \in Pools : Tokens[p][1] \notin Pools /\ Tokens[p][2] \notin Pools
  /\ \A n \in DOMAIN PathTokens : PathTokens[n] \notin Pools

GraphOf(d) == [p \in DOMAIN d |-> ToSet(d[p].tokens)]
Mapping == {"save", "save_numbers", "loop"}

PathsInv ==
  /\ pc \in {"search"} \cup Mapping => graph = GraphOf(pools)
  /\ pc = "search" => SearchInv
  /\ pc \in Mapping => PathsMapped

\* The graph that main builds joins two different tokens by each pool.
LEMMA BuiltGraphIs ==
  ASSUME NoPoolIsToken, NEW d, IsPools(d), NEW untold, AsOnChain(d, untold), graph' = GraphOf(d)
  PROVE  GraphOk'
<1>1. DOMAIN graph' = DOMAIN d /\ DOMAIN d \subseteq Pools
  BY DEF GraphOf, IsPools
<1>2. ASSUME NEW p \in DOMAIN d
      PROVE  \E a, b : /\ a # b /\ graph'[p] = {a, b}
                       /\ a \notin Pools /\ b \notin Pools
  <2>1. PICK a, b : a = Tokens[p][1] /\ b = Tokens[p][2]
    OBVIOUS
  <2>2. Tokens[p] = <<a, b>> /\ a # b /\ p \in Pools
    BY <2>1 DEF IsPools, Paired
  <2>3. graph'[p] = ToSet(<<a, b>>)
    BY <2>2 DEF GraphOf, AsOnChain
  <2>4. ToSet(<<a, b>>) = {a, b}
    BY DEF ToSet
  <2>. QED BY <2>1, <2>2, <2>3, <2>4 DEF NoPoolIsToken
<1>3. IsFiniteSet(DOMAIN graph')
  BY <1>1, PairsAssumption, FS_Subset
<1>4. ToSet(PathTokens) \cap Pools = {}
  BY DEF NoPoolIsToken, ToSet
<1>. QED BY <1>1, <1>2, <1>3, <1>4 DEF GraphOk

\* Steps that leave the search alone.
LEMMA SearchStays ==
  ASSUME SearchInv, UNCHANGED pathVars
  PROVE  SearchInv'
<1>1. UNCHANGED <<graph, task, stack, current_path, final_paths, pool_to_paths>>
  BY DEF pathVars
<1>2. /\ StartToken' = StartToken /\ WalksOf(task)' = WalksOf(task) /\ Steps' = Steps
      /\ GraphOk' = GraphOk
      /\ \A path, s, k : Fits(path, s, k)' <=> Fits(path, s, k)
      /\ \A path, b, k : OpenWalk(path, b, k)' <=> OpenWalk(path, b, k)
  BY <1>1, WalksStay
<1>3. Depth' = Depth /\ Ends(StartToken)' = Ends(StartToken)
  BY <1>1, <1>2 DEF Depth, Ends
<1>4. SearchOk'
  BY <1>1, <1>2, <1>3 DEF SearchInv, SearchOk
<1>5. \A w : Pending(w)' <=> Pending(w)
  BY <1>1 DEF Pending, Passes
<1>6. FoundOk'
  BY <1>1, <1>2, <1>5 DEF SearchInv, FoundOk
<1>7. PICK n : n = task - 1
  OBVIOUS
<1>8. MappedUpTo(n)'
  BY <1>1, <1>7, MapStays DEF SearchInv
<1>. QED BY <1>1, <1>2, <1>4, <1>6, <1>7, <1>8 DEF SearchInv

\* Steps outside the search keep the mapping, as long as the pools keep their tokens.
LEMMA PathsStay ==
  ASSUME PathsInv, UNCHANGED pathVars, GraphOf(pools)' = GraphOf(pools),
         pc' = pc \/ {pc, pc'} \subseteq Mapping
  PROVE  PathsInv'
<1>1. UNCHANGED <<graph, task, pool_to_paths>>
  BY DEF pathVars
<1>2. ASSUME PathsMapped PROVE PathsMapped'
  <2>1. PICK n : n = Len(PathTokens)
    OBVIOUS
  <2>2. MappedUpTo(n)' /\ GraphOk'
    BY <1>1, <1>2, <2>1, MapStays, WalksStay DEF PathsMapped
  <2>. QED BY <2>1, <2>2 DEF PathsMapped
<1>3. SearchInv => SearchInv'
  BY SearchStays
<1>. QED BY <1>1, <1>2, <1>3 DEF PathsInv, Mapping

\* Each step keeps the invariant of the paths.
LEMMA PathsInvKeeps ==
  ASSUME NoPoolIsToken, ~DownloadPools, DInv, PathsInv, Next
  PROVE  PathsInv'
<1>1. CASE \/ MulticallStep \/ NodeReplies \/ LoseConnection
           \/ AskNext \/ AskZerosAgain \/ GetPoolAddresses \/ GetTokens
  <2>1. UNCHANGED pathVars /\ pools' = pools /\ pc' = pc
    BY <1>1 DEF MulticallStep, NodeReplies, LoseConnection, AskNext, AskZerosAgain,
         GetPoolAddresses, GetTokens, NextFactory, mainVars
  <2>. QED BY <2>1, PathsStay DEF GraphOf
<1>2. CASE (\E f \in Factories : CreatePair(f)) \/ (\E p \in Pools : MoveLiquidity(p))
  <2>1. UNCHANGED pathVars /\ pools' = pools /\ pc' = pc
    BY <1>2 DEF CreatePair, MoveLiquidity, mainVars
  <2>. QED BY <2>1, PathsStay DEF GraphOf
<1>3. CASE SavePools \/ SavePoolNumbers
  <2>1. UNCHANGED pathVars /\ pools' = pools /\ {pc, pc'} \subseteq Mapping
    BY <1>3 DEF SavePools, SavePoolNumbers, mainVars, Mapping
  <2>. QED BY <2>1, PathsStay DEF GraphOf
<1>4. CASE SyncPools
  <2>1. /\ UNCHANGED pathVars /\ pc' = pc
        /\ pools' = [p \in DOMAIN pools |-> [pools[p] EXCEPT !.liquidity = liquidity[p]]]
    BY <1>4 DEF SyncPools
  <2>2. \A p \in DOMAIN pools : pools'[p].tokens = pools[p].tokens
    <3>1. ASSUME NEW p \in DOMAIN pools PROVE pools'[p].tokens = pools[p].tokens
      <4>1. pools[p] \in PoolRecord
        BY DEF DInv, PoolInv, IsPools
      <4>2. pools'[p] = [pools[p] EXCEPT !.liquidity = liquidity[p]]
        BY <2>1
      <4>. QED BY <4>1, <4>2 DEF PoolRecord
    <3>. QED BY <3>1
  <2>3. DOMAIN pools' = DOMAIN pools
    BY <2>1
  <2>4. GraphOf(pools)' = GraphOf(pools)
    BY <2>2, <2>3 DEF GraphOf
  <2>. QED BY <2>1, <2>4, PathsStay
<1>5. CASE pc' \notin {"search"} \cup Mapping
  BY <1>5 DEF PathsInv, Mapping
<1>6. CASE \/ GetPoolNumbers \/ PrepareTokensParams \/ CreatePools \/ SaveAllPools
           \/ SaveAllNumbers \/ NothingToUpdate \/ AskUpdates \/ ApplyUpdates
  BY <1>5, <1>6 DEF GetPoolNumbers, PrepareTokensParams, CreatePools, SaveAllPools, SaveAllNumbers,
     NothingToUpdate, AskUpdates, ApplyUpdates, AfterUpdate, Mapping
<1>7. CASE \/ FilterPools \/ RemoveLowLiquidityPools \/ Poll \/ Start \/ LoadData
           \/ Restart \/ Exit \/ Crash
  BY <1>5, <1>7 DEF FilterPools, RemoveLowLiquidityPools, Poll, Start, LoadData, Resume,
     Restart, Exit, Crash, Leave, Mapping
<1>8. CASE BuildPaths
  <2>1. pools' = pools /\ pc' = "search" /\ BuildGraph(GraphOf(pools))
    BY <1>8 DEF BuildPaths, GraphOf, mainVars
  <2>2. graph' = GraphOf(pools)
    BY <2>1 DEF BuildGraph
  <2>3. GraphOk'
    BY <2>2, BuiltGraphIs DEF DInv, PoolInv
  <2>4. SearchInv'
    BY <2>1, <2>3, BuildGraphKeeps
  <2>. QED BY <2>1, <2>2, <2>4 DEF PathsInv, Mapping, GraphOf
<1>9. CASE FindPaths
  <2>1. pools' = pools /\ pc = "search" /\ pc' = "search" /\ SearchStep
    BY <1>9 DEF FindPaths, mainVars
  <2>2. SearchInv' /\ graph' = graph
    BY <2>1, SearchKeeps DEF PathsInv
  <2>. QED BY <2>1, <2>2 DEF PathsInv, Mapping, GraphOf
<1>10. CASE PathsFound
  <2>1. pools' = pools /\ pc = "search" /\ pc' \in Mapping /\ LastTask
    BY <1>10 DEF PathsFound, mainVars, Mapping
  <2>2. PathsMapped' /\ graph' = graph
    BY <2>1, LastTaskMaps DEF PathsInv
  <2>. QED BY <2>1, <2>2 DEF PathsInv, Mapping, GraphOf
<1>. QED BY <1>1, <1>2, <1>3, <1>4, <1>6, <1>7, <1>8, <1>9, <1>10
         DEF Next, Program, Environment

\* When main has come to its loop, the search has found every closed walk over the pools
\* that main has, and put it once at each of its pools: one path and one stack serve all
\* the branches, and none is left out or gone over twice (builder.py:103).
THEOREM PathsAreExact ==
  ASSUME NoPoolIsToken, ~DownloadPools
  PROVE  Spec => []PathsExact
<1>1. Init => PathsInv
  BY DEF Init, PathsInv, Mapping
<1>2. DInv /\ PathsInv /\ [Next]_vars => PathsInv'
  <2>1. DInv /\ PathsInv /\ Next => PathsInv'
    BY PathsInvKeeps
  <2>2. PathsInv /\ UNCHANGED vars => PathsInv'
    BY PathsStay DEF vars, mainVars, GraphOf
  <2>. QED BY <2>1, <2>2
<1>3. PathsInv => PathsExact
  <2>1. ASSUME PathsInv, pc = "loop" PROVE PathsMapped /\ graph = GraphOf(pools)
    BY <2>1 DEF PathsInv, Mapping
  <2>. QED BY <2>1, MappedIsAll DEF PathsExact, GraphOf
<1>. QED BY <1>1, <1>2, <1>3, DiscoveryInvariant, PTL DEF Spec
==============================================================================
