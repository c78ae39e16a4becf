-------------------------- MODULE TxPipelineProofs --------------------------
(* What holds of TxPipeline for every stock of burners, any number of        *)
(* arbitrages and any number of iterations.                                  *)
EXTENDS TxPipeline, SequenceLemmas

(* The inductive invariant                                                   *)

IsSeq(s) == s \in Seq(ToSet(s))

Shape ==
  /\ pc \in Points
  /\ IsSeq(sent) /\ IsSeq(transactions)
  /\ tx_hashes \in Seq(Nat)
  /\ nonce \in Nat \cup {None}
  /\ \A i \in DOMAIN sent : sent[i].tx.nonce \in Nat

\* Only what this iteration has sent is in flight, and only until the receipts
\* have come.
InFlight ==
  /\ pc \in {"execute", "confirm"} => Pending \subseteq ToSet(tx_hashes)
  /\ pc \in {"loop", "settle", "remove"} => Pending = {}
  /\ pc \in {"loop", "remove"} => tx_hashes = <<>>

\* The transactions still to be executed have consecutive nonces, from one
\* that is above those in flight and not below the number of all sent; the
\* counter leaves room for them.
Ordered ==
  \A k \in DOMAIN transactions :
    /\ transactions[k].nonce \in Nat
    /\ transactions[k].nonce >= Len(sent) + k - 1
    /\ \A l \in DOMAIN transactions :
         k < l => transactions[k].nonce < transactions[l].nonce
    /\ \A i \in Pending : sent[i].tx.nonce < transactions[k].nonce

NoncesAhead ==
  /\ pc = "execute" =>
       /\ nonce \in Nat /\ nonce >= Len(sent) + Len(transactions)
       /\ Ordered
  /\ pc \in {"loop", "confirm", "settle", "remove"} =>
       nonce = None \/ nonce >= Len(sent)

IInv == Shape /\ InFlight /\ NoncesAhead

-----------------------------------------------------------------------------
(* Lemmas on the data                                                        *)

\* The elements of a sequence are enough to type it.
LEMMA OwnElements ==
  ASSUME NEW S, NEW s \in Seq(S)
  PROVE  IsSeq(s)
<1>1. s \in [1..Len(s) -> S] /\ Len(s) \in Nat
  OBVIOUS
<1>2. \A i \in 1..Len(s) : s[i] \in ToSet(s)
  BY <1>1 DEF ToSet
<1>3. s \in [1..Len(s) -> ToSet(s)]
  BY <1>1, <1>2
<1>. QED BY <1>1, <1>3 DEF IsSeq

\* Appending keeps a sequence one.
LEMMA AppendIsSeq ==
  ASSUME NEW s, IsSeq(s), NEW e
  PROVE  /\ IsSeq(Append(s, e))
         /\ DOMAIN Append(s, e) = DOMAIN s \cup {Len(s) + 1}
         /\ Len(Append(s, e)) = Len(s) + 1 /\ Len(s) \in Nat
         /\ \A i \in DOMAIN s : Append(s, e)[i] = s[i]
         /\ Append(s, e)[Len(s) + 1] = e
<1>. DEFINE T == ToSet(s) \cup {e}
<1>1. s \in Seq(T)
  BY DEF IsSeq
<1>2. Append(s, e) \in Seq(T)
  BY <1>1
<1>3. IsSeq(Append(s, e))
  BY <1>2, OwnElements
<1>. HIDE DEF T
<1>. QED BY <1>1, <1>2, <1>3

\* The tail of a sequence that is not empty.
LEMMA TailIsSeq ==
  ASSUME NEW s, IsSeq(s), s # <<>>
  PROVE  /\ IsSeq(Tail(s))
         /\ Len(s) \in Nat \ {0} /\ DOMAIN s = 1..Len(s)
         /\ Len(Tail(s)) = Len(s) - 1
         /\ DOMAIN Tail(s) = 1..(Len(s) - 1)
         /\ \A k \in DOMAIN Tail(s) : Tail(s)[k] = s[k + 1]
         /\ Head(s) = s[1]
<1>1. s \in Seq(ToSet(s))
  BY DEF IsSeq
<1>2. Tail(s) \in Seq(ToSet(s))
  BY <1>1
<1>3. IsSeq(Tail(s))
  BY <1>2, OwnElements
<1>. QED BY <1>1, <1>2, <1>3

\* As many transactions are mined as were sent, if none is in flight; otherwise
\* no more.
LEMMA MinedCount ==
  ASSUME IsSeq(sent)
  PROVE  /\ mined_count \in Nat /\ mined_count <= Len(sent)
         /\ Pending = {} => mined_count = Len(sent)
<1>1. DOMAIN sent = 1..Len(sent) /\ Len(sent) \in Nat
  BY DEF IsSeq
<1>. DEFINE n == Len(sent)
<1>2. IsFiniteSet(1..n) /\ Cardinality(1..n) = n
  <2>1. n \in Int /\ 1 \in Int
    BY <1>1
  <2>2. IsFiniteSet(1..n) /\ Cardinality(1..n) = IF 1 > n THEN 0 ELSE n - 1 + 1
    BY <2>1, FS_Interval
  <2>3. n \in Nat
    BY <1>1
  <2>. HIDE DEF n
  <2>. QED BY <2>2, <2>3
<1>3. DOMAIN sent \ Pending \subseteq DOMAIN sent
  OBVIOUS
<1>4. /\ IsFiniteSet(DOMAIN sent \ Pending)
      /\ Cardinality(DOMAIN sent \ Pending) <= Len(sent)
  BY <1>1, <1>2, <1>3, FS_Subset
<1>5. Cardinality(DOMAIN sent \ Pending) \in Nat
  BY <1>4, FS_CardinalityType
<1>6. Pending = {} => DOMAIN sent \ Pending = DOMAIN sent
  OBVIOUS
<1>. QED BY <1>1, <1>2, <1>4, <1>5, <1>6 DEF mined_count

-----------------------------------------------------------------------------
(* The actions                                                               *)

\* The invariant holds at first.
LEMMA InitIInv == Init => IInv
<1>. SUFFICES ASSUME Init PROVE IInv
  OBVIOUS
<1>1. IsSeq(<<>>)
  <2>1. <<>> \in Seq({})
    OBVIOUS
  <2>. QED BY <2>1, OwnElements
<1>2. Shape
  BY <1>1 DEF Init, Shape, Points, None
<1>3. Pending = {}
  BY DEF Init, Pending
<1>4. InFlight
  BY <1>3 DEF Init, InFlight
<1>5. NoncesAhead
  BY DEF Init, NoncesAhead
<1>. QED BY <1>2, <1>4, <1>5 DEF IInv

\* The chain mines the next nonce: what is in flight gets less.
LEMMA MineKeeps == ASSUME IInv, Mine PROVE IInv'
<1>1. PICK i \in Pending, outcome \in Outcomes :
        /\ sent[i].tx.nonce = mined_count
        /\ sent' = [sent EXCEPT ![i].state = outcome]
  BY DEF Mine
<1>. USE DEF IInv
<1>2. sent \in Seq(ToSet(sent)) /\ i \in DOMAIN sent
  BY DEF Shape, IsSeq, Pending
<1>3. sent' = [sent EXCEPT ![i] = [sent[i] EXCEPT !.state = outcome]]
  BY <1>1
<1>4. IsSeq(sent') /\ DOMAIN sent' = DOMAIN sent /\ Len(sent') = Len(sent)
  <2>. DEFINE e == [sent[i] EXCEPT !.state = outcome]
              T == ToSet(sent) \cup {e}
  <2>1. sent \in Seq(T) /\ e \in T
    BY <1>2
  <2>2. sent' = [sent EXCEPT ![i] = e]
    BY <1>3
  <2>. HIDE DEF e, T
  <2>3. sent' \in Seq(T) /\ DOMAIN sent' = DOMAIN sent /\ Len(sent') = Len(sent)
    BY <1>2, <2>1, <2>2
  <2>. QED BY <2>3, OwnElements
<1>5. \A j \in DOMAIN sent : sent'[j].tx.nonce = sent[j].tx.nonce
  BY <1>2, <1>3 DEF Shape
<1>6. Pending' \subseteq Pending
  BY <1>1, <1>2, <1>3, <1>4 DEF Pending
<1>. QED BY <1>4, <1>5, <1>6 DEF Mine, Shape, InFlight, NoncesAhead, Ordered

\* The nonces are consecutive from the counter, which is above all in flight.
LEMMA FormatKeeps == ASSUME IInv, Format PROVE IInv'
<1>. USE DEF IInv
<1>1. PICK k \in 1..MaxArbs : \E counts \in [1..k -> 1..MaxBurners] :
        \/ /\ transactions' = format_transactions(counts)
           /\ nonce' = first_nonce + k
           /\ pc' = "execute"
        \/ pc' = "exit" /\ UNCHANGED <<transactions, nonce>>
  BY DEF Format
<1>2. PICK counts \in [1..k -> 1..MaxBurners] :
        \/ /\ transactions' = format_transactions(counts)
           /\ nonce' = first_nonce + k
           /\ pc' = "execute"
        \/ pc' = "exit" /\ UNCHANGED <<transactions, nonce>>
  BY <1>1
<1>3. pc = "loop" /\ UNCHANGED <<sent, tx_hashes>>
  BY DEF Format, stockVars
<1>4. Pending' = Pending
  BY <1>3 DEF Pending
<1>5. CASE pc' = "exit" /\ UNCHANGED <<transactions, nonce>>
  BY <1>3, <1>4, <1>5 DEF Shape, InFlight, NoncesAhead, Points
<1>6. CASE /\ transactions' = format_transactions(counts)
           /\ nonce' = first_nonce + k
           /\ pc' = "execute"
  <2>1. Pending = {} /\ mined_count = Len(sent) /\ Len(sent) \in Nat
    BY <1>3, MinedCount DEF InFlight, Shape, IsSeq
  <2>2. first_nonce \in Nat /\ first_nonce >= Len(sent)
    BY <1>3, <2>1 DEF first_nonce, Shape, NoncesAhead
  <2>3. k \in Nat /\ DOMAIN counts = 1..k
    BY BoundsAssumption
  <2>. DEFINE burnersOf(i) == get_burner_addresses(counts, i)
              T == {Tx(first_nonce + i - 1, burnersOf(i)) : i \in 1..k}
  <2>4. transactions' = [i \in 1..k |-> Tx(first_nonce + i - 1, burnersOf(i))]
    BY <1>6, <2>3 DEF format_transactions
  <2>. HIDE DEF burnersOf
  <2>5. transactions' \in Seq(T) /\ Len(transactions') = k
    <3>1. \A i \in 1..k : transactions'[i] \in T
      BY <2>4
    <3>2. transactions' = [i \in 1..k |-> transactions'[i]]
      BY <2>4
    <3>. HIDE DEF T
    <3>. QED BY <2>3, <3>1, <3>2
  <2>6. IsSeq(transactions')
    <3>. HIDE DEF T
    <3>. QED BY <2>5, OwnElements
  <2>7. \A i \in 1..k : transactions'[i].nonce = first_nonce + i - 1
    BY <2>4 DEF Tx
  <2>8. Shape'
    BY <1>3, <1>6, <2>2, <2>3, <2>6 DEF Shape, Points
  <2>9. InFlight'
    BY <1>4, <1>6, <2>1 DEF InFlight
  <2>10. NoncesAhead'
    <3>1. DOMAIN transactions' = 1..k
      BY <2>4
    <3>2. nonce' >= Len(sent') + Len(transactions')
      BY <1>3, <1>6, <2>1, <2>2, <2>3, <2>5
    <3>3. Ordered'
      BY <1>3, <1>4, <2>1, <2>2, <2>3, <2>7, <3>1 DEF Ordered
    <3>. QED BY <1>6, <3>2, <3>3 DEF NoncesAhead
  <2>. QED BY <2>8, <2>9, <2>10
<1>. QED BY <1>2, <1>5, <1>6

\* What is left to be executed after the first transaction keeps its order.
LEMMA ExecutingOne ==
  ASSUME IInv, Executing
  PROVE  /\ IsSeq(Tail(transactions))
         /\ Head(transactions) = transactions[1] /\ 1 \in DOMAIN transactions
         /\ Len(sent) \in Nat /\ Len(transactions) \in Nat \ {0}
         /\ Len(Tail(transactions)) = Len(transactions) - 1
         /\ \A k \in DOMAIN Tail(transactions) :
              /\ k \in Nat \ {0} /\ k + 1 \in DOMAIN transactions
              /\ Tail(transactions)[k] = transactions[k + 1]
<1>1. IsSeq(transactions) /\ transactions # <<>>
  BY DEF IInv, Shape, Executing
<1>2. Len(sent) \in Nat
  BY DEF IInv, Shape, IsSeq
<1>. QED BY <1>1, <1>2, TailIsSeq

\* A skipped transaction lowers the counter by one, and there is one fewer to come.
LEMMA SkipKeeps == ASSUME IInv, Skip PROVE IInv'
<1>. USE DEF IInv
<1>1. /\ pc = "execute" /\ UNCHANGED <<sent, pc, tx_hashes>>
      /\ nonce' = nonce - 1 /\ transactions' = Tail(transactions)
  BY DEF Skip, Executing
<1>2. Executing
  BY DEF Skip
<1>3. Pending' = Pending
  BY <1>1 DEF Pending
<1>4. nonce >= Len(sent) + Len(transactions) /\ nonce' \in Nat
  BY <1>1, <1>2, ExecutingOne DEF NoncesAhead, Shape
<1>5. Shape'
  BY <1>1, <1>2, <1>4, ExecutingOne DEF Shape
<1>6. InFlight'
  BY <1>1, <1>3 DEF InFlight
<1>7. NoncesAhead'
  <2>1. nonce' >= Len(sent') + Len(transactions')
    BY <1>1, <1>2, <1>4, ExecutingOne DEF Shape, NoncesAhead
  <2>2. Ordered
    BY <1>1 DEF NoncesAhead
  <2>3. \A k \in DOMAIN transactions' :
          /\ k \in Nat \ {0} /\ k + 1 \in DOMAIN transactions
          /\ transactions'[k] = transactions[k + 1]
    BY <1>1, <1>2, ExecutingOne
  <2>4. Len(sent) \in Nat /\ sent' = sent
    BY <1>1, <1>2, ExecutingOne
  <2>5. Ordered'
    BY <1>3, <2>2, <2>3, <2>4 DEF Ordered
  <2>. QED BY <1>1, <2>1, <2>5 DEF NoncesAhead
<1>. QED BY <1>5, <1>6, <1>7

\* What is sent has a nonce above those in flight and below those to come.
LEMMA SendKeeps == ASSUME IInv, Send PROVE IInv'
<1>. USE DEF IInv
<1>. DEFINE e == [tx |-> Head(transactions), state |-> "pending"]
<1>1. /\ pc = "execute" /\ UNCHANGED <<pc, nonce>>
      /\ sent' = Append(sent, e) /\ tx_hashes' = Append(tx_hashes, Len(sent'))
      /\ transactions' = Tail(transactions)
  BY DEF Send, Executing
<1>2. Executing
  BY DEF Send
<1>3. e.tx = transactions[1] /\ 1 \in DOMAIN transactions
  BY <1>2, ExecutingOne
<1>4. e.tx.nonce \in Nat
  BY <1>1, <1>3 DEF NoncesAhead, Ordered
<1>. HIDE DEF e
<1>5. /\ IsSeq(sent') /\ Len(sent') = Len(sent) + 1 /\ Len(sent) \in Nat
      /\ DOMAIN sent' = DOMAIN sent \cup {Len(sent) + 1}
      /\ \A i \in DOMAIN sent : sent'[i] = sent[i]
      /\ sent'[Len(sent) + 1] = e
  BY <1>1, AppendIsSeq DEF Shape
<1>6. Pending' \subseteq Pending \cup {Len(sent) + 1}
  BY <1>5 DEF Pending
<1>7. tx_hashes' \in Seq(Nat) /\ ToSet(tx_hashes') = ToSet(tx_hashes) \cup {Len(sent')}
  <2>. DEFINE h == Len(sent')
  <2>1. tx_hashes \in Seq(Nat) /\ h \in Nat /\ tx_hashes' = Append(tx_hashes, h)
    BY <1>1, <1>5 DEF Shape
  <2>. HIDE DEF h
  <2>2. IsSeq(tx_hashes) /\ tx_hashes' \in Seq(Nat)
    BY <2>1, OwnElements
  <2>3. /\ DOMAIN tx_hashes' = DOMAIN tx_hashes \cup {Len(tx_hashes) + 1}
        /\ \A i \in DOMAIN tx_hashes : tx_hashes'[i] = tx_hashes[i]
        /\ tx_hashes'[Len(tx_hashes) + 1] = h
    BY <2>1, <2>2, AppendIsSeq
  <2>4. ToSet(tx_hashes') = ToSet(tx_hashes) \cup {h}
    BY <2>3 DEF ToSet
  <2>. QED BY <2>2, <2>4 DEF h
<1>8. Shape'
  BY <1>1, <1>2, <1>4, <1>5, <1>7, ExecutingOne DEF Shape
<1>9. InFlight'
  BY <1>1, <1>5, <1>6, <1>7 DEF InFlight
<1>10. NoncesAhead'
  <2>1. \A i \in Pending' : \/ i \in Pending /\ sent'[i] = sent[i]
                            \/ sent'[i].tx = transactions[1]
    BY <1>3, <1>5, <1>6 DEF Pending
  <2>2. nonce >= Len(sent) + Len(transactions) /\ Ordered
    BY <1>1 DEF NoncesAhead
  <2>3. nonce' >= Len(sent') + Len(transactions')
    <3>1. /\ nonce \in Nat /\ nonce' = nonce /\ Len(transactions) \in Nat
          /\ Len(transactions') = Len(transactions) - 1
      BY <1>1, <1>2, ExecutingOne DEF NoncesAhead
    <3>. QED BY <1>5, <2>2, <3>1
  <2>4. \A k \in DOMAIN transactions' :
          /\ k \in Nat \ {0} /\ k + 1 \in DOMAIN transactions
          /\ transactions'[k] = transactions[k + 1]
    BY <1>1, <1>2, ExecutingOne
  <2>5. ASSUME NEW k \in DOMAIN transactions', NEW i \in Pending'
        PROVE  sent'[i].tx.nonce < transactions'[k].nonce
    <3>1. CASE i \in Pending /\ sent'[i] = sent[i]
      BY <2>2, <2>4, <3>1 DEF Ordered
    <3>2. CASE sent'[i].tx = transactions[1]
      BY <1>3, <2>2, <2>4, <3>2 DEF Ordered
    <3>. QED BY <2>1, <3>1, <3>2
  <2>6. ASSUME NEW k \in DOMAIN transactions'
        PROVE  /\ transactions'[k].nonce \in Nat
               /\ transactions'[k].nonce >= Len(sent') + k - 1
               /\ \A l \in DOMAIN transactions' :
                    k < l => transactions'[k].nonce < transactions'[l].nonce
    BY <1>5, <2>2, <2>4 DEF Ordered
  <2>. QED BY <1>1, <2>3, <2>5, <2>6 DEF NoncesAhead, Ordered
<1>. QED BY <1>8, <1>9, <1>10

\* A refused one ends the iteration; the counter stays above all that was sent.
LEMMA RefusedKeeps == ASSUME IInv, Refused PROVE IInv'
<1>. USE DEF IInv
<1>1. /\ pc = "execute" /\ UNCHANGED <<sent, pc, nonce, tx_hashes>>
      /\ transactions' = <<>>
  BY DEF Refused, Executing
<1>2. Pending' = Pending
  BY <1>1 DEF Pending
<1>3. IsSeq(transactions') /\ Len(transactions') = 0
  <2>1. <<>> \in Seq({})
    OBVIOUS
  <2>. QED BY <1>1, <2>1, OwnElements
<1>4. Shape'
  BY <1>1, <1>3 DEF Shape
<1>5. InFlight'
  BY <1>1, <1>2 DEF InFlight
<1>6. Ordered'
  BY <1>1 DEF Ordered
<1>7. nonce' >= Len(sent') + Len(transactions')
  <2>1. Len(transactions) \in Nat /\ Len(sent) \in Nat
    BY DEF Shape, IsSeq
  <2>2. nonce \in Nat /\ nonce >= Len(sent) + Len(transactions)
    BY <1>1 DEF Shape, NoncesAhead
  <2>. QED BY <1>1, <1>3, <2>1, <2>2
<1>. QED BY <1>1, <1>4, <1>5, <1>6, <1>7 DEF NoncesAhead

\* No transaction is left to come, so only those in flight count.
LEMMA ExecutedKeeps == ASSUME IInv, Executed PROVE IInv'
<1>. USE DEF IInv
<1>1. /\ pc = "execute" /\ transactions = <<>>
      /\ UNCHANGED <<sent, nonce, transactions, tx_hashes>>
      /\ \/ pc' = "loop" /\ tx_hashes = <<>>
         \/ pc' = "confirm"
  BY DEF Executed
<1>2. Pending' = Pending
  BY <1>1 DEF Pending
<1>3. Shape'
  BY <1>1 DEF Shape, Points
<1>4. tx_hashes = <<>> => Pending = {}
  BY <1>1 DEF InFlight, ToSet
<1>5. InFlight'
  BY <1>1, <1>2, <1>4 DEF InFlight
<1>6. NoncesAhead'
  <2>1. Len(transactions) = 0 /\ Len(sent) \in Nat
    BY <1>1 DEF Shape, IsSeq
  <2>2. nonce \in Nat /\ nonce >= Len(sent)
    BY <1>1, <2>1 DEF Shape, NoncesAhead
  <2>. QED BY <1>1, <2>2 DEF NoncesAhead
<1>. QED BY <1>3, <1>5, <1>6

\* With all receipts nothing is in flight.
LEMMA ConfirmedKeeps == ASSUME IInv, Confirmed PROVE IInv'
<1>. USE DEF IInv
<1>1. /\ pc = "confirm" /\ pc' = "settle"
      /\ UNCHANGED <<sent, nonce, transactions, tx_hashes>>
      /\ Unconfirmed = {}
  BY DEF Confirmed
<1>2. Pending' = Pending
  BY <1>1 DEF Pending
<1>3. Pending = {}
  BY <1>1 DEF InFlight, Unconfirmed
<1>. QED BY <1>1, <1>2, <1>3 DEF Shape, InFlight, NoncesAhead, Points

\* Without them the program ends.
LEMMA ReceiptTimeoutKeeps == ASSUME IInv, ReceiptTimeout PROVE IInv'
<1>. USE DEF IInv
<1>1. pc' = "exit" /\ UNCHANGED <<sent, nonce, transactions, tx_hashes>>
  BY DEF ReceiptTimeout
<1>. QED BY <1>1 DEF Shape, InFlight, NoncesAhead, Points

\* The receipts are evaluated while nothing is in flight.
LEMMA SettleKeeps == ASSUME IInv, Settle PROVE IInv'
<1>. USE DEF IInv
<1>1. /\ pc = "settle" /\ pc' = "remove"
      /\ UNCHANGED <<sent, nonce, transactions>> /\ tx_hashes' = <<>>
  BY DEF Settle
<1>2. Pending' = Pending
  BY <1>1 DEF Pending
<1>3. tx_hashes' \in Seq(Nat)
  BY <1>1
<1>. QED BY <1>1, <1>2, <1>3 DEF Shape, InFlight, NoncesAhead, Points

\* The stock is of no account to the nonces.
LEMMA RemoveUsedBurnerKeeps == ASSUME IInv, RemoveUsedBurner PROVE IInv'
<1>. USE DEF IInv
<1>1. /\ pc = "remove" /\ pc' \in {"remove", "exit"}
      /\ UNCHANGED <<sent, nonce, transactions, tx_hashes>>
  BY DEF RemoveUsedBurner
<1>2. Pending' = Pending
  BY <1>1 DEF Pending
<1>. QED BY <1>1, <1>2 DEF Shape, InFlight, NoncesAhead, Points

\* Nor is its file.
LEMMA SaveBurnersKeeps == ASSUME IInv, SaveBurners PROVE IInv'
<1>. USE DEF IInv
<1>1. /\ pc = "remove" /\ pc' = "loop"
      /\ UNCHANGED <<sent, nonce, transactions, tx_hashes>>
  BY DEF SaveBurners
<1>2. Pending' = Pending
  BY <1>1 DEF Pending
<1>. QED BY <1>1, <1>2 DEF Shape, InFlight, NoncesAhead, Points

\* A restart between iterations asks for the count when nothing is in flight.
LEMMA RestartKeeps ==
  ASSUME IInv, Restart, ConnectionErrors \subseteq {"loop"}
  PROVE  IInv'
<1>. USE DEF IInv
<1>1. /\ pc = "loop" /\ pc' = "loop" /\ nonce' = None
      /\ UNCHANGED sent /\ transactions' = <<>> /\ tx_hashes' = <<>>
  BY DEF Restart
<1>2. Pending' = Pending
  BY <1>1 DEF Pending
<1>3. IsSeq(transactions') /\ tx_hashes' \in Seq(Nat)
  <2>1. <<>> \in Seq({}) /\ <<>> \in Seq(Nat)
    OBVIOUS
  <2>. QED BY <1>1, <2>1, OwnElements
<1>. QED BY <1>1, <1>2, <1>3 DEF Shape, InFlight, NoncesAhead, Points

\* Every step keeps the invariant.
LEMMA NextKeeps ==
  ASSUME IInv, [Next]_vars, ConnectionErrors \subseteq {"loop"}
  PROVE  IInv'
<1>1. CASE Mine BY <1>1, MineKeeps
<1>2. CASE Format BY <1>2, FormatKeeps
<1>3. CASE Main
  BY <1>3, SkipKeeps, SendKeeps, RefusedKeeps, ExecutedKeeps, ConfirmedKeeps,
     ReceiptTimeoutKeeps, SettleKeeps, RemoveUsedBurnerKeeps, SaveBurnersKeeps
     DEF Main
<1>4. CASE Restart BY <1>4, RestartKeeps
<1>5. CASE UNCHANGED vars
  BY <1>5 DEF vars, IInv, Shape, IsSeq, InFlight, NoncesAhead, Ordered, Pending
<1>. QED BY <1>1, <1>2, <1>3, <1>4, <1>5 DEF Next

-----------------------------------------------------------------------------
(* The theorems                                                              *)

\* The invariant holds as long as a ConnectionError strikes between iterations.
THEOREM Invariance ==
  ASSUME ConnectionErrors \subseteq {"loop"}
  PROVE  Spec => []IInv
<1>1. IInv /\ [Next]_vars => IInv'
  BY NextKeeps
<1>. QED BY <1>1, InitIInv, PTL DEF Spec

\* exe_arbs returns only with every transaction settled: main never starts an
\* iteration with one in flight, whatever was skipped or refused.
THEOREM NothingInFlight ==
  ASSUME ConnectionErrors \subseteq {"loop"}
  PROVE  Spec => []AllSettled
<1>1. IInv => AllSettled
  BY DEF IInv, InFlight, AllSettled
<1>. QED BY <1>1, Invariance, PTL

\* The nonce that create_tx_params gave a transaction is free when its turn
\* comes: it is neither mined nor in flight.
THEOREM NoncesAreFresh ==
  ASSUME ConnectionErrors \subseteq {"loop"}
  PROVE  Spec => []NonceFresh
<1>1. IInv => NonceFresh
  <2>. SUFFICES ASSUME IInv, Executing PROVE ~Taken(Head(transactions).nonce)
    BY DEF NonceFresh
  <2>1. pc = "execute" /\ Head(transactions) = transactions[1]
        /\ 1 \in DOMAIN transactions /\ Len(sent) \in Nat
    BY ExecutingOne DEF Executing
  <2>2. Ordered /\ \A i \in Pending : sent[i].tx.nonce \in Nat
    BY <2>1 DEF IInv, NoncesAhead, Shape, Pending
  <2>3. mined_count \in Nat /\ mined_count <= Len(sent)
    BY MinedCount DEF IInv, Shape
  <2>. QED BY <2>1, <2>2, <2>3 DEF Ordered, Taken
<1>. QED BY <1>1, Invariance, PTL

-----------------------------------------------------------------------------
(* The burners: no two transactions in flight count on one, and a destroyed   *)
(* one is not offered again.                                                 *)

(* The inductive invariant                                                   *)

InStock(stock) == ToSet(FlattenSeq(stock))
All == InStock(Stock)

\* A stock whose addresses are distinct.
Distinct(stock) == stock \in Seq(Seq(All)) /\ IsInjective(FlattenSeq(stock))

Running == pc \in {"loop", "execute", "confirm", "settle"}

Stocks ==
  /\ Distinct(burners) /\ Distinct(saved_burners)
  /\ Running => saved_burners = burners
  /\ used_burners \in Seq(All)

Limit == MaxArbs * rounds

Sizes ==
  /\ rounds \in 0..MaxRounds
  /\ Len(sent) <= Limit
  /\ nonce # None => nonce <= Limit
  /\ \A k \in DOMAIN transactions : transactions[k].nonce \in 0..Limit

OfTx(tx) == ToSet(tx.burners)
Burns(tx) == tx.burners \in Seq(All) /\ tx.burners # <<>>
Round == ToSet(tx_hashes)

\* The transactions to come are promised burners of the stock, each other ones,
\* that no transaction of this iteration has taken.
Promised ==
  \A k \in DOMAIN transactions :
    /\ OfTx(transactions[k]) \subseteq InStock(burners)
    /\ \A l \in DOMAIN transactions :
         l # k => OfTx(transactions[k]) \cap OfTx(transactions[l]) = {}
    /\ \A i \in Round : OfTx(transactions[k]) \cap OfTx(sent[i].tx) = {}

Assigned ==
  /\ \A k \in DOMAIN transactions : Burns(transactions[k])
  /\ \A i \in DOMAIN sent : Burns(sent[i].tx)
  /\ Round \subseteq DOMAIN sent
  /\ pc = "execute" => Promised

\* What earlier iterations have destroyed is out of the stock; what this one
\* has, is among the used burners while these are taken out.
Spent ==
  /\ Running =>
       \A i \in DOMAIN sent \ Round : Destroys(sent[i]) \cap InStock(burners) = {}
  /\ pc = "remove" => destroyed \cap InStock(burners) \subseteq ToSet(used_burners)

BInv == Stocks /\ Sizes /\ Assigned /\ Spent /\ BurnersAlive

-----------------------------------------------------------------------------
(* Lemmas on stocks                                                          *)

\* A distinct stock consists of distinct batches that share nothing.
LEMMA StockIs ==
  ASSUME NEW stock \in Seq(Seq(All))
  PROVE  /\ InStock(stock) = UNION {ToSet(stock[i]) : i \in DOMAIN stock}
         /\ Distinct(stock) <=> Apart(stock, Len(stock))
BY FlattenSeqIs DEF InStock, Distinct

\* The stock at the start is one.
LEMMA StartIs == Distinct(Stock)
<1>1. /\ Stock \in Seq(Seq(Nat))
      /\ Cardinality(ToSet(FlattenSeq(Stock))) = Len(FlattenSeq(Stock))
  BY StockAssumption
<1>2. /\ FlattenSeq(Stock) \in Seq(Nat)
      /\ All = UNION {ToSet(Stock[i]) : i \in DOMAIN Stock}
  BY <1>1, FlattenSeqIs DEF All, InStock
<1>3. IsInjective(FlattenSeq(Stock))
  BY <1>1, <1>2, DistinctIsInjective
<1>4. ASSUME NEW i \in DOMAIN Stock PROVE Stock[i] \in Seq(All)
  <2>1. Stock[i] \in Seq(Nat)
    BY <1>1
  <2>2. Stock[i] \in Seq(ToSet(Stock[i])) /\ ToSet(Stock[i]) \subseteq All
    BY <1>2, <2>1, OwnElements DEF IsSeq
  <2>. QED BY <2>2
<1>5. Stock \in Seq(Seq(All))
  <2>1. Stock \in [1..Len(Stock) -> Seq(Nat)] /\ Len(Stock) \in Nat
    BY <1>1
  <2>2. Stock \in [1..Len(Stock) -> Seq(All)]
    BY <1>4, <2>1
  <2>. QED BY <2>1, <2>2
<1>. QED BY <1>3, <1>5 DEF Distinct

\* get_burner_addresses draws on the stock: the line has its addresses, once.
LEMMA InLineIs ==
  ASSUME NEW stock, Distinct(stock)
  PROVE  /\ in_line(stock) \in Seq(All)
         /\ ToSet(in_line(stock)) = InStock(stock)
         /\ IsInjective(in_line(stock))
<1>. DEFINE n == Len(stock)
            turned == [i \in DOMAIN stock |-> Reverse(stock[i])]
<1>1. /\ stock \in Seq(Seq(All)) /\ n \in Nat /\ DOMAIN stock = 1..n
      /\ \A i \in 1..n : stock[i] \in Seq(All)
  BY DEF Distinct
<1>2. Apart(stock, n)
  BY <1>1, StockIs
<1>. HIDE DEF n
<1>3. \A i \in 1..n : /\ turned[i] \in Seq(All)
                      /\ ToSet(turned[i]) = ToSet(stock[i])
                      /\ IsInjective(stock[i]) => IsInjective(turned[i])
  BY <1>1, ReverseIs
<1>4. DOMAIN turned = 1..n
  BY <1>1
<1>5. turned \in Seq(Seq(All)) /\ Len(turned) = n
  <2>1. turned \in [1..n -> Seq(All)]
    BY <1>1, <1>3
  <2>. HIDE DEF turned
  <2>. QED BY <1>1, <2>1
<1>. HIDE DEF turned
<1>6. Apart(turned, n)
  BY <1>2, <1>3 DEF Apart
<1>7. UNION {ToSet(turned[i]) : i \in DOMAIN turned}
        = UNION {ToSet(stock[i]) : i \in DOMAIN stock}
  BY <1>1, <1>3, <1>4
<1>8. /\ FlattenSeq(turned) \in Seq(All) /\ IsInjective(FlattenSeq(turned))
      /\ ToSet(FlattenSeq(turned)) = UNION {ToSet(turned[i]) : i \in DOMAIN turned}
  BY <1>5, <1>6, FlattenSeqIs
<1>9. InStock(stock) = UNION {ToSet(stock[i]) : i \in DOMAIN stock}
  BY <1>1, StockIs
<1>10. in_line(stock) = FlattenSeq(turned)
  BY Zenon DEF in_line, turned
<1>. QED BY <1>7, <1>8, <1>9, <1>10, Zenon

\* Removing an address from its batch, and the first batch if it is empty then,
\* leaves a stock without the address and with all others.
LEMMA RemovedIs ==
  ASSUME NEW stock, Distinct(stock), NEW b \in DOMAIN stock,
         NEW e \in ToSet(stock[b])
  PROVE  LET rest == drop_empty([stock EXCEPT ![b] = RemoveFirst(@, e)])
         IN  Distinct(rest) /\ InStock(rest) = InStock(stock) \ {e}
<1>. DEFINE n == Len(stock)
            fewer == [stock EXCEPT ![b] = RemoveFirst(@, e)]
            rest == drop_empty(fewer)
<1>1. /\ stock \in Seq(Seq(All)) /\ n \in Nat /\ DOMAIN stock = 1..n /\ b \in 1..n
      /\ \A i \in 1..n : stock[i] \in Seq(All)
  BY DEF Distinct
<1>2. /\ Apart(stock, n)
      /\ InStock(stock) = UNION {ToSet(stock[i]) : i \in 1..n}
  BY <1>1, StockIs
<1>. HIDE DEF n
<1>3. /\ RemoveFirst(stock[b], e) \in Seq(All)
      /\ ToSet(RemoveFirst(stock[b], e)) = ToSet(stock[b]) \ {e}
      /\ IsInjective(RemoveFirst(stock[b], e))
  BY <1>1, <1>2, RemoveFirstIs DEF Apart
<1>4. /\ fewer \in [1..n -> Seq(All)]
      /\ fewer[b] = RemoveFirst(stock[b], e)
      /\ \A i \in 1..n : i # b => fewer[i] = stock[i]
  <2>. DEFINE r == RemoveFirst(stock[b], e)
  <2>. HIDE DEF r
  <2>1. fewer = [stock EXCEPT ![b] = r]
    BY DEF r
  <2>2. stock \in [1..n -> Seq(All)] /\ r \in Seq(All)
    BY <1>1, <1>3 DEF r, n
  <2>. HIDE DEF fewer
  <2>. QED BY <1>1, <2>1, <2>2 DEF r
<1>5. fewer \in Seq(Seq(All)) /\ Len(fewer) = n /\ DOMAIN fewer = 1..n
  <2>. HIDE DEF fewer
  <2>. QED BY <1>1, <1>4
<1>. HIDE DEF fewer
<1>6. Apart(fewer, n)
  <2>1. \A i \in 1..n : IsInjective(fewer[i]) /\ ToSet(fewer[i]) \subseteq ToSet(stock[i])
    BY <1>2, <1>3, <1>4 DEF Apart
  <2>. QED BY <1>2, <2>1 DEF Apart
<1>7. UNION {ToSet(fewer[i]) : i \in 1..n} = InStock(stock) \ {e}
  <2>1. \A i \in 1..n : i # b => e \notin ToSet(stock[i])
    BY <1>1, <1>2 DEF Apart
  <2>2. \A i \in 1..n : ToSet(fewer[i]) = ToSet(stock[i]) \ {e}
    BY <1>3, <1>4, <2>1
  <2>. QED BY <1>2, <2>2
<1>8. CASE fewer[1] # <<>>
  <2>1. rest = fewer
    BY <1>8 DEF drop_empty
  <2>2. InStock(fewer) = UNION {ToSet(fewer[i]) : i \in 1..n} /\ Distinct(fewer)
    BY <1>5, <1>6, StockIs
  <2>. QED BY <1>7, <2>1, <2>2 DEF fewer
<1>9. CASE fewer[1] = <<>>
  <2>1. rest = Tail(fewer)
    BY <1>9 DEF drop_empty
  <2>2. n >= 1 /\ 1 \in 1..n
    BY <1>1
  <2>3. /\ rest \in Seq(Seq(All)) /\ Len(rest) = n - 1 /\ DOMAIN rest = 1..(n - 1)
        /\ \A i \in 1..(n - 1) : rest[i] = fewer[i + 1]
    <3>. HIDE DEF rest
    <3>. QED BY <1>1, <1>5, <2>1, <2>2
  <2>4. \A i \in 1..(n - 1) : i + 1 \in 1..n
    BY <1>1
  <2>5. \A i \in 1..n : i = 1 \/ (i - 1 \in 1..(n - 1) /\ i - 1 + 1 = i)
    BY <1>1
  <2>. HIDE DEF rest
  <2>6. ToSet(fewer[1]) = {}
    BY <1>9 DEF ToSet
  <2>7. Apart(rest, n - 1)
    <3>1. \A i, j \in 1..(n - 1) : i # j => i + 1 # j + 1
      BY <1>1
    <3>. QED BY <1>6, <2>3, <2>4, <3>1 DEF Apart
  <2>8. UNION {ToSet(rest[i]) : i \in 1..(n - 1)} = UNION {ToSet(fewer[i]) : i \in 1..n}
    <3>1. ASSUME NEW i \in 1..(n - 1)
          PROVE  ToSet(rest[i]) \subseteq UNION {ToSet(fewer[j]) : j \in 1..n}
      BY <2>3, <2>4
    <3>2. ASSUME NEW j \in 1..n
          PROVE  ToSet(fewer[j]) \subseteq UNION {ToSet(rest[i]) : i \in 1..(n - 1)}
      <4>1. CASE j = 1 BY <2>6, <4>1
      <4>2. CASE j - 1 \in 1..(n - 1) /\ j - 1 + 1 = j
        <5>1. rest[j - 1] = fewer[j]
          BY <2>3, <4>2
        <5>. QED BY <4>2, <5>1
      <4>. QED BY <2>5, <4>1, <4>2
    <3>. QED BY <3>1, <3>2
  <2>9. InStock(rest) = UNION {ToSet(rest[i]) : i \in 1..(n - 1)} /\ Distinct(rest)
    BY <2>3, <2>7, StockIs
  <2>. QED BY <1>7, <2>8, <2>9 DEF rest, fewer
<1>. QED BY <1>8, <1>9

-----------------------------------------------------------------------------
(* Lemmas on transactions                                                    *)

\* The router destroys burners of the transaction only, none before it is mined,
\* and get_used_burnerns names at least these.
LEMMA DestroysIs ==
  ASSUME NEW t, Burns(t.tx)
  PROVE  /\ Destroys(t) \subseteq OfTx(t.tx)
         /\ t.state = "pending" => Destroys(t) = {}
         /\ get_used_burnerns(t) \in Seq(All)
         /\ Destroys(t) \subseteq ToSet(get_used_burnerns(t))
<1>. DEFINE bs == t.tx.burners
<1>1. bs \in Seq(All) /\ bs # <<>>
  BY DEF Burns
<1>. HIDE DEF bs
<1>2. bs[1] \in ToSet(bs) /\ bs[1] \in All
  BY <1>1 DEF ToSet
<1>3. <<bs[1]>> \in Seq(All) /\ ToSet(<<bs[1]>>) = {bs[1]}
  <2>. DEFINE b == bs[1]
  <2>1. b \in All
    BY <1>2
  <2>. HIDE DEF b
  <2>2. <<b>> \in Seq(All) /\ ToSet(<<b>>) = {b}
    BY <2>1 DEF ToSet
  <2>. QED BY <2>2 DEF b
<1>4. /\ t.state = "profit" => Destroys(t) = ToSet(bs)
      /\ t.state = "no profit" => Destroys(t) = {bs[1]}
      /\ t.state \notin {"profit", "no profit"} => Destroys(t) = {}
  BY DEF Destroys, bs
<1>5. /\ t.state \in {"no profit", "reverted"} => get_used_burnerns(t) = <<bs[1]>>
      /\ t.state \notin {"no profit", "reverted"} => get_used_burnerns(t) = bs
  BY DEF get_used_burnerns, bs
<1>6. OfTx(t.tx) = ToSet(bs)
  BY DEF OfTx, bs
<1>7. CASE t.state = "profit"
  BY <1>1, <1>4, <1>5, <1>6, <1>7
<1>8. CASE t.state = "no profit"
  BY <1>2, <1>3, <1>4, <1>5, <1>6, <1>8
<1>9. CASE t.state \notin {"profit", "no profit"}
  BY <1>1, <1>3, <1>4, <1>5, <1>9
<1>. QED BY <1>7, <1>8, <1>9

\* get_burner_addresses hands out the line slice by slice.
LEMMA SlicesAre ==
  ASSUME NEW k \in Nat \ {0}, NEW counts \in [1..k -> Nat \ {0}],
         Distinct(burners), Sum(counts) <= Len(in_line(burners))
  PROVE  /\ \A i \in 1..k :
              /\ get_burner_addresses(counts, i) \in Seq(All)
              /\ get_burner_addresses(counts, i) # <<>>
              /\ ToSet(get_burner_addresses(counts, i)) \subseteq InStock(burners)
         /\ \A i, j \in 1..k : i # j =>
              ToSet(get_burner_addresses(counts, i))
                \cap ToSet(get_burner_addresses(counts, j)) = {}
<1>. DEFINE L == in_line(burners)
            P(i) == SumOfFirst(counts, i)
            bs(i) == get_burner_addresses(counts, i)
<1>1. L \in Seq(All) /\ ToSet(L) = InStock(burners) /\ IsInjective(L)
      /\ Len(L) \in Nat /\ DOMAIN L = 1..Len(L)
  <2>1. L \in Seq(All) /\ ToSet(L) = InStock(burners) /\ IsInjective(L)
    BY InLineIs
  <2>. HIDE DEF L
  <2>. QED BY <2>1
<1>2. counts \in Seq(Nat) /\ Len(counts) = k
  OBVIOUS
<1>3. /\ P(k) = Sum(counts)
      /\ \A i \in 0..k : P(i) \in Nat
      /\ \A i \in 1..k : P(i) = P(i - 1) + counts[i]
      /\ \A i, j \in 0..k : i <= j => P(i) <= P(j)
  BY <1>2, SumOfFirstGrows, Zenon DEF Sum
<1>4. \A i \in 1..k : bs(i) = SubSeq(L, P(i - 1) + 1, P(i))
  <2>1. ASSUME NEW i \in 1..k PROVE bs(i) = SubSeq(L, P(i - 1) + 1, P(i))
    <3>1. P(i) = P(i - 1) + counts[i]
      BY <1>3
    <3>2. bs(i) = SubSeq(L, P(i - 1) + 1, P(i - 1) + counts[i])
      BY Zenon DEF get_burner_addresses, SumOfFirst, Sum
    <3>. QED BY <3>1, <3>2, Zenon
  <2>. QED BY <2>1
<1>. HIDE DEF L, P, bs
<1>5. \A i \in 1..k : /\ P(i - 1) \in Nat /\ P(i) \in 0..Len(L)
                      /\ P(i - 1) + 1 \in Nat \ {0} /\ P(i - 1) + 1 <= P(i)
                      /\ \A x \in (P(i - 1) + 1)..P(i) :
                           x \in 1..Len(L) /\ x > P(i - 1) /\ x <= P(i)
  <2>. TAKE i \in 1..k
  <2>1. i - 1 \in 0..k /\ i \in 0..k /\ k \in 0..k /\ i <= k /\ counts[i] \in Nat \ {0}
    OBVIOUS
  <2>2. P(i - 1) \in Nat /\ P(i) \in Nat /\ P(k) \in Nat /\ P(i) <= P(k)
        /\ P(i) = P(i - 1) + counts[i]
    BY <1>3, <2>1
  <2>3. P(k) <= Len(L)
    BY <1>3 DEF L
  <2>. DEFINE a == P(i - 1)
              b == P(i)
  <2>4. a \in Nat /\ b \in Nat /\ Len(L) \in Nat /\ b <= Len(L) /\ a + 1 <= b
    BY <1>1, <2>1, <2>2, <2>3
  <2>. HIDE DEF a, b
  <2>5. \A x \in (a + 1)..b : x \in 1..Len(L) /\ x > a /\ x <= b
    BY <2>4
  <2>6. b \in 0..Len(L) /\ a + 1 \in Nat \ {0}
    BY <2>4
  <2>. QED BY <2>4, <2>5, <2>6 DEF a, b
<1>6. \A i \in 1..k : /\ bs(i) \in Seq(All) /\ Len(bs(i)) > 0
                      /\ ToSet(bs(i)) = {L[x] : x \in (P(i - 1) + 1)..P(i)}
  <2>. TAKE i \in 1..k
  <2>. DEFINE a == P(i - 1) + 1
              b == P(i)
  <2>1. a \in Nat \ {0} /\ b \in 0..Len(L) /\ a <= b /\ bs(i) = SubSeq(L, a, b)
    BY <1>4, <1>5
  <2>. HIDE DEF a, b
  <2>2. /\ bs(i) \in Seq(All) /\ Len(bs(i)) = b - a + 1
        /\ ToSet(bs(i)) = {L[x] : x \in a..b}
    <3>1. /\ SubSeq(L, a, b) \in Seq(All) /\ Len(SubSeq(L, a, b)) = b - a + 1
          /\ ToSet(SubSeq(L, a, b)) = {L[x] : x \in a..b}
      BY <1>1, <2>1, SubSeqIs
    <3>. QED BY <2>1, <3>1, Zenon
  <2>3. Len(bs(i)) > 0
    BY <2>1, <2>2
  <2>. QED BY <2>2, <2>3 DEF a, b
<1>7. ASSUME NEW i \in 1..k
      PROVE  bs(i) \in Seq(All) /\ bs(i) # <<>> /\ ToSet(bs(i)) \subseteq InStock(burners)
  <2>1. \A x \in (P(i - 1) + 1)..P(i) : x \in 1..Len(L)
    BY <1>5
  <2>2. ToSet(bs(i)) \subseteq ToSet(L)
    <3>1. \A x \in 1..Len(L) : L[x] \in ToSet(L)
      BY <1>1 DEF ToSet
    <3>. QED BY <1>6, <2>1, <3>1
  <2>3. bs(i) # <<>>
    BY <1>6
  <2>. QED BY <1>1, <1>6, <2>2, <2>3
<1>8. ASSUME NEW i \in 1..k, NEW j \in 1..k, i < j
      PROVE  ToSet(bs(i)) \cap ToSet(bs(j)) = {}
  <2>1. P(i) <= P(j - 1)
    <3>1. i \in 0..k /\ j - 1 \in 0..k /\ i <= j - 1
      BY <1>8
    <3>. QED BY <1>3, <3>1
  <2>2. ASSUME NEW x \in (P(i - 1) + 1)..P(i), NEW y \in (P(j - 1) + 1)..P(j),
               L[x] = L[y]
        PROVE  FALSE
    <3>1. x \in 1..Len(L) /\ y \in 1..Len(L) /\ x <= P(i) /\ y > P(j - 1)
      BY <1>5
    <3>2. P(i) \in Nat /\ P(j - 1) \in Nat
      BY <1>5
    <3>3. x # y
      BY <1>1, <2>1, <3>1, <3>2
    <3>. QED BY <1>1, <2>2, <3>1, <3>3 DEF IsInjective
  <2>3. ASSUME NEW e \in ToSet(bs(i)), e \in ToSet(bs(j)) PROVE FALSE
    <3>1. PICK x \in (P(i - 1) + 1)..P(i) : e = L[x]
      BY <1>6
    <3>2. PICK y \in (P(j - 1) + 1)..P(j) : e = L[y]
      BY <1>6, <2>3
    <3>. QED BY <2>2, <3>1, <3>2
  <2>. QED BY <2>3
<1>9. \A i, j \in 1..k : i # j => i < j \/ j < i
  OBVIOUS
<1>10. \A i, j \in 1..k : i # j => ToSet(bs(i)) \cap ToSet(bs(j)) = {}
  BY <1>8, <1>9
<1>. QED BY <1>7, <1>10 DEF bs

\* The bound on nonces, a product, grows with each iteration up to its end.
LEMMA LimitIs ==
  ASSUME rounds \in 0..MaxRounds
  PROVE  /\ Limit \in Nat /\ Limit <= MaxArbs * MaxRounds
         /\ MaxArbs * (rounds + 1) = Limit + MaxArbs
<1>1. MaxArbs \in Nat /\ MaxRounds \in Nat
  BY BoundsAssumption
<1>2. PICK more \in Nat : MaxRounds = rounds + more
  <2>1. MaxRounds - rounds \in Nat /\ MaxRounds = rounds + (MaxRounds - rounds)
    BY <1>1
  <2>. QED BY <2>1
<1>3. rounds \in Nat
  BY <1>1
<1>4. \A a, b \in Nat : a * b \in Nat
  OBVIOUS
<1>5. MaxArbs * (rounds + more) = MaxArbs * rounds + MaxArbs * more
  BY <1>1, <1>2, <1>3
<1>6. MaxArbs * (rounds + 1) = MaxArbs * rounds + MaxArbs
  BY <1>1, <1>3
<1>7. MaxArbs * rounds \in Nat /\ MaxArbs * more \in Nat
  BY <1>1, <1>2, <1>3, <1>4
<1>. QED BY <1>2, <1>5, <1>6, <1>7 DEF Limit

-----------------------------------------------------------------------------
(* The actions                                                               *)

\* The invariant holds at first.
LEMMA InitBInv == Init => BInv
<1>. SUFFICES ASSUME Init PROVE BInv
  OBVIOUS
<1>1. Stocks
  <2>1. <<>> \in Seq(All)
    OBVIOUS
  <2>. QED BY <2>1, StartIs DEF Init, Stocks
<1>2. Sizes
  <2>1. rounds \in 0..MaxRounds
    BY BoundsAssumption DEF Init
  <2>2. Limit \in Nat
    BY <2>1, LimitIs
  <2>3. Len(sent) = 0 /\ DOMAIN transactions = {} /\ nonce = None
    BY DEF Init
  <2>. QED BY <2>1, <2>2, <2>3 DEF Sizes
<1>3. Assigned
  <2>1. DOMAIN transactions = {} /\ DOMAIN sent = {} /\ Round = {} /\ pc # "execute"
    BY DEF Init, Round, ToSet
  <2>. QED BY <2>1 DEF Assigned
<1>4. Spent
  BY DEF Init, Spent
<1>5. BurnersAlive
  BY DEF Init, BurnersAlive, Pending
<1>. QED BY <1>1, <1>2, <1>3, <1>4, <1>5 DEF BInv

\* What is mined destroys burners of its own only, which no other one in flight
\* counts on and none to come.
LEMMA MineSpares == ASSUME IInv, BInv, Mine PROVE BInv'
<1>. USE DEF BInv
<1>1. PICK i \in Pending, outcome \in Outcomes :
        /\ sent[i].tx.nonce = mined_count
        /\ sent' = [sent EXCEPT ![i].state = outcome]
  BY DEF Mine
<1>2. UNCHANGED <<pc, nonce, transactions, tx_hashes, rounds, burners,
                  used_burners, saved_burners>>
  BY DEF Mine, stockVars
<1>3. sent \in Seq(ToSet(sent)) /\ i \in DOMAIN sent /\ sent[i].state = "pending"
  BY DEF Shape, IsSeq, Pending, IInv
<1>4. /\ DOMAIN sent' = DOMAIN sent /\ Len(sent') = Len(sent)
      /\ \A j \in DOMAIN sent : j # i => sent'[j] = sent[j]
      /\ sent'[i] = [sent[i] EXCEPT !.state = outcome]
  BY <1>1, <1>3
<1>5. \A j \in DOMAIN sent : sent'[j].tx = sent[j].tx
  <2>1. sent'[i].tx = sent[i].tx
    BY <1>4
  <2>. QED BY <1>4, <2>1
<1>6. Pending' \subseteq Pending
  BY <1>3, <1>4 DEF Pending
<1>7. \A j \in DOMAIN sent : Burns(sent[j].tx) /\ Burns(sent'[j].tx)
  BY <1>5 DEF Assigned
<1>8. \A j \in DOMAIN sent :
        \/ Destroys(sent'[j]) = Destroys(sent[j])
        \/ j = i /\ Destroys(sent'[j]) \subseteq OfTx(sent[i].tx)
  BY <1>4, <1>5, <1>7, DestroysIs
<1>9. Stocks'
  BY <1>2 DEF Stocks, Running, Distinct
<1>10. Sizes'
  BY <1>2, <1>4 DEF Sizes, Limit
<1>11. Assigned'
  <2>1. Round' = Round /\ Round \subseteq DOMAIN sent
    BY <1>2 DEF Round, Assigned
  <2>2. pc' = "execute" => Promised'
    BY <1>2, <1>5, <2>1 DEF Assigned, Promised
  <2>. QED BY <1>2, <1>4, <1>7, <2>1, <2>2 DEF Assigned
<1>12. Spent'
  <2>1. pc # "remove" /\ (Running => i \in Round)
    BY <1>1 DEF IInv, InFlight, Running, Round
  <2>2. ASSUME Running, NEW j \in DOMAIN sent \ Round
        PROVE  Destroys(sent'[j]) \cap InStock(burners) = {}
    BY <1>4, <2>1, <2>2 DEF Spent
  <2>. QED BY <1>2, <1>4, <2>1, <2>2 DEF Spent, Running, Round
<1>13. BurnersAlive'
  <2>1. destroyed' \subseteq destroyed \cup OfTx(sent[i].tx)
    BY <1>4, <1>8 DEF destroyed
  <2>2. ASSUME NEW j \in Pending', j # i
        PROVE  OfTx(sent'[j].tx) \cap destroyed' = {}
    BY <1>1, <1>3, <1>5, <1>6, <2>1, <2>2 DEF BurnersAlive, OfTx, Pending
  <2>3. ASSUME i \in Pending' PROVE OfTx(sent'[i].tx) \cap destroyed' = {}
    <3>1. sent'[i].state = "pending"
      BY <2>3 DEF Pending
    <3>2. Destroys(sent'[i]) = {}
      BY <1>3, <1>7, <3>1, DestroysIs
    <3>3. destroyed' \subseteq destroyed
      BY <1>4, <3>2 DEF destroyed
    <3>. QED BY <1>1, <1>3, <1>5, <3>3 DEF BurnersAlive, OfTx
  <2>4. \A j, l \in Pending' : j # l => OfTx(sent'[j].tx) \cap OfTx(sent'[l].tx) = {}
    BY <1>5, <1>6 DEF BurnersAlive, OfTx, Pending
  <2>. QED BY <2>2, <2>3, <2>4 DEF BurnersAlive, OfTx
<1>. QED BY <1>9, <1>10, <1>11, <1>12, <1>13

\* As long as nothing is sent, the same is in flight and destroyed.
LEMMA NothingSent ==
  ASSUME BurnersAlive, UNCHANGED sent
  PROVE  Pending' = Pending /\ destroyed' = destroyed /\ BurnersAlive'
<1>1. Pending' = Pending
  BY DEF Pending
<1>2. destroyed' = destroyed
  BY DEF destroyed, Destroys
<1>. QED BY <1>1, <1>2 DEF BurnersAlive

\* The new transactions are promised burners slice by slice; nothing of this
\* iteration has been sent.
LEMMA FormatSpares == ASSUME IInv, BInv, Format PROVE BInv'
<1>. USE DEF BInv
<1>1. PICK k \in 1..MaxArbs : \E counts \in [1..k -> 1..MaxBurners] :
        \/ /\ Sum(counts) <= Len(in_line(burners))
           /\ transactions' = format_transactions(counts)
           /\ nonce' = first_nonce + k
           /\ pc' = "execute"
        \/ pc' = "exit" /\ UNCHANGED <<transactions, nonce>>
  BY DEF Format
<1>2. PICK counts \in [1..k -> 1..MaxBurners] :
        \/ /\ Sum(counts) <= Len(in_line(burners))
           /\ transactions' = format_transactions(counts)
           /\ nonce' = first_nonce + k
           /\ pc' = "execute"
        \/ pc' = "exit" /\ UNCHANGED <<transactions, nonce>>
  BY <1>1
<1>3. /\ pc = "loop" /\ rounds < MaxRounds /\ rounds' = rounds + 1
      /\ UNCHANGED <<sent, tx_hashes, burners, used_burners, saved_burners>>
  BY DEF Format, stockVars
<1>4. Pending' = Pending /\ destroyed' = destroyed /\ BurnersAlive'
  BY <1>3, NothingSent
<1>5. k \in Nat \ {0} /\ k <= MaxArbs /\ DOMAIN counts = 1..k
      /\ counts \in [1..k -> Nat \ {0}]
  BY BoundsAssumption
<1>6. Stocks'
  BY <1>2, <1>3 DEF Stocks, Running, Distinct
<1>7. /\ rounds' \in 0..MaxRounds /\ Limit \in Nat
      /\ Limit' = Limit + MaxArbs /\ MaxArbs \in Nat
  <2>1. MaxRounds \in Nat /\ rounds \in 0..MaxRounds /\ MaxArbs \in Nat
    BY BoundsAssumption DEF Sizes
  <2>2. Limit' = MaxArbs * (rounds + 1)
    BY <1>3 DEF Limit
  <2>. QED BY <1>3, <2>1, <2>2, LimitIs
<1>8. Len(sent) \in Nat /\ Len(sent) <= Limit
  BY DEF IInv, Shape, IsSeq, Sizes
<1>9. Spent'
  <2>1. Running /\ Round' = Round
    BY <1>3 DEF Running, Round
  <2>2. \A i \in DOMAIN sent : Destroys(sent[i])' = Destroys(sent[i])
    BY <1>3 DEF Destroys
  <2>3. pc' # "remove"
    BY <1>2
  <2>. QED BY <1>3, <2>1, <2>2, <2>3 DEF Spent
<1>10. CASE pc' = "exit" /\ UNCHANGED <<transactions, nonce>>
  <2>1. Sizes'
    <3>1. nonce # None => nonce \in Nat
      BY DEF IInv, Shape
    <3>. QED BY <1>3, <1>7, <1>8, <1>10, <3>1 DEF Sizes
  <2>2. Assigned'
    BY <1>3, <1>10 DEF Assigned, Round, Burns
  <2>. QED BY <1>4, <1>6, <1>9, <2>1, <2>2
<1>11. CASE /\ Sum(counts) <= Len(in_line(burners))
            /\ transactions' = format_transactions(counts)
            /\ nonce' = first_nonce + k
            /\ pc' = "execute"
  <2>. DEFINE bs(i) == get_burner_addresses(counts, i)
  <2>1. first_nonce \in 0..Limit
    <3>1. mined_count \in 0..Limit
      BY <1>7, <1>8, MinedCount DEF IInv, Shape
    <3>2. nonce # None => nonce \in 0..Limit
      BY <1>7 DEF IInv, Shape, Sizes
    <3>. QED BY <3>1, <3>2 DEF first_nonce
  <2>2. /\ DOMAIN transactions' = 1..k
        /\ \A i \in 1..k : transactions'[i] = Tx(first_nonce + i - 1, bs(i))
    BY <1>5, <1>11 DEF format_transactions
  <2>3. /\ \A i \in 1..k : /\ bs(i) \in Seq(All) /\ bs(i) # <<>>
                           /\ ToSet(bs(i)) \subseteq InStock(burners)
        /\ \A i, j \in 1..k : i # j => ToSet(bs(i)) \cap ToSet(bs(j)) = {}
    <3>1. Distinct(burners)
      BY DEF Stocks
    <3>. QED BY <1>5, <1>11, <3>1, SlicesAre
  <2>. HIDE DEF bs
  <2>4. \A i \in 1..k : /\ transactions'[i].nonce = first_nonce + i - 1
                        /\ transactions'[i].burners = bs(i)
    BY <2>2 DEF Tx
  <2>5. Sizes'
    <3>1. nonce' <= Limit'
      BY <1>5, <1>7, <1>11, <2>1
    <3>2. \A i \in 1..k : transactions'[i].nonce \in 0..Limit'
      BY <1>5, <1>7, <2>1, <2>4
    <3>3. Len(sent') <= Limit'
      BY <1>3, <1>7, <1>8
    <3>. QED BY <1>7, <2>2, <3>1, <3>2, <3>3 DEF Sizes
  <2>6. Round' = {}
    BY <1>3 DEF Round, ToSet, IInv, InFlight
  <2>7. Promised'
    BY <1>3, <2>2, <2>3, <2>4, <2>6 DEF Promised, OfTx
  <2>8. Assigned'
    <3>1. \A i \in 1..k : Burns(transactions'[i])
      BY <2>3, <2>4 DEF Burns
    <3>2. \A i \in DOMAIN sent' : Burns(sent'[i].tx)
      BY <1>3 DEF Assigned
    <3>. QED BY <2>2, <2>6, <2>7, <3>1, <3>2 DEF Assigned
  <2>. QED BY <1>4, <1>6, <1>9, <2>5, <2>8
<1>. QED BY <1>2, <1>10, <1>11

\* The transactions after the first one keep their promises.
LEMMA TailKeepsPromises ==
  ASSUME IInv, Executing, Promised, NEW k \in DOMAIN Tail(transactions)
  PROVE  /\ k + 1 \in DOMAIN transactions /\ 1 \in DOMAIN transactions
         /\ Tail(transactions)[k] = transactions[k + 1]
         /\ OfTx(Tail(transactions)[k]) \subseteq InStock(burners)
         /\ \A l \in DOMAIN Tail(transactions) :
              l # k => OfTx(Tail(transactions)[k]) \cap OfTx(Tail(transactions)[l]) = {}
         /\ \A i \in Round : OfTx(Tail(transactions)[k]) \cap OfTx(sent[i].tx) = {}
         /\ OfTx(Tail(transactions)[k]) \cap OfTx(transactions[1]) = {}
<1>1. /\ 1 \in DOMAIN transactions
      /\ \A l \in DOMAIN Tail(transactions) :
           /\ l \in Nat \ {0} /\ l + 1 \in DOMAIN transactions
           /\ Tail(transactions)[l] = transactions[l + 1]
  BY ExecutingOne
<1>2. /\ k + 1 # 1
      /\ \A l \in DOMAIN Tail(transactions) : l # k => l + 1 # k + 1
  BY <1>1
<1>. QED BY <1>1, <1>2 DEF Promised

\* A skipped transaction has destroyed nothing.
LEMMA SkipSpares == ASSUME IInv, BInv, Skip PROVE BInv'
<1>. USE DEF BInv
<1>1. /\ pc = "execute" /\ transactions' = Tail(transactions) /\ nonce' = nonce - 1
      /\ UNCHANGED <<sent, pc, tx_hashes, rounds, burners, used_burners,
                     saved_burners>>
  BY DEF Skip, Executing, stockVars
<1>2. Executing /\ Promised
  BY <1>1 DEF Skip, Assigned
<1>3. Pending' = Pending /\ destroyed' = destroyed /\ BurnersAlive'
  BY <1>1, NothingSent
<1>4. \A k \in DOMAIN transactions' :
        k + 1 \in DOMAIN transactions /\ transactions'[k] = transactions[k + 1]
  BY <1>1, <1>2, TailKeepsPromises
<1>5. Stocks'
  BY <1>1 DEF Stocks, Running, Distinct
<1>6. Sizes'
  <2>1. nonce \in Nat
    BY <1>1 DEF IInv, NoncesAhead
  <2>2. Limit \in Nat /\ Limit' = Limit
    BY <1>1, LimitIs DEF Sizes, Limit
  <2>. QED BY <1>1, <1>4, <2>1, <2>2 DEF Sizes, None
<1>7. Promised'
  BY <1>1, <1>2, TailKeepsPromises DEF Promised, Round
<1>8. Assigned'
  BY <1>1, <1>4, <1>7 DEF Assigned, Round
<1>9. Spent'
  BY <1>1, <1>3 DEF Spent, Running, Round, Destroys
<1>. QED BY <1>3, <1>5, <1>6, <1>8, <1>9

\* What is sent has burners of the stock that no other one of the iteration has;
\* what was destroyed belongs to those, or is out of the stock.
LEMMA SendSpares == ASSUME IInv, BInv, Send PROVE BInv'
<1>. USE DEF BInv
<1>. DEFINE e == [tx |-> Head(transactions), state |-> "pending"]
            n == Len(sent) + 1
<1>1. /\ pc = "execute" /\ transactions' = Tail(transactions)
      /\ UNCHANGED <<pc, nonce, rounds, burners, used_burners, saved_burners>>
      /\ sent' = Append(sent, e) /\ tx_hashes' = Append(tx_hashes, Len(sent'))
  BY DEF Send, Executing, stockVars
<1>2. Executing /\ Promised
  BY <1>1 DEF Send, Assigned
<1>3. \A k \in DOMAIN transactions' :
        k + 1 \in DOMAIN transactions /\ transactions'[k] = transactions[k + 1]
  BY <1>1, <1>2, TailKeepsPromises
<1>4. e.tx = transactions[1] /\ e.state = "pending" /\ 1 \in DOMAIN transactions
  BY <1>2, ExecutingOne
<1>. HIDE DEF e
<1>5. /\ Len(sent) \in Nat /\ Len(sent') = n
      /\ DOMAIN sent' = DOMAIN sent \cup {n} /\ n \notin DOMAIN sent
      /\ \A i \in DOMAIN sent : sent'[i] = sent[i]
      /\ sent'[n] = e
  <2>1. IsSeq(sent)
    BY DEF IInv, Shape
  <2>2. n \notin DOMAIN sent
    BY <2>1 DEF IsSeq
  <2>. QED BY <1>1, <2>1, <2>2, AppendIsSeq
<1>6. Round' = Round \cup {n}
  <2>1. tx_hashes \in Seq(Nat)
    BY DEF IInv, Shape
  <2>2. IsSeq(tx_hashes)
    BY <2>1, OwnElements
  <2>3. /\ DOMAIN tx_hashes' = DOMAIN tx_hashes \cup {Len(tx_hashes) + 1}
        /\ \A i \in DOMAIN tx_hashes : tx_hashes'[i] = tx_hashes[i]
        /\ tx_hashes'[Len(tx_hashes) + 1] = n
    BY <1>1, <1>5, <2>2, AppendIsSeq
  <2>. HIDE DEF n
  <2>. QED BY <2>3 DEF Round, ToSet
<1>. HIDE DEF n
<1>7. Pending' = Pending \cup {n} /\ n \notin Pending
  BY <1>4, <1>5 DEF Pending
<1>8. /\ \A i \in DOMAIN sent : Destroys(sent'[i]) = Destroys(sent[i])
      /\ Destroys(sent'[n]) = {}
  <2>1. Destroys(e) = {}
    BY <1>4 DEF Destroys
  <2>. QED BY <1>5, <2>1
<1>9. destroyed' = destroyed
  BY <1>5, <1>8 DEF destroyed
<1>10. Stocks'
  BY <1>1 DEF Stocks, Running, Distinct
<1>11. Sizes'
  <2>1. Len(sent) + Len(transactions) <= nonce /\ nonce \in Nat
    BY <1>1 DEF IInv, NoncesAhead
  <2>2. Len(transactions) \in Nat \ {0}
    BY <1>2, ExecutingOne
  <2>3. Limit \in Nat /\ Limit' = Limit /\ nonce <= Limit
    BY <1>1, <2>1, LimitIs DEF Sizes, Limit, None
  <2>4. Len(sent') <= Limit
    BY <1>5, <2>1, <2>2, <2>3 DEF n
  <2>. QED BY <1>1, <1>3, <2>1, <2>3, <2>4 DEF Sizes
<1>12. Assigned'
  <2>1. \A i \in DOMAIN sent' : Burns(sent'[i].tx)
    BY <1>4, <1>5 DEF Assigned
  <2>2. Round' \subseteq DOMAIN sent'
    BY <1>5, <1>6 DEF Assigned
  <2>3. \A k \in DOMAIN transactions' :
          \A i \in Round' : OfTx(transactions'[k]) \cap OfTx(sent'[i].tx) = {}
    <3>1. ASSUME NEW k \in DOMAIN transactions'
          PROVE  OfTx(transactions'[k]) \cap OfTx(sent'[n].tx) = {}
      BY <1>1, <1>2, <1>4, <1>5, TailKeepsPromises
    <3>2. ASSUME NEW k \in DOMAIN transactions', NEW i \in Round
          PROVE  OfTx(transactions'[k]) \cap OfTx(sent'[i].tx) = {}
      <4>1. sent'[i] = sent[i]
        BY <1>5 DEF Assigned
      <4>. QED BY <1>1, <1>2, <4>1, TailKeepsPromises
    <3>. QED BY <1>6, <3>1, <3>2
  <2>4. Promised'
    BY <1>1, <1>2, <2>3, TailKeepsPromises DEF Promised
  <2>. QED BY <1>3, <2>1, <2>2, <2>4 DEF Assigned
<1>13. Spent'
  <2>1. DOMAIN sent' \ Round' = DOMAIN sent \ Round
    <3>1. n \notin Round
      BY <1>5 DEF Assigned
    <3>. QED BY <1>5, <1>6
  <2>. QED BY <1>1, <1>8, <2>1 DEF Spent, Running
<1>14. BurnersAlive'
  <2>1. \A i \in Round : OfTx(e.tx) \cap OfTx(sent[i].tx) = {}
    BY <1>2, <1>4 DEF Promised
  <2>2. OfTx(e.tx) \cap destroyed = {}
    <3>1. ASSUME NEW i \in DOMAIN sent, i \in Round
          PROVE  OfTx(e.tx) \cap Destroys(sent[i]) = {}
      <4>1. Destroys(sent[i]) \subseteq OfTx(sent[i].tx)
        BY DestroysIs DEF Assigned
      <4>. QED BY <2>1, <3>1, <4>1
    <3>2. ASSUME NEW i \in DOMAIN sent, i \notin Round
          PROVE  OfTx(e.tx) \cap Destroys(sent[i]) = {}
      <4>1. OfTx(e.tx) \subseteq InStock(burners)
        BY <1>2, <1>4 DEF Promised
      <4>2. Destroys(sent[i]) \cap InStock(burners) = {}
        BY <1>1, <3>2 DEF Spent, Running
      <4>. QED BY <4>1, <4>2
    <3>. QED BY <3>1, <3>2 DEF destroyed
  <2>3. \A i \in Pending : OfTx(e.tx) \cap OfTx(sent[i].tx) = {}
    <3>1. Pending \subseteq Round
      BY <1>1 DEF IInv, InFlight, Round
    <3>. QED BY <2>1, <3>1
  <2>4. \A i \in Pending : sent'[i] = sent[i]
    BY <1>5 DEF Pending
  <2>5. \A i \in Pending' : OfTx(sent'[i].tx) \cap destroyed' = {}
    BY <1>5, <1>7, <1>9, <2>2, <2>4 DEF BurnersAlive, OfTx
  <2>6. ASSUME NEW i \in Pending', NEW j \in Pending', i # j
        PROVE  OfTx(sent'[i].tx) \cap OfTx(sent'[j].tx) = {}
    <3>1. CASE i = n
      BY <1>5, <1>7, <2>3, <2>4, <2>6, <3>1
    <3>2. CASE j = n
      BY <1>5, <1>7, <2>3, <2>4, <2>6, <3>2
    <3>3. CASE i # n /\ j # n
      BY <1>7, <2>4, <2>6, <3>3 DEF BurnersAlive, OfTx
    <3>. QED BY <3>1, <3>2, <3>3
  <2>. QED BY <2>5, <2>6 DEF BurnersAlive, OfTx
<1>. QED BY <1>10, <1>11, <1>12, <1>13, <1>14

\* What is not executed keeps its burners.
LEMMA RefusedSpares == ASSUME IInv, BInv, Refused PROVE BInv'
<1>. USE DEF BInv
<1>1. /\ pc = "execute" /\ transactions' = <<>>
      /\ UNCHANGED <<sent, pc, nonce, tx_hashes, rounds, burners, used_burners,
                     saved_burners>>
  BY DEF Refused, Executing, stockVars
<1>2. Pending' = Pending /\ destroyed' = destroyed /\ BurnersAlive'
  BY <1>1, NothingSent
<1>3. Stocks' /\ Sizes'
  BY <1>1 DEF Stocks, Running, Distinct, Sizes, Limit
<1>4. Assigned'
  BY <1>1 DEF Assigned, Promised, Round
<1>5. Spent'
  BY <1>1, <1>2 DEF Spent, Running, Round, Destroys
<1>. QED BY <1>2, <1>3, <1>4, <1>5

\* Without transactions to come nothing is promised.
LEMMA ExecutedSpares == ASSUME IInv, BInv, Executed PROVE BInv'
<1>. USE DEF BInv
<1>1. /\ pc = "execute" /\ pc' \in {"loop", "confirm"}
      /\ UNCHANGED <<sent, nonce, transactions, tx_hashes, rounds, burners,
                     used_burners, saved_burners>>
  BY DEF Executed, stockVars
<1>2. Pending' = Pending /\ destroyed' = destroyed /\ BurnersAlive'
  BY <1>1, NothingSent
<1>3. Stocks' /\ Sizes'
  BY <1>1 DEF Stocks, Running, Distinct, Sizes, Limit
<1>4. Assigned'
  BY <1>1 DEF Assigned, Burns, Round
<1>5. Spent'
  BY <1>1, <1>2 DEF Spent, Running, Round, Destroys
<1>. QED BY <1>2, <1>3, <1>4, <1>5

\* The receipts change no burner.
LEMMA ConfirmedSpares == ASSUME IInv, BInv, Confirmed PROVE BInv'
<1>. USE DEF BInv
<1>1. /\ pc = "confirm" /\ pc' = "settle"
      /\ UNCHANGED <<sent, nonce, transactions, tx_hashes, rounds, burners,
                     used_burners, saved_burners>>
  BY DEF Confirmed, stockVars
<1>2. Pending' = Pending /\ destroyed' = destroyed /\ BurnersAlive'
  BY <1>1, NothingSent
<1>3. Stocks' /\ Sizes'
  BY <1>1 DEF Stocks, Running, Distinct, Sizes, Limit
<1>4. Assigned'
  BY <1>1 DEF Assigned, Burns, Round
<1>5. Spent'
  BY <1>1, <1>2 DEF Spent, Running, Round, Destroys
<1>. QED BY <1>2, <1>3, <1>4, <1>5

\* Nor does the end of the program.
LEMMA ReceiptTimeoutSpares == ASSUME IInv, BInv, ReceiptTimeout PROVE BInv'
<1>. USE DEF BInv
<1>1. /\ pc' = "exit"
      /\ UNCHANGED <<sent, nonce, transactions, tx_hashes, rounds, burners,
                     used_burners, saved_burners>>
  BY DEF ReceiptTimeout, stockVars
<1>2. Pending' = Pending /\ destroyed' = destroyed /\ BurnersAlive'
  BY <1>1, NothingSent
<1>3. Stocks' /\ Sizes'
  BY <1>1 DEF Stocks, Running, Distinct, Sizes, Limit
<1>4. Assigned'
  BY <1>1 DEF Assigned, Burns, Round
<1>5. Spent'
  BY <1>1 DEF Spent, Running
<1>. QED BY <1>2, <1>3, <1>4, <1>5

\* The used burners include all that this iteration has destroyed.
LEMMA SettleSpares == ASSUME IInv, BInv, Settle PROVE BInv'
<1>. USE DEF BInv
<1>. DEFINE used == [i \in DOMAIN tx_hashes |-> get_used_burnerns(sent[tx_hashes[i]])]
<1>1. /\ pc = "settle" /\ pc' = "remove" /\ tx_hashes' = <<>>
      /\ UNCHANGED <<sent, nonce, transactions, rounds, burners, saved_burners>>
      /\ used_burners' = FlattenSeq(used)
  BY DEF Settle
<1>2. Pending' = Pending /\ destroyed' = destroyed /\ BurnersAlive'
  BY <1>1, NothingSent
<1>3. \A i \in DOMAIN tx_hashes : tx_hashes[i] \in DOMAIN sent
  BY DEF Assigned, Round, ToSet
<1>4. \A i \in DOMAIN tx_hashes : used[i] \in Seq(All)
  BY <1>3, DestroysIs DEF Assigned
<1>5. used \in Seq(Seq(All)) /\ DOMAIN used = DOMAIN tx_hashes
  <2>1. DOMAIN tx_hashes = 1..Len(tx_hashes) /\ Len(tx_hashes) \in Nat
    BY DEF IInv, Shape
  <2>2. used \in [1..Len(tx_hashes) -> Seq(All)]
    BY <1>4, <2>1
  <2>3. DOMAIN used = DOMAIN tx_hashes
    OBVIOUS
  <2>. HIDE DEF used
  <2>. QED BY <2>1, <2>2, <2>3
<1>6. \A i \in DOMAIN tx_hashes : used[i] = get_used_burnerns(sent[tx_hashes[i]])
  OBVIOUS
<1>. HIDE DEF used
<1>7. /\ used_burners' \in Seq(All)
      /\ ToSet(used_burners') = UNION {ToSet(used[i]) : i \in DOMAIN used}
  BY <1>1, <1>5, FlattenSeqIs
<1>8. Stocks'
  BY <1>1, <1>7 DEF Stocks, Running, Distinct
<1>9. Sizes'
  BY <1>1 DEF Sizes, Limit
<1>10. Assigned'
  <2>1. Round' = {}
    BY <1>1 DEF Round, ToSet
  <2>. QED BY <1>1, <2>1 DEF Assigned, Burns
<1>11. Spent'
  <2>1. ASSUME NEW i \in DOMAIN sent, i \in Round
        PROVE  Destroys(sent[i]) \subseteq ToSet(used_burners')
    <3>1. PICK j \in DOMAIN tx_hashes : tx_hashes[j] = i
      BY <2>1 DEF Round, ToSet
    <3>2. Destroys(sent[i]) \subseteq ToSet(used[j])
      BY <1>6, <3>1, DestroysIs DEF Assigned
    <3>. QED BY <1>5, <1>7, <3>1, <3>2
  <2>2. ASSUME NEW i \in DOMAIN sent, i \notin Round
        PROVE  Destroys(sent[i]) \cap InStock(burners) = {}
    BY <1>1, <2>2 DEF Spent, Running
  <2>3. destroyed \cap InStock(burners) \subseteq ToSet(used_burners')
    BY <2>1, <2>2 DEF destroyed
  <2>. QED BY <1>1, <1>2, <2>3 DEF Spent, Running
<1>. QED BY <1>2, <1>8, <1>9, <1>10, <1>11

\* remove_used_burners takes an address out of the batch it finds it in.
LEMMA RemovedFromPlace ==
  ASSUME NEW stock, Distinct(stock), NEW address, NEW places,
         places = {b \in DOMAIN stock \cap {1, 2} : Contains(stock[b], address)},
         places # {}
  PROVE  LET rest == drop_empty([stock EXCEPT ![Min(places)] = RemoveFirst(@, address)])
         IN  Distinct(rest) /\ InStock(rest) = InStock(stock) \ {address}
<1>. DEFINE first == Min(places)
<1>1. first \in places
  <2>1. places \subseteq {1, 2}
    OBVIOUS
  <2>2. \E x \in places : \A y \in places : x =< y
    <3>1. CASE 1 \in places
      <4>1. \A y \in places : 1 =< y
        BY <2>1
      <4>. QED BY <3>1, <4>1
    <3>2. CASE 1 \notin places
      <4>1. 2 \in places
        BY <2>1, <3>2
      <4>2. \A y \in places : 2 =< y
        BY <2>1, <3>2
      <4>. QED BY <4>1, <4>2
    <3>. QED BY <3>1, <3>2
  <2>. QED BY <2>2, Zenon DEF Min
<1>2. first \in DOMAIN stock /\ Contains(stock[first], address)
  BY <1>1
<1>. HIDE DEF first
<1>3. address \in ToSet(stock[first])
  <2>1. stock[first] \in Seq(All)
    BY <1>2 DEF Distinct
  <2>2. DOMAIN stock[first] = 1..Len(stock[first])
    BY <2>1
  <2>. QED BY <1>2, <2>2 DEF Contains, ToSet
<1>4. LET rest == drop_empty([stock EXCEPT ![first] = RemoveFirst(@, address)])
      IN  Distinct(rest) /\ InStock(rest) = InStock(stock) \ {address}
  BY <1>2, <1>3, RemovedIs, Zenon
<1>. QED BY <1>4 DEF first

\* A used burner is out of the stock before it leaves the list.
LEMMA RemoveUsedBurnerSpares == ASSUME IInv, BInv, RemoveUsedBurner PROVE BInv'
<1>. USE DEF BInv
<1>. DEFINE address == Head(used_burners)
            places == {b \in DOMAIN burners \cap {1, 2} : Contains(burners[b], address)}
<1>1. /\ pc = "remove" /\ used_burners # <<>>
      /\ UNCHANGED <<sent, nonce, transactions, tx_hashes, rounds, saved_burners>>
      /\ \/ pc' = "exit" /\ UNCHANGED <<burners, used_burners>>
         \/ /\ places # {} /\ pc' = "remove"
            /\ burners' = drop_empty([burners EXCEPT ![Min(places)] =
                                        RemoveFirst(@, address)])
            /\ used_burners' = Tail(used_burners)
  BY DEF RemoveUsedBurner
<1>2. Pending' = Pending /\ destroyed' = destroyed /\ BurnersAlive'
  BY <1>1, NothingSent
<1>3. Sizes'
  BY <1>1 DEF Sizes, Limit
<1>4. Assigned'
  BY <1>1 DEF Assigned, Burns, Round
<1>5. CASE pc' = "exit" /\ UNCHANGED <<burners, used_burners>>
  <2>1. Stocks' /\ Spent'
    BY <1>1, <1>5 DEF Stocks, Running, Distinct, Spent
  <2>. QED BY <1>2, <1>3, <1>4, <2>1
<1>6. CASE /\ places # {} /\ pc' = "remove"
           /\ burners' = drop_empty([burners EXCEPT ![Min(places)] =
                                       RemoveFirst(@, address)])
           /\ used_burners' = Tail(used_burners)
  <2>3. Distinct(burners) /\ used_burners \in Seq(All)
    BY DEF Stocks
  <2>6. Distinct(burners') /\ InStock(burners') = InStock(burners) \ {address}
    BY <1>6, <2>3, RemovedFromPlace
  <2>7. /\ used_burners' \in Seq(All)
        /\ ToSet(used_burners) \ {address} \subseteq ToSet(used_burners')
    <3>1. IsSeq(used_burners)
      BY <2>3, OwnElements
    <3>2. /\ Len(used_burners) \in Nat /\ DOMAIN used_burners = 1..Len(used_burners)
          /\ DOMAIN Tail(used_burners) = 1..(Len(used_burners) - 1)
          /\ \A k \in DOMAIN Tail(used_burners) : Tail(used_burners)[k] = used_burners[k + 1]
          /\ address = used_burners[1]
      BY <1>1, <3>1, TailIsSeq
    <3>. HIDE DEF address
    <3>3. ASSUME NEW i \in DOMAIN used_burners, used_burners[i] # address
          PROVE  used_burners[i] \in ToSet(used_burners')
      <4>1. i - 1 \in DOMAIN Tail(used_burners) /\ i - 1 + 1 = i
        BY <3>2, <3>3
      <4>2. Tail(used_burners)[i - 1] = used_burners[i]
        BY <3>2, <4>1
      <4>. QED BY <1>6, <4>1, <4>2 DEF ToSet
    <3>4. used_burners' \in Seq(All)
      BY <1>1, <1>6, <2>3
    <3>. QED BY <3>3, <3>4 DEF ToSet
  <2>8. Stocks'
    BY <1>1, <1>6, <2>6, <2>7 DEF Stocks, Running, Distinct
  <2>9. Spent'
    <3>1. destroyed \cap InStock(burners) \subseteq ToSet(used_burners)
      BY <1>1 DEF Spent
    <3>2. destroyed' \cap InStock(burners') \subseteq ToSet(used_burners')
      BY <1>2, <2>6, <2>7, <3>1
    <3>3. pc' = "remove"
      BY <1>6
    <3>. QED BY <3>2, <3>3 DEF Spent, Running, InStock
  <2>. QED BY <1>2, <1>3, <1>4, <2>8, <2>9
<1>. HIDE DEF address, places
<1>. QED BY <1>1, <1>5, <1>6

\* With no used burner left, no destroyed one is in what is saved.
LEMMA SaveBurnersSpares == ASSUME IInv, BInv, SaveBurners PROVE BInv'
<1>. USE DEF BInv
<1>1. /\ pc = "remove" /\ used_burners = <<>> /\ pc' = "loop"
      /\ saved_burners' = burners
      /\ UNCHANGED <<sent, nonce, transactions, tx_hashes, rounds, burners,
                     used_burners>>
  BY DEF SaveBurners
<1>2. Pending' = Pending /\ destroyed' = destroyed /\ BurnersAlive'
  BY <1>1, NothingSent
<1>3. Stocks'
  BY <1>1 DEF Stocks, Distinct
<1>4. Sizes'
  BY <1>1 DEF Sizes, Limit
<1>5. Assigned'
  BY <1>1 DEF Assigned, Burns, Round
<1>6. Spent'
  <2>1. destroyed \cap InStock(burners) = {}
    BY <1>1 DEF Spent, ToSet
  <2>2. \A i \in DOMAIN sent : Destroys(sent[i]) \cap InStock(burners) = {}
    BY <2>1 DEF destroyed
  <2>3. \A i \in DOMAIN sent' : Destroys(sent'[i]) \cap InStock(burners') = {}
    BY <1>1, <2>2
  <2>. QED BY <1>1, <2>3 DEF Spent
<1>. QED BY <1>2, <1>3, <1>4, <1>5, <1>6

\* Between iterations the file has the stock.
LEMMA RestartSpares ==
  ASSUME IInv, BInv, Restart, ConnectionErrors \subseteq {"loop"}
  PROVE  BInv'
<1>. USE DEF BInv
<1>1. /\ pc = "loop" /\ pc' = "loop" /\ nonce' = None /\ burners' = saved_burners
      /\ transactions' = <<>> /\ tx_hashes' = <<>> /\ used_burners' = <<>>
      /\ UNCHANGED <<sent, rounds, saved_burners>>
  BY DEF Restart
<1>2. burners' = burners /\ tx_hashes' = tx_hashes
  BY <1>1 DEF Stocks, Running, IInv, InFlight
<1>3. Pending' = Pending /\ destroyed' = destroyed /\ BurnersAlive'
  BY <1>1, NothingSent
<1>4. Stocks'
  <2>1. used_burners' \in Seq(All)
    BY <1>1
  <2>. QED BY <1>1, <2>1 DEF Stocks, Running, Distinct
<1>5. Sizes'
  BY <1>1 DEF Sizes, Limit
<1>6. Assigned'
  BY <1>1, <1>2 DEF Assigned, Round, Burns
<1>7. Spent'
  BY <1>1, <1>2 DEF Spent, Running, Round, Destroys
<1>. QED BY <1>3, <1>4, <1>5, <1>6, <1>7

\* Every step keeps the invariant.
LEMMA NextSpares ==
  ASSUME IInv, BInv, [Next]_vars, ConnectionErrors \subseteq {"loop"}
  PROVE  BInv'
<1>1. CASE Mine BY <1>1, MineSpares
<1>2. CASE Format BY <1>2, FormatSpares
<1>3. CASE Main
  BY <1>3, SkipSpares, SendSpares, RefusedSpares, ExecutedSpares, ConfirmedSpares,
     ReceiptTimeoutSpares, SettleSpares, RemoveUsedBurnerSpares, SaveBurnersSpares
     DEF Main
<1>4. CASE Restart BY <1>4, RestartSpares
<1>5. CASE UNCHANGED vars
  <2>1. UNCHANGED <<sent, pc, nonce, transactions, tx_hashes, rounds, burners,
                    used_burners, saved_burners>>
    BY <1>5 DEF vars, stockVars
  <2>2. destroyed' = destroyed /\ BurnersAlive'
    BY <2>1, NothingSent DEF BInv
  <2>3. Stocks' /\ Sizes'
    BY <2>1 DEF BInv, Stocks, Running, Distinct, Sizes, Limit
  <2>4. Assigned'
    BY <2>1 DEF BInv, Assigned, Burns, Round, Promised, OfTx
  <2>5. Spent'
    BY <2>1, <2>2 DEF BInv, Spent, Running, Round, Destroys
  <2>. QED BY <2>2, <2>3, <2>4, <2>5 DEF BInv
<1>. QED BY <1>1, <1>2, <1>3, <1>4, <1>5 DEF Next

-----------------------------------------------------------------------------
(* The theorems                                                              *)

\* The invariant holds as long as a ConnectionError strikes between iterations.
THEOREM BurnerInvariance ==
  ASSUME ConnectionErrors \subseteq {"loop"}
  PROVE  Spec => []BInv
<1>1. IInv /\ BInv /\ [Next]_vars => BInv'
  BY NextSpares
<1>. QED BY <1>1, InitBInv, Invariance, PTL DEF Spec

\* The stock and its file stay made of the first addresses, the hashes stand for
\* what was sent, and nonces grow by no more than one per formatted transaction.
THEOREM TypeCorrect ==
  ASSUME ConnectionErrors \subseteq {"loop"}
  PROVE  Spec => []TypeOK
<1>1. IInv /\ BInv => TypeOK
  <2>. SUFFICES ASSUME IInv, BInv PROVE TypeOK
    OBVIOUS
  <2>1. /\ pc \in Points /\ nonce \in Nat \cup {None} /\ rounds \in 0..MaxRounds
    BY DEF IInv, Shape, BInv, Sizes
  <2>2. Limit \in Nat /\ Limit <= MaxArbs * MaxRounds /\ MaxArbs * MaxRounds \in Nat
    <3>1. Limit \in Nat /\ Limit <= MaxArbs * MaxRounds
      BY <2>1, LimitIs
    <3>2. MaxArbs * MaxRounds \in Nat
      <4>1. \A a, b \in Nat : a * b \in Nat
        OBVIOUS
      <4>. QED BY <4>1, BoundsAssumption
    <3>. QED BY <3>1, <3>2
  <2>3. 0..Limit \subseteq Nonces
    <3>1. \A m, l \in Nat : l <= m => 0..l \subseteq 0..m
      OBVIOUS
    <3>. QED BY <2>2, <3>1 DEF Nonces
  <2>4. nonce \in Nonces \cup {None}
    <3>1. nonce # None => nonce \in 0..Limit
      BY <2>1, <2>2 DEF BInv, Sizes
    <3>. QED BY <2>3, <3>1
  <2>5. \A k \in DOMAIN transactions : transactions[k].nonce \in Nonces
    BY <2>3 DEF BInv, Sizes
  <2>6. Batches(burners) /\ Batches(saved_burners)
    BY DEF BInv, Stocks, Distinct, Batches, All, InStock
  <2>7. ToSet(used_burners) \subseteq ToSet(FlattenSeq(Stock))
    <3>1. used_burners \in Seq(All)
      BY DEF BInv, Stocks
    <3>2. ToSet(used_burners) \subseteq All
      BY <3>1 DEF ToSet
    <3>. QED BY <3>2 DEF All, InStock
  <2>8. ToSet(tx_hashes) \subseteq DOMAIN sent
    BY DEF BInv, Assigned, Round
  <2>. QED BY <2>1, <2>4, <2>5, <2>6, <2>7, <2>8 DEF TypeOK
<1>. QED BY <1>1, Invariance, BurnerInvariance, PTL

\* What waits to be mined can count on its burners: format_transactions has
\* handed out disjoint slices of a stock that no destroyed burner is in.
THEOREM BurnersStayAlive ==
  ASSUME ConnectionErrors \subseteq {"loop"}
  PROVE  Spec => []BurnersAlive
<1>1. BInv => BurnersAlive
  BY DEF BInv
<1>. QED BY <1>1, BurnerInvariance, PTL

\* No burner that is gone is offered again: get_used_burnerns names at least the
\* destroyed ones, and remove_used_burners takes all of these out before the stock
\* is saved or used.
THEOREM DestroyedStayOut ==
  ASSUME ConnectionErrors \subseteq {"loop"}
  PROVE  Spec => []DestroyedNotOffered
<1>1. IInv /\ BInv => DestroyedNotOffered
  <2>. SUFFICES ASSUME IInv, BInv, pc = "loop"
                PROVE  destroyed \cap
                         ToSet(FlattenSeq(burners) \o FlattenSeq(saved_burners)) = {}
    BY DEF DestroyedNotOffered
  <2>1. FlattenSeq(burners) \in Seq(All) /\ saved_burners = burners
    BY FlattenSeqIs DEF BInv, Stocks, Distinct, Running
  <2>2. ToSet(FlattenSeq(burners) \o FlattenSeq(saved_burners)) = InStock(burners)
    BY <2>1, ConcatIs DEF InStock
  <2>3. Round = {} /\ Running
    BY DEF IInv, InFlight, Round, ToSet, Running
  <2>4. destroyed \cap InStock(burners) = {}
    BY <2>3 DEF BInv, Spent, destroyed
  <2>. QED BY <2>2, <2>4
<1>. QED BY <1>1, Invariance, BurnerInvariance, PTL

-----------------------------------------------------------------------------
(* The other half: what lives is not lost                                    *)

\* What is destroyed, or counts as used by a failed transaction's gas, is gone.
gone == destroyed \cup doubted

KInv ==
  /\ \A i \in DOMAIN sent : sent[i].state \in Outcomes \cup {"pending"}
  /\ All \subseteq InStock(burners) \cup gone
  /\ pc = "remove" => ToSet(used_burners) \subseteq gone

\* Nothing comes back: gone grows with sent and with what becomes of it.
LEMMA GoneGrows ==
  ASSUME IInv, Mine \/ Send \/ UNCHANGED sent
  PROVE  gone \subseteq gone'
<1>. DEFINE Of(t) == Destroys(t) \cup Doubtful(t)
<1>1. gone = UNION {Of(sent[i]) : i \in DOMAIN sent}
  BY DEF gone, destroyed, doubted
<1>2. gone' = UNION {Of(sent'[i]) : i \in DOMAIN sent'}
  BY DEF gone, destroyed, doubted
<1>3. \A t : t.state = "pending" => Of(t) = {}
  BY DEF Destroys, Doubtful
<1>. HIDE DEF Of
<1>4. IsSeq(sent)
  BY DEF IInv, Shape
<1>5. CASE Mine
  <2>1. PICK i \in Pending, outcome \in Outcomes :
          sent' = [sent EXCEPT ![i].state = outcome]
    BY <1>5 DEF Mine
  <2>2. /\ DOMAIN sent' = DOMAIN sent /\ sent[i].state = "pending"
        /\ \A j \in DOMAIN sent : j # i => sent'[j] = sent[j]
    BY <1>4, <2>1 DEF IsSeq, Pending
  <2>. QED BY <1>1, <1>2, <1>3, <2>2
<1>6. CASE Send
  <2>. DEFINE e == [tx |-> Head(transactions), state |-> "pending"]
  <2>1. sent' = Append(sent, e)
    BY <1>6 DEF Send
  <2>. HIDE DEF e
  <2>2. DOMAIN sent \subseteq DOMAIN sent' /\ \A j \in DOMAIN sent : sent'[j] = sent[j]
    BY <1>4, <2>1, AppendIsSeq
  <2>. QED BY <1>1, <1>2, <2>2
<1>7. CASE UNCHANGED sent
  BY <1>1, <1>2, <1>7
<1>. QED BY <1>5, <1>6, <1>7

\* The states of transactions are outcomes of the router.
LEMMA StatesKept ==
  ASSUME IInv, KInv, Mine \/ Send \/ UNCHANGED sent
  PROVE  \A i \in DOMAIN sent' : sent'[i].state \in Outcomes \cup {"pending"}
<1>1. IsSeq(sent)
  BY DEF IInv, Shape
<1>2. CASE Mine
  <2>1. PICK i \in Pending, outcome \in Outcomes :
          sent' = [sent EXCEPT ![i].state = outcome]
    BY <1>2 DEF Mine
  <2>2. /\ DOMAIN sent' = DOMAIN sent
        /\ \A j \in DOMAIN sent : j # i => sent'[j] = sent[j]
        /\ sent'[i] = [sent[i] EXCEPT !.state = outcome]
    BY <1>1, <2>1 DEF IsSeq, Pending
  <2>3. sent[i].state = "pending" /\ i \in DOMAIN sent
    BY DEF Pending
  <2>4. sent'[i].state \in {outcome, "pending"}
    BY <2>2, <2>3
  <2>. QED BY <2>2, <2>4 DEF KInv
<1>3. CASE Send
  <2>. DEFINE e == [tx |-> Head(transactions), state |-> "pending"]
              n == Len(sent) + 1
  <2>1. sent' = Append(sent, e) /\ e.state = "pending"
    BY <1>3 DEF Send
  <2>. HIDE DEF e
  <2>2. /\ DOMAIN sent' = DOMAIN sent \cup {n} /\ sent'[n] = e
        /\ \A j \in DOMAIN sent : sent'[j] = sent[j]
    BY <1>1, <2>1, AppendIsSeq
  <2>. QED BY <2>1, <2>2 DEF KInv
<1>4. CASE UNCHANGED sent
  BY <1>4 DEF KInv
<1>. QED BY <1>2, <1>3, <1>4

\* What get_used_burnerns names of a transaction with a receipt is gone.
LEMMA UsedAreGone ==
  ASSUME NEW i \in DOMAIN sent, sent[i].state \in Outcomes, Burns(sent[i].tx)
  PROVE  ToSet(get_used_burnerns(sent[i])) \subseteq gone
<1>. DEFINE t == sent[i]
            bs == t.tx.burners
<1>1. Destroys(t) \cup Doubtful(t) \subseteq gone
  BY DEF gone, destroyed, doubted
<1>2. bs \in Seq(All) /\ bs # <<>>
  BY DEF Burns
<1>3. t.state \in {"profit", "no profit", "reverted", "ran out"}
  BY DEF Outcomes
<1>4. /\ t.state = "profit" => Destroys(t) = ToSet(bs)
      /\ t.state = "no profit" => Destroys(t) = {bs[1]}
      /\ t.state = "reverted" => Doubtful(t) = {bs[1]}
      /\ t.state = "ran out" => Doubtful(t) = ToSet(bs)
  BY DEF Destroys, Doubtful
<1>5. /\ t.state \in {"no profit", "reverted"} => get_used_burnerns(t) = <<bs[1]>>
      /\ t.state \notin {"no profit", "reverted"} => get_used_burnerns(t) = bs
  BY DEF get_used_burnerns
<1>. HIDE DEF bs
<1>6. ToSet(<<bs[1]>>) = {bs[1]}
  BY DEF ToSet
<1>. HIDE DEF t
<1>7. ToSet(get_used_burnerns(t)) \subseteq Destroys(t) \cup Doubtful(t)
  <2>1. CASE t.state \in {"no profit", "reverted"}
    BY <1>4, <1>5, <1>6, <2>1
  <2>2. CASE t.state \in {"profit", "ran out"}
    BY <1>4, <1>5, <2>2
  <2>. QED BY <1>3, <2>1, <2>2
<1>. QED BY <1>1, <1>7 DEF t

\* All used burners of the receipts are gone: main settles when everything of the
\* iteration has one.
LEMMA SettleLoses == ASSUME IInv, BInv, KInv, Settle PROVE KInv'
<1>. DEFINE used == [i \in DOMAIN tx_hashes |-> get_used_burnerns(sent[tx_hashes[i]])]
<1>1. /\ pc = "settle" /\ UNCHANGED <<sent, burners>>
      /\ used_burners' = FlattenSeq(used)
  BY DEF Settle
<1>2. gone \subseteq gone'
  BY <1>1, GoneGrows
<1>3. \A i \in DOMAIN tx_hashes : tx_hashes[i] \in DOMAIN sent
  BY DEF BInv, Assigned, Round, ToSet
<1>4. ASSUME NEW i \in DOMAIN tx_hashes
      PROVE  used[i] \in Seq(All) /\ ToSet(used[i]) \subseteq gone
  <2>1. sent[tx_hashes[i]].state # "pending"
    BY <1>1, <1>3 DEF IInv, InFlight, Pending
  <2>2. sent[tx_hashes[i]].state \in Outcomes /\ Burns(sent[tx_hashes[i]].tx)
    BY <1>3, <2>1 DEF KInv, BInv, Assigned
  <2>3. used[i] = get_used_burnerns(sent[tx_hashes[i]])
    OBVIOUS
  <2>. QED BY <1>3, <2>2, <2>3, DestroysIs, UsedAreGone
<1>5. used \in Seq(Seq(All)) /\ DOMAIN used = DOMAIN tx_hashes
  <2>1. DOMAIN tx_hashes = 1..Len(tx_hashes) /\ Len(tx_hashes) \in Nat
    BY DEF IInv, Shape
  <2>2. used \in [1..Len(tx_hashes) -> Seq(All)] /\ DOMAIN used = DOMAIN tx_hashes
    BY <1>4, <2>1
  <2>. HIDE DEF used
  <2>. QED BY <2>1, <2>2
<1>. HIDE DEF used
<1>6. ToSet(used_burners') = UNION {ToSet(used[i]) : i \in DOMAIN used}
  BY <1>1, <1>5, FlattenSeqIs
<1>7. ToSet(used_burners') \subseteq gone'
  BY <1>2, <1>4, <1>5, <1>6
<1>8. InStock(burners') = InStock(burners)
  BY <1>1
<1>. QED BY <1>1, <1>2, <1>7, <1>8, StatesKept DEF KInv

\* A burner that is taken out is gone, and no other one leaves the stock.
LEMMA RemoveUsedBurnerLoses == ASSUME IInv, BInv, KInv, RemoveUsedBurner PROVE KInv'
<1>. DEFINE address == Head(used_burners)
            places == {b \in DOMAIN burners \cap {1, 2} : Contains(burners[b], address)}
<1>1. /\ pc = "remove" /\ used_burners # <<>> /\ UNCHANGED sent
      /\ \/ pc' = "exit" /\ UNCHANGED <<burners, used_burners>>
         \/ /\ places # {}
            /\ burners' = drop_empty([burners EXCEPT ![Min(places)] =
                                        RemoveFirst(@, address)])
            /\ used_burners' = Tail(used_burners)
  BY DEF RemoveUsedBurner
<1>2. gone \subseteq gone'
  BY <1>1, GoneGrows
<1>3. CASE pc' = "exit" /\ UNCHANGED <<burners, used_burners>>
  <2>1. InStock(burners') = InStock(burners)
    BY <1>3
  <2>. QED BY <1>1, <1>2, <1>3, <2>1, StatesKept DEF KInv
<1>4. CASE /\ places # {}
           /\ burners' = drop_empty([burners EXCEPT ![Min(places)] =
                                       RemoveFirst(@, address)])
           /\ used_burners' = Tail(used_burners)
  <2>1. /\ Distinct(burners) /\ used_burners \in Seq(All)
        /\ ToSet(used_burners) \subseteq gone
    BY <1>1 DEF BInv, Stocks, KInv
  <2>2. address \in gone /\ ToSet(Tail(used_burners)) \subseteq ToSet(used_burners)
    <3>1. IsSeq(used_burners)
      BY <2>1, OwnElements
    <3>2. /\ 1 \in DOMAIN used_burners /\ address = used_burners[1]
          /\ \A k \in DOMAIN Tail(used_burners) :
               /\ k + 1 \in DOMAIN used_burners
               /\ Tail(used_burners)[k] = used_burners[k + 1]
      BY <1>1, <3>1, TailIsSeq
    <3>. HIDE DEF address
    <3>. QED BY <2>1, <3>2 DEF ToSet
  <2>3. InStock(burners') = InStock(burners) \ {address}
    BY <1>4, <2>1, RemovedFromPlace
  <2>. HIDE DEF address
  <2>. QED BY <1>1, <1>2, <1>4, <2>1, <2>2, <2>3, StatesKept DEF KInv
<1>. HIDE DEF address, places
<1>. QED BY <1>1, <1>3, <1>4

\* Every step keeps it.
LEMMA NextLoses ==
  ASSUME IInv, BInv, KInv, [Next]_vars, ConnectionErrors \subseteq {"loop"}
  PROVE  KInv'
<1>1. CASE Settle BY <1>1, SettleLoses
<1>2. CASE RemoveUsedBurner BY <1>2, RemoveUsedBurnerLoses
<1>3. CASE Restart
  <2>1. /\ UNCHANGED sent /\ burners' = saved_burners /\ pc = "loop" /\ pc' = "loop"
    BY <1>3 DEF Restart
  <2>2. InStock(burners') = InStock(burners)
    BY <2>1 DEF BInv, Stocks, Running
  <2>. QED BY <2>1, <2>2, GoneGrows, StatesKept DEF KInv
<1>4. CASE \/ Mine \/ Format \/ Skip \/ Send \/ Refused \/ Executed \/ Confirmed
           \/ ReceiptTimeout \/ SaveBurners \/ UNCHANGED vars
  <2>1. Mine \/ Send \/ UNCHANGED sent
    BY <1>4 DEF Format, Skip, Refused, Executed, Confirmed, ReceiptTimeout, SaveBurners,
                vars
  <2>2. UNCHANGED burners
    BY <1>4 DEF Mine, Format, Skip, Send, Refused, Executed, Confirmed, ReceiptTimeout,
                SaveBurners, vars, stockVars
  <2>3. pc' = "remove" => pc = "remove" /\ UNCHANGED used_burners
    BY <1>4 DEF Mine, Format, Skip, Send, Refused, Executed, Executing, Confirmed,
                ReceiptTimeout, SaveBurners, vars, stockVars
  <2>4. InStock(burners') = InStock(burners)
    BY <2>2
  <2>. QED BY <2>1, <2>3, <2>4, GoneGrows, StatesKept DEF KInv
<1>. QED BY <1>1, <1>2, <1>3, <1>4 DEF Next, Main

\* Over any number of iterations the stock and its file have exactly the burners that
\* live, but for those that a failed transaction's gas makes count as used: what a
\* transaction was promised and did not use stays (get_burner_addresses takes from a
\* copy), and remove_used_burners takes out what is used and nothing else.
THEOREM StockStaysExact ==
  ASSUME ConnectionErrors \subseteq {"loop"}
  PROVE  Spec => []StockExact
<1>1. Init => KInv
  <2>. SUFFICES ASSUME Init PROVE KInv
    OBVIOUS
  <2>1. DOMAIN sent = {} /\ InStock(burners) = All /\ pc = "loop"
    BY DEF Init, All
  <2>. QED BY <2>1 DEF KInv
<1>2. IInv /\ BInv /\ KInv /\ [Next]_vars => KInv'
  BY NextLoses
<1>3. Spec => []KInv
  BY <1>1, <1>2, Invariance, BurnerInvariance, PTL DEF Spec
<1>4. IInv /\ BInv /\ KInv /\ DestroyedNotOffered => StockExact
  <2>. SUFFICES ASSUME IInv, BInv, KInv, DestroyedNotOffered, pc = "loop",
                       NEW stock \in {burners, saved_burners}
                PROVE  /\ destroyed \cap ToSet(FlattenSeq(stock)) = {}
                       /\ ToSet(FlattenSeq(Stock)) \ (destroyed \cup doubted)
                            \subseteq ToSet(FlattenSeq(stock))
    BY Zenon DEF StockExact
  <2>1. FlattenSeq(burners) \in Seq(All) /\ stock = burners /\ saved_burners = burners
    BY FlattenSeqIs DEF BInv, Stocks, Distinct, Running
  <2>2. ToSet(FlattenSeq(burners) \o FlattenSeq(saved_burners)) = InStock(burners)
    BY <2>1, ConcatIs DEF InStock
  <2>3. InStock(stock) = InStock(burners)
    BY <2>1
  <2>. QED BY <2>2, <2>3 DEF DestroyedNotOffered, KInv, gone, All, InStock
<1>. QED BY <1>3, <1>4, Invariance, BurnerInvariance, DestroyedStayOut, PTL
=============================================================================
