----------------------------- MODULE TxPipeline -----------------------------
(***************************************************************************)
(* The execution of the potential arbitrages of one block                  *)
(* (arbitrage/executor.py, blockchain/ww3.py, blockchain/burner.py and the *)
(* end of main.py's loop).  All transactions are formatted first, with     *)
(* consecutive nonces and with burners taken from a copy of the stock;     *)
(* then each is estimated again and sent or skipped; then main waits for   *)
(* the receipts and takes the used burners out of the stock and its file.  *)
(*                                                                         *)
(* The nodes, the chain and the router contract are external: a node takes *)
(* a transaction whose nonce is not used up or taken, or refuses it; the   *)
(* chain mines transactions in the order of their nonces; the router       *)
(* destroys all burners of a transaction, or the first one when there is   *)
(* no profit left, or none when it reverts.  Numbers stand for the burners'*)
(* addresses, and the account has sent nothing before the program starts.  *)
(***************************************************************************)
EXTENDS Integers, FiniteSets, Sequences, SequencesExt

CONSTANTS
  Stock,          \* the burners file at the start: batches of addresses
  MaxArbs,        \* bound on the potential arbitrages of an iteration
  MaxBurners,     \* bound on the burners of one arbitrage
  MaxRounds,      \* bound on the iterations that execute something
  ConnectionErrors \* the points at which the connection may fail

None == -1        \* no nonce asked for yet
Points == {"loop", "execute", "confirm", "settle", "remove", "exit"}

ASSUME StockAssumption ==
  /\ Stock \in Seq(Seq(Nat))
  /\ LET all == FlattenSeq(Stock) IN Cardinality(ToSet(all)) = Len(all)
ASSUME BoundsAssumption == {MaxArbs, MaxBurners, MaxRounds} \subseteq Nat \ {0}
ASSUME ConnectionErrorsAssumption ==
  ConnectionErrors \subseteq {"loop", "execute", "confirm"}

VARIABLES
  sent            \* what the nodes took, in order, and what became of it

VARIABLES
  pc,
  nonce,          \* Web3.nonces of the account
  burners,        \* main's stock
  transactions,   \* the transactions of this iteration still to be executed
  tx_hashes,      \* indices, in sent, of those that were sent
  used_burners,   \* by the receipts, still to be taken out of the stock
  rounds

VARIABLES saved_burners   \* data/burners.json

stockVars == <<burners, used_burners, saved_burners>>
vars == <<sent, pc, nonce, transactions, tx_hashes, rounds, stockVars>>

Tx(n, bs) == [nonce |-> n, burners |-> bs]
Outcomes == {"profit", "no profit", "reverted", "ran out"}

-----------------------------------------------------------------------------
(* The nodes, the chain and the router                                     *)

Pending == {i \in DOMAIN sent : sent[i].state = "pending"}

\* eth.get_transaction_count: of the latest block, without what is pending.
mined_count == Cardinality(DOMAIN sent \ Pending)

Mine ==
  /\ \E i \in Pending, outcome \in Outcomes :
       /\ sent[i].tx.nonce = mined_count
       /\ sent' = [sent EXCEPT ![i].state = outcome]
  /\ UNCHANGED <<pc, nonce, transactions, tx_hashes, rounds, stockVars>>

\* The burners that a transaction has destroyed.
Destroys(t) ==
  CASE t.state = "profit" -> ToSet(t.tx.burners)
    [] t.state = "no profit" -> {t.tx.burners[1]}
    [] OTHER -> {}

destroyed == UNION {Destroys(sent[i]) : i \in DOMAIN sent}

\* A node refuses a nonce that is mined or pending.
Taken(n) == n < mined_count \/ \E i \in Pending : sent[i].tx.nonce = n

-----------------------------------------------------------------------------
(* exe_arbs                                                                *)

\* The addresses of the stock in the order get_burner_addresses pops them.
in_line(stock) == FlattenSeq([i \in DOMAIN stock |-> Reverse(stock[i])])

first_nonce == IF nonce = None THEN mined_count ELSE nonce

Sum(counts) == FoldLeft(+, 0, counts)

\* The next burners in line for the i-th arbitrage, on a copy of the stock.
get_burner_addresses(counts, i) ==
  LET before == Sum(SubSeq(counts, 1, i - 1))
  IN  SubSeq(in_line(burners), before + 1, before + counts[i])

Bug_SameNonce(counts) ==
  [i \in DOMAIN counts |-> Tx(first_nonce, get_burner_addresses(counts, i))]

Bug_SharesBurners(counts) ==
  [i \in DOMAIN counts |->
     Tx(first_nonce + i - 1, SubSeq(in_line(burners), 1, counts[i]))]

\* One transaction per arbitrage: the next burners in line and the next nonce.
format_transactions(counts) ==
  [i \in DOMAIN counts |->
     Tx(first_nonce + i - 1, get_burner_addresses(counts, i))]

\* check_arbs found potential arbitrages, which burn so many burners each;
\* without enough of them ArbitrageError ends the program.
Format ==
  /\ pc = "loop" /\ rounds < MaxRounds
  /\ rounds' = rounds + 1
  /\ \E k \in 1..MaxArbs : \E counts \in [1..k -> 1..MaxBurners] :
       \/ /\ Sum(counts) <= Len(in_line(burners))
          /\ transactions' = format_transactions(counts)
          /\ nonce' = first_nonce + k
          /\ pc' = "execute"
       \/ /\ Sum(counts) > Len(in_line(burners))
          /\ pc' = "exit"
          /\ UNCHANGED <<transactions, nonce>>
  /\ UNCHANGED <<sent, tx_hashes, stockVars>>

Executing == pc = "execute" /\ transactions # <<>>

Bug_SkipsTwice ==
  /\ Executing
  /\ nonce' = nonce - 2
  /\ transactions' = Tail(transactions)
  /\ UNCHANGED <<sent, pc, tx_hashes, rounds, stockVars>>

\* The estimations of the nodes fail, disagree or show no profit, or it is too
\* late in the block.
Skip ==
  /\ Executing
  /\ nonce' = nonce - 1
  /\ transactions' = Tail(transactions)
  /\ UNCHANGED <<sent, pc, tx_hashes, rounds, stockVars>>

\* batch_transact: some node takes the transaction.
Send ==
  /\ Executing
  /\ ~Taken(Head(transactions).nonce)
  /\ sent' = Append(sent, [tx |-> Head(transactions), state |-> "pending"])
  /\ tx_hashes' = Append(tx_hashes, Len(sent'))
  /\ transactions' = Tail(transactions)
  /\ UNCHANGED <<pc, nonce, rounds, stockVars>>

\* Every node refuses it with a ValueError: the loop is left.
Refused ==
  /\ Executing
  /\ transactions' = <<>>
  /\ UNCHANGED <<sent, pc, nonce, tx_hashes, rounds, stockVars>>

Executed ==
  /\ pc = "execute" /\ transactions = <<>>
  /\ pc' = IF tx_hashes = <<>> THEN "loop" ELSE "confirm"
  /\ UNCHANGED <<sent, nonce, transactions, tx_hashes, rounds, stockVars>>

Unconfirmed == Pending \cap ToSet(tx_hashes)

\* wait_for_tx_receipt has returned for every hash.
Confirmed ==
  /\ pc = "confirm" /\ Unconfirmed = {}
  /\ pc' = "settle"
  /\ UNCHANGED <<sent, nonce, transactions, tx_hashes, rounds, stockVars>>

Bug_TimeoutGoesOn ==
  /\ pc = "confirm" /\ Unconfirmed # {}
  /\ pc' = "settle"
  /\ UNCHANGED <<sent, nonce, transactions, tx_hashes, rounds, stockVars>>

Bug_NoTimeout ==
  /\ pc = "confirm" /\ Unconfirmed # {}
  /\ UNCHANGED vars

\* A receipt does not come within receipt_timeout: TransactionNotFound ends the
\* program.
ReceiptTimeout ==
  /\ pc = "confirm" /\ Unconfirmed # {}
  /\ pc' = "exit"
  /\ UNCHANGED <<sent, nonce, transactions, tx_hashes, rounds, stockVars>>

-----------------------------------------------------------------------------
(* main(), with the receipts                                               *)

Bug_FirstOnly(t) == <<t.tx.burners[1]>>

Bug_TakesAll(t) == t.tx.burners

\* By the gas used: below 60,000 only the first burner counts as used.  A
\* transaction that reverts may have used less or more.
get_used_burnerns(t) ==
  IF t.state \in {"no profit", "reverted"} THEN <<t.tx.burners[1]>>
  ELSE t.tx.burners

Settle ==
  /\ pc = "settle"
  /\ used_burners' = FlattenSeq([i \in DOMAIN tx_hashes |->
                                   get_used_burnerns(sent[tx_hashes[i]])])
  /\ tx_hashes' = <<>>
  /\ pc' = "remove"
  /\ UNCHANGED <<sent, nonce, burners, transactions, rounds, saved_burners>>

\* A first batch that is empty is dropped.
drop_empty(stock) == IF stock[1] = <<>> THEN Tail(stock) ELSE stock

\* remove_used_burners, address by address: each is looked for in the first
\* batch and then in the second, where a missing one ends the program.
RemoveUsedBurner ==
  /\ pc = "remove" /\ used_burners # <<>>
  /\ LET address == Head(used_burners)
         places  == {b \in DOMAIN burners \cap {1, 2} :
                       Contains(burners[b], address)}
     IN  \/ /\ places = {}
            /\ pc' = "exit"
            /\ UNCHANGED <<burners, used_burners>>
         \/ /\ places # {}
            /\ burners' = drop_empty([burners EXCEPT ![Min(places)] =
                                        RemoveFirst(@, address)])
            /\ used_burners' = Tail(used_burners)
            /\ UNCHANGED pc
  /\ UNCHANGED <<sent, nonce, transactions, tx_hashes, rounds, saved_burners>>

SaveBurners ==
  /\ pc = "remove" /\ used_burners = <<>>
  /\ saved_burners' = burners
  /\ pc' = "loop"
  /\ UNCHANGED <<sent, nonce, burners, used_burners, transactions, tx_hashes,
                 rounds>>

\* A ConnectionError: main() is run again, with a new Web3 and the saved stock.
Restart ==
  /\ pc \in ConnectionErrors
  /\ pc' = "loop"
  /\ nonce' = None
  /\ burners' = saved_burners
  /\ transactions' = <<>> /\ tx_hashes' = <<>> /\ used_burners' = <<>>
  /\ UNCHANGED <<sent, rounds, saved_burners>>

-----------------------------------------------------------------------------
Init ==
  /\ sent = <<>>
  /\ pc = "loop" /\ nonce = None
  /\ burners = Stock /\ saved_burners = Stock
  /\ transactions = <<>> /\ tx_hashes = <<>> /\ used_burners = <<>>
  /\ rounds = 0

Main ==
  \/ Skip \/ Send \/ Refused \/ Executed
  \/ Confirmed \/ ReceiptTimeout
  \/ Settle \/ RemoveUsedBurner \/ SaveBurners

Next == Mine \/ Format \/ Main \/ Restart

Spec == Init /\ [][Next]_vars

\* The main process keeps running; nothing says that a transaction is mined.
FairSpec == Spec /\ WF_vars(Main)

-----------------------------------------------------------------------------
(* Properties                                                              *)

Nonces == 0..MaxArbs * MaxRounds
Batches(stock) == stock \in Seq(Seq(ToSet(FlattenSeq(Stock))))

TypeOK ==
  /\ pc \in Points
  /\ nonce \in Nonces \cup {None}
  /\ Batches(burners) /\ Batches(saved_burners)
  /\ ToSet(used_burners) \subseteq ToSet(FlattenSeq(Stock))
  /\ \A i \in DOMAIN transactions : transactions[i].nonce \in Nonces
  /\ ToSet(tx_hashes) \subseteq DOMAIN sent
  /\ rounds \in 0..MaxRounds

\* A transaction that waits to be mined can count on its burners: none has been
\* destroyed and none is promised to another one that waits.
BurnersAlive ==
  \A i \in Pending :
    /\ ToSet(sent[i].tx.burners) \cap destroyed = {}
    /\ \A j \in Pending \ {i} :
         ToSet(sent[i].tx.burners) \cap ToSet(sent[j].tx.burners) = {}

\* No node refuses a transaction because its nonce is mined or pending, whatever
\* was skipped and refused before.
NonceFresh == Executing => ~Taken(Head(transactions).nonce)

\* Between iterations no transaction is in flight: a program that goes on knows
\* what became of everything it sent.
AllSettled == pc = "loop" => Pending = {}

\* Between iterations no destroyed burner is in the stock or in its file, so
\* none is offered again, not even by a main() that starts anew.
DestroyedNotOffered ==
  pc = "loop" =>
    destroyed \cap ToSet(FlattenSeq(burners) \o FlattenSeq(saved_burners)) = {}

\* The burners that count as used by the gas of a transaction that destroyed none.
Doubtful(t) ==
  CASE t.state = "reverted" -> {t.tx.burners[1]}
    [] t.state = "ran out" -> ToSet(t.tx.burners)
    [] OTHER -> {}

doubted == UNION {Doubtful(sent[i]) : i \in DOMAIN sent}

\* Between iterations the stock and its file have none of the destroyed burners
\* and all that live, but for those that a failed transaction's gas makes count
\* as used (burner.py:219): none is left in or lost over promises from a copy,
\* skips, refusals, batches that run empty and restarts (burner.py:244).
StockExact ==
  pc = "loop" =>
    \A stock \in {burners, saved_burners} :
      LET offered == ToSet(FlattenSeq(stock))
      IN  /\ destroyed \cap offered = {}
          /\ ToSet(FlattenSeq(Stock)) \ (destroyed \cup doubted) \subseteq offered

\* The nonce kept in Web3.nonces is the account's next one when an iteration
\* starts ("Get nonce for address.", ww3.py).
NonceIsNext == pc = "loop" /\ nonce # None => nonce = mined_count

\* An execution ends: main goes on or the program ends.
RoundEnds == pc = "execute" ~> pc \in {"loop", "exit"}
=============================================================================
