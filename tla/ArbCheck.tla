------------------------------ MODULE ArbCheck ------------------------------
(***************************************************************************)
(* From the paths that the workers find worth a try to the arbitrages that *)
(* are executed and the paths that are blacklisted: arbitrage/checker.py,  *)
(* the part of main()'s loop that calls it, and the files of               *)
(* persistance/paths.py.  Calculator tells what pays and ArbArgs what the  *)
(* node is asked.                                                          *)
(*                                                                         *)
(* The batch checker contract is external: it tries each arbitrage on its  *)
(* own and answers for all in order.  A node may fail a call, the          *)
(* connection may break and the program may die at any step.               *)
(***************************************************************************)
EXTENDS Calculator, ArbArgs

CONSTANTS
  Paths,
  Markets,        \* states of the pools in which a search may find them
  Verdicts,       \* path |-> what the contract may say: {[success, profit, gas]}
  MayFail,        \* bound: the paths whose call may fail when made on its own
  BlacklistTarget,\* CONFIG["blacklist"]
  MaxFaults       \* bound: broken connections and deaths of the program

ASSUME TargetAssumption == BlacklistTarget \in Nat \ {0}
ASSUME FaultsAssumption == MaxFaults \in Nat
ASSUME PathsAssumption ==
  IsFiniteSet(Paths) /\ \A p \in Paths : p[1] \in DOMAIN GweiPerUnit
\* Two pools or three: create_arb_args raises ArbitrageError for any other path.
ASSUME LengthAssumption == \A p \in Paths : Len(p) \in {5, 7}
\* Paths have pools, and no pair of the exchange is ever drained to nothing.
ASSUME MarketsAssumption ==
  \A market \in Markets, p \in Paths :
    /\ Swaps(p) \in Nat \ {0}
    /\ \A k \in 1..Swaps(p) :
         LET pool == market[p[2 * k]]
         IN  {pool.fee, pool.reserves[p[2 * k - 1]], pool.reserves[p[2 * k + 1]]}
               \subseteq Nat \ {0}
\* The profit and the gas are decoded as unsigned.
ASSUME VerdictsAssumption ==
  \A p \in Paths : Verdicts[p] \subseteq [success : BOOLEAN, profit : Nat, gas : Nat]

VARIABLES
  pc,
  pools,
  raw_arbs,               \* of this iteration, in the order of the search
  batches,                \* still to be called, those of all levels of halving
  results,                \* of the batches called, in order
  potential_arbs,
  to_blacklist,
  blacklist, pre_blacklist,   \* main's blacklist_paths and pre_blacklist_paths
  removed,                    \* what the workers do not search any more
  saved_blacklist, saved_pre, \* the two files
  faults,
  reverts     \* history: path |-> checks it failed since it last passed

blockVars == <<pools, raw_arbs, batches, results, potential_arbs,
               to_blacklist>>
memoryVars == <<blacklist, pre_blacklist, removed>>
fileVars == <<saved_blacklist, saved_pre>>
vars == <<pc, blockVars, memoryVars, fileVars, faults, reverts>>

\* Only a path that is counted already is blacklisted, so the first revert never
\* does it, whatever the configuration says.
Target == Larger(2, BlacklistTarget)
MaxReverts == Target * (MaxFaults + 1)     \* bound of the history

Failed == [success |-> FALSE, profit |-> 0, gas |-> 0]

\* A result, and (which the program cannot see) the path it is about.
Result(arb, v) == [success |-> v.success, profit |-> v.profit, gas |-> v.gas,
                   of |-> arb.path]

\* The variables of an iteration, once it does not need them any more.
Cleared ==
  /\ raw_arbs' = <<>> /\ batches' = <<>> /\ results' = <<>>
  /\ potential_arbs' = <<>>
  /\ UNCHANGED pools

-----------------------------------------------------------------------------
(* The start and the search                                                *)

\* load_data reads the files, and build_paths leaves the blacklisted out.
Start ==
  /\ pc = "start"
  /\ pc' = "search"
  /\ blacklist' = saved_blacklist
  /\ pre_blacklist' = saved_pre
  /\ removed' = saved_blacklist
  \* What a path passed may be forgotten: then its earlier failures count again.
  /\ reverts' = [p \in Paths |-> IF p \in DOMAIN saved_pre
                                 THEN Larger(reverts[p], saved_pre[p])
                                 ELSE reverts[p]]
  /\ UNCHANGED <<blockVars, fileVars, faults>>

\* The workers search the paths of the changed pools, each path once, and
\* answer in any order; without arbitrages there is nothing to check.
Search ==
  /\ pc = "search"
  /\ \E market \in Markets :
       \E found \in SUBSET UNION {calculate_profitability(market, p) :
                                 p \in Paths \ removed} :
         /\ pools' = market
         /\ raw_arbs' \in SetToSeqs(found)
         /\ batches' = create_all_batch_args(raw_arbs')
         /\ pc' = IF found = {} THEN "timer" ELSE "check"
  /\ UNCHANGED <<results, potential_arbs, to_blacklist, memoryVars, fileVars,
                 faults, reverts>>

-----------------------------------------------------------------------------
(* batch_check                                                             *)

\* The contract decodes the arguments and answers for each arbitrage.
CallBatch ==
  /\ pc = "check" /\ batches # <<>>
  /\ \E answer \in [DOMAIN batches[1] -> UNION {Verdicts[p] : p \in Paths}] :
       /\ \A i \in DOMAIN answer : answer[i] \in Verdicts[batches[1][i].path]
       /\ results' = results \o [i \in DOMAIN answer |->
                                 Result(batches[1][i], answer[i])]
  /\ batches' = Tail(batches)
  /\ UNCHANGED <<pc, pools, raw_arbs, potential_arbs, to_blacklist,
                 memoryVars, fileVars, faults, reverts>>

Halves(batch) ==
  LET half == Len(batch) \div 2
  IN  <<SubSeq(batch, 1, half), SubSeq(batch, half + 1, Len(batch))>>

Bug_RetriesLater ==
  /\ pc = "check" /\ batches # <<>>
  /\ IF Len(batches[1]) = 1
     THEN /\ batches[1][1].path \in MayFail
          /\ results' = Append(results, Result(batches[1][1], Failed))
          /\ batches' = Tail(batches)
     ELSE /\ batches' = Tail(batches) \o Halves(batches[1])
          /\ UNCHANGED results
  /\ UNCHANGED <<pc, pools, raw_arbs, potential_arbs, to_blacklist,
                 memoryVars, fileVars, faults, reverts>>

\* Out of gas, or another error of the node: the two halves are called before
\* what is left, and an arbitrage that fails on its own counts as failed.
BatchFails ==
  /\ pc = "check" /\ batches # <<>>
  /\ IF Len(batches[1]) = 1
     THEN /\ batches[1][1].path \in MayFail
          /\ results' = Append(results, Result(batches[1][1], Failed))
          /\ batches' = Tail(batches)
     ELSE /\ batches' = Halves(batches[1]) \o Tail(batches)
          /\ UNCHANGED results
  /\ UNCHANGED <<pc, pools, raw_arbs, potential_arbs, to_blacklist,
                 memoryVars, fileVars, faults, reverts>>

-----------------------------------------------------------------------------
(* What becomes of the results                                             *)

PathsWith(success) ==
  {raw_arbs[i].path : i \in {j \in DOMAIN results : results[j].success = success}}

Bug_NeverAdds(pre) ==
  [p \in DOMAIN pre \cup PathsWith(FALSE) |->
     IF p \in PathsWith(FALSE) THEN 1 ELSE pre[p]]

\* handle_reverted: one more revert, the first for a path that has none.
Counted(pre) ==
  [p \in DOMAIN pre \cup PathsWith(FALSE) |->
     IF p \notin PathsWith(FALSE) THEN pre[p]
     ELSE IF p \in DOMAIN pre THEN pre[p] + 1 ELSE 1]

Bug_BlacklistsLate(pre) ==
  {p \in PathsWith(FALSE) \cap DOMAIN pre : pre[p] + 1 > BlacklistTarget}

ReachTarget(pre) ==
  {p \in PathsWith(FALSE) \cap DOMAIN pre : pre[p] + 1 >= BlacklistTarget}

Without(pre, paths) == [p \in DOMAIN pre \ paths |-> pre[p]]

Bug_StillCounted(pre) == pre

\* handle_successful: a path that passed starts anew.
Forgiven(pre) == Without(pre, PathsWith(TRUE))

\* The rest of it: the arbitrage with the values of the check, or none.
Recalculated(arb, result) ==
  LET token == arb.path[1]
      gas == result.gas + 23640
      eco == Economics(result.profit, gas, token, Unlimited)
  IN  IF result.success /\ result.profit # 0 /\ IsWorth(eco, token)
      THEN <<Arbitrage(arb.path, arb.amount_in, result.profit, eco)>> ELSE <<>>

Recalculations ==
  FlattenSeq([i \in DOMAIN results |-> Recalculated(raw_arbs[i], results[i])])

\* The dearest first; sort() keeps the order of the others.
Before(arbs, i, j) ==
  \/ arbs[i].gas_price > arbs[j].gas_price
  \/ arbs[i].gas_price = arbs[j].gas_price /\ i < j

Place(arbs, i) == 1 + Cardinality({j \in DOMAIN arbs : Before(arbs, j, i)})

Sorted(arbs) ==
  [k \in DOMAIN arbs |-> arbs[CHOOSE i \in DOMAIN arbs : Place(arbs, i) = k]]

Bug_FreesDearPairs(arbs) ==
  FoldLeft(
    LAMBDA s, arb :
      IF PairsOf(arb.path) \cap s.pairs # {} \/ arb.gas_price > GasPrices.max
      THEN s ELSE [pairs |-> s.pairs \cup PairsOf(arb.path), kept |-> Append(s.kept, arb)],
    [pairs |-> {}, kept |-> <<>>], Sorted(arbs)).kept

\* An arbitrage that shares a pair with a dearer one goes; so does one above the
\* highest price, whose pairs stay taken.
filter_profitables(arbs) ==
  FoldLeft(
    LAMBDA s, arb :
      IF PairsOf(arb.path) \cap s.pairs # {} THEN s
      ELSE [pairs |-> s.pairs \cup PairsOf(arb.path),
            kept |-> IF arb.gas_price > GasPrices.max THEN s.kept
                     ELSE Append(s.kept, arb)],
    [pairs |-> {}, kept |-> <<>>], Sorted(arbs)).kept

Handle ==
  /\ pc = "check" /\ batches = <<>>
  /\ to_blacklist' = ReachTarget(pre_blacklist)
  /\ blacklist' = blacklist \cup to_blacklist'
  /\ pre_blacklist' = Forgiven(Without(Counted(pre_blacklist), to_blacklist'))
  /\ potential_arbs' = filter_profitables(Recalculations)
  /\ reverts' = [p \in Paths |->
       CASE p \in PathsWith(TRUE) -> 0
         [] p \in PathsWith(FALSE) -> Smaller(reverts[p] + 1, MaxReverts)
         [] OTHER -> reverts[p]]
  /\ pc' = "execute"
  /\ UNCHANGED <<pools, raw_arbs, batches, results, removed, fileVars,
                 faults>>

-----------------------------------------------------------------------------
(* The rest of the iteration                                               *)

\* exe_arbs is TxPipeline; what it does to the stock does not matter here.
Execute ==
  /\ pc = "execute"
  /\ pc' = IF to_blacklist # {} THEN "save_pre" ELSE "timer"
  /\ Cleared
  /\ UNCHANGED <<to_blacklist, memoryVars, fileVars, faults, reverts>>

Bug_LeavesPreFile ==
  /\ pc = "save_pre"
  /\ pc' = "save_blacklist"
  /\ UNCHANGED <<blockVars, memoryVars, fileVars, faults, reverts>>

SavePre ==
  /\ pc = "save_pre"
  /\ saved_pre' = pre_blacklist
  /\ pc' = "save_blacklist"
  /\ UNCHANGED <<blockVars, memoryVars, saved_blacklist, faults, reverts>>

SaveBlacklist ==
  /\ pc = "save_blacklist"
  /\ saved_blacklist' = blacklist
  /\ pc' = "remove"
  /\ UNCHANGED <<blockVars, memoryVars, saved_pre, faults, reverts>>

\* processes.remove_blacklisted tells the workers.
RemoveBlacklisted ==
  /\ pc = "remove"
  /\ removed' = removed \cup to_blacklist
  /\ pc' = "timer"
  /\ UNCHANGED <<blockVars, blacklist, pre_blacklist, fileVars, faults, reverts>>

\* save_pre_blacklist() is true when a minute has passed.
Timer ==
  /\ pc = "timer"
  /\ saved_pre' \in {saved_pre, pre_blacklist}
  /\ pc' = "search"
  /\ Cleared /\ to_blacklist' = {}
  /\ UNCHANGED <<memoryVars, saved_blacklist, faults, reverts>>

\* The connection breaks, the local node does not catch up in time, an answer
\* cannot be decoded or the program dies: main() starts again, in this process
\* or in a new one, with what is on file.
Crash ==
  /\ pc # "start" /\ faults < MaxFaults
  /\ faults' = faults + 1
  /\ pc' = "start"
  /\ Cleared /\ to_blacklist' = {}
  /\ UNCHANGED <<memoryVars, fileVars, reverts>>

Init ==
  /\ pc = "start"
  /\ pools \in Markets
  /\ raw_arbs = <<>> /\ batches = <<>> /\ results = <<>>
  /\ potential_arbs = <<>> /\ to_blacklist = {}
  /\ blacklist = {} /\ pre_blacklist = <<>> /\ removed = {}
  /\ saved_blacklist = {} /\ saved_pre = <<>>
  /\ faults = 0
  /\ reverts = [p \in Paths |-> 0]

Next ==
  \/ Start \/ Search \/ CallBatch \/ BatchFails \/ Handle \/ Execute
  \/ SavePre \/ SaveBlacklist \/ RemoveBlacklisted \/ Timer
  \/ Crash

Spec == Init /\ [][Next]_vars

-----------------------------------------------------------------------------
(* Properties                                                              *)

Counts == UNION {[s -> 1..(Target - 1)] : s \in SUBSET Paths}

TypeOK ==
  /\ pc \in {"start", "search", "check", "execute", "save_pre",
             "save_blacklist", "remove", "timer"}
  /\ {to_blacklist, blacklist, removed, saved_blacklist} \subseteq SUBSET Paths
  /\ pre_blacklist \in Counts /\ saved_pre \in Counts
  /\ reverts \in [Paths -> 0..MaxReverts]
  /\ faults \in 0..MaxFaults

\* Whatever batches fail and are halved, each result stands at the place of its
\* arbitrage, and all are there when they are handled (zip with strict=True).
ResultsInPlace ==
  /\ \A i \in DOMAIN results : results[i].of = raw_arbs[i].path
  /\ batches = <<>> => Len(results) = Len(raw_arbs)

\* Only a path that failed as many checks as configured, and passed none in
\* between, is blacklisted, also over restarts; a count of the pre-blacklist
\* stands for failures that happened.  (A check that the path passed may be
\* forgotten in a restart, as reverts says.)
BlacklistedForReverts ==
  /\ \A p \in blacklist \cup saved_blacklist : reverts[p] >= Target
  /\ pc # "start" => \A p \in DOMAIN pre_blacklist : reverts[p] >= pre_blacklist[p]

\* However a run ends, no path is in both files, and what the workers stopped
\* searching stays blacklisted; a saved count is below the target.
FilesAgree ==
  /\ DOMAIN saved_pre \cap saved_blacklist = {}
  /\ pc # "start" => removed \subseteq saved_blacklist
  /\ pc = "search" => blacklist = saved_blacklist /\ removed = blacklist
  /\ \A p \in DOMAIN saved_pre : saved_pre[p] < Target

\* No two arbitrages of an iteration trade in one pair.  Declaratively: among the
\* ones that still pay after the check, one is first in line when it shares no
\* pair with a dearer one that is; those that are and whose gas price is not too
\* high are executed, the dearest first.
OffersApart ==
  pc = "execute" =>
    LET all == Recalculations
        Dearer(i, j) == \/ all[i].gas_price > all[j].gas_price
                        \/ all[i].gas_price = all[j].gas_price /\ i < j
        Clash(i, j) == PairsOf(all[i].path) \cap PairsOf(all[j].path) # {}
    IN  /\ \A i, j \in DOMAIN potential_arbs : i < j =>
             /\ PairsOf(potential_arbs[i].path) \cap PairsOf(potential_arbs[j].path) = {}
             /\ potential_arbs[i].gas_price >= potential_arbs[j].gas_price
        /\ \A first \in SUBSET DOMAIN all :
             (\A j \in DOMAIN all : j \in first <=>
                ~ \E i \in first : Dearer(i, j) /\ Clash(i, j))
             => ToSet(potential_arbs) =
                  {all[i] : i \in {k \in first : all[k].gas_price <= GasPrices.max}}

\* What passed the check pays: all costs leave a profit, and no other number of
\* burners would need less gas; what is executed is not priced above the maximum.
After(gas, k) == Larger(gas - gas_reduction * k, (gas + burn_cost * k) \div 2)

OffersPay ==
  pc = "execute" =>
    /\ \A i \in DOMAIN results : \A arb \in ToSet(Recalculated(raw_arbs[i], results[i])) :
         LET gas == results[i].gas + 23640
             fewest == arb.burners_count
         IN  /\ GasPrices.min <= arb.gas_price /\ arb.neto_profit > 0
             /\ arb.tx_cost - arb.amount_in + arb.neto_profit = results[i].profit
             /\ BurnEnabled => \A k \in 0..30 :
                  \/ After(gas, k) > After(gas, fewest)
                  \/ After(gas, k) = After(gas, fewest) /\ k >= fewest
    /\ \A i \in DOMAIN potential_arbs : potential_arbs[i].gas_price <= GasPrices.max

SomeBurners == <<"b1", "b2", "b3">>
ASSUME SomeBurnersAssumption == Nothing \notin ToSet(SomeBurners)

\* The positions at which decode_arb_args reads are those at which
\* create_arb_args wrote, for every shape of a path and any number of burners.
ArgumentsRoundTrip ==
  pc = "start" =>
    \A path \in Paths, count \in 0..3 :
      LET arb == [path |-> path, amount_in |-> 6, tx_cost |-> 14]
          burners == SubSeq(SomeBurners, 1, count)
      IN  decode_arb_args(create_arb_args(arb, pools, burners))
            = Described(arb, pools, burners)

\* What a search finds is what its path pays for that amount, and no amount
\* pays more than the rounding of each swap can explain.
Payout(p, amount) == get_path_amount_out(amount, pools, p) - amount

AmountsPay ==
  pc = "check" =>
    \A i \in DOMAIN raw_arbs :
      /\ Payout(raw_arbs[i].path, raw_arbs[i].amount_in) = raw_arbs[i].bruto_profit
      /\ raw_arbs[i].bruto_profit > 0

AmountsBest ==
  /\ AmountsPay
  /\ (pc = "check" /\ results = <<>>) =>
       \A i \in DOMAIN raw_arbs :
         LET arb == raw_arbs[i]
             most == pools[arb.path[2]].reserves[arb.path[1]]
         IN  \A amount \in 1..most :
               Payout(arb.path, amount) <= arb.bruto_profit + Swaps(arb.path)

\* A path that fails check after check is blacklisted: while the workers search
\* it, it failed fewer checks since it last passed than configured, and after
\* interruptions no more than that many again for each.
NoEndlessReverts ==
  pc = "search" =>
    \A p \in Paths \ removed : reverts[p] < Target * (faults + 1)
=============================================================================
