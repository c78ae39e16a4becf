----------------------------- MODULE Calculator -----------------------------
(***************************************************************************)
(* arbitrage/calculator.py: which paths pay, with how much, at which gas   *)
(* price.  Amounts are integers, as reserves are, and gas prices are whole *)
(* gwei.  A pool is [tokens, reserves, fee]; a path alternates tokens and  *)
(* pools and starts and ends with tokens.  What Decimal computes exactly   *)
(* or to 40 digits is computed here with fractions; a ratio of the         *)
(* configuration is a percentage.                                          *)
(***************************************************************************)
EXTENDS Integers, SequencesExt

CONSTANTS
  FeeBase,        \* D10_000, what a fee_numerator is out of
  GweiPerUnit,    \* token |-> 1 / wei_price: the gwei that a unit is worth
  GasPrices,      \* [min, low, mid, max]
  Ratio,          \* CONFIG["price"]: [low, mid, high], the ratios in percent
  MinProfit,      \* CONFIG["transaction"]["min_profit"], in gwei
  BurnEnabled,    \* CONFIG["burner"]["enabled"]
  BurnGasPrice,   \* CONFIG["burner"]["gas_price"]
  MinGasLimits    \* number of pools |-> gas limit

ASSUME FeeBaseAssumption == FeeBase \in Nat \ {0}
ASSUME RatioAssumption ==
  /\ Ratio \in [low : Int, mid : Int, high : Int]
  /\ 0 < Ratio.low /\ Ratio.low <= Ratio.mid
  /\ Ratio.mid <= Ratio.high /\ Ratio.high <= 100
ASSUME GasPricesAssumption ==
  /\ GasPrices \in [min : Int, low : Int, mid : Int, max : Int]
  /\ 0 < GasPrices.min /\ GasPrices.min <= GasPrices.low
  /\ GasPrices.low <= GasPrices.mid /\ GasPrices.mid <= GasPrices.max
ASSUME WorthAssumption == GweiPerUnit \in [DOMAIN GweiPerUnit -> Nat \ {0}]
ASSUME BurnAssumption == BurnEnabled \in BOOLEAN /\ BurnGasPrice \in Nat

\* Python's round(), to the even neighbour when both are as near.
Rounded(a, b) ==
  LET q == a \div b
      r == a % b
  IN  IF 2 * r > b \/ (2 * r = b /\ q % 2 = 1) THEN q + 1 ELSE q

Unlimited == 2147483647

Larger(a, b) == IF a > b THEN a ELSE b
Smaller(a, b) == IF a < b THEN a ELSE b

\* The positions of a path's pools, and the pools.
Swaps(path) == Len(path) \div 2
PoolPositions(path) == [k \in 1..Swaps(path) |-> 2 * k]
PairsOf(path) == {path[i] : i \in {j \in DOMAIN path : j % 2 = 0}}

-----------------------------------------------------------------------------
(* The amount                                                              *)

\* The reserves of one pool that trades as the whole path does.
get_virtual_reserves(pools, path) ==
  LET Reserve(i, j) == pools[path[i]].reserves[path[j]]
      Through(v, i) ==
        LET fee == pools[path[i]].fee
        IN  [in |-> FeeBase * v.in * Reserve(i, i - 1),
             out |-> fee * v.out * Reserve(i, i + 1),
             over |-> FeeBase * Reserve(i, i - 1) * v.over + fee * v.out]
      v == FoldLeft(Through,
                    [in |-> Reserve(2, 1), out |-> Reserve(2, 3), over |-> 1],
                    Tail(PoolPositions(path)))
  IN  [in |-> Rounded(v.in, v.over), out |-> Rounded(v.out, v.over)]

SquareRoot(n) == CHOOSE s \in 0..n : s * s <= n /\ n < (s + 1) * (s + 1)

optimal_amount_in(in, out, fee) ==
  (SquareRoot(in * out * fee * FeeBase) - in * FeeBase) \div fee

TooBig == -1   \* BigNumberError

\* What comes out of the last pool, or TooBig.
get_path_amount_out(amount, pools, path) ==
  LET Swap(a, i) ==
        LET pool == pools[path[i]]
            in == pool.reserves[path[i - 1]]
        IN  IF a = TooBig \/ a > in THEN TooBig
            ELSE (a * pool.fee * pool.reserves[path[i + 1]])
                   \div (in * FeeBase + a * pool.fee)
  IN  FoldLeft(Swap, amount, PoolPositions(path))

\* The percentages that a double stores too high: a tie is rounded up for them
\* and down for the others, except 25, which is exact.
StoredHigh == (1..12) \cup {14} \cup (26..29)

Raised(amount, percent) ==
  LET q == (amount * (100 + percent)) \div 100
      r == (amount * (100 + percent)) % 100
  IN  IF r # 50 \/ percent = 25 THEN Rounded(amount * (100 + percent), 100)
      ELSE IF percent \in StoredHigh THEN q + 1 ELSE q

Bug_KeepsLastAmount(amount, profit, pools, path) ==
  LET Try(best, percent) ==
        LET more == Raised(amount, percent)
            out == get_path_amount_out(more, pools, path)
        IN  IF best.over \/ (out # TooBig /\ out - more = best.profit) THEN best
            ELSE IF out = TooBig THEN [best EXCEPT !.over = TRUE, !.amount = TooBig]
            ELSE IF out - more > best.profit
                 THEN [best EXCEPT !.amount = more, !.profit = out - more]
            ELSE [best EXCEPT !.over = TRUE, !.amount = more]
  IN  FoldLeft(Try, [amount |-> amount, profit |-> profit, over |-> FALSE],
               [percent \in 1..29 |-> percent])

\* Up to 29 percent more is tried until the profit falls; TooBig when one of
\* the amounts tried is.
tweak_amount_in(amount, profit, pools, path) ==
  LET Try(best, percent) ==
        LET more == Raised(amount, percent)
            out == get_path_amount_out(more, pools, path)
        IN  IF best.over \/ (out # TooBig /\ out - more = best.profit) THEN best
            ELSE IF out = TooBig THEN [best EXCEPT !.over = TRUE, !.amount = TooBig]
            ELSE IF out - more > best.profit
                 THEN [best EXCEPT !.amount = more, !.profit = out - more]
            ELSE [best EXCEPT !.over = TRUE]
  IN  FoldLeft(Try, [amount |-> amount, profit |-> profit, over |-> FALSE],
               [percent \in 1..29 |-> percent])

-----------------------------------------------------------------------------
(* The costs                                                               *)

calc_gas_cost(price, gas, token) == Rounded(price * gas, GweiPerUnit[token])

calc_optimal_gas_price(profit, gas, token, ratio) ==
  Rounded(profit * ratio * GweiPerUnit[token], 100 * gas)

\* The gas that a burner spares, and what it takes to burn one.
gas_reduction == 17566
burn_cost == 6434

Bug_CountsTheLast(gas) ==
  LET Burn(v, k) ==
        LET less == Larger(v.gas - gas_reduction, (gas + burn_cost * k) \div 2)
        IN  IF v.count < k - 1 \/ less >= v.gas THEN v
            ELSE [count |-> k, gas |-> less]
      most == gas \div gas_reduction + 1
      v == FoldLeft(Burn, [count |-> 0, gas |-> gas], [k \in 1..most |-> k])
  IN  [count |-> v.count + 1, gas |-> Rounded(v.gas * 12, 10)]

\* Each burner spares gas_reduction more, until half of all the gas is refunded.
get_burners_values(gas) ==
  LET Burn(v, k) ==
        LET less == Larger(v.gas - gas_reduction, (gas + burn_cost * k) \div 2)
        IN  IF v.count < k - 1 \/ less >= v.gas THEN v
            ELSE [count |-> k, gas |-> less]
      most == gas \div gas_reduction + 1
      v == FoldLeft(Burn, [count |-> 0, gas |-> gas], [k \in 1..most |-> k])
  IN  [count |-> v.count, gas |-> Rounded(v.gas * 12, 10)]

\* The price that leaves the low ratio of the profit to the miner, or a higher
\* one when that is above the low or the medium price.
tiered_gas_price(profit, gas, token) ==
  LET Tier(ratio) == calc_optimal_gas_price(profit, gas, token, ratio)
      low == Tier(Ratio.low)
      mid == IF low > GasPrices.low THEN Tier(Ratio.mid) ELSE low
  IN  IF mid > GasPrices.mid THEN Tier(Ratio.high) ELSE mid

\* The economics of a transaction that brings bruto and takes so much gas at a
\* price of at most cap: calculate_profitability and handle_successful share it.
Economics(bruto, gas, token, cap) ==
  LET burn == IF BurnEnabled THEN get_burners_values(gas)
              ELSE [count |-> 0, gas |-> gas]
      burners_cost == Rounded(burn.count * 36930 * BurnGasPrice, GweiPerUnit[token])
      left == bruto - burners_cost
      optimal == tiered_gas_price(left, burn.gas, token)
      gas_cost == calc_gas_cost(Smaller(optimal, cap), burn.gas, token)
  IN  [burners_count |-> burn.count, burners_cost |-> burners_cost,
       left |-> left, gas_price |-> optimal, gas_cost |-> gas_cost,
       first_price |-> calc_optimal_gas_price(left, burn.gas, token, Ratio.low),
       neto_profit |-> left - gas_cost]

IsWorth(e, token) ==
  /\ e.left > 0
  /\ e.first_price >= GasPrices.min
  /\ e.neto_profit > 0
  /\ e.neto_profit * GweiPerUnit[token] >= MinProfit

-----------------------------------------------------------------------------
(* calculate_profitability                                                 *)

Arbitrage(path, amount, bruto, e) ==
  [path |-> path, amount_in |-> amount,
   tx_cost |-> amount + e.gas_cost + e.burners_cost,
   bruto_profit |-> bruto, neto_profit |-> e.neto_profit,
   gas_price |-> e.gas_price, burners_cost |-> e.burners_cost,
   burners_count |-> e.burners_count]

\* The arbitrage of a path, or none.
calculate_profitability(pools, path) ==
  LET virtual == get_virtual_reserves(pools, path)
      optimal == optimal_amount_in(virtual.in, virtual.out, pools[path[2]].fee)
      fits == get_path_amount_out(optimal, pools, path) # TooBig
      amount == IF fits THEN optimal ELSE (optimal * 5) \div 6
      out == get_path_amount_out(amount, pools, path)
      best == tweak_amount_in(amount, out - amount, pools, path)
      eco == Economics(best.profit, MinGasLimits[Swaps(path)], path[1], GasPrices.max)
  IN  IF /\ 0 < virtual.in /\ virtual.in < virtual.out
         /\ optimal > 0 /\ out # TooBig /\ out > amount
         /\ best.amount # TooBig
         /\ IsWorth(eco, path[1])
      THEN {Arbitrage(path, best.amount, best.profit, eco)} ELSE {}
=============================================================================
