------------------------------ MODULE ArbArgs ------------------------------
(***************************************************************************)
(* arbitrage/arguments.py: the calldata of an arbitrage, for the batch     *)
(* checker and for the router, and its decoding by fixed positions, which  *)
(* get_used_burnerns relies on.  Calldata is a sequence of fields <<value, *)
(* width>>, the width in hexadecimal digits; a slice of it is the field    *)
(* that lies exactly there.  Addresses and amounts stand for themselves:   *)
(* shift_address and its inverse lose nothing, and amounts fit in uint112. *)
(***************************************************************************)
EXTENDS Integers, Lists

CONSTANTS
  BurnersEnabled,   \* CONFIG["burner"]["enabled"]
  BatchSize,        \* CONFIG["batch_checker"]["size"]
  Nothing,          \* a slice past the end
  Garbled           \* a slice across fields

ASSUME BatchSizeAssumption == BatchSize \in Nat \ {0}
\* The empty string is no number.
ASSUME NothingAssumption == Nothing \notin Nat

Address(a) == <<a, 42>>
Uint112(n) == <<n, 28>>
Uint16(n) == <<n, 4>>
Uint8(n) == <<n, 2>>
Burner(a) == <<a, 40>>     \* not shifted

Selector(path) ==
  CASE Len(path) = 5 /\ path[1] = path[5] -> 1
    [] Len(path) = 5 /\ path[1] # path[5] -> 2
    [] Len(path) = 7 /\ path[1] = path[7] -> 3
    [] Len(path) = 7 /\ path[1] # path[7] -> 4

\* One when the token that goes in is the first of the pool.
IsZeroIn(pools, path, i) ==
  IF pools[path[i]].tokens[1] = path[i - 1] THEN 1 ELSE 0

HexBurners(burners) ==
  IF burners # <<>>
  THEN <<Uint8(Len(burners))>> \o [i \in DOMAIN burners |-> Burner(burners[i])]
  ELSE IF BurnersEnabled THEN <<Uint8(1)>> ELSE <<>>

SwapFields(pools, path, i) ==
  <<Uint16(pools[path[i]].fee), Uint8(IsZeroIn(pools, path, i))>>

Bug_CostFirst(arb, pools, burners) ==
  LET path == arb.path
  IN  <<Uint8(Selector(path)), Address(path[2]), Uint112(arb.amount_in)>>
        \o SwapFields(pools, path, 2)
        \o <<Address(path[4])>> \o SwapFields(pools, path, 4)
        \o <<Uint112(arb.tx_cost)>>
        \o (IF Len(path) = 7
            THEN <<Address(path[6])>> \o SwapFields(pools, path, 6) ELSE <<>>)
        \o <<Address(path[1]), Address(path[3])>>
        \o (IF path[1] # path[Len(path)] THEN <<Address(path[Len(path)])>> ELSE <<>>)
        \o HexBurners(burners)

create_arb_args(arb, pools, burners) ==
  LET path == arb.path
  IN  <<Uint8(Selector(path)), Address(path[2]), Uint112(arb.amount_in)>>
        \o SwapFields(pools, path, 2)
        \o <<Address(path[4])>> \o SwapFields(pools, path, 4)
        \o (IF Len(path) = 7
            THEN <<Address(path[6])>> \o SwapFields(pools, path, 6) ELSE <<>>)
        \o <<Uint112(arb.tx_cost), Address(path[1]), Address(path[3])>>
        \o (IF path[1] # path[Len(path)] THEN <<Address(path[Len(path)])>> ELSE <<>>)
        \o HexBurners(burners)

\* The arbitrages in chunks of the batch size, in their order.
create_all_batch_args(arbs) ==
  [n \in 1..((Len(arbs) + BatchSize - 1) \div BatchSize) |->
     LET rest == SubSeq(arbs, (n - 1) * BatchSize + 1, Len(arbs))
     IN  SubSeq(rest, 1, IF Len(rest) < BatchSize THEN Len(rest) ELSE BatchSize)]

-----------------------------------------------------------------------------
(* decode_arb_args                                                         *)

Ends(calldata) ==
  FoldLeft(LAMBDA ends, field : Append(ends, ends[Len(ends)] + field[2]),
           <<0>>, calldata)

Slice(calldata, from, to) ==
  LET ends == Ends(calldata)
      at == {i \in DOMAIN calldata : ends[i] = from /\ ends[i + 1] = to}
  IN  IF ends[Len(ends)] <= from THEN Nothing
      ELSE IF at = {} THEN Garbled ELSE calldata[CHOOSE i \in at : TRUE][1]

\* Where the fields after the swaps begin, and the count of the burners.
Offsets(selector) ==
  CASE selector = 1 -> [swaps |-> 2, cost |-> 126, burners |-> 238]
    [] selector = 2 -> [swaps |-> 2, cost |-> 126, burners |-> 280]
    [] selector = 3 -> [swaps |-> 3, cost |-> 174, burners |-> 286]
    [] selector = 4 -> [swaps |-> 3, cost |-> 174, burners |-> 328]

SwapAt(calldata, pair, fee) ==
  [pair |-> Slice(calldata, pair, pair + 42),
   fee |-> Slice(calldata, fee, fee + 4), is0_in |-> Slice(calldata, fee + 4, fee + 6)]

decode_arb_args(calldata) ==
  LET selector == Slice(calldata, 0, 2)
      at == Offsets(selector)
      swaps == <<SwapAt(calldata, 2, 72), SwapAt(calldata, 78, 120),
                 SwapAt(calldata, 126, 168)>>
      stated == Slice(calldata, at.burners, at.burners + 2)
      count == IF stated = Nothing THEN 0 ELSE stated
      all == [k \in 1..count |-> Slice(calldata, at.burners + 2 + 40 * (k - 1),
                                       at.burners + 2 + 40 * k)]
  IN  [selector |-> selector, swaps_data |-> SubSeq(swaps, 1, at.swaps),
       amount_in |-> Slice(calldata, 44, 72),
       tx_cost |-> Slice(calldata, at.cost, at.cost + 28),
       token_in |-> Slice(calldata, at.cost + 28, at.cost + 70),
       first_token_out |-> Slice(calldata, at.cost + 70, at.cost + 112),
       token_out |-> IF selector \in {2, 4}
                     THEN Slice(calldata, at.cost + 112, at.cost + 154) ELSE Nothing,
       burners_len |-> count,
       burners |-> Kept(all, ToSet(all) \ {Nothing})]

\* What the arguments were made from, as decode_arb_args would state it.
Described(arb, pools, burners) ==
  LET path == arb.path
  IN  [selector |-> Selector(path),
       swaps_data |-> [n \in 1..(Len(path) \div 2) |->
          [pair |-> path[2 * n], fee |-> pools[path[2 * n]].fee,
           is0_in |-> IsZeroIn(pools, path, 2 * n)]],
       amount_in |-> arb.amount_in, tx_cost |-> arb.tx_cost,
       token_in |-> path[1], first_token_out |-> path[3],
       token_out |-> IF path[Len(path)] # path[1] THEN path[Len(path)] ELSE Nothing,
       burners_len |-> IF burners = <<>> /\ BurnersEnabled THEN 1 ELSE Len(burners),
       burners |-> burners]
=============================================================================
