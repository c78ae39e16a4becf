---------------------------- MODULE MCArbCheck ----------------------------
(* Four paths, one for each selector.  The first two share the pool ab, the  *)
(* third has none in common with them.  In this market these three pay, the  *)
(* fourth does not.  A unit of a token is worth 100,000 gwei.                *)
EXTENDS ArbCheck

CONSTANTS W, B, T, U, a, b, c, d, e, f

MCPaths ==
  {<<W, a, T, b, W>>, <<W, a, T, c, B>>, <<W, d, U, e, T, f, W>>,
   <<W, d, U, e, T, c, B>>}
MCGweiPerUnit == W :> 100000 @@ B :> 100000

Pool(t0, r0, t1, r1) ==
  [tokens |-> <<t0, t1>>, reserves |-> t0 :> r0 @@ t1 :> r1, fee |-> 99]
MCMarkets ==
  {a :> Pool(W, 12, T, 56) @@ b :> Pool(T, 27, W, 39) @@ c :> Pool(B, 57, T, 49)
     @@ d :> Pool(U, 39, W, 10) @@ e :> Pool(T, 40, U, 36) @@ f :> Pool(T, 35, W, 57)}
MCRatio == [low |-> 90, mid |-> 97, high |-> 98]
MCGasPrices == [min |-> 3, low |-> 5, mid |-> 8, max |-> 10]
MCMinGasLimits == <<0, 170000, 210000>>   \* the least that the configuration gives
Pass(profit) == [success |-> TRUE, profit |-> profit, gas |-> 150000]
MCVerdicts ==
  <<W, a, T, b, W>> :> {Failed, Pass(9), Pass(20)}
    @@ <<W, a, T, c, B>> :> {Failed, Pass(9)}
    @@ <<W, d, U, e, T, f, W>> :> {Pass(0), Pass(9)}
    @@ <<W, d, U, e, T, c, B>> :> {Failed}
MCMayFail == {<<W, a, T, b, W>>, <<W, a, T, c, B>>}
=============================================================================
