----------------------------- MODULE MCDiscovery -----------------------------
(* Two factories, one with a fee of its own for each pool; a triangle of     *)
(* three pools.  From A the only way back is around it, from W there are     *)
(* paths of one and two pools to the other weth, B.  The second pair of F2   *)
(* is broken: its token calls answer zero for good.                          *)
EXTENDS PoolDiscovery

CONSTANTS F1, F2, W, A, B, p1, p2, q1, broken, ZeroAddress

MCFactorySeq == <<F1, F2>>
MCPairs == F1 :> <<p1, p2>> @@ F2 :> <<q1, broken>>
MCTokens == p1 :> <<W, A>> @@ p2 :> <<A, B>> @@ q1 :> <<B, W>> @@
            broken :> <<ZeroAddress, ZeroAddress>>
MCFees == p1 :> 9 @@ p2 :> 8 @@ q1 :> 7 @@ broken :> 6

MCRequests ==
  {<<"allPairsLength", f>> : f \in {F1, F2}}
    \cup {<<"allPairs", F1, 0>>, <<"allPairs", F1, 1>>, <<"allPairs", F2, 0>>,
          <<"allPairs", F2, 1>>}
    \cup ({"token0", "token1", "getReserves", "fee"} \X {p1, p2, q1, broken})
MCAnswers ==
  [r \in MCRequests |->
     CASE r[1] = "allPairsLength" -> 0..2
       [] r[1] = "allPairs" -> {ZeroAddress, MCPairs[r[2]][r[3] + 1]}
       [] r[1] \in {"token0", "token1"} ->
            {ZeroAddress, MCTokens[r[2]][IF r[1] = "token0" THEN 1 ELSE 2]}
       [] r[1] = "getReserves" -> 0..1
       [] r[1] = "fee" -> {MCFees[r[2]]}]

MCPathTokens == <<W, A>>
MCWeths == {W, B}
MCBlacklist == {<<A, p1, W, q1, B, p2, A>>}
==============================================================================
