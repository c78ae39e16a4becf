---------------------------- MODULE PoolDiscovery ----------------------------
(***************************************************************************)
(* How main comes to know the pools: load_data of core/loader.py, the      *)
(* poll_pools branch of main(), blockchain/pools.py, filterer.py and       *)
(* update.py, with the files they keep.  Every answer of the chain comes   *)
(* through Multicall; the paths are searched by PathFinding.               *)
(*                                                                         *)
(* The chain creates pairs and moves their liquidity at any time.  A node  *)
(* may fail a call, answer a zero address or lag behind, the connection    *)
(* may break and the program may die, MaxFaults times in all.              *)
(***************************************************************************)
EXTENDS Multicall, PathFinding

CONSTANTS
  FactorySeq,     \* the configured factories, in their order
  Pairs,          \* factory |-> its pairs, in the order of their creation
  Tokens,         \* pool |-> <<token0, token1>>
  Fees,           \* pool |-> the fee the chain states for it
  FixedFee,       \* the factories whose fee is in the configuration
  Zero,           \* the zero address
  MinLiquidity,   \* CONFIG["filter"]["min_liquidity"]
  Exclude,        \* CONFIG["filter"]["exclude"]
  MayThin,        \* bound: the pools that may be thin
  DownloadPools,  \* CONFIG["download_pools"]
  MaxFaults       \* bound: faults of the nodes, the network and the program

Factories == {FactorySeq[n] : n \in DOMAIN FactorySeq}
Pools == DOMAIN Tokens
Thin == 0             \* liquidity is told apart only at MinLiquidity = 1
PoolRecord == [tokens : AnyReply \X AnyReply, liquidity : Nat, fee : AnyReply \cup {0}]

\* The factories are the keys of a dictionary.
ASSUME FactoriesAssumption ==
  FactorySeq \in Seq(Factories) /\ IsInjective(FactorySeq)
\* A factory creates every pair at an address of its own.
ASSUME PairsAssumption ==
  /\ IsFiniteSet(Pools) /\ Zero \notin Pools
  /\ Pairs \in [Factories -> Seq(Pools)]
  /\ \A f, g \in Factories : \A i \in DOMAIN Pairs[f], j \in DOMAIN Pairs[g] :
       Pairs[f][i] = Pairs[g][j] => f = g /\ i = j
\* A pair has two tokens, unless it is broken.
ASSUME TokensAssumption ==
  \A p \in Pools : /\ Tokens[p] = <<Tokens[p][1], Tokens[p][2]>>
                   /\ Tokens[p][1] # Zero => Tokens[p][1] # Tokens[p][2]
\* What the program asks, and all that a node may answer.
ASSUME RequestsAssumption ==
  Requests = {<<"allPairsLength", f>> : f \in Factories}
       \cup (UNION {{<<"allPairs", f, i - 1>> : i \in DOMAIN Pairs[f]} : f \in Factories})
       \cup ({"token0", "token1", "getReserves", "fee"} \X Pools)
ASSUME NodesAssumption ==
  /\ \A f \in Factories :
       /\ Answers[<<"allPairsLength", f>>] = 0..Len(Pairs[f])
       /\ \A i \in DOMAIN Pairs[f] : Answers[<<"allPairs", f, i - 1>>] = {Zero, Pairs[f][i]}
  /\ \A p \in Pools :
       /\ Answers[<<"token0", p>>] = {Zero, Tokens[p][1]}
       /\ Answers[<<"token1", p>>] = {Zero, Tokens[p][2]}
       /\ Answers[<<"getReserves", p>>] = 0..MinLiquidity
       /\ Answers[<<"fee", p>>] = {Fees[p]}
ASSUME BoundsAssumption ==
  /\ MinLiquidity \in Nat /\ Exclude \in Nat /\ MaxFaults \in Nat
  /\ MayThin \subseteq Pools
\* None is neither numbers nor pools.
ASSUME NoFileAssumption ==
  /\ None \notin [Factories -> Nat]
  /\ \A D \in SUBSET Pools : None \notin [D -> PoolRecord]

VARIABLES
  created,            \* the chain: factory |-> allPairsLength
  liquidity,          \* the chain: pool |-> liquidity
  pc, round,          \* what main does, and whether for all or for new pools
  pools,              \* address |-> [tokens, liquidity, fee]
  pool_numbers,
  latest,             \* latest_pools_numbers of get_pools
  todo,               \* <<factory, params>>: factories still to be asked
  levels,             \* get_pool_addresses and get_tokens: their recursion
  addresses,          \* factory |-> pool addresses
  tokens,             \* factory |-> token addresses, two for a pool
  invalid,            \* invalid_pools: a token stayed zero
  fresh,              \* the pools that update_pools works on
  saved_pools, saved_numbers,           \* pools.json, pool_numbers.json
  saved_all, saved_all_numbers,         \* all_pools.json, all_pool_numbers.json
  faults,
  judged,             \* history: dropped for good reason, and on no file since
  unanswered          \* history: excluded pools the nodes gave no address for

chainVars == <<created, liquidity>>
fileVars == <<saved_pools, saved_numbers, saved_all, saved_all_numbers>>
workVars == <<latest, todo, levels, addresses, tokens, invalid, fresh>>
mainVars == <<pools, pool_numbers, round>>
historyVars == <<judged, unanswered>>
vars == <<chainVars, fileVars, workVars, mainVars, historyVars, pathVars,
          multicallVars, pc, faults>>

\* A dictionary after update(): entries that are new, and some anew.
Updated(d, entries) ==
  [x \in DOMAIN d \cup DOMAIN entries |->
     IF x \in DOMAIN entries THEN entries[x] ELSE d[x]]

FactoryOf(pool) == CHOOSE f \in Factories : pool \in ToSet(Pairs[f])

------------------------------------------------------------------------------
(* The chain and its nodes                                                   *)

\* Only get_pool_numbers looks: a pair created at another time is as good as one
\* created before the next look.
CreatePair(f) ==
  /\ pc \in {"down", "loop", "numbers"}
  /\ created[f] < Len(Pairs[f])
  /\ created' = [created EXCEPT ![f] = @ + 1]
  /\ UNCHANGED <<liquidity, fileVars, workVars, mainVars, historyVars, pathVars,
                 multicallVars, pc, faults>>

\* Liquidity is added to a pair, or all but taken out of it.
MoveLiquidity(pool) ==
  /\ pc = "loop" /\ pool \in MayThin /\ liquidity[pool] # Thin
  /\ liquidity' = [liquidity EXCEPT ![pool] = Thin]
  /\ UNCHANGED <<created, fileVars, workVars, mainVars, historyVars, pathVars,
                 multicallVars, pc, faults>>

Truth(request) ==
  CASE request[1] = "allPairsLength" -> created[request[2]]
    [] request[1] = "allPairs" -> Pairs[request[2]][request[3] + 1]
    [] request[1] = "token0" -> Tokens[request[2]][1]
    [] request[1] = "token1" -> Tokens[request[2]][2]
    [] request[1] = "getReserves" -> liquidity[request[2]]
    [] request[1] = "fee" -> Fees[request[2]]

\* What else a node may say: nothing, a zero address, or what was true before.
Faulty(request) ==
  CASE request[1] \in {"allPairs", "token0", "token1"} -> {Bad, Zero}
    [] request[1] = "allPairsLength" /\ created[request[2]] > 0 ->
         {Bad, created[request[2]] - 1}
    [] OTHER -> {Bad}

CostOf(reply) ==
  IF Len(reply) > 1 /\ ToSet(reply) = {Bad} THEN 1   \* a ValueError
  ELSE Cardinality({i \in DOMAIN reply : reply[i] # Truth(Chunk[i])})

\* A node replies to the chunk that is asked for.
NodeReplies ==
  /\ Busy /\ ~Complete
  /\ \E reply \in
       {r \in [DOMAIN Chunk ->
                 UNION {{Truth(Chunk[i])} \cup Faulty(Chunk[i]) : i \in DOMAIN Chunk}] :
          \A i \in DOMAIN Chunk :
             r[i] \in {Truth(Chunk[i])} \cup Faulty(Chunk[i])} :
       /\ faults + CostOf(reply) <= MaxFaults
       /\ faults' = faults + CostOf(reply)
       /\ CallOne(reply)
  /\ UNCHANGED <<chainVars, fileVars, workVars, mainVars, historyVars, pathVars, pc>>

MulticallStep ==
  /\ Retry \/ Exceeded \/ PutBack \/ Return
  /\ UNCHANGED <<chainVars, fileVars, workVars, mainVars, historyVars, pathVars,
                 pc, faults>>

LoseConnection ==
  /\ faults < MaxFaults
  /\ Disconnected
  /\ faults' = faults + 1
  /\ UNCHANGED <<chainVars, fileVars, workVars, mainVars, historyVars, pathVars, pc>>

------------------------------------------------------------------------------
(* Asking factory after factory, and again what came back as zero            *)

\* An answer is there for main to use.
Answered == ~Busy /\ returned \notin {None, BlockchainError, ConnectionError}

AskNext ==
  /\ pc \in {"addresses", "tokens", "excluded"} /\ todo # <<>>
  /\ levels = <<>> /\ returned = None
  /\ Call(todo[1][2])
  /\ UNCHANGED <<chainVars, fileVars, workVars, mainVars, historyVars, pathVars,
                 pc, faults>>

ZeroPositions(results) == SetToSeq({i \in DOMAIN results : results[i] = Zero})
NonZero(results) == Kept(results, ToSet(results) \ {Zero})

\* The parameters of the call that has returned, and its level with it.
Asked == IF levels = <<>> THEN todo[1][2]
         ELSE LET outer == levels[Len(levels)]
              IN  [j \in DOMAIN outer.idxs |-> outer.params[outer.idxs[j]]]
ThisLevel == [params |-> Asked, decoded |-> returned,
              idxs |-> ZeroPositions(returned)]
HasZeros == ZeroPositions(returned) # <<>>
GivesUp == HasZeros /\ Len(levels) = MaxRetries

\* A plausible bug: the recursive call passes retries on as it got it.
Bug_CountsNoRetry ==
  /\ pc \in {"addresses", "tokens", "excluded"} /\ Answered
  /\ HasZeros /\ ~GivesUp
  /\ Call(Asked)
  /\ UNCHANGED <<chainVars, fileVars, workVars, mainVars, historyVars, pathVars,
                 pc, faults>>

\* Zeros are asked for again, with retries + 1.
AskZerosAgain ==
  /\ pc \in {"addresses", "tokens", "excluded"} /\ Answered
  /\ HasZeros /\ ~GivesUp
  /\ levels' = Append(levels, ThisLevel)
  /\ Call([j \in DOMAIN ThisLevel.idxs |-> Asked[ThisLevel.idxs[j]]])
  /\ UNCHANGED <<chainVars, fileVars, latest, todo, addresses, tokens, invalid, fresh,
                 mainVars, historyVars, pathVars, pc, faults>>

\* A plausible bug: the fixed tokens are appended, like the addresses.
Bug_TokensAppended ==
  FoldRight(LAMBDA level, found : NonZero(level.decoded) \o found,
            levels, returned)

\* The recursion returns through all its levels.  get_pool_addresses appends
\* what was fixed, get_tokens puts it where the zeros were.
AllAddresses ==
  FoldRight(LAMBDA level, found : NonZero(level.decoded) \o found,
            levels, NonZero(returned))
AllTokens ==
  FoldRight(LAMBDA level, found : Merged(level.decoded, level.idxs, found),
            levels, returned)

StillZero == {Asked[i] : i \in {j \in DOMAIN returned : returned[j] = Zero}}

FactoryDone == Answered /\ (HasZeros => GivesUp)

NextFactory ==
  /\ FactoryDone
  /\ todo' = Tail(todo) /\ levels' = <<>>
  /\ Forget
  /\ UNCHANGED <<chainVars, fileVars, latest, fresh, mainVars, pathVars, pc, faults>>

GetPoolAddresses ==
  /\ pc \in {"addresses", "excluded"}
  /\ NextFactory
  /\ addresses' = Updated(addresses, [f \in {todo[1][1]} |-> AllAddresses])
  /\ LET lost == {Pairs[r[2]][r[3] + 1] : r \in StillZero}
     IN  IF pc = "addresses"
         THEN judged' = judged \cup lost /\ UNCHANGED unanswered
         ELSE unanswered' = unanswered \cup lost /\ UNCHANGED judged
  /\ UNCHANGED <<tokens, invalid>>

\* The pools of the tokens that stay zero are invalid: invalid_pools.
GetTokens ==
  /\ pc = "tokens"
  /\ NextFactory
  /\ tokens' = Updated(tokens, [f \in {todo[1][1]} |-> AllTokens])
  /\ LET lost == {r[2] : r \in StillZero}
     IN  invalid' = invalid \cup lost /\ judged' = judged \cup lost
  /\ UNCHANGED <<addresses, unanswered>>

\* prepare_pool_addresses_params for ranges of indices, factories without one left out.
AddressParams(first, stop) ==
  LET params(f) == [n \in 1..(stop[f] - first[f]) |->
                      <<"allPairs", f, first[f] + n - 1>>]
      asked == Kept(FactorySeq, {f \in Factories : first[f] < stop[f]})
  IN  [n \in DOMAIN asked |-> <<asked[n], params(asked[n])>>]

------------------------------------------------------------------------------
(* get_pools                                                                 *)

NoWork ==
  /\ latest' = None /\ todo' = <<>> /\ levels' = <<>>
  /\ addresses' = <<>> /\ tokens' = <<>> /\ invalid' = {} /\ fresh' = {}

NumbersParams == [n \in DOMAIN FactorySeq |-> <<"allPairsLength", FactorySeq[n]>>]
old_numbers == IF round = "all" THEN None ELSE pool_numbers

\* A plausible bug: main goes by the number of pools before it has them.
Bug_NumbersFirst ==
  /\ pc = "numbers" /\ Answered
  /\ LET now == [f \in Factories |->
                   returned[CHOOSE n \in DOMAIN FactorySeq : FactorySeq[n] = f]]
         first == [f \in Factories |-> IF old_numbers = None THEN 0
                                       ELSE old_numbers[f]]
     IN  IF old_numbers = now
         THEN pc' = "filter" /\ UNCHANGED <<workVars, saved_numbers>>
         ELSE /\ pc' = "addresses"
              /\ latest' = now /\ saved_numbers' = now
              /\ todo' = AddressParams(first, now)
              /\ UNCHANGED <<levels, addresses, tokens, invalid, fresh>>
  /\ Forget
  /\ UNCHANGED <<chainVars, saved_pools, saved_all, saved_all_numbers, mainVars,
                 historyVars, pathVars, faults>>

\* get_pool_numbers: nothing new, or the ranges to ask for.
GetPoolNumbers ==
  /\ pc = "numbers" /\ Answered
  /\ LET now == [f \in Factories |->
                   returned[CHOOSE n \in DOMAIN FactorySeq : FactorySeq[n] = f]]
         first == [f \in Factories |-> IF old_numbers = None THEN 0
                                       ELSE old_numbers[f]]
     IN  IF old_numbers = now
         THEN pc' = "filter" /\ UNCHANGED workVars
         ELSE /\ pc' = "addresses"
              /\ latest' = now
              /\ todo' = AddressParams(first, now)
              /\ UNCHANGED <<levels, addresses, tokens, invalid, fresh>>
  /\ Forget
  /\ UNCHANGED <<chainVars, fileVars, mainVars, historyVars, pathVars, faults>>

TokenParams(found) ==
  [n \in 1..(2 * Len(found)) |->
     <<IF n % 2 = 1 THEN "token0" ELSE "token1", found[(n + 1) \div 2]>>]

PrepareTokensParams ==
  /\ pc = "addresses" /\ todo = <<>>
  /\ pc' = "tokens"
  /\ LET asked == Kept(FactorySeq, DOMAIN addresses)
     IN  todo' = [n \in DOMAIN asked |-> <<asked[n], TokenParams(addresses[asked[n]])>>]
  /\ UNCHANGED <<chainVars, fileVars, latest, levels, addresses, tokens, invalid, fresh,
                 mainVars, historyVars, pathVars, multicallVars, faults>>

\* The pools of one factory that are not invalid, each with its two tokens.
CreatedFor(f) ==
  LET found == addresses[f]
      valid == {i \in DOMAIN found : found[i] \notin invalid}
  IN  [p \in {found[i] : i \in valid} |->
         LET i == CHOOSE j \in valid : found[j] = p
         IN  [tokens |-> <<tokens[f][2 * i - 1], tokens[f][2 * i]>>,
              liquidity |-> 0,
              fee |-> IF f \in FixedFee THEN Fees[p] ELSE 0]]

NewPools ==
  [p \in UNION {DOMAIN CreatedFor(f) : f \in DOMAIN addresses} |->
     CreatedFor(CHOOSE f \in DOMAIN addresses : p \in DOMAIN CreatedFor(f))[p]]

\* create_pools; main takes them over, or load_data saves and takes them.
CreatePools ==
  /\ pc = "tokens" /\ todo = <<>>
  /\ pools' = IF round = "all" THEN NewPools ELSE Updated(pools, NewPools)
  /\ pool_numbers' = latest
  /\ fresh' = DOMAIN NewPools
  /\ pc' = IF round = "all" THEN "save_all" ELSE "update"
  /\ latest' = None /\ todo' = <<>> /\ levels' = <<>>
  /\ addresses' = <<>> /\ tokens' = <<>> /\ invalid' = {}
  /\ UNCHANGED <<chainVars, fileVars, round, historyVars, pathVars, multicallVars, faults>>

\* get_all_pools: two files, one after the other.
SaveAllPools ==
  /\ pc = "save_all"
  /\ saved_all' = pools
  /\ judged' = judged \ DOMAIN pools
  /\ pc' = "save_all_numbers"
  /\ UNCHANGED <<chainVars, saved_pools, saved_numbers, saved_all_numbers, workVars,
                 mainVars, unanswered, pathVars, multicallVars, faults>>

SaveAllNumbers ==
  /\ pc = "save_all_numbers"
  /\ saved_all_numbers' = pool_numbers
  /\ pc' = "update"
  /\ UNCHANGED <<chainVars, saved_pools, saved_numbers, saved_all, workVars,
                 mainVars, historyVars, pathVars, multicallVars, faults>>

------------------------------------------------------------------------------
(* update_pools, filter_pools                                                *)

\* create_update_params, pool by pool.
UpdateParts ==
  LET order == SetToSeq(fresh)
  IN  [n \in DOMAIN order |->
         IF FactoryOf(order[n]) \in FixedFee
         THEN <<<<"getReserves", order[n]>>>>
         ELSE <<<<"getReserves", order[n]>>, <<"fee", order[n]>>>>]

AfterUpdate ==
  IF round = "new" THEN "filter" ELSE IF DownloadPools THEN "loop" ELSE "paths"

NothingToUpdate ==
  /\ pc = "update" /\ fresh = {}
  /\ pc' = AfterUpdate
  /\ UNCHANGED <<chainVars, fileVars, workVars, mainVars, historyVars, pathVars,
                 multicallVars, faults>>

AskUpdates ==
  /\ pc = "update" /\ fresh # {}
  /\ Call(FlattenSeq(UpdateParts))
  /\ pc' = "apply"
  /\ UNCHANGED <<chainVars, fileVars, workVars, mainVars, historyVars, pathVars, faults>>

\* apply_updates walks over the pools and the results together.
ApplyUpdates ==
  /\ pc = "apply" /\ Answered
  /\ LET order == SetToSeq(fresh)
         At(p) == CHOOSE n \in DOMAIN order : order[n] = p
         before(p) == Len(FlattenSeq(SubSeq(UpdateParts, 1, At(p) - 1)))
         updated == [p \in fresh |->
                       [pools[p] EXCEPT
                          !.liquidity = returned[before(p) + 1],
                          !.fee = IF FactoryOf(p) \in FixedFee THEN @
                                  ELSE returned[before(p) + 2]]]
     IN  pools' = Updated(pools, updated)
  /\ pc' = AfterUpdate
  /\ fresh' = {}
  /\ Forget
  /\ UNCHANGED <<chainVars, fileVars, latest, todo, levels, addresses, tokens, invalid,
                 pool_numbers, round, historyVars, pathVars, faults>>

\* A plausible bug at the edge: a factory with exactly Exclude pools gets the empty
\* range that is meant for fewer.
Bug_EmptyAtEdge ==
  [f \in Factories |-> IF pool_numbers[f] > Exclude THEN pool_numbers[f] - Exclude
                       ELSE pool_numbers[f]]

\* get_excluded_ranges: the last Exclude pools of each factory.
FirstExcluded ==
  [f \in Factories |-> IF pool_numbers[f] > Exclude THEN pool_numbers[f] - Exclude ELSE 0]

FilterPools ==
  /\ pc = "filter"
  /\ todo' = AddressParams(FirstExcluded, pool_numbers)
  /\ pc' = "excluded"
  /\ UNCHANGED <<chainVars, fileVars, latest, levels, addresses, tokens, invalid, fresh,
                 mainVars, historyVars, pathVars, multicallVars, faults>>

RemoveLowLiquidityPools ==
  /\ pc = "excluded" /\ todo = <<>>
  /\ LET excluded == UNION {ToSet(addresses[f]) : f \in DOMAIN addresses}
         low == {p \in DOMAIN pools \ excluded : pools[p].liquidity < MinLiquidity}
     IN  /\ pools' = [p \in DOMAIN pools \ low |-> pools[p]]
         /\ judged' = judged \cup low
  /\ pc' = "paths"
  /\ NoWork
  /\ UNCHANGED <<chainVars, fileVars, pool_numbers, round, unanswered, pathVars,
                 multicallVars, faults>>

------------------------------------------------------------------------------
(* main                                                                      *)

BuildPaths ==
  /\ pc = "paths"
  /\ BuildGraph([p \in DOMAIN pools |-> ToSet(pools[p].tokens)])
  /\ pc' = "search"
  /\ UNCHANGED <<chainVars, fileVars, workVars, mainVars, historyVars, multicallVars, faults>>

FindPaths ==
  /\ pc = "search"
  /\ SearchStep
  /\ UNCHANGED <<chainVars, fileVars, workVars, mainVars, historyVars, multicallVars,
                 pc, faults>>

PathsFound ==
  /\ pc = "search"
  /\ LastTask
  /\ pc' = IF round = "new" THEN "save" ELSE "loop"
  /\ UNCHANGED <<chainVars, fileVars, workVars, mainVars, historyVars, multicallVars, faults>>

SavePools ==
  /\ pc = "save"
  /\ saved_pools' = pools
  /\ judged' = judged \ DOMAIN pools
  /\ pc' = "save_numbers"
  /\ UNCHANGED <<chainVars, saved_numbers, saved_all, saved_all_numbers, workVars,
                 mainVars, unanswered, pathVars, multicallVars, faults>>

SavePoolNumbers ==
  /\ pc = "save_numbers"
  /\ saved_numbers' = pool_numbers
  /\ unanswered' = {}
  /\ pc' = "loop"
  /\ UNCHANGED <<chainVars, saved_pools, saved_all, saved_all_numbers, workVars,
                 mainVars, judged, pathVars, multicallVars, faults>>

\* poll_pools() says it is time.
Poll ==
  /\ pc = "loop"
  /\ round' = "new" /\ pc' = "numbers"
  /\ Call(NumbersParams)
  /\ UNCHANGED <<chainVars, fileVars, workVars, pools, pool_numbers, historyVars,
                 pathVars, faults>>

\* What PoolSync shows of the main loop: pools are read when they change, and
\* the timer saves them.
SyncPools ==
  /\ pc = "loop"
  /\ pools' = [p \in DOMAIN pools |-> [pools[p] EXCEPT !.liquidity = liquidity[p]]]
  /\ \/ UNCHANGED <<saved_pools, judged>>
     \/ saved_pools' = pools' /\ judged' = judged \ DOMAIN pools
  /\ UNCHANGED <<chainVars, saved_numbers, saved_all, saved_all_numbers, workVars,
                 pool_numbers, round, unanswered, pathVars, multicallVars, pc, faults>>

HasPools(file) == file # None /\ DOMAIN file # {}

Resume(file, numbers, next) ==
  /\ pools' = file /\ pool_numbers' = numbers
  /\ judged' = judged \ DOMAIN file
  /\ pc' = next

\* load_data: from the pools of the last run, from all pools, or from the chain.
LoadData ==
  /\ pc = "start"
  /\ round' = "all"
  /\ IF HasPools(saved_pools)
     THEN /\ Resume(saved_pools, saved_numbers,
                    IF DownloadPools THEN "loop" ELSE "paths")
          /\ UNCHANGED <<fresh, multicallVars>>
     ELSE IF HasPools(saved_all)
     THEN /\ Resume(saved_all, saved_all_numbers, "update")
          /\ fresh' = DOMAIN saved_all
          /\ UNCHANGED multicallVars
     ELSE /\ Call(NumbersParams)
          /\ pc' = "numbers"
          /\ UNCHANGED <<pools, pool_numbers, judged, fresh>>
  /\ UNCHANGED <<chainVars, fileVars, latest, todo, levels, addresses, tokens, invalid,
                 unanswered, pathVars, faults>>

\* main() is left: what it had in memory is gone.
Leave(next) ==
  /\ pc' = next
  /\ pools' = <<>> /\ pool_numbers' = None /\ round' = "all"
  /\ NoWork /\ DropPaths /\ Forget
  /\ unanswered' = {}
  /\ UNCHANGED <<chainVars, fileVars, judged>>

\* A ConnectionError restarts main(); any other exception ends the program.
Restart == returned = ConnectionError /\ Leave("start") /\ UNCHANGED faults
Exit ==
  /\ returned = BlockchainError \/ (pc = "search" /\ NoSuchToken)
  /\ Leave("down") /\ UNCHANGED faults

Crash ==
  /\ pc # "down" /\ faults < MaxFaults
  /\ faults' = faults + 1
  /\ Leave("down")

\* Somebody starts the program again.
Start ==
  /\ pc = "down"
  /\ pc' = "start"
  /\ UNCHANGED <<chainVars, fileVars, workVars, mainVars, historyVars, pathVars,
                 multicallVars, faults>>

Init ==
  /\ multicallInit /\ pathInit
  /\ created \in [Factories -> 0..1]
  /\ \A f \in Factories : created[f] <= Len(Pairs[f])
  /\ liquidity \in [Pools -> {Thin, MinLiquidity}]
  /\ \A p \in Pools \ MayThin : liquidity[p] # Thin
  /\ pc = "down" /\ round = "all"
  /\ pools = <<>> /\ pool_numbers = None
  /\ latest = None /\ todo = <<>> /\ levels = <<>>
  /\ addresses = <<>> /\ tokens = <<>> /\ invalid = {} /\ fresh = {}
  /\ saved_pools = None /\ saved_numbers = None
  /\ saved_all = None /\ saved_all_numbers = None
  /\ faults = 0 /\ judged = {} /\ unanswered = {}

Program ==
  \/ MulticallStep \/ NodeReplies
  \/ AskNext \/ AskZerosAgain \/ GetPoolAddresses \/ GetTokens
  \/ GetPoolNumbers \/ PrepareTokensParams \/ CreatePools
  \/ SaveAllPools \/ SaveAllNumbers
  \/ NothingToUpdate \/ AskUpdates \/ ApplyUpdates
  \/ FilterPools \/ RemoveLowLiquidityPools
  \/ BuildPaths \/ FindPaths \/ PathsFound \/ SavePools \/ SavePoolNumbers
  \/ LoadData \/ Restart \/ Exit

Environment ==
  \/ \E f \in Factories : CreatePair(f)
  \/ \E p \in Pools : MoveLiquidity(p)
  \/ LoseConnection \/ Crash \/ Start \/ Poll \/ SyncPools

Next == Program \/ Environment

Spec == Init /\ [][Next]_vars /\ WF_vars(Program)

------------------------------------------------------------------------------
(* Properties                                                                *)

\* numbers says how many pairs of each factory have been looked at.
Covers(file, numbers) ==
  (file # None /\ numbers # None) =>
    \A f \in Factories : \A i \in 1..numbers[f] :
      Pairs[f][i] \in DOMAIN file \cup judged

(* A pool that the number of pools says was looked at is kept, or was judged *)
(* invalid or too thin: neither a lagging node nor a crash between two files *)
(* nor an exception on the way leaves one behind the number, in memory or in *)
(* what a restart resumes from (pools.py:43, main.py:106, loader.py:83).     *)
NoPoolForgotten ==
  /\ pc = "loop" => Covers(pools, pool_numbers)
  /\ IF HasPools(saved_pools) THEN Covers(saved_pools, saved_numbers)
     ELSE HasPools(saved_all) => Covers(saved_all, saved_all_numbers)

(* The pools main works with carry their own tokens, fee and no other's,     *)
(* whatever was asked twice: tokens put back at their positions, reserves    *)
(* and fees read off one list that has one or two entries for a pool         *)
(* (pools.py:404, update.py:108).                                            *)
PoolsAsOnChain ==
  pc = "loop" =>
    \A p \in DOMAIN pools :
      pools[p].tokens = Tokens[p] /\ pools[p].fee = Fees[p]

Young(pool) ==
  \E f \in Factories : \E i \in 1..pool_numbers[f] :
    i + Exclude > pool_numbers[f] /\ Pairs[f][i] = pool

\* For a factory with fewer than Exclude pools, docstring and code differ: none is
\* exempt by the one (filterer.py:44), all are by the other (filterer.py:56).
Disputed(pool) ==
  \E f \in Factories : /\ pool_numbers[f] < Exclude
                       /\ \E i \in 1..pool_numbers[f] : Pairs[f][i] = pool

(* The filter parts with a pool only if it is thin and not one of the newest *)
(* of its factory, unless no node gave the address of that one, and it parts *)
(* with all of those (filterer.py:54, 100).  Of the disputed pools it says   *)
(* nothing.                                                                  *)
OldThinPoolsGo ==
  [][(pc = "excluded" /\ pc' = "paths") =>
       \A p \in DOMAIN pools :
         \/ Disputed(p)
         \/ p \in DOMAIN pools' <=> \/ Young(p) /\ p \notin unanswered
                                   \/ pools[p].liquidity >= MinLiquidity]_vars

(* In the main loop the paths of each pool are exactly the closed walks over *)
(* distinct pools through it, each once, for the pools main has: the search  *)
(* shares one path and one stack over all its branches (builder.py:103).     *)
PathsExact ==
  pc = "loop" =>
    /\ graph = [p \in DOMAIN pools |-> ToSet(pools[p].tokens)]
    /\ \A p \in DOMAIN graph :
         /\ ToSet(PathsAt(p)) = {path \in AllPaths : p \in PoolsOf(path)}
         /\ Len(PathsAt(p)) = Cardinality(ToSet(PathsAt(p)))

(* Looking for pools comes to an end: the retries of retries, each with its  *)
(* own count, stop, and the search of the paths does (pools.py:223, 344).    *)
DiscoveryEnds == (pc \notin {"loop", "down"}) ~> (pc \in {"loop", "down"})

TypeOK ==
  /\ created \in [Factories -> Nat] /\ liquidity \in [Pools -> 0..MinLiquidity]
  /\ \A f \in Factories : created[f] <= Len(Pairs[f])
  /\ DOMAIN pools \subseteq Pools /\ fresh \subseteq DOMAIN pools
  /\ pool_numbers = None \/ pool_numbers \in [Factories -> Nat]
  /\ Len(frames) <= MaxRetries + 1 /\ Len(levels) <= MaxRetries
  /\ todo # <<>> \/ levels = <<>>
  /\ DOMAIN addresses \subseteq Factories /\ DOMAIN tokens \subseteq Factories
  /\ \A f \in DOMAIN tokens : Len(tokens[f]) = 2 * Len(addresses[f])
==============================================================================
