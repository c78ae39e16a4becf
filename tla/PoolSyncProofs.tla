--------------------------- MODULE PoolSyncProofs ---------------------------
(* What holds of PoolSync for any set of pools, any chain and any number of  *)
(* blocks after which a filter starts at the newest one, while the chain     *)
(* does not get that far ahead of a running program (LongGaps is FALSE; the  *)
(* runs with LongGaps show that it is needed).                               *)
EXTENDS PoolSync, WellFoundedInduction, TLAPS

-----------------------------------------------------------------------------
(* The inductive invariant                                                   *)

Running == pc \notin {"start", "load"}
Polled == pc \in {"update", "search", "save", "save_block"}

\* What main holds of p, once the update under way is applied, is not the
\* chain's state.
Behind(p) == IF p \in to_update
             THEN p \in DOMAIN fetched /\ fetched[p] # reserves[p]
             ELSE pools[p] # reserves[p]

\* An update is under way only between the first poll and apply_updates.
IdleInv ==
  /\ pc \notin {"drain", "await", "update"} => to_update = {}
  /\ pc # "update" => fetched = EmptyDict
  /\ pc = "save_block" => saved_pools = pools
  /\ Running => DOMAIN saved_pools \subseteq DOMAIN pools

\* The saved block is behind all that a running program refers to.
NumberInv ==
  /\ Running => saved_block <= last_block
  /\ Running /\ cached_block = None => saved_block = last_block
  /\ cached_block # None => saved_block <= cached_block
  /\ Running /\ pc # "loop" => cached_block # None
  /\ Polled => last_block = cached_block /\ (alive => next >= last_block)
  /\ alive => next <= block + 1 /\ next >= saved_block
  /\ \A p \in Pools : reserves[p] <= block

\* The chain is no further ahead of the saved block than a filter reaches, or
\* get_changed_pools sees that it is, and all pools are read and saved.
Reached == block <= saved_block + MaxBlocks
SeenFar == cached_block > saved_block + MaxBlocks
Restarted == pc = "loop" /\ last_block = saved_block

\* A change of a saved pool is in the blocks that a new filter reports.
SavedInv ==
  \A p \in DOMAIN saved_pools : saved_pools[p] # reserves[p] =>
    /\ reserves[p] >= saved_block
    /\ cached_block # None =>
         \/ Reached
         \/ SeenFar /\ (Running => \/ Restarted
                                   \/ pc \in {"save", "save_block"}
                                   \/ pc = "update" /\ all_pools)
    /\ pc = "load" /\ alive => reserves[p] >= next \/ (cached_block = None /\ ~Reached)
                                                   \/ SeenFar

\* A change that main has not read is in the blocks that the next poll reports,
\* and is newer than what is searched.
BehindInv ==
  Running => \A p \in DOMAIN pools : Behind(p) =>
    /\ reserves[p] >= last_block
    /\ alive => reserves[p] >= next \/ far
    /\ cached_block # None => Reached \/ (SeenFar /\ Restarted)
    /\ Polled => reserves[p] > last_block /\ block < last_block + MaxBlocks

IInv == TypeOK /\ IdleInv /\ NumberInv /\ SavedInv /\ BehindInv

-----------------------------------------------------------------------------
(* Lemmas on the data                                                        *)

\* A non-empty set of numbers up to n has a greatest one, which Max is.
LEMMA MaxIs ==
  ASSUME NEW n \in Nat, NEW S \in SUBSET (0..n), S # {}
  PROVE  Max(S) \in S /\ \A x \in S : Max(S) >= x
<1>. DEFINE below == {n - x : x \in S}
            R == OpToRel(<, Nat)
<1>1. below \subseteq Nat /\ below # {}
  <2>1. \A x \in S : n - x \in Nat
    OBVIOUS
  <2>2. PICK x \in S : TRUE
    OBVIOUS
  <2>. QED BY <2>1, <2>2
<1>2. PICK least \in below : \A y \in below : ~ (<<y, least>> \in R)
  <2>. HIDE DEF below, R
  <2>. QED BY <1>1, NatLessThanWellFounded, WFMin DEF R
<1>3. PICK top \in S : least = n - top
  OBVIOUS
<1>4. ASSUME NEW x \in S PROVE top >= x
  <2>1. n - x \in below /\ n - x \in Nat /\ least \in Nat
    OBVIOUS
  <2>2. ~ (n - x < least)
    BY <1>1, <1>2, <2>1 DEF OpToRel
  <2>. QED BY <1>3, <2>2
<1>. QED BY <1>3, <1>4, Zenon DEF Max

\* The dictionaries from addresses to states of pools.
LEMMA DictIs ==
  ASSUME NEW f
  PROVE  f \in PoolDict <=> /\ f = [p \in DOMAIN f |-> f[p]] /\ DOMAIN f \subseteq Pools
                            /\ \A p \in DOMAIN f : f[p] \in 0..LastBlock
<1>1. ASSUME f \in PoolDict
      PROVE  /\ f = [p \in DOMAIN f |-> f[p]] /\ DOMAIN f \subseteq Pools
             /\ \A p \in DOMAIN f : f[p] \in 0..LastBlock
  <2>1. PICK D \in SUBSET Pools : f \in [D -> 0..LastBlock]
    BY <1>1, Zenon DEF PoolDict
  <2>. QED BY <2>1
<1>2. ASSUME f = [p \in DOMAIN f |-> f[p]], DOMAIN f \subseteq Pools,
             \A p \in DOMAIN f : f[p] \in 0..LastBlock
      PROVE  f \in PoolDict
  <2>1. f \in [DOMAIN f -> 0..LastBlock] /\ DOMAIN f \in SUBSET Pools
    BY <1>2
  <2>. QED BY <2>1, Zenon DEF PoolDict
<1>. QED BY <1>1, <1>2, Zenon

\* Before anything is read nothing is held.
LEMMA EmptyIs == EmptyDict \in PoolDict /\ DOMAIN EmptyDict = {}
<1>1. EmptyDict \in [{} -> 0..LastBlock] /\ {} \in SUBSET Pools /\ DOMAIN EmptyDict = {}
  BY DEF EmptyDict
<1>. QED BY <1>1, Zenon DEF PoolDict

\* The numbers that the invariant speaks of.
LEMMA Numbers ==
  ASSUME TypeOK
  PROVE  /\ {block, next, last_block, cached_block, saved_block, MaxBlocks,
             LastBlock} \subseteq Nat
         /\ FirstBlock = 2 /\ None = 0 /\ 2 <= block /\ block <= LastBlock
         /\ last_block <= block /\ cached_block <= block /\ saved_block <= block
         /\ \A p \in Pools : reserves[p] \in Nat
BY MaxBlocksAssumption, LastBlockAssumption DEF TypeOK, FirstBlock, None

\* A poll reports every change that main has not read, whichever of its two ways
\* it goes, and the next filter begins behind what it reports.
LEMMA PollSeesAll ==
  ASSUME IInv, Running, NEW changed, NEW number \in 1..LastBlock,
         get_changed_pools(changed, number)
  PROVE  /\ \A p \in DOMAIN pools : Behind(p) => p \in changed
         /\ number <= block /\ number >= saved_block
         /\ alive' = TRUE /\ cached_block' = number
         /\ next' \in Nat /\ next' >= number /\ next' <= block + 1 /\ next' <= LastBlock + 1
         /\ far => number = block /\ changed = DOMAIN pools
<1>1. TypeOK /\ NumberInv /\ BehindInv
  BY DEF IInv
<1>2. /\ {block, next, last_block, cached_block, saved_block, MaxBlocks,
          LastBlock} \subseteq Nat
      /\ None = 0 /\ 2 <= block /\ block <= LastBlock
      /\ last_block <= block /\ cached_block <= block /\ saved_block <= block
      /\ saved_block <= last_block /\ (cached_block # None => saved_block <= cached_block)
  BY <1>1, Numbers DEF NumberInv
<1>3. known_block \in Nat /\ known_block <= block /\ known_block >= saved_block
  BY <1>2 DEF known_block
<1>4. CASE far
  <2>1. number = block /\ changed = DOMAIN pools /\ next' = create_pool_sync_filter(block)
        /\ alive' = TRUE /\ cached_block' = number
    BY <1>4, Zenon DEF get_changed_pools
  <2>2. next' = block
    BY <1>2, <2>1 DEF create_pool_sync_filter
  <2>. QED BY <1>2, <1>4, <2>1, <2>2
<1>5. CASE ~far
  <2>1. /\ changed = get_new_entries \cap DOMAIN pools
        /\ number = IF get_new_entries = {} THEN known_block
                    ELSE Max({reserves[p] : p \in get_new_entries})
        /\ next' = block + 1 /\ alive' = TRUE /\ cached_block' = number
    BY <1>5, Zenon DEF get_changed_pools
  <2>2. polled_from \in Nat /\ polled_from >= saved_block
    BY <1>1, <1>2 DEF polled_from, create_pool_sync_filter, NumberInv
  <2>3. number <= block /\ number >= saved_block
    <3>1. CASE get_new_entries = {}
      BY <1>3, <2>1, <3>1
    <3>2. CASE get_new_entries # {}
      <4>. DEFINE S == {reserves[p] : p \in get_new_entries}
      <4>1. S \subseteq 0..block /\ S # {} /\ \A x \in S : x >= polled_from
        BY <1>1, <1>2, <3>2, Numbers DEF get_new_entries, NumberInv
      <4>2. Max(S) \in S
        BY <1>2, <4>1, MaxIs
      <4>3. number = Max(S)
        BY <2>1, <3>2
      <4>. HIDE DEF S
      <4>. QED BY <1>2, <2>2, <4>1, <4>2, <4>3
    <3>. QED BY <3>1, <3>2
  <2>4. ASSUME NEW p \in DOMAIN pools, Behind(p) PROVE p \in changed
    <3>1. /\ reserves[p] >= last_block /\ (alive => reserves[p] >= next)
          /\ cached_block # None => Reached \/ (SeenFar /\ Restarted)
      BY <1>1, <1>5, <2>4 DEF BehindInv
    <3>2. p \in Pools /\ reserves[p] \in Nat
      BY <1>1, DictIs, Numbers DEF TypeOK
    <3>3. block <= last_block + MaxBlocks
      BY <1>2, <1>5, <3>1 DEF far, known_block, Reached, SeenFar, Restarted
    <3>4. reserves[p] >= polled_from
      BY <1>2, <3>1, <3>2, <3>3 DEF polled_from, create_pool_sync_filter
    <3>. QED BY <2>1, <2>4, <3>2, <3>4 DEF get_new_entries
  <2>. QED BY <1>2, <1>5, <2>1, <2>3, <2>4
<1>. QED BY <1>4, <1>5

-----------------------------------------------------------------------------
(* The invariant is inductive                                                *)

\* The invariant holds when the program is first started.
LEMMA Initially == Init => IInv
<1>. SUFFICES ASSUME Init PROVE IInv
  OBVIOUS
<1>. USE DEF Init
<1>1. PICK D \in SUBSET Pools : saved_pools = [p \in D |-> 0]
  OBVIOUS
<1>2. LastBlock \in Nat /\ LastBlock >= 2 /\ FirstBlock = 2 /\ None = 0
  BY LastBlockAssumption DEF FirstBlock, None
<1>3. saved_pools \in PoolDict
  <2>1. saved_pools \in [D -> 0..LastBlock]
    BY <1>1, <1>2
  <2>. QED BY <2>1, Zenon DEF PoolDict
<1>4. TypeOK
  <2>1. reserves \in [Pools -> 0..LastBlock] /\ block \in FirstBlock..LastBlock
    BY <1>2
  <2>2. /\ next \in 0..LastBlock + 1 /\ last_block \in 0..block
        /\ cached_block \in 0..block /\ saved_block \in 0..block
    BY <1>2
  <2>3. pools \in PoolDict /\ fetched \in PoolDict
    BY EmptyIs, Zenon
  <2>. QED BY <1>3, <2>1, <2>2, <2>3 DEF TypeOK
<1>5. IdleInv
  BY DEF IdleInv, Running
<1>6. NumberInv
  BY <1>2 DEF NumberInv, Running, Polled
<1>7. SavedInv
  BY <1>1 DEF SavedInv
<1>8. BehindInv
  BY DEF BehindInv, Running
<1>. QED BY <1>4, <1>5, <1>6, <1>7, <1>8 DEF IInv

\* The chain grows.  A pool that changes does so in the newest block, which every
\* filter has still to report.
LEMMA NewBlockKeeps ==
  ASSUME IInv, NewBlock, ~LongGaps
  PROVE  IInv'
<1>0. TypeOK /\ IdleInv /\ NumberInv /\ SavedInv /\ BehindInv
  BY DEF IInv
<1>1. /\ block < LastBlock /\ block' = block + 1 /\ NoLongGap
      /\ UNCHANGED <<filterVars, mainVars, cached_block, diskVars>>
  BY DEF NewBlock
<1>2. PICK S \in SUBSET Pools :
        reserves' = [p \in Pools |-> IF p \in S THEN block' ELSE reserves[p]]
  BY DEF NewBlock
<1>3. /\ {block, next, last_block, cached_block, saved_block, MaxBlocks,
          LastBlock} \subseteq Nat
      /\ FirstBlock = 2 /\ None = 0 /\ 2 <= block /\ block <= LastBlock
      /\ last_block <= block /\ cached_block <= block /\ saved_block <= block
      /\ \A p \in Pools : reserves[p] \in Nat
  BY <1>0, Numbers
<1>4. \A p \in Pools : \/ reserves'[p] = block + 1
                       \/ reserves'[p] = reserves[p]
  BY <1>1, <1>2
<1>5. /\ UNCHANGED <<alive, next, pc, pools, last_block, changed_pools, to_update,
                     fetched, all_pools, cached_block, saved_pools, saved_block>>
  BY <1>1 DEF filterVars, mainVars, diskVars
<1>6. cached_block # None => /\ block + 1 <= saved_block + MaxBlocks
                             /\ Running => block + 1 < last_block + MaxBlocks
  BY <1>1, Zenon DEF NoLongGap, Running
<1>7. TypeOK'
  <2>1. reserves' \in [Pools -> 0..LastBlock]
    BY <1>0, <1>1, <1>2, <1>3, <1>4 DEF TypeOK
  <2>. QED BY <1>0, <1>1, <1>3, <1>5, <2>1 DEF TypeOK
<1>8. IdleInv'
  BY <1>0, <1>5 DEF IdleInv, Running
<1>9. NumberInv'
  <2>1. \A p \in Pools : reserves'[p] <= block'
    BY <1>0, <1>1, <1>3, <1>4 DEF NumberInv
  <2>2. alive' => next' <= block' + 1 /\ next' >= saved_block'
    BY <1>0, <1>1, <1>3, <1>5 DEF NumberInv
  <2>. QED BY <1>0, <1>5, <2>1, <2>2 DEF NumberInv, Running, Polled
<1>10. SavedInv'
  <2>. SUFFICES ASSUME NEW p \in DOMAIN saved_pools, saved_pools[p] # reserves'[p]
       PROVE  /\ reserves'[p] >= saved_block
              /\ cached_block # None => Reached'
              /\ pc = "load" /\ alive => reserves'[p] >= next
                                         \/ (cached_block = None /\ ~Reached') \/ SeenFar
    BY <1>5 DEF SavedInv, SeenFar
  <2>1. p \in Pools
    BY <1>0, DictIs DEF TypeOK
  <2>2. cached_block # None => Reached'
    BY <1>1, <1>5, <1>6 DEF Reached
  <2>3. CASE reserves'[p] = block + 1
    BY <1>0, <1>3, <2>2, <2>3 DEF NumberInv
  <2>4. CASE reserves'[p] = reserves[p]
    <3>1. /\ reserves[p] >= saved_block
          /\ pc = "load" /\ alive => reserves[p] >= next
                                     \/ (cached_block = None /\ ~Reached) \/ SeenFar
      BY <1>0, <2>4 DEF SavedInv
    <3>2. ~Reached => ~Reached'
      BY <1>1, <1>3, <1>5 DEF Reached
    <3>. QED BY <2>2, <2>4, <3>1, <3>2
  <2>. QED BY <1>4, <2>1, <2>3, <2>4
<1>11. BehindInv'
  <2>. SUFFICES ASSUME Running, NEW p \in DOMAIN pools, Behind(p)'
       PROVE  /\ reserves'[p] >= last_block
              /\ alive => reserves'[p] >= next \/ far'
              /\ cached_block # None => Reached'
              /\ Polled => reserves'[p] > last_block /\ block' < last_block + MaxBlocks
    BY <1>5 DEF BehindInv, Running, Polled
  <2>1. p \in Pools
    BY <1>0, DictIs DEF TypeOK
  <2>2. cached_block # None => Reached' /\ block' < last_block + MaxBlocks
    BY <1>1, <1>5, <1>6 DEF Reached
  <2>3. Polled => cached_block # None
    BY <1>0 DEF NumberInv, Running, Polled
  <2>4. CASE reserves'[p] = block + 1
    BY <1>0, <1>3, <2>2, <2>3, <2>4 DEF NumberInv
  <2>5. CASE reserves'[p] = reserves[p]
    <3>1. Behind(p)
      BY <1>5, <2>5 DEF Behind
    <3>2. /\ reserves[p] >= last_block /\ (alive => reserves[p] >= next \/ far)
          /\ Polled => reserves[p] > last_block
      BY <1>0, <3>1 DEF BehindInv
    <3>3. far => far'
      BY <1>1, <1>3, <1>5 DEF far, known_block
    <3>. QED BY <2>2, <2>3, <2>5, <3>2, <3>3
  <2>. QED BY <1>4, <2>1, <2>4, <2>5
<1>. QED BY <1>7, <1>8, <1>9, <1>10, <1>11 DEF IInv

\* A dropped filter is created again from where main is, if that is near enough.
LEMMA DropFilterKeeps == ASSUME IInv, DropFilter PROVE IInv'
<1>. USE DEF IInv, DropFilter, chainVars, mainVars, diskVars
<1>1. TypeOK'
  BY DEF TypeOK
<1>2. IdleInv'
  BY DEF IdleInv, Running
<1>3. NumberInv'
  BY DEF NumberInv, Running, Polled
<1>4. SavedInv'
  BY DEF SavedInv, Reached, SeenFar, Running, Restarted
<1>5. BehindInv'
  BY DEF BehindInv, Behind, Reached, SeenFar, Running, Restarted, Polled
<1>. QED BY <1>1, <1>2, <1>3, <1>4, <1>5

\* The filter of a new Web3 starts at the saved block, or at the newest one when
\* that is too far back.
LEMMA ConnectKeeps == ASSUME IInv, Connect PROVE IInv'
<1>0. TypeOK /\ IdleInv /\ NumberInv /\ SavedInv /\ BehindInv
  BY DEF IInv
<1>1. /\ pc = "start" /\ pc' = "load" /\ alive' = TRUE
      /\ next' = IF Reached THEN saved_block ELSE block + 1
      /\ UNCHANGED <<block, reserves, pools, last_block, changed_pools, to_update,
                     fetched, all_pools, cached_block, saved_pools, saved_block>>
  <2>1. next' = create_pool_sync_filter(saved_block)
    BY DEF Connect
  <2>2. create_pool_sync_filter(saved_block) = IF Reached THEN saved_block ELSE block + 1
    BY <1>0, Numbers DEF create_pool_sync_filter, Reached
  <2>. QED BY <2>1, <2>2 DEF Connect, chainVars, diskVars
<1>2. /\ {block, next, last_block, cached_block, saved_block, LastBlock} \subseteq Nat
      /\ block <= LastBlock /\ saved_block <= block
  BY <1>0, Numbers
<1>3. TypeOK'
  BY <1>0, <1>1, <1>2 DEF TypeOK
<1>4. IdleInv'
  BY <1>0, <1>1 DEF IdleInv, Running
<1>5. NumberInv'
  BY <1>0, <1>1, <1>2 DEF NumberInv, Running, Polled
<1>6. SavedInv'
  BY <1>0, <1>1, <1>2 DEF SavedInv, Reached, SeenFar, Running, Restarted
<1>7. BehindInv'
  BY <1>1 DEF BehindInv, Running
<1>. QED BY <1>3, <1>4, <1>5, <1>6, <1>7 DEF IInv

\* What is loaded has been saved, or is read now.
LEMMA LoadDataKeeps == ASSUME IInv, LoadData PROVE IInv'
<1>0. TypeOK /\ IdleInv /\ NumberInv /\ SavedInv /\ BehindInv
  BY DEF IInv
<1>1. /\ pc = "load" /\ pc' = "loop" /\ last_block' = saved_block
      /\ UNCHANGED <<block, reserves, alive, next, changed_pools, to_update, fetched,
                     all_pools, cached_block, saved_pools, saved_block>>
  BY DEF LoadData, chainVars, filterVars, diskVars
<1>2. /\ {block, next, last_block, cached_block, saved_block, MaxBlocks,
          LastBlock} \subseteq Nat
      /\ block <= LastBlock /\ saved_block <= block
  BY <1>0, Numbers
<1>3. \/ pools' = saved_pools
      \/ DOMAIN saved_pools = {} /\ \E D \in SUBSET Pools : pools' = [p \in D |-> reserves[p]]
  BY DEF LoadData, Restrict
<1>4. /\ pools' \in PoolDict /\ DOMAIN saved_pools \subseteq DOMAIN pools'
      /\ \A p \in DOMAIN pools' : pools'[p] # reserves[p] =>
           p \in DOMAIN saved_pools /\ saved_pools[p] # reserves[p]
  <2>1. CASE pools' = saved_pools
    BY <1>0, <2>1 DEF TypeOK
  <2>2. CASE /\ DOMAIN saved_pools = {}
             /\ \E D \in SUBSET Pools : pools' = [p \in D |-> reserves[p]]
    <3>1. PICK D \in SUBSET Pools : pools' = [p \in D |-> reserves[p]]
      BY <2>2
    <3>2. pools' \in [D -> 0..LastBlock]
      BY <1>0, <3>1 DEF TypeOK
    <3>3. pools' \in PoolDict
      BY <3>2, Zenon DEF PoolDict
    <3>. QED BY <2>2, <3>1, <3>3
  <2>. QED BY <1>3, <2>1, <2>2
<1>5. TypeOK'
  BY <1>0, <1>1, <1>2, <1>4 DEF TypeOK
<1>6. IdleInv'
  BY <1>0, <1>1, <1>4 DEF IdleInv
<1>7. NumberInv'
  BY <1>0, <1>1, <1>2 DEF NumberInv, Running, Polled
<1>8. SavedInv'
  BY <1>0, <1>1 DEF SavedInv, Reached, SeenFar, Running, Restarted
<1>9. BehindInv'
  <2>. SUFFICES ASSUME NEW p \in DOMAIN pools', Behind(p)'
       PROVE  /\ reserves[p] >= saved_block
              /\ alive => reserves[p] >= next \/ far'
              /\ cached_block # None => Reached \/ SeenFar
    BY <1>1 DEF BehindInv, Reached, SeenFar, Restarted, Polled
  <2>1. p \in DOMAIN saved_pools /\ saved_pools[p] # reserves[p]
    BY <1>0, <1>1, <1>4 DEF Behind, IdleInv
  <2>2. /\ reserves[p] >= saved_block /\ (cached_block # None => Reached \/ SeenFar)
        /\ alive => reserves[p] >= next \/ (cached_block = None /\ ~Reached) \/ SeenFar
    BY <1>0, <1>1, <2>1 DEF SavedInv
  <2>3. (cached_block = None /\ ~Reached) \/ (cached_block # None /\ SeenFar) => far'
    BY <1>1, <1>2 DEF far, known_block, Reached, SeenFar
  <2>4. SeenFar => cached_block # None
    BY <1>2 DEF SeenFar, None
  <2>. QED BY <2>2, <2>3, <2>4
<1>. QED BY <1>5, <1>6, <1>7, <1>8, <1>9 DEF IInv

\* New pools are read as they are added.
LEMMA PollPoolsKeeps == ASSUME IInv, PollPools PROVE IInv'
<1>0. TypeOK /\ IdleInv /\ NumberInv /\ SavedInv /\ BehindInv
  BY DEF IInv
<1>1. /\ pc = "loop" /\ saved_pools' = pools'
      /\ UNCHANGED <<block, reserves, alive, next, pc, last_block, changed_pools, to_update,
                     fetched, all_pools, cached_block, saved_block>>
  BY DEF PollPools, chainVars, filterVars
<1>2. PICK D \in SUBSET Pools :
        pools' = [p \in D |-> IF p \in DOMAIN pools THEN pools[p] ELSE reserves[p]]
  BY DEF PollPools
<1>3. pools' \in PoolDict
  <2>1. \A p \in DOMAIN pools : pools[p] \in 0..LastBlock
    BY <1>0, DictIs DEF TypeOK
  <2>2. \A p \in Pools : reserves[p] \in 0..LastBlock
    BY <1>0 DEF TypeOK
  <2>3. pools' \in [D -> 0..LastBlock]
    BY <1>2, <2>1, <2>2
  <2>. QED BY <2>3, Zenon DEF PoolDict
<1>4. ASSUME NEW p \in DOMAIN pools', pools'[p] # reserves[p]
      PROVE  /\ reserves[p] >= last_block /\ (alive => reserves[p] >= next \/ far)
             /\ cached_block # None => Reached \/ (SeenFar /\ Restarted)
  <2>1. p \in DOMAIN pools /\ pools[p] # reserves[p]
    BY <1>2, <1>4
  <2>2. Behind(p)
    BY <1>0, <1>1, <2>1 DEF IdleInv, Behind
  <2>. QED BY <1>0, <1>1, <2>1, <2>2 DEF BehindInv, Running
<1>5. TypeOK'
  BY <1>0, <1>1, <1>3 DEF TypeOK
<1>6. IdleInv'
  BY <1>0, <1>1 DEF IdleInv, Running
<1>7. NumberInv'
  BY <1>0, <1>1 DEF NumberInv, Running, Polled
<1>8. SavedInv'
  <2>. SUFFICES ASSUME NEW p \in DOMAIN pools', pools'[p] # reserves[p]
       PROVE  /\ reserves[p] >= saved_block
              /\ cached_block # None => Reached \/ (SeenFar /\ Restarted)
    BY <1>1 DEF SavedInv, Reached, SeenFar, Restarted
  <2>1. saved_block <= last_block /\ p \in Pools
    BY <1>0, <1>1, <1>2 DEF NumberInv, Running
  <2>. QED BY <1>0, <1>4, <2>1, Numbers
<1>9. BehindInv'
  <2>. SUFFICES ASSUME NEW p \in DOMAIN pools', Behind(p)'
       PROVE  /\ reserves[p] >= last_block /\ (alive => reserves[p] >= next \/ far)
              /\ cached_block # None => Reached \/ (SeenFar /\ Restarted)
    BY <1>1 DEF BehindInv, Reached, SeenFar, Restarted, Polled, far, known_block
  <2>1. pools'[p] # reserves[p]
    BY <1>0, <1>1 DEF IdleInv, Behind
  <2>. QED BY <1>4, <2>1
<1>. QED BY <1>5, <1>6, <1>7, <1>8, <1>9 DEF IInv

\* A poll of the main loop: what it notes is all that is to be read, and where it
\* leaves last_block is what the poll reports when an update follows.
Polls(changed, number) ==
  /\ pc \in {"loop", "drain", "await"} /\ pc' \in {"drain", "await", "update"}
  /\ get_changed_pools(changed, number)
  /\ to_update' = to_update \cup changed
  /\ last_block' = number \/ (pc = "drain" /\ pc' # "update" /\ UNCHANGED last_block)
  /\ far /\ changed # {} /\ pc = "loop" => all_pools' /\ pc' = "update"
  /\ changed_pools' \subseteq Pools /\ all_pools' \in BOOLEAN
  /\ UNCHANGED <<chainVars, pools, fetched, diskVars>>

\* A poll that reports all that main has not read leaves nothing behind, and what
\* it fails to report it remembers as all_pools.
LEMMA PollKeeps ==
  ASSUME IInv, NEW changed \in SUBSET Pools, NEW number \in 1..LastBlock,
         Polls(changed, number)
  PROVE  IInv'
<1>0. TypeOK /\ IdleInv /\ NumberInv /\ SavedInv /\ BehindInv
  BY DEF IInv
<1>1. /\ pc \in {"loop", "drain", "await"} /\ pc' \in {"drain", "await", "update"}
      /\ Running /\ Running' /\ get_changed_pools(changed, number)
      /\ to_update' = to_update \cup changed
      /\ last_block' = number \/ (pc = "drain" /\ pc' # "update" /\ last_block' = last_block)
      /\ far /\ changed # {} /\ pc = "loop" => all_pools' /\ pc' = "update"
      /\ UNCHANGED <<block, reserves, pools, fetched, saved_pools, saved_block>>
  BY DEF Polls, Running, chainVars, diskVars
<1>2. /\ \A p \in DOMAIN pools : Behind(p) => p \in changed
      /\ number <= block /\ number >= saved_block
      /\ alive' = TRUE /\ cached_block' = number
      /\ next' \in Nat /\ next' >= number /\ next' <= block + 1 /\ next' <= LastBlock + 1
      /\ far => number = block /\ changed = DOMAIN pools
  BY <1>1, PollSeesAll
<1>3. /\ {block, next, last_block, cached_block, saved_block, MaxBlocks,
          LastBlock} \subseteq Nat
      /\ None = 0 /\ 2 <= block /\ block <= LastBlock
      /\ last_block <= block /\ cached_block <= block /\ saved_block <= block
  BY <1>0, Numbers
<1>4. fetched = EmptyDict /\ fetched' = EmptyDict /\ DOMAIN EmptyDict = {}
  BY <1>0, <1>1, EmptyIs DEF IdleInv
<1>5. cached_block' # None /\ number \in Nat
  BY <1>2, <1>3
<1>6. TypeOK'
  <2>1. to_update' \subseteq Pools /\ changed_pools' \subseteq Pools /\ all_pools' \in BOOLEAN
    BY <1>0, <1>1 DEF TypeOK, Polls
  <2>2. last_block' \in 0..block /\ cached_block' \in 0..block /\ next' \in 0..LastBlock + 1
    BY <1>1, <1>2, <1>3, <1>5
  <2>. QED BY <1>0, <1>1, <1>2, <2>1, <2>2 DEF TypeOK
<1>7. IdleInv'
  BY <1>0, <1>1, <1>4 DEF IdleInv
<1>8. NumberInv'
  <2>1. /\ saved_block <= last_block' /\ saved_block <= cached_block'
        /\ next' <= block + 1 /\ next' >= saved_block
    BY <1>0, <1>1, <1>2, <1>3, <1>5 DEF NumberInv
  <2>2. Polled' => last_block' = cached_block' /\ next' >= last_block'
    BY <1>1, <1>2 DEF Polled
  <2>3. \A p \in Pools : reserves'[p] <= block'
    BY <1>0, <1>1 DEF NumberInv
  <2>. QED BY <1>1, <1>2, <1>5, <2>1, <2>2, <2>3 DEF NumberInv
<1>9. SavedInv'
  <2>. SUFFICES ASSUME NEW p \in DOMAIN saved_pools, saved_pools[p] # reserves[p]
       PROVE  /\ reserves[p] >= saved_block
              /\ Reached \/ (SeenFar' /\ pc' = "update" /\ all_pools')
    BY <1>1 DEF SavedInv, Reached
  <2>1. /\ reserves[p] >= saved_block
        /\ cached_block # None => Reached \/ (SeenFar /\ Restarted)
    BY <1>0, <1>1 DEF SavedInv
  <2>2. ASSUME ~Reached PROVE SeenFar' /\ pc' = "update" /\ all_pools'
    <3>1. pc = "loop" /\ last_block = saved_block
      BY <1>0, <1>1, <2>1, <2>2 DEF NumberInv, Restarted
    <3>2. far
      BY <1>3, <2>1, <2>2, <3>1 DEF far, known_block, Reached, SeenFar
    <3>3. p \in changed
      BY <1>0, <1>1, <1>2, <3>2 DEF IdleInv
    <3>4. SeenFar'
      BY <1>1, <1>2, <1>3, <2>2, <3>2 DEF Reached, SeenFar
    <3>. QED BY <1>1, <3>1, <3>2, <3>3, <3>4
  <2>. QED BY <2>1, <2>2
<1>10. BehindInv'
  <2>1. ASSUME NEW p \in DOMAIN pools, Behind(p)' PROVE FALSE
    <3>1. p \notin to_update' /\ pools[p] # reserves[p]
      BY <1>1, <1>4, <2>1 DEF Behind
    <3>2. Behind(p) /\ p \notin changed
      BY <1>1, <3>1 DEF Behind
    <3>. QED BY <1>2, <3>2
  <2>. QED BY <1>1, <2>1 DEF BehindInv
<1>. QED BY <1>6, <1>7, <1>8, <1>9, <1>10 DEF IInv

\* The three polls of the main loop.
LEMMA PollsKeep == ASSUME IInv, FirstPoll \/ Drain \/ Await PROVE IInv'
<1>0. TypeOK /\ (pc = "loop" => to_update = {})
  BY DEF IInv, IdleInv
<1>1. ASSUME FirstPoll
      PROVE  \E changed \in SUBSET Pools, number \in 1..LastBlock : Polls(changed, number)
  <2>1. PICK changed \in SUBSET Pools, number \in 1..LastBlock :
          /\ get_changed_pools(changed, number)
          /\ last_block' = number
          /\ all_pools' = (far /\ changed # {})
          /\ changed_pools' = changed
          /\ to_update' = changed
          /\ pc' = CASE all_pools' -> "update"
                     [] changed = {} -> "await"
                     [] OTHER -> "drain"
    BY <1>1 DEF FirstPoll
  <2>2. pc = "loop" /\ UNCHANGED <<chainVars, pools, fetched, diskVars>>
    BY <1>1 DEF FirstPoll
  <2>3. all_pools' \in BOOLEAN
    BY <2>1, Zenon
  <2>4. ~(all_pools' /\ changed = {})
    BY <2>1, Zenon
  <2>5. pc' \in {"drain", "await", "update"} /\ (all_pools' => pc' = "update")
    BY <2>1, <2>4
  <2>6. far /\ changed # {} => all_pools'
    BY <2>1, Zenon
  <2>7. Polls(changed, number)
    BY <1>0, <2>1, <2>2, <2>3, <2>5, <2>6 DEF Polls
  <2>. QED BY <2>7
<1>2. ASSUME Drain
      PROVE  \E changed \in SUBSET Pools, number \in 1..LastBlock : Polls(changed, number)
  BY <1>0, <1>2 DEF Drain, Polls, TypeOK
<1>3. ASSUME Await
      PROVE  \E changed \in SUBSET Pools, number \in 1..LastBlock : Polls(changed, number)
  BY <1>0, <1>3 DEF Await, Polls, TypeOK
<1>. QED BY <1>1, <1>2, <1>3, PollKeeps

\* A pool that is read is not behind; one read earlier may be behind again.
LEMMA ReadPoolKeeps == ASSUME IInv, ReadPool PROVE IInv'
<1>0. TypeOK /\ IdleInv /\ NumberInv /\ SavedInv /\ BehindInv
  BY DEF IInv
<1>1. /\ pc = "update"
      /\ UNCHANGED <<block, reserves, alive, next, pc, pools, last_block, changed_pools,
                     to_update, all_pools, cached_block, saved_pools, saved_block>>
  BY DEF ReadPool, chainVars, filterVars, diskVars
<1>2. PICK p \in to_update \ DOMAIN fetched :
        fetched' = [q \in DOMAIN fetched \cup {p} |-> IF q = p THEN reserves[p]
                                                      ELSE fetched[q]]
  BY DEF ReadPool
<1>3. fetched' \in PoolDict
  <2>1. /\ DOMAIN fetched \subseteq Pools /\ \A q \in DOMAIN fetched : fetched[q] \in 0..LastBlock
        /\ p \in Pools /\ reserves[p] \in 0..LastBlock
    BY <1>0, DictIs DEF TypeOK
  <2>2. /\ fetched' \in [DOMAIN fetched \cup {p} -> 0..LastBlock]
        /\ DOMAIN fetched \cup {p} \in SUBSET Pools
    BY <1>2, <2>1
  <2>. QED BY <2>2, Zenon DEF PoolDict
<1>4. \A q \in DOMAIN pools : Behind(q)' => Behind(q)
  BY <1>1, <1>2 DEF Behind
<1>5. TypeOK'
  BY <1>0, <1>1, <1>3 DEF TypeOK
<1>6. IdleInv'
  BY <1>0, <1>1 DEF IdleInv, Running
<1>7. NumberInv'
  BY <1>0, <1>1 DEF NumberInv, Running, Polled
<1>8. SavedInv'
  BY <1>0, <1>1 DEF SavedInv, Reached, SeenFar, Running, Restarted
<1>9. BehindInv'
  BY <1>0, <1>1, <1>4
     DEF BehindInv, Reached, SeenFar, Running, Restarted, Polled, far, known_block
<1>. QED BY <1>5, <1>6, <1>7, <1>8, <1>9 DEF IInv

\* What is applied is behind exactly where the readings were.
LEMMA ApplyUpdatesKeeps == ASSUME IInv, ApplyUpdates PROVE IInv'
<1>0. TypeOK /\ IdleInv /\ NumberInv /\ SavedInv /\ BehindInv
  BY DEF IInv
<1>1. /\ pc = "update" /\ DOMAIN fetched = to_update
      /\ pc' = IF all_pools THEN "save" ELSE "search"
      /\ to_update' = {} /\ fetched' = EmptyDict /\ all_pools' = FALSE
      /\ pools' = [p \in DOMAIN pools |-> IF p \in to_update THEN fetched[p] ELSE pools[p]]
      /\ UNCHANGED <<block, reserves, alive, next, last_block, changed_pools,
                     cached_block, saved_pools, saved_block>>
  BY DEF ApplyUpdates, chainVars, filterVars, diskVars
<1>2. pools' \in PoolDict
  <2>1. /\ DOMAIN pools \subseteq Pools /\ \A p \in DOMAIN pools : pools[p] \in 0..LastBlock
        /\ \A p \in DOMAIN fetched : fetched[p] \in 0..LastBlock
    BY <1>0, DictIs DEF TypeOK
  <2>2. pools' \in [DOMAIN pools -> 0..LastBlock] /\ DOMAIN pools \in SUBSET Pools
    BY <1>1, <2>1
  <2>. QED BY <2>2, Zenon DEF PoolDict
<1>3. DOMAIN pools' = DOMAIN pools /\ \A p \in DOMAIN pools : Behind(p)' => Behind(p)
  BY <1>1 DEF Behind
<1>4. TypeOK'
  BY <1>0, <1>1, <1>2, EmptyIs DEF TypeOK
<1>5. IdleInv'
  BY <1>0, <1>1, <1>3 DEF IdleInv, Running
<1>6. NumberInv'
  BY <1>0, <1>1 DEF NumberInv, Running, Polled
<1>7. SavedInv'
  BY <1>0, <1>1 DEF SavedInv, Reached, SeenFar, Running, Restarted
<1>8. BehindInv'
  BY <1>0, <1>1, <1>3
     DEF BehindInv, Reached, SeenFar, Running, Restarted, Polled, far, known_block
<1>. QED BY <1>4, <1>5, <1>6, <1>7, <1>8 DEF IInv

\* The search leaves the pools alone.
LEMMA SearchKeeps == ASSUME IInv, Search PROVE IInv'
<1>0. TypeOK /\ IdleInv /\ NumberInv /\ SavedInv /\ BehindInv
  BY DEF IInv
<1>1. /\ pc = "search" /\ pc' \in {"loop", "save"}
      /\ UNCHANGED <<block, reserves, alive, next, pools, last_block, changed_pools,
                     to_update, fetched, all_pools, cached_block, saved_pools, saved_block>>
  BY DEF Search, chainVars, filterVars, diskVars
<1>2. TypeOK'
  BY <1>0, <1>1 DEF TypeOK
<1>3. IdleInv'
  BY <1>0, <1>1 DEF IdleInv, Running
<1>4. NumberInv'
  BY <1>0, <1>1 DEF NumberInv, Running, Polled
<1>5. SavedInv'
  BY <1>0, <1>1 DEF SavedInv, Reached, SeenFar, Running, Restarted
<1>6. BehindInv'
  BY <1>0, <1>1
     DEF BehindInv, Behind, Reached, SeenFar, Running, Restarted, Polled, far, known_block
<1>. QED BY <1>2, <1>3, <1>4, <1>5, <1>6 DEF IInv

\* The pools are saved before the block number: until that is saved too, the file
\* of the old number reports more than is needed.
LEMMA SavePoolsKeeps == ASSUME IInv, SavePools PROVE IInv'
<1>0. TypeOK /\ IdleInv /\ NumberInv /\ SavedInv /\ BehindInv
  BY DEF IInv
<1>1. /\ pc = "save" /\ pc' = "save_block" /\ saved_pools' = pools
      /\ UNCHANGED <<block, reserves, alive, next, pools, last_block, changed_pools,
                     to_update, fetched, all_pools, cached_block, saved_block>>
  BY DEF SavePools, chainVars, filterVars
<1>2. TypeOK'
  BY <1>0, <1>1 DEF TypeOK
<1>3. IdleInv'
  BY <1>0, <1>1 DEF IdleInv, Running
<1>4. NumberInv'
  BY <1>0, <1>1 DEF NumberInv, Running, Polled
<1>5. SavedInv'
  <2>. SUFFICES ASSUME NEW p \in DOMAIN pools, pools[p] # reserves[p]
       PROVE  reserves[p] >= saved_block /\ (cached_block # None => Reached)
    BY <1>1 DEF SavedInv, Reached
  <2>1. Behind(p)
    BY <1>0, <1>1 DEF IdleInv, Behind
  <2>2. reserves[p] >= last_block /\ (cached_block # None => Reached)
    BY <1>0, <1>1, <2>1 DEF BehindInv, Running, Restarted
  <2>3. saved_block <= last_block /\ p \in Pools
    BY <1>0, <1>1, DictIs DEF NumberInv, Running, TypeOK
  <2>. QED BY <1>0, <2>2, <2>3, Numbers
<1>6. BehindInv'
  BY <1>0, <1>1
     DEF BehindInv, Behind, Reached, SeenFar, Running, Restarted, Polled, far, known_block
<1>. QED BY <1>2, <1>3, <1>4, <1>5, <1>6 DEF IInv

\* The block before last_block is saved: what main has not read came later.
LEMMA SaveLastBlockKeeps == ASSUME IInv, SaveLastBlock PROVE IInv'
<1>0. TypeOK /\ IdleInv /\ NumberInv /\ SavedInv /\ BehindInv
  BY DEF IInv
<1>1. /\ pc = "save_block" /\ pc' = "loop" /\ saved_block' = last_block - 1
      /\ UNCHANGED <<block, reserves, alive, next, pools, last_block, changed_pools,
                     to_update, fetched, all_pools, cached_block, saved_pools>>
  BY DEF SaveLastBlock, chainVars, filterVars
<1>2. /\ {block, next, last_block, cached_block, saved_block, MaxBlocks} \subseteq Nat
      /\ None = 0 /\ last_block <= block /\ \A p \in Pools : reserves[p] \in Nat
  BY <1>0, Numbers
<1>3. /\ last_block = cached_block /\ cached_block # None /\ last_block >= 1
      /\ alive => next >= last_block /\ next <= block + 1
  BY <1>0, <1>1, <1>2 DEF NumberInv, Running, Polled
<1>4. ASSUME NEW p \in DOMAIN pools, Behind(p)
      PROVE  /\ p \in Pools /\ reserves[p] > last_block
             /\ block < last_block + MaxBlocks /\ (alive => reserves[p] >= next \/ far)
  BY <1>0, <1>1, <1>4, DictIs DEF BehindInv, Running, Polled, TypeOK
<1>5. TypeOK'
  <2>1. saved_block' \in 0..block
    BY <1>1, <1>2, <1>3
  <2>. QED BY <1>0, <1>1, <2>1 DEF TypeOK
<1>6. IdleInv'
  BY <1>0, <1>1 DEF IdleInv, Running
<1>7. NumberInv'
  BY <1>0, <1>1, <1>2, <1>3 DEF NumberInv, Running, Polled
<1>8. SavedInv'
  <2>. SUFFICES ASSUME NEW p \in DOMAIN saved_pools, saved_pools[p] # reserves[p]
       PROVE  reserves[p] >= last_block - 1 /\ block <= (last_block - 1) + MaxBlocks
    BY <1>1 DEF SavedInv, Reached
  <2>1. p \in DOMAIN pools /\ Behind(p)
    BY <1>0, <1>1 DEF IdleInv, Behind
  <2>. QED BY <1>2, <1>4, <2>1
<1>9. BehindInv'
  <2>. SUFFICES ASSUME NEW p \in DOMAIN pools, Behind(p)
       PROVE  /\ reserves[p] >= last_block /\ (alive => reserves[p] >= next \/ far)
              /\ block <= (last_block - 1) + MaxBlocks
    BY <1>1 DEF BehindInv, Behind, Reached, Polled, far, known_block
  <2>. QED BY <1>2, <1>4
<1>. QED BY <1>5, <1>6, <1>7, <1>8, <1>9 DEF IInv

\* A main() that starts anew holds nothing; the program's cache may be left.
LEMMA RestartKeeps == ASSUME IInv, Disconnect \/ Crash PROVE IInv'
<1>0. TypeOK /\ IdleInv /\ NumberInv /\ SavedInv /\ BehindInv
  BY DEF IInv
<1>1. /\ pc' = "start" /\ pools' = EmptyDict /\ last_block' = 0
      /\ changed_pools' = {} /\ to_update' = {} /\ fetched' = EmptyDict
      /\ all_pools' = FALSE /\ alive' = FALSE /\ next' = 0
      /\ UNCHANGED <<block, reserves, saved_pools, saved_block>>
      /\ cached_block' = cached_block \/ cached_block' = None
  BY DEF Disconnect, Crash, Forget, chainVars, diskVars
<1>2. {block, LastBlock, cached_block} \subseteq Nat /\ None = 0
  BY <1>0, Numbers
<1>3. TypeOK'
  <2>1. pools' \in PoolDict /\ fetched' \in PoolDict
    BY <1>1, EmptyIs, Zenon
  <2>2. last_block' \in 0..block /\ cached_block' \in 0..block /\ next' \in 0..LastBlock + 1
    BY <1>0, <1>1, <1>2, Numbers
  <2>. QED BY <1>0, <1>1, <2>1, <2>2 DEF TypeOK
<1>4. IdleInv'
  BY <1>0, <1>1 DEF IdleInv, Running
<1>5. NumberInv'
  BY <1>0, <1>1 DEF NumberInv, Running, Polled
<1>6. SavedInv'
  BY <1>0, <1>1 DEF SavedInv, Reached, SeenFar, Running, Restarted
<1>7. BehindInv'
  BY <1>1 DEF BehindInv, Running
<1>. QED BY <1>3, <1>4, <1>5, <1>6, <1>7 DEF IInv

\* Every step keeps the invariant.
LEMMA StepKeeps == ASSUME IInv, [Next]_vars, ~LongGaps PROVE IInv'
<1>1. CASE NewBlock
  BY <1>1, NewBlockKeeps
<1>2. CASE DropFilter \/ Main \/ PollPools \/ Disconnect \/ Crash
  BY <1>2, DropFilterKeeps, ConnectKeeps, LoadDataKeeps, PollPoolsKeeps, PollsKeep,
     ReadPoolKeeps, ApplyUpdatesKeeps, SearchKeeps, SavePoolsKeeps, SaveLastBlockKeeps,
     RestartKeeps, Zenon DEF Main
<1>3. CASE UNCHANGED vars
  <2>. USE <1>3 DEF IInv, vars, chainVars, filterVars, mainVars, diskVars
  <2>1. TypeOK'
    BY DEF TypeOK
  <2>2. IdleInv'
    BY DEF IdleInv, Running
  <2>3. NumberInv'
    BY DEF NumberInv, Running, Polled
  <2>4. SavedInv'
    BY DEF SavedInv, Reached, SeenFar, Running, Restarted
  <2>5. BehindInv'
    BY DEF BehindInv, Behind, Reached, SeenFar, Running, Restarted, Polled, far, known_block
  <2>. QED BY <2>1, <2>2, <2>3, <2>4, <2>5
<1>. QED BY <1>1, <1>2, <1>3 DEF Next

-----------------------------------------------------------------------------
(* The theorems                                                              *)

\* The inductive invariant: what main, or a file, does not have of the chain is in
\* the blocks that the next filter reports, or get_changed_pools reads all pools.
THEOREM Invariance ==
  ASSUME ~LongGaps
  PROVE  Spec => []IInv
<1>1. IInv /\ [Next]_vars => IInv'
  BY StepKeeps
<1>. QED BY <1>1, Initially, PTL DEF Spec

\* The type invariant.
THEOREM TypeCorrect ==
  ASSUME ~LongGaps
  PROVE  Spec => []TypeOK
<1>1. IInv => TypeOK
  BY DEF IInv
<1>. QED BY <1>1, Invariance, PTL

\* main never misses a change: over polls that only note changes, dropped filters,
\* broken connections and restarts from the files.
THEOREM NoChangeIsLost ==
  ASSUME ~LongGaps
  PROVE  Spec => []NoLostChange
<1>1. IInv => NoLostChange
  <2>. SUFFICES ASSUME IInv, Running, NEW p \in DOMAIN pools, Stale(p), ~Reading(p)
                PROVE  Reported(p)
    BY DEF NoLostChange, Running
  <2>1. Behind(p)
    BY DEF Stale, Reading, Behind
  <2>2. /\ reserves[p] >= last_block /\ (alive => reserves[p] >= next \/ far)
        /\ cached_block # None => Reached \/ (SeenFar /\ Restarted)
    BY <2>1 DEF IInv, BehindInv
  <2>3. /\ {block, next, last_block, cached_block, saved_block, MaxBlocks} \subseteq Nat
        /\ saved_block <= last_block /\ p \in Pools /\ reserves[p] \in Nat
    BY Numbers, DictIs DEF IInv, TypeOK, NumberInv
  <2>4. CASE far
    BY <2>4 DEF Reported
  <2>5. CASE ~far
    <3>1. block <= last_block + MaxBlocks
      BY <2>2, <2>3, <2>5 DEF far, known_block, Reached, SeenFar, Restarted
    <3>. QED BY <2>2, <2>3, <2>5, <3>1 DEF Reported, polled_from, create_pool_sync_filter
  <2>. QED BY <2>4, <2>5
<1>. QED BY <1>1, Invariance, PTL

\* The files allow a restart at any moment, also between save_pools and
\* save_last_block.
THEOREM FilesAreReplayable ==
  ASSUME ~LongGaps
  PROVE  Spec => []SavedIsReplayable
<1>1. IInv => SavedIsReplayable
  BY DEF IInv, SavedInv, SavedIsReplayable
<1>. QED BY <1>1, Invariance, PTL

\* What is searched is current up to last_block, though the pools are read in
\* several requests while the chain goes on.
THEOREM SearchIsCurrent ==
  ASSUME ~LongGaps
  PROVE  Spec => []SearchUpToLastBlock
<1>1. IInv => SearchUpToLastBlock
  <2>. SUFFICES ASSUME IInv, pc = "search", NEW p \in DOMAIN pools, Stale(p)
                PROVE  reserves[p] > last_block
    BY DEF SearchUpToLastBlock
  <2>1. Behind(p)
    BY DEF IInv, IdleInv, Stale, Behind
  <2>. QED BY <2>1 DEF IInv, BehindInv, Running, Polled
<1>. QED BY <1>1, Invariance, PTL

-----------------------------------------------------------------------------
(* The loops that poll come to an end                                        *)

\* While main() runs, the filter and the cached block are not behind last_block,
\* and the chain is no further ahead of last_block than a filter reaches: only
\* where main has just started, and no filter reports anything before the next
\* block, may it be.
NearInv ==
  /\ Running => /\ alive => next >= last_block
                /\ cached_block # None => cached_block >= last_block
  /\ Running /\ cached_block # None =>
       \/ block <= last_block + MaxBlocks
       \/ pc \in {"loop", "await"} /\ (alive => next > block)
  /\ pc = "load" /\ alive /\ cached_block # None =>
       block <= saved_block + MaxBlocks \/ next > block

\* What a poll returns is not older than last_block; it has no changes when the
\* filter has nothing to report.
LEMMA PollIsNewer ==
  ASSUME IInv, NearInv, Running, NEW changed, NEW number \in 1..LastBlock,
         get_changed_pools(changed, number)
  PROVE  /\ number >= last_block
         /\ ~far => next' = block + 1
         /\ ~far /\ alive /\ next > block => changed = {}
         /\ ~far /\ ~alive /\ block > last_block + MaxBlocks => changed = {}
<1>0. TypeOK /\ NumberInv /\ BehindInv
  BY DEF IInv
<1>1. /\ {block, next, last_block, cached_block, MaxBlocks} \subseteq Nat
      /\ last_block <= block
  BY <1>0, Numbers
<1>2. known_block \in Nat /\ known_block >= last_block
  BY <1>1 DEF known_block, NearInv
<1>3. CASE far
  BY <1>1, <1>3, PollSeesAll
<1>4. CASE ~far
  <2>1. /\ changed = get_new_entries \cap DOMAIN pools
        /\ number = IF get_new_entries = {} THEN known_block
                    ELSE Max({reserves[p] : p \in get_new_entries})
        /\ next' = block + 1
    BY <1>4, Zenon DEF get_changed_pools
  <2>2. /\ polled_from \in Nat /\ polled_from >= last_block
        /\ alive => polled_from = next
        /\ ~alive /\ block > last_block + MaxBlocks => polled_from > block
    BY <1>1 DEF polled_from, create_pool_sync_filter, NearInv
  <2>3. \A p \in Pools : reserves[p] \in 0..block
    BY <1>0, <1>1, Numbers DEF NumberInv
  <2>4. polled_from > block => get_new_entries = {}
    BY <1>1, <2>2, <2>3 DEF get_new_entries
  <2>5. number >= last_block
    <3>1. CASE get_new_entries = {}
      BY <1>2, <2>1, <3>1
    <3>2. CASE get_new_entries # {}
      <4>. DEFINE S == {reserves[p] : p \in get_new_entries}
      <4>1. S \subseteq 0..block /\ S # {} /\ \A x \in S : x >= polled_from
        BY <2>3, <3>2 DEF get_new_entries
      <4>2. Max(S) \in S
        BY <1>1, <4>1, MaxIs
      <4>3. number = Max(S)
        BY <2>1, <3>2
      <4>. HIDE DEF S
      <4>. QED BY <1>1, <2>2, <4>1, <4>2, <4>3
    <3>. QED BY <3>1, <3>2
  <2>. QED BY <1>1, <1>4, <2>1, <2>2, <2>4, <2>5
<1>. QED BY <1>3, <1>4

\* While main notes what changed in the meantime, the chain never seems to be too
\* far ahead to ask the filter.
LEMMA DrainIsNear ==
  ASSUME IInv, NearInv, pc = "drain"
  PROVE  ~far
<1>1. /\ {block, last_block, cached_block, MaxBlocks} \subseteq Nat
      /\ cached_block <= block
  BY Numbers DEF IInv
<1>2. cached_block # None /\ block <= last_block + MaxBlocks
  BY DEF IInv, NumberInv, NearInv, Running
<1>. QED BY <1>1, <1>2 DEF far, known_block

\* After a poll that returns changes the chain is near last_block.
LEMMA PollNears ==
  ASSUME IInv, NearInv, NEW changed \in SUBSET Pools, NEW number \in 1..LastBlock,
         Polls(changed, number), changed = {} => pc' = "await"
  PROVE  NearInv'
<1>1. /\ pc \in {"loop", "drain", "await"} /\ pc' \in {"drain", "await", "update"}
      /\ Running /\ get_changed_pools(changed, number)
      /\ \/ last_block' = number
         \/ pc = "drain" /\ last_block' = last_block
      /\ UNCHANGED <<block, saved_block>>
  BY DEF Polls, Running, chainVars, diskVars
<1>2. /\ number <= block /\ alive' = TRUE /\ cached_block' = number
      /\ next' \in Nat /\ next' >= number /\ next' <= block + 1
      /\ far => number = block
  BY <1>1, PollSeesAll
<1>3. /\ number >= last_block /\ (~far => next' = block + 1)
      /\ ~far /\ alive /\ next > block => changed = {}
      /\ ~far /\ ~alive /\ block > last_block + MaxBlocks => changed = {}
  BY <1>1, PollIsNewer
<1>4. /\ {block, next, last_block, cached_block, MaxBlocks} \subseteq Nat
      /\ number \in Nat /\ last_block <= block /\ cached_block <= block /\ None = 0
  BY Numbers DEF IInv
<1>5. next' >= last_block' /\ cached_block' >= last_block'
  BY <1>1, <1>2, <1>3, <1>4
<1>6. block <= last_block' + MaxBlocks \/ (pc' = "await" /\ next' > block)
  <2>1. CASE far
    BY <1>1, <1>2, <1>3, <1>4, <2>1, DrainIsNear
  <2>2. CASE ~far /\ block <= last_block + MaxBlocks
    BY <1>1, <1>3, <1>4, <2>2
  <2>3. CASE ~far /\ ~(block <= last_block + MaxBlocks)
    <3>1. cached_block # None
      BY <1>4, <2>3 DEF far, known_block
    <3>2. alive => next > block
      BY <1>1, <2>3, <3>1 DEF NearInv
    <3>3. changed = {}
      BY <1>3, <1>4, <2>3, <3>2
    <3>. QED BY <1>3, <1>4, <2>3, <3>3
  <2>. QED BY <2>1, <2>2, <2>3
<1>. QED BY <1>1, <1>5, <1>6 DEF NearInv

\* The three polls.
LEMMA PollsNear == ASSUME IInv, NearInv, FirstPoll \/ Drain \/ Await PROVE NearInv'
<1>0. TypeOK /\ (pc = "loop" => to_update = {})
  BY DEF IInv, IdleInv
<1>1. CASE FirstPoll
  <2>1. PICK changed \in SUBSET Pools, number \in 1..LastBlock :
          /\ get_changed_pools(changed, number)
          /\ last_block' = number
          /\ all_pools' = (far /\ changed # {})
          /\ changed_pools' = changed
          /\ to_update' = changed
          /\ pc' = CASE all_pools' -> "update"
                     [] changed = {} -> "await"
                     [] OTHER -> "drain"
    BY <1>1 DEF FirstPoll
  <2>2. pc = "loop" /\ UNCHANGED <<chainVars, pools, fetched, diskVars>>
    BY <1>1 DEF FirstPoll
  <2>3. all_pools' \in BOOLEAN
    BY <2>1, Zenon
  <2>4. ~(all_pools' /\ changed = {})
    BY <2>1, Zenon
  <2>5. /\ pc' \in {"drain", "await", "update"} /\ (all_pools' => pc' = "update")
        /\ changed = {} => pc' = "await"
    BY <2>1, <2>4
  <2>6. far /\ changed # {} => all_pools'
    BY <2>1, Zenon
  <2>7. Polls(changed, number)
    BY <1>0, <2>1, <2>2, <2>3, <2>5, <2>6 DEF Polls
  <2>. QED BY <2>5, <2>7, PollNears
<1>2. CASE Drain
  BY <1>0, <1>2, PollNears DEF Drain, Polls, TypeOK
<1>3. CASE Await
  BY <1>0, <1>3, PollNears DEF Await, Polls, TypeOK
<1>. QED BY <1>1, <1>2, <1>3

\* Every step keeps it.
LEMMA NearStep == ASSUME IInv, NearInv, [Next]_vars, ~LongGaps PROVE NearInv'
<1>0. /\ {block, next, last_block, cached_block, saved_block, MaxBlocks} \subseteq Nat
      /\ None = 0 /\ last_block <= block
  BY Numbers DEF IInv
<1>1. CASE NewBlock
  BY <1>0, <1>1 DEF NewBlock, NoLongGap, filterVars, mainVars, diskVars, NearInv, Running
<1>2. CASE Connect
  BY <1>0, <1>2 DEF Connect, create_pool_sync_filter, chainVars, diskVars, NearInv,
     Running
<1>3. CASE LoadData
  <2>1. /\ alive => next >= saved_block
        /\ cached_block # None => cached_block >= saved_block
    BY DEF IInv, NumberInv
  <2>2. /\ pc = "load" /\ pc' = "loop" /\ last_block' = saved_block
        /\ UNCHANGED <<block, alive, next, cached_block>>
    BY <1>3 DEF LoadData, chainVars, filterVars
  <2>3. /\ alive' => next' >= last_block'
        /\ cached_block' # None => cached_block' >= last_block'
    BY <2>1, <2>2
  <2>4. cached_block # None =>
          block <= saved_block + MaxBlocks \/ (alive => next > block)
    BY <2>2 DEF NearInv
  <2>. QED BY <2>2, <2>3, <2>4 DEF NearInv, Running
<1>4. CASE FirstPoll \/ Drain \/ Await
  BY <1>4, PollsNear
<1>5. CASE DropFilter
  BY <1>5 DEF DropFilter, chainVars, mainVars, diskVars, NearInv, Running
<1>6. CASE PollPools
  BY <1>6 DEF PollPools, chainVars, filterVars, NearInv, Running
<1>7. CASE ReadPool \/ ApplyUpdates \/ Search \/ SavePools \/ SaveLastBlock
  BY <1>7 DEF ReadPool, ApplyUpdates, Search, SavePools, SaveLastBlock, chainVars,
     filterVars, diskVars, NearInv, Running
<1>8. CASE Disconnect \/ Crash
  BY <1>8 DEF Disconnect, Crash, Forget, NearInv, Running
<1>9. CASE UNCHANGED vars
  BY <1>9 DEF vars, chainVars, filterVars, mainVars, diskVars, NearInv, Running
<1>. QED
  BY <1>1, <1>2, <1>3, <1>4, <1>5, <1>6, <1>7, <1>8, <1>9 DEF Next, Main

\* It holds in every reachable state.
LEMMA NearAlways == ASSUME ~LongGaps PROVE Spec => [](IInv /\ NearInv)
<1>1. Init => NearInv
  BY DEF Init, NearInv, Running
<1>2. IInv /\ NearInv /\ [Next]_vars => IInv' /\ NearInv'
  BY StepKeeps, NearStep
<1>. QED BY <1>1, <1>2, Initially, PTL DEF Spec

\* The loop that notes what changed in the meantime cannot go on by itself: it
\* polls once more only after a poll that reported a block, and a block is
\* reported by one poll only, so that two polls without a new block end it.
\* (LongGaps breaks this: when the chain seems too far ahead of last_block,
\* which that loop leaves alone, every poll returns all pools.)
THEOREM DrainRunsOut ==
  ASSUME ~LongGaps
  PROVE  Spec => [][pc = "drain" /\ pc' = "drain" /\ alive /\ alive' =>
                      \/ block' > block
                      \/ next <= block /\ next' = block + 1]_vars
<1>1. ASSUME IInv, NearInv, Next, pc = "drain", pc' = "drain", alive, alive'
      PROVE  block' > block \/ (next <= block /\ next' = block + 1)
  <2>0. block \in Nat /\ next \in Nat
    BY <1>1, Numbers DEF IInv
  <2>1. CASE NewBlock
    BY <2>0, <2>1 DEF NewBlock
  <2>2. CASE Drain
    <3>1. PICK changed \in SUBSET Pools, number \in 1..LastBlock :
            get_changed_pools(changed, number) /\ changed # {}
      BY <1>1, <2>2 DEF Drain
    <3>2. ~far /\ Running
      BY <1>1, DrainIsNear DEF Running
    <3>. QED BY <1>1, <2>0, <3>1, <3>2, PollIsNewer
  <2>3. NewBlock \/ Drain
    BY <1>1 DEF Next, Main, DropFilter, Connect, LoadData, FirstPoll, Await, ReadPool,
       ApplyUpdates, Search, SavePools, SaveLastBlock, PollPools, Disconnect, Crash,
       Forget
  <2>. QED BY <2>1, <2>2, <2>3
<1>2. IInv /\ NearInv /\ [Next]_vars =>
        [pc = "drain" /\ pc' = "drain" /\ alive /\ alive' =>
           \/ block' > block
           \/ next <= block /\ next' = block + 1]_vars
  BY <1>1
<1>. QED BY <1>2, NearAlways, PTL DEF Spec

\* A change that main has neither read nor noted ends the wait for one: the next
\* poll goes on to read it.
THEOREM ChangeEndsWait ==
  ASSUME ~LongGaps
  PROVE  Spec => [][/\ pc = "await" /\ alive /\ alive' /\ UNCHANGED chainVars
                    /\ \E p \in DOMAIN pools : pools[p] # reserves[p] /\ p \notin to_update
                    => pc' \in {"update", "start"}]_vars
<1>1. ASSUME IInv, Next, pc = "await", alive, alive', UNCHANGED chainVars,
             NEW p \in DOMAIN pools, pools[p] # reserves[p], p \notin to_update
      PROVE  pc' \in {"update", "start"}
  <2>1. CASE Await
    <3>1. PICK changed \in SUBSET Pools, number \in 1..LastBlock :
            /\ get_changed_pools(changed, number)
            /\ pc' = IF changed = {} THEN "await" ELSE "update"
      BY <2>1 DEF Await
    <3>2. Behind(p) /\ Running
      BY <1>1 DEF Behind, Running
    <3>3. p \in changed
      BY <1>1, <3>1, <3>2, PollSeesAll
    <3>. QED BY <3>1, <3>3
  <2>2. CASE Disconnect \/ Crash
    BY <2>2 DEF Disconnect, Crash, Forget
  <2>3. ~ NewBlock
    <3>1. block \in Nat
      BY <1>1, Numbers DEF IInv
    <3>. QED BY <1>1, <3>1 DEF NewBlock, chainVars
  <2>. QED
    BY <1>1, <2>1, <2>2, <2>3 DEF Next, Main, DropFilter, Connect, LoadData, FirstPoll,
       Drain, ReadPool, ApplyUpdates, Search, SavePools, SaveLastBlock, PollPools
<1>2. IInv /\ [Next]_vars =>
        [/\ pc = "await" /\ alive /\ alive' /\ UNCHANGED chainVars
         /\ \E p \in DOMAIN pools : pools[p] # reserves[p] /\ p \notin to_update
         => pc' \in {"update", "start"}]_vars
  BY <1>1
<1>. QED BY <1>2, Invariance, PTL DEF Spec
=============================================================================
