------------------------------ MODULE PoolSync ------------------------------
(***************************************************************************)
(* How the main process keeps its pools current with the chain (main.py,   *)
(* blockchain/changes.py, blockchain/ww3.py, persistance/pools.py and      *)
(* persistance/last_block.py).  A log filter on the node reports which     *)
(* pools emitted Sync since the last poll; the reported pools are read     *)
(* again from the chain.  The pools and the last block number are saved to *)
(* disk from time to time, and a restarted main() resumes from them: its   *)
(* new filter starts at the saved block.                                   *)
(*                                                                         *)
(* The chain and the node's filters are external.  The model follows the   *)
(* use made of them: a filter created from a block reports that block and  *)
(* every later one, one created from "latest" only the later ones, and a   *)
(* node may drop a filter.  The state of a pool is the number of the block *)
(* that last changed it.                                                   *)
(***************************************************************************)
EXTENDS Naturals, FiniteSets, FiniteSetsExt, Functions

CONSTANTS
  Pools,          \* addresses that emit Sync events
  MaxBlocks,      \* CONFIG["event_log"]["max_blocks"]
  LastBlock,      \* bound on the chain's length
  Disconnects,    \* TRUE: the connection to the node may fail
  FilterExpires,  \* TRUE: the node may drop the filter
  Crashes,        \* TRUE: the program may end and be started again
  LongGaps        \* TRUE: the chain may get more than MaxBlocks ahead of a
                  \* running program

None == 0         \* cached_block before the first poll
FirstBlock == 2   \* the chain's newest block at the start

ASSUME MaxBlocksAssumption == MaxBlocks \in Nat
ASSUME LastBlockAssumption == LastBlock \in Nat /\ LastBlock >= FirstBlock
ASSUME FailureAssumption ==
  /\ Disconnects \in BOOLEAN /\ FilterExpires \in BOOLEAN
  /\ Crashes \in BOOLEAN /\ LongGaps \in BOOLEAN

VARIABLES
  block,          \* the number of the chain's newest block
  reserves        \* the block that last changed each pool

VARIABLES
  alive,          \* the node still has the filter
  next            \* the first block the filter has not reported

VARIABLES
  pc,             \* where the main loop is
  pools,          \* the pools main knows, as it last read them
  last_block,     \* main's last_block
  changed_pools,  \* the answer of the last get_changed_pools
  to_update,      \* pools to read from the chain
  fetched,        \* the results of the multicall so far
  all_pools,      \* the update under way is of all pools
  cached_block    \* cache_last_block's closure: outlives main()

VARIABLES
  saved_pools,    \* data/pools.json
  saved_block     \* data/last_block.json

chainVars == <<block, reserves>>
filterVars == <<alive, next>>
mainVars == <<pc, pools, last_block, changed_pools, to_update, fetched,
              all_pools>>
diskVars == <<saved_pools, saved_block>>
vars == <<chainVars, filterVars, mainVars, cached_block, diskVars>>

PoolDict == UNION {[D -> 0..LastBlock] : D \in SUBSET Pools}
EmptyDict == [p \in {} |-> 0]

-----------------------------------------------------------------------------
(* The chain and the node                                                  *)

\* Without LongGaps the chain gets far ahead of the saved block, or of the
\* block main is at, only while the program is not running.
NoLongGap ==
  cached_block # None =>
    /\ block' <= saved_block + MaxBlocks
    /\ pc \notin {"start", "load"} => block' < last_block + MaxBlocks

\* A block with Sync events of the pools S.
NewBlock ==
  /\ block < LastBlock
  /\ block' = block + 1
  /\ LongGaps \/ NoLongGap
  /\ \E S \in SUBSET Pools :
       reserves' = [p \in Pools |-> IF p \in S THEN block' ELSE reserves[p]]
  /\ UNCHANGED <<filterVars, mainVars, cached_block, diskVars>>

\* The node drops the filter (it was not polled for a while).
DropFilter ==
  /\ FilterExpires /\ alive
  /\ alive' = FALSE
  /\ UNCHANGED <<chainVars, next, mainVars, cached_block, diskVars>>

\* The first block that a filter created from block number n reports: one too
\* far back is created from "latest".
create_pool_sync_filter(n) == IF block > n + MaxBlocks THEN block + 1 ELSE n

-----------------------------------------------------------------------------
(* blockchain.get_changed_pools                                            *)

known_block == IF cached_block = None THEN block ELSE cached_block

\* The saved or last seen block is too far back for the filter.
far == known_block > last_block + MaxBlocks

\* The first block the poll reports; a filter the node has dropped is created
\* again from last_block.
Bug_RestartsAtHead == IF alive THEN next ELSE block + 1

polled_from == IF alive THEN next ELSE create_pool_sync_filter(last_block)

Bug_NewestBlockOnly == {p \in Pools : reserves[p] = block}

get_new_entries == {p \in Pools : reserves[p] >= polled_from}

\* changed and number are what get_changed_pools returns.
get_changed_pools(changed, number) ==
  /\ \/ /\ far
        /\ changed = DOMAIN pools
        /\ number = block
        /\ next' = create_pool_sync_filter(block)
     \/ /\ ~far
        /\ changed = get_new_entries \cap DOMAIN pools
        /\ number = IF get_new_entries = {} THEN known_block
                    ELSE Max({reserves[p] : p \in get_new_entries})
        /\ next' = block + 1
  /\ alive' = TRUE
  /\ cached_block' = number

-----------------------------------------------------------------------------
(* main()                                                                  *)

\* Web3(new_singleton=True)
Connect ==
  /\ pc = "start"
  /\ next' = create_pool_sync_filter(saved_block)
  /\ alive' = TRUE
  /\ pc' = "load"
  /\ UNCHANGED <<chainVars, pools, last_block, changed_pools, to_update, fetched,
                 all_pools, cached_block, diskVars>>

\* loader.load_data(): without saved pools all are downloaded and read.
LoadData ==
  /\ pc = "load"
  /\ IF DOMAIN saved_pools # {} THEN pools' = saved_pools
     ELSE \E D \in SUBSET Pools : pools' = Restrict(reserves, D)
  /\ last_block' = saved_block
  /\ pc' = "loop"
  /\ UNCHANGED <<chainVars, filterVars, changed_pools, to_update, fetched,
                 all_pools, cached_block, diskVars>>

\* poll_pools(): new pools are added as they are now, pools of low liquidity
\* are dropped, and the pools are saved without a block number.
PollPools ==
  /\ pc = "loop"
  /\ \E D \in SUBSET Pools :
       pools' = [p \in D |-> IF p \in DOMAIN pools THEN pools[p] ELSE reserves[p]]
  /\ saved_pools' = pools'
  /\ UNCHANGED <<chainVars, filterVars, pc, last_block, changed_pools, to_update,
                 fetched, all_pools, cached_block, saved_block>>

\* The first poll of an iteration; its pools are only noted.
FirstPoll ==
  /\ pc = "loop"
  /\ \E changed \in SUBSET Pools, number \in 1..LastBlock :
       /\ get_changed_pools(changed, number)
       /\ last_block' = number
       /\ all_pools' = (far /\ changed # {})
       /\ changed_pools' = changed
       /\ to_update' = changed
       /\ pc' = CASE all_pools' -> "update"
                  [] changed = {} -> "await"
                  [] OTHER -> "drain"
  /\ UNCHANGED <<chainVars, pools, fetched, diskVars>>

Bug_DrainAccumulates ==
  /\ pc = "drain"
  /\ \E changed \in SUBSET Pools, number \in 1..LastBlock :
       /\ get_changed_pools(changed, number)
       /\ changed_pools' = changed_pools \cup changed
       /\ to_update' = to_update \cup changed
       /\ pc' = IF changed_pools' = {} THEN "await" ELSE "drain"
  /\ UNCHANGED <<chainVars, pools, last_block, fetched, all_pools, diskVars>>

\* while changed_pools: the changes so far are noted, last_block stays.
Drain ==
  /\ pc = "drain"
  /\ \E changed \in SUBSET Pools, number \in 1..LastBlock :
       /\ get_changed_pools(changed, number)
       /\ changed_pools' = changed
       /\ to_update' = to_update \cup changed
       /\ pc' = IF changed = {} THEN "await" ELSE "drain"
  /\ UNCHANGED <<chainVars, pools, last_block, fetched, all_pools, diskVars>>

Bug_UpdatesNewestOnly ==
  /\ pc = "await"
  /\ \E changed \in SUBSET Pools, number \in 1..LastBlock :
       /\ get_changed_pools(changed, number)
       /\ last_block' = number
       /\ changed_pools' = changed
       /\ to_update' = changed
       /\ pc' = IF changed = {} THEN "await" ELSE "update"
  /\ UNCHANGED <<chainVars, pools, fetched, all_pools, diskVars>>

\* while not changed_pools: the next change is the one to search.
Await ==
  /\ pc = "await"
  /\ \E changed \in SUBSET Pools, number \in 1..LastBlock :
       /\ get_changed_pools(changed, number)
       /\ last_block' = number
       /\ changed_pools' = changed
       /\ to_update' = to_update \cup changed
       /\ pc' = IF changed = {} THEN "await" ELSE "update"
  /\ UNCHANGED <<chainVars, pools, fetched, all_pools, diskVars>>

\* multicall.call reads the pools in several requests.
ReadPool ==
  /\ pc = "update"
  /\ \E p \in to_update \ DOMAIN fetched :
       fetched' = [q \in DOMAIN fetched \cup {p} |-> IF q = p THEN reserves[p]
                                                     ELSE fetched[q]]
  /\ UNCHANGED <<chainVars, filterVars, pc, pools, last_block, changed_pools,
                 to_update, all_pools, cached_block, diskVars>>

\* apply_updates; an update of all pools is saved, any other is searched.
ApplyUpdates ==
  /\ pc = "update" /\ DOMAIN fetched = to_update
  /\ pools' = [p \in DOMAIN pools |-> IF p \in to_update THEN fetched[p]
                                      ELSE pools[p]]
  /\ to_update' = {} /\ fetched' = EmptyDict
  /\ all_pools' = FALSE
  /\ pc' = IF all_pools THEN "save" ELSE "search"
  /\ UNCHANGED <<chainVars, filterVars, last_block, changed_pools, cached_block,
                 diskVars>>

\* Search, checks and execution; then save_pools() says whether to save.
Search ==
  /\ pc = "search"
  /\ pc' \in {"loop", "save"}
  /\ UNCHANGED <<chainVars, filterVars, pools, last_block, changed_pools,
                 to_update, fetched, all_pools, cached_block, diskVars>>

SavePools ==
  /\ pc = "save"
  /\ saved_pools' = pools
  /\ pc' = "save_block"
  /\ UNCHANGED <<chainVars, filterVars, pools, last_block, changed_pools,
                 to_update, fetched, all_pools, cached_block, saved_block>>

Bug_SavesHead ==
  /\ pc = "save_block"
  /\ saved_block' = block
  /\ pc' = "loop"
  /\ UNCHANGED <<chainVars, filterVars, pools, last_block, changed_pools,
                 to_update, fetched, all_pools, cached_block, saved_pools>>

Bug_SavesNext ==
  /\ pc = "save_block"
  /\ saved_block' = last_block + 1
  /\ pc' = "loop"
  /\ UNCHANGED <<chainVars, filterVars, pools, last_block, changed_pools,
                 to_update, fetched, all_pools, cached_block, saved_pools>>

\* save_last_block: the block before, so that last_block is reported again.
SaveLastBlock ==
  /\ pc = "save_block"
  /\ saved_block' = last_block - 1
  /\ pc' = "loop"
  /\ UNCHANGED <<chainVars, filterVars, pools, last_block, changed_pools,
                 to_update, fetched, all_pools, cached_block, saved_pools>>

\* main() starts anew: everything it held is gone.
Forget ==
  /\ pc' = "start"
  /\ pools' = EmptyDict /\ last_block' = 0
  /\ changed_pools' = {} /\ to_update' = {} /\ fetched' = EmptyDict
  /\ all_pools' = FALSE
  /\ alive' = FALSE /\ next' = 0
  /\ UNCHANGED <<chainVars, diskVars>>

\* A ConnectionError: main() waits and is called again by the same program.
Disconnect ==
  /\ Disconnects
  /\ pc \notin {"start", "save", "save_block"}
  /\ Forget
  /\ UNCHANGED cached_block

\* The program ends, by an exception or a signal, and is started again.
Crash ==
  /\ Crashes
  /\ pc # "start" \/ cached_block # None
  /\ Forget
  /\ cached_block' = None

-----------------------------------------------------------------------------
Init ==
  /\ block = FirstBlock /\ reserves = [p \in Pools |-> 0]
  /\ alive = FALSE /\ next = 0
  /\ pc = "start" /\ pools = EmptyDict /\ last_block = 0
  /\ changed_pools = {} /\ to_update = {} /\ fetched = EmptyDict
  /\ all_pools = FALSE /\ cached_block = None
  /\ \E D \in SUBSET Pools : saved_pools = [p \in D |-> 0]
  /\ saved_block = FirstBlock - 1

Main ==
  \/ Connect \/ LoadData \/ FirstPoll \/ Drain \/ Await
  \/ ReadPool \/ ApplyUpdates \/ Search \/ SavePools \/ SaveLastBlock

Next == NewBlock \/ DropFilter \/ Main \/ PollPools \/ Disconnect \/ Crash

\* The main loop keeps running.
Fairness == WF_vars(Main)

Spec == Init /\ [][Next]_vars
FairSpec == Spec /\ Fairness

-----------------------------------------------------------------------------
(* Properties                                                              *)

TypeOK ==
  /\ block \in FirstBlock..LastBlock /\ reserves \in [Pools -> 0..LastBlock]
  /\ alive \in BOOLEAN /\ next \in 0..LastBlock + 1
  /\ pc \in {"start", "load", "loop", "drain", "await", "update", "search",
             "save", "save_block"}
  /\ pools \in PoolDict /\ last_block \in 0..block
  /\ changed_pools \subseteq Pools /\ to_update \subseteq Pools
  /\ fetched \in PoolDict /\ all_pools \in BOOLEAN
  /\ cached_block \in 0..block
  /\ saved_pools \in PoolDict /\ saved_block \in 0..block

Stale(p) == pools[p] # reserves[p]

\* The main loop's next poll reports p.
Reported(p) == \/ far
               \/ reserves[p] >= polled_from

\* What has been read of p in the update under way is the chain's state.
Reading(p) == p \in to_update /\ (p \in DOMAIN fetched => fetched[p] = reserves[p])

\* A change of a pool that main knows is never lost: while main's copy differs
\* from the chain's, either the pool is waiting to be read or the next poll of
\* the filter reports it ("save all pools that have change to not miss
\* updating", main.py).
NoLostChange ==
  pc \notin {"start", "load"} =>
    \A p \in DOMAIN pools : Stale(p) => Reading(p) \/ Reported(p)

\* The files allow a restart at any moment: a saved pool that has changed since
\* it was saved changed in a block that the filter of a new main() starts
\* from, or later.
SavedIsReplayable ==
  \A p \in DOMAIN saved_pools :
    saved_pools[p] # reserves[p] => reserves[p] >= saved_block

\* What is searched is current to the block the main loop believes it is at: no
\* pool misses a change of last_block or of an earlier block.
SearchUpToLastBlock ==
  pc = "search" =>
    \A p \in DOMAIN pools : Stale(p) => reserves[p] > last_block

\* The first loop, that notes what changed in the meantime, ends, unless main()
\* starts anew or the filter has to be created again.
DrainEnds == pc = "drain" ~> pc \in {"await", "start"} \/ ~alive

\* While the main loop waits, a change of a pool it knows leads to a search, with
\* the same exceptions.
ChangeIsSearched ==
  pc = "await" /\ (\E p \in DOMAIN pools : Stale(p) /\ Reported(p))
    ~> pc \in {"search", "start"} \/ ~alive
=============================================================================
