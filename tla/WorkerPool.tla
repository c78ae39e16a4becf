----------------------------- MODULE WorkerPool -----------------------------
(***************************************************************************)
(* The bot's main process and its pool of search workers (main.py,         *)
(* core/processes.py).  Every worker process keeps a replica of the pools  *)
(* (POOLS[network]) and of the pool-to-paths mapping (PATHS[network]); the *)
(* main process keeps the replicas current with broadcasts: N equal tasks  *)
(* put on the shared task queue, where a task marks its worker's slot of   *)
(* finish_arr and spins until every slot is marked, so that one worker     *)
(* cannot take two of them.  A search has no such barrier: its tasks claim *)
(* consecutive chunks of the unique paths under a lock.                    *)
(*                                                                         *)
(* A worker that dies is replaced by the multiprocessing pool: the new     *)
(* process runs init_process, gets the next value of the ID counter (so a  *)
(* value beyond N) and starts with empty globals; the task is lost.        *)
(***************************************************************************)
EXTENDS Naturals, FiniteSets, Sequences, Lists

CONSTANTS
  N,              \* CONFIG["multiprocessing"]["workers"]
  Pools,          \* pool addresses
  Reserves,       \* what a pool's entry can hold (reserves, fee numerator)
  Paths,          \* arbitrage paths
  PoolsOf,        \* the pools a path goes through
  PathOrder,      \* the order in which build_paths finds the paths
  PoolOrder,      \* the order of the keys of a pools dict
  SameHashSeed,   \* TRUE: workers are forked and share the string hash seed
  MaxDeaths,      \* bound on the worker deaths of a behaviour
  Absent          \* no entry for the network in a worker's global

Procs == 1..N
PoolDict == UNION {[D -> Reserves] : D \in SUBSET Pools}

ASSUME NAssumption == N \in Nat \ {0}
ASSUME DeathsAssumption == MaxDeaths \in Nat
ASSUME AbsentAssumption ==
  /\ Absent \notin PoolDict
  /\ \A D \in SUBSET Pools : Absent \notin [D -> Seq(Paths)]
ASSUME PathsAssumption ==
  /\ IsFiniteSet(Paths) /\ PoolsOf \in [Paths -> SUBSET Pools]
  /\ PathOrder \in Seq(Paths) /\ ToSet(PathOrder) = Paths
  /\ PoolOrder \in Seq(Pools) /\ ToSet(PoolOrder) = Pools

VARIABLES
  pc,             \* where the main loop is
  pools,          \* main's pools
  pool_to_paths,  \* main's mapping
  blacklist,      \* blacklist_paths
  saved_blacklist,\* the blacklist file
  changed,        \* changed_pools, kept from the update for the search
  to_blacklist    \* paths blacklisted by the last check

mainVars == <<pc, pools, pool_to_paths, blacklist, saved_blacklist, changed,
              to_blacklist>>

VARIABLES
  op, arg,        \* the call main waits for, and what it sends
  queue,          \* tasks no worker has taken
  left,           \* tasks without an answer (MapResult._number_left)
  answers,        \* how many answers carried each ID
  raised,         \* some task answered with an exception
  finish_arr,     \* the barrier's shared array
  lock,           \* holder of the search's lock, 0 when free
  last_idx,       \* first index no search task has claimed
  searched        \* how many tasks of the last search searched each path

callVars == <<op, arg, queue, left, answers, raised, finish_arr, lock,
              last_idx, searched>>

VARIABLES
  wpc,            \* where each worker process is
  ID,             \* its global ID
  POOLS, PATHS,   \* its replicas
  start_idx,      \* where its chunk starts
  hash_order,     \* the order in which it iterates over a set of paths
  counter,        \* the value init_process reads next
  deaths

workerVars == <<wpc, ID, POOLS, PATHS, start_idx, hash_order, counter, deaths>>
vars == <<mainVars, callVars, workerVars>>

BarrierOps == {"share_pools", "share_paths", "update_pools",
               "remove_blacklisted"}

-----------------------------------------------------------------------------
(* Data                                                                    *)

\* dict.update
Updated(d, new) ==
  [a \in DOMAIN d \cup DOMAIN new |->
     IF a \in DOMAIN new THEN new[a] ELSE d[a]]

Only(d, S) == [a \in S |-> d[a]]

EmptyDict == [a \in {} |-> a]

\* What a call sends: pools (share_pools, update_pools, search_arbs), a mapping
\* (share_paths) or paths to remove (remove_blacklisted).
NoArg == [pools |-> EmptyDict, paths |-> EmptyDict, gone |-> {}]
SendPools(d) == [NoArg EXCEPT !.pools = d]
SendPaths(p2p) == [NoArg EXCEPT !.paths = p2p]
SendGone(S) == [NoArg EXCEPT !.gone = S]

\* The paths of the graph that are not blacklisted, under each of their pools.
Bug_ForgetsBlacklist(d, bl) ==
  LET found == {q \in Paths : PoolsOf[q] \subseteq DOMAIN d}
  IN  [a \in UNION {PoolsOf[q] : q \in found} |->
         Kept(PathOrder, {q \in found : a \in PoolsOf[q]})]

build_paths(d, bl) ==
  LET found == {q \in Paths \ bl : PoolsOf[q] \subseteq DOMAIN d}
  IN  [a \in UNION {PoolsOf[q] : q \in found} |->
         Kept(PathOrder, {q \in found : a \in PoolsOf[q]})]

\* Every tuple that loses a path is rebuilt from a set, so its paths come out
\* in the order in which this process hashes them.
remove_from_paths(p2p, gone, order) ==
  [a \in DOMAIN p2p |->
     IF ToSet(p2p[a]) \cap gone = {} THEN p2p[a]
     ELSE Kept(order, ToSet(p2p[a]) \ gone)]

\* The paths through the changed pools, each once, in order of discovery.
get_unique_paths(new, p2p) ==
  LET keys == Kept(PoolOrder, DOMAIN new \cap DOMAIN p2p)
      add(seen, q) == IF Contains(seen, q) THEN seen ELSE Append(seen, q)
  IN  FoldLeft(add, <<>>, FlattenSeq([i \in DOMAIN keys |-> p2p[keys[i]]]))

\* ceil(len(unique_paths) / workers_count)
Bug_FloorChunk(unique) == Len(unique) \div N

chunk_size(unique) == (Len(unique) + N - 1) \div N

\* unique_paths[start_idx:end_idx]
Chunk(p) ==
  LET unique == get_unique_paths(arg.pools, PATHS[p])
      from   == start_idx[p]
      upto   == start_idx[p] + chunk_size(unique)
  IN  {unique[i] : i \in {j \in DOMAIN unique : from < j /\ j <= upto}}

-----------------------------------------------------------------------------
(* The main process                                                        *)

\* starmap or apply_async of N equal tasks, with a fresh finish_arr, lock and
\* last_idx; main then waits for the call to return.
Broadcast(o, a) ==
  /\ op = "none" /\ op' = o /\ arg' = a
  /\ queue' = N /\ left' = N
  /\ answers' = [i \in Procs |-> 0]
  /\ raised' = FALSE
  /\ finish_arr' = [i \in Procs |-> 0]
  /\ lock' = 0 /\ last_idx' = 0
  /\ searched' = [q \in Paths |-> 0]
  /\ pc' = "call"
  /\ UNCHANGED workerVars

\* loader.load_data: the pools as last saved (or downloaded), the saved
\* blacklist.
LoadData ==
  /\ pc = "load"
  /\ pools' \in PoolDict
  /\ blacklist' = saved_blacklist
  /\ changed' = EmptyDict /\ to_blacklist' = {}
  /\ pc' = "share"
  /\ UNCHANGED <<pool_to_paths, saved_blacklist, callVars, workerVars>>

SharePools ==
  /\ pc = "share"
  /\ Broadcast("share_pools", SendPools(pools))
  /\ UNCHANGED <<pools, pool_to_paths, blacklist, saved_blacklist, changed,
                 to_blacklist>>

SharePaths ==
  /\ pc = "build"
  /\ pool_to_paths' = build_paths(pools, blacklist)
  /\ Broadcast("share_paths", SendPaths(pool_to_paths'))
  /\ UNCHANGED <<pools, blacklist, saved_blacklist, changed, to_blacklist>>

\* poll_pools(): new pools are added and pools of low liquidity dropped, then
\* pools and paths are shared from scratch.
PollPools ==
  /\ pc = "loop"
  /\ \E D \in SUBSET Pools : \E fresh \in [D -> Reserves] :
       pools' = [a \in D |-> IF a \in DOMAIN pools THEN pools[a] ELSE fresh[a]]
  /\ pc' = "share"
  /\ UNCHANGED <<pool_to_paths, blacklist, saved_blacklist, changed,
                 to_blacklist, callVars, workerVars>>

\* get_changed_pools found the saved block too far away: every pool is updated
\* and nothing is searched.
UpdateAllPools ==
  /\ pc = "loop" /\ DOMAIN pools # {}
  /\ pools' \in [DOMAIN pools -> Reserves]
  /\ changed' = EmptyDict
  /\ Broadcast("update_pools", SendPools(pools'))
  /\ UNCHANGED <<pool_to_paths, blacklist, saved_blacklist, to_blacklist>>

Bug_SendsLastBatch ==
  /\ pc = "loop"
  /\ \E to_update \in SUBSET DOMAIN pools : \E last \in SUBSET to_update :
       /\ last # {}
       /\ \E new \in [to_update -> Reserves] :
            /\ pools' = Updated(pools, new)
            /\ changed' = Only(new, last)
            /\ Broadcast("update_pools", SendPools(Only(new, last)))
  /\ UNCHANGED <<pool_to_paths, blacklist, saved_blacklist, to_blacklist>>

\* The pools of all the batches drained are updated, those of the last batch
\* are searched.
UpdateChangedPools ==
  /\ pc = "loop"
  /\ \E to_update \in SUBSET DOMAIN pools : \E last \in SUBSET to_update :
       /\ last # {}
       /\ \E new \in [to_update -> Reserves] :
            /\ pools' = Updated(pools, new)
            /\ changed' = Only(new, last)
            /\ Broadcast("update_pools", SendPools(new))
  /\ UNCHANGED <<pool_to_paths, blacklist, saved_blacklist, to_blacklist>>

SearchArbs ==
  /\ pc = "search"
  /\ Broadcast("search_arbs", SendPools(changed))
  /\ changed' = EmptyDict
  /\ UNCHANGED <<pools, pool_to_paths, blacklist, saved_blacklist,
                 to_blacklist>>

\* check_arbs blacklists some of the paths that were searched (in memory).
CheckArbs ==
  /\ pc = "check"
  /\ to_blacklist' \in SUBSET {q \in Paths : searched[q] > 0}
  /\ blacklist' = blacklist \cup to_blacklist'
  /\ pc' = IF to_blacklist' = {} THEN "loop" ELSE "execute"
  /\ searched' = [q \in Paths |-> 0]
  /\ UNCHANGED <<pools, pool_to_paths, saved_blacklist, changed, op, arg, queue,
                 left, answers, raised, finish_arr, lock, last_idx,
                 workerVars>>

\* After the execution of the potential arbitrages: the blacklist is saved and
\* the workers drop its new paths; main drops them from its own mapping too.
RemoveBlacklisted ==
  /\ pc = "execute"
  /\ saved_blacklist' = blacklist
  /\ pool_to_paths' = remove_from_paths(pool_to_paths, to_blacklist, PathOrder)
  /\ Broadcast("remove_blacklisted", SendGone(to_blacklist))
  /\ to_blacklist' = {}
  /\ UNCHANGED <<pools, blacklist, changed>>

\* The call returns when every task has answered, and its shared objects are
\* dropped.  A task's exception is raised by starmap and ends the program;
\* remove_blacklisted only waits.
Return ==
  /\ op # "none" /\ left = 0
  /\ op' = "none" /\ arg' = NoArg
  /\ answers' = [i \in Procs |-> 0] /\ raised' = FALSE
  /\ finish_arr' = [i \in Procs |-> 0] /\ lock' = 0 /\ last_idx' = 0
  /\ pc' = CASE raised /\ op # "remove_blacklisted" -> "exit"
             [] op = "share_pools" /\ ~raised -> "build"
             [] op = "share_paths" /\ ~raised -> "loop"
             [] op = "update_pools" /\ ~raised ->
                  IF changed = EmptyDict THEN "loop" ELSE "search"
             [] op = "search_arbs" /\ ~raised -> "check"
             [] op = "remove_blacklisted" -> "loop"
  /\ UNCHANGED <<pools, pool_to_paths, blacklist, saved_blacklist, changed,
                 to_blacklist, queue, left, searched, workerVars>>

\* A ConnectionError between two calls: main() is run again, with the same
\* workers.
Restart ==
  /\ pc \in {"build", "loop", "search", "check", "execute"}
  /\ pc' = "load"
  /\ UNCHANGED <<pools, pool_to_paths, blacklist, saved_blacklist, changed,
                 to_blacklist, callVars, workerVars>>

-----------------------------------------------------------------------------
(* A worker process                                                        *)

TakeTask(p) ==
  /\ wpc[p] = "idle" /\ queue > 0
  /\ queue' = queue - 1
  /\ wpc' = [wpc EXCEPT ![p] = "run"]
  /\ UNCHANGED <<mainVars, op, arg, left, answers, raised, finish_arr, lock,
                 last_idx, searched, ID, POOLS, PATHS, start_idx, hash_order,
                 counter, deaths>>

\* The task ends with an exception.
Raise(p) ==
  /\ raised' = TRUE
  /\ left' = left - 1
  /\ wpc' = [wpc EXCEPT ![p] = "idle"]
  /\ UNCHANGED <<mainVars, op, arg, queue, answers, finish_arr, lock, last_idx,
                 searched, ID, start_idx, hash_order, counter, deaths>>

Bug_AnswersAgain(p) ==
  /\ left' = left - 1
  /\ answers' = [answers EXCEPT ![ID[p]] = @ + 1]
  /\ UNCHANGED wpc

\* The task returns its worker's ID.
Answer(p) ==
  /\ left' = left - 1
  /\ answers' = [answers EXCEPT ![ID[p]] = @ + 1]
  /\ wpc' = [wpc EXCEPT ![p] = "idle"]

\* What the broadcast makes of the worker's POOLS and PATHS.
NewPOOLS(p) ==
  CASE op = "share_pools"  -> arg.pools
    [] op = "update_pools" -> IF POOLS[p] = Absent THEN arg.pools
                              ELSE Updated(POOLS[p], arg.pools)
    [] OTHER -> POOLS[p]

NewPATHS(p) ==
  CASE op = "share_paths" -> arg.paths
    [] op = "remove_blacklisted" ->
         IF PATHS[p] = Absent THEN Absent
         ELSE remove_from_paths(PATHS[p], arg.gone, hash_order[p])
    [] OTHER -> PATHS[p]

\* _share_pools, _share_paths, _update_pools, _remove_blacklisted, up to the
\* barrier; finish_arr has no slot for the ID of a replacement.
Apply(p) ==
  /\ wpc[p] = "run" /\ op \in BarrierOps
  /\ POOLS' = [POOLS EXCEPT ![p] = NewPOOLS(p)]
  /\ PATHS' = [PATHS EXCEPT ![p] = NewPATHS(p)]
  /\ \/ /\ ID[p] <= N
        /\ finish_arr' = [finish_arr EXCEPT ![ID[p]] = 1]
        /\ wpc' = [wpc EXCEPT ![p] = "spin"]
        /\ UNCHANGED <<mainVars, op, arg, queue, left, answers, raised, lock,
                       last_idx, searched, ID, start_idx, hash_order, counter,
                       deaths>>
     \/ /\ ID[p] > N
        /\ Raise(p)

Bug_NoBarrier(p) ==
  /\ wpc[p] = "spin"
  /\ Answer(p)
  /\ UNCHANGED <<mainVars, op, arg, queue, raised, finish_arr, lock, last_idx,
                 searched, ID, POOLS, PATHS, start_idx, hash_order, counter,
                 deaths>>

\* while not all(finish_arr): continue
LeaveBarrier(p) ==
  /\ wpc[p] = "spin"
  /\ \A i \in Procs : finish_arr[i] = 1
  /\ Answer(p)
  /\ UNCHANGED <<mainVars, op, arg, queue, raised, finish_arr, lock, last_idx,
                 searched, ID, POOLS, PATHS, start_idx, hash_order, counter,
                 deaths>>

\* _search_arbs up to the lock; a worker without the network's pools or paths
\* raises KeyError.
BeginSearch(p) ==
  /\ wpc[p] = "run" /\ op = "search_arbs"
  /\ UNCHANGED PATHS
  /\ \/ /\ POOLS[p] = Absent
        /\ UNCHANGED POOLS
        /\ Raise(p)
     \/ /\ POOLS[p] # Absent
        /\ POOLS' = [POOLS EXCEPT ![p] = Updated(POOLS[p], arg.pools)]
        /\ \/ /\ PATHS[p] = Absent
              /\ Raise(p)
           \/ /\ PATHS[p] # Absent
              /\ wpc' = [wpc EXCEPT ![p] = "claim"]
              /\ UNCHANGED <<mainVars, callVars, ID, start_idx, hash_order,
                             counter, deaths>>

\* with lock: start_idx = copy(last_idx.value)
ReadLastIdx(p) ==
  /\ wpc[p] = "claim" /\ lock = 0
  /\ lock' = p
  /\ start_idx' = [start_idx EXCEPT ![p] = last_idx]
  /\ wpc' = [wpc EXCEPT ![p] = "claimed"]
  /\ UNCHANGED <<mainVars, op, arg, queue, left, answers, raised, finish_arr,
                 last_idx, searched, ID, POOLS, PATHS, hash_order, counter,
                 deaths>>

Bug_KeepsLock(p) ==
  /\ wpc[p] = "claimed"
  /\ last_idx' = start_idx[p] + chunk_size(get_unique_paths(arg.pools, PATHS[p]))
  /\ wpc' = [wpc EXCEPT ![p] = "search"]
  /\ UNCHANGED <<mainVars, op, arg, queue, left, answers, raised, finish_arr,
                 lock, searched, ID, POOLS, PATHS, start_idx, hash_order,
                 counter, deaths>>

\* last_idx.value = end_idx, and the lock is released
WriteLastIdx(p) ==
  /\ wpc[p] = "claimed"
  /\ last_idx' = start_idx[p] + chunk_size(get_unique_paths(arg.pools, PATHS[p]))
  /\ lock' = 0
  /\ wpc' = [wpc EXCEPT ![p] = "search"]
  /\ UNCHANGED <<mainVars, op, arg, queue, left, answers, raised, finish_arr,
                 searched, ID, POOLS, PATHS, start_idx, hash_order, counter,
                 deaths>>

\* search_for_arbitrages on the chunk; the task returns its worker's ID.
SearchChunk(p) ==
  /\ wpc[p] = "search"
  /\ searched' = [q \in Paths |-> IF q \in Chunk(p) THEN searched[q] + 1
                                  ELSE searched[q]]
  /\ Answer(p)
  /\ start_idx' = [start_idx EXCEPT ![p] = 0]
  /\ UNCHANGED <<mainVars, op, arg, queue, raised, finish_arr, lock, last_idx,
                 ID, POOLS, PATHS, hash_order, counter, deaths>>

\* A worker process dies; the pool starts another in its place, and the task
\* it had taken never answers.  A lock it held stays taken.
Die(p) ==
  /\ deaths < MaxDeaths
  /\ deaths' = deaths + 1
  /\ wpc' = [wpc EXCEPT ![p] = "idle"]
  /\ ID' = [ID EXCEPT ![p] = counter]
  /\ counter' = counter + 1
  /\ POOLS' = [POOLS EXCEPT ![p] = Absent]
  /\ PATHS' = [PATHS EXCEPT ![p] = Absent]
  /\ start_idx' = [start_idx EXCEPT ![p] = 0]
  /\ UNCHANGED <<mainVars, callVars, hash_order>>

-----------------------------------------------------------------------------
Init ==
  /\ pc = "load"
  /\ pools = EmptyDict /\ pool_to_paths = EmptyDict /\ changed = EmptyDict
  /\ to_blacklist = {} /\ blacklist = {} /\ saved_blacklist \in SUBSET Paths
  /\ op = "none" /\ arg = NoArg /\ queue = 0 /\ left = 0
  /\ answers = [i \in Procs |-> 0] /\ raised = FALSE
  /\ finish_arr = [i \in Procs |-> 0] /\ lock = 0 /\ last_idx = 0
  /\ searched = [q \in Paths |-> 0]
  /\ wpc = [p \in Procs |-> "idle"]
  /\ ID = [p \in Procs |-> p]
  /\ POOLS = [p \in Procs |-> Absent] /\ PATHS = [p \in Procs |-> Absent]
  /\ start_idx = [p \in Procs |-> 0]
  /\ hash_order \in [Procs -> SetToSeqs(Paths)]
  /\ SameHashSeed => \A p, q \in Procs : hash_order[p] = hash_order[q]
  /\ counter = N + 1 /\ deaths = 0

Main ==
  \/ LoadData \/ SharePools \/ SharePaths
  \/ PollPools \/ UpdateAllPools \/ UpdateChangedPools
  \/ SearchArbs \/ CheckArbs \/ RemoveBlacklisted
  \/ Return \/ Restart

Worker(p) ==
  \/ TakeTask(p) \/ Apply(p) \/ LeaveBarrier(p)
  \/ BeginSearch(p) \/ ReadLastIdx(p) \/ WriteLastIdx(p) \/ SearchChunk(p)

Next == Main \/ \E p \in Procs : Worker(p) \/ Die(p)

\* Main and the workers are operating-system processes that keep running.
Fairness == WF_vars(Main) /\ \A p \in Procs : WF_vars(Worker(p))

Spec == Init /\ [][Next]_vars
FairSpec == Spec /\ Fairness

-----------------------------------------------------------------------------
(* Properties                                                              *)

MainPoints == {"load", "share", "build", "loop", "search", "check", "execute",
               "call", "exit"}
WorkerPoints == {"idle", "run", "spin", "claim", "claimed", "search"}

MainTypeOK ==
  /\ pc \in MainPoints
  /\ pools \in PoolDict /\ changed \in PoolDict
  /\ blacklist \subseteq Paths /\ saved_blacklist \subseteq Paths
  /\ to_blacklist \subseteq Paths

CallTypeOK ==
  /\ op \in BarrierOps \cup {"none", "search_arbs"}
  /\ arg.pools \in PoolDict /\ arg.gone \subseteq Paths
  /\ queue \in 0..N /\ left \in 0..N
  /\ answers \in [Procs -> Nat] /\ raised \in BOOLEAN
  /\ finish_arr \in [Procs -> {0, 1}]
  /\ lock \in 0..N
  /\ searched \in [Paths -> Nat]

WorkerTypeOK ==
  /\ wpc \in [Procs -> WorkerPoints]
  /\ ID \in [Procs -> Nat \ {0}]
  /\ POOLS \in [Procs -> PoolDict \cup {Absent}]
  /\ counter \in Nat /\ deaths \in 0..MaxDeaths

\* The types of main's, the call's and the workers' variables.
TypeOK == MainTypeOK /\ CallTypeOK /\ WorkerTypeOK

\* A worker that searches prices its chunk with exactly the pools the main
\* process has, whatever was shared, updated, restarted or killed before.
SearchSeesMainPools ==
  \A p \in Procs : wpc[p] \in {"claim", "claimed", "search"} => POOLS[p] = pools

\* In a broadcast no ID answers twice, and one that returns without an
\* exception was answered by every ID: update_pools never logs "already updated
\* pools" nor "Not all workers updated".
OneAnswerPerID ==
  op \in BarrierOps =>
    /\ \A i \in Procs : answers[i] <= 1
    /\ left = 0 /\ ~raised => \A i \in Procs : answers[i] = 1

\* A broadcast that returned without an exception reached every original
\* worker: their replicas of the pools are main's.
BroadcastReachesAll ==
  op \in {"share_pools", "update_pools"} /\ left = 0 /\ ~raised =>
    \A p \in Procs : ID[p] <= N => POOLS[p] = pools

\* A search that returned without an exception searched every path that goes
\* through a changed pool and is not blacklisted once, and no other path.
EachPathSearchedOnce ==
  op = "search_arbs" /\ left = 0 /\ ~raised =>
    \A q \in Paths :
      searched[q] = IF /\ PoolsOf[q] \subseteq DOMAIN pools
                       /\ PoolsOf[q] \cap DOMAIN arg.pools # {}
                       /\ q \notin blacklist
                    THEN 1 ELSE 0

\* No worker searches a path the main process has blacklisted.
BlacklistedNotSearched ==
  \A p \in Procs : wpc[p] = "search" => Chunk(p) \cap blacklist = {}

\* A call the main process waits for returns, unless a worker dies.
CallReturns == op # "none" ~> op = "none" \/ deaths > 0
=============================================================================
