-------------------------- MODULE WorkerPoolProofs --------------------------
(* What holds of WorkerPool for every number of workers, every set of pools  *)
(* and paths and any number of worker deaths.                                *)
EXTENDS WorkerPool, SequenceLemmas

(* The inductive invariant                                                   *)

Busy == {p \in Procs : wpc[p] # "idle"}
Answered == {i \in Procs : answers[i] = 1}
AllFinished == \A i \in Procs : finish_arr[i] = 1

\* The IDs known to have taken a task of the current broadcast.
Took == {i \in Procs : \/ finish_arr[i] = 1
                       \/ \E p \in Procs : ID[p] = i /\ wpc[p] = "run"}

\* IDs are never given twice.
IdInv ==
  /\ counter > N
  /\ \A p \in Procs : ID[p] < counter
  /\ \A p, q \in Procs : ID[p] = ID[q] => p = q

\* Main waits exactly while a call is under way, and there are at least as many
\* answers to come as tasks queued and workers at work.
ControlInv ==
  /\ op # "none" <=> pc = "call"
  /\ op = "none" => left = 0
  /\ queue + Cardinality(Busy) <= left
  /\ \A p \in Procs : wpc[p] = "spin" =>
       op \in BarrierOps /\ ID[p] <= N /\ finish_arr[ID[p]] = 1
  /\ \A p \in Procs : wpc[p] \in {"claim", "claimed", "search"} =>
       op = "search_arbs" /\ POOLS[p] # Absent

\* A task only ends normally when every slot is marked, hence when N different
\* IDs have taken a task: no second task is left for any of them.
BarrierInv ==
  op \in BarrierOps =>
    /\ left < N /\ ~raised => AllFinished
    /\ \A i \in Procs : answers[i] <= 1 /\ (answers[i] = 1 => AllFinished)
    /\ \A p \in Procs : ID[p] <= N =>
         /\ wpc[p] = "run" => finish_arr[ID[p]] = 0
         /\ wpc[p] = "spin" => answers[ID[p]] = 0
         /\ wpc[p] = "idle" /\ finish_arr[ID[p]] = 1 => AllFinished
    /\ queue + Cardinality(Took) <= N
    /\ ~raised => left + Cardinality(Answered) = N

\* Every original worker has main's pools, and a replacement has none.
Current ==
  \A p \in Procs :
    IF ID[p] <= N THEN POOLS[p] = pools ELSE POOLS[p] = Absent

NewWorkersEmpty == \A p \in Procs : ~(ID[p] <= N) => POOLS[p] = Absent

Agrees(d) ==
  DOMAIN d \subseteq DOMAIN pools /\ \A x \in DOMAIN d : d[x] = pools[x]

ReplicaInv ==
  /\ \/ pc \in {"build", "loop", "search", "check", "execute"}
     \/ op \in {"share_paths", "search_arbs", "remove_blacklisted"}
     => Current
  /\ pc \in {"load", "share"} => NewWorkersEmpty
  /\ op \in {"share_pools", "update_pools"} /\ ~raised => NewWorkersEmpty
  /\ op = "share_pools" => arg.pools = pools
  /\ op \in {"share_pools", "update_pools"} =>
       \A p \in Procs : ID[p] <= N /\ finish_arr[ID[p]] = 1 => POOLS[p] = pools
  /\ op = "update_pools" =>
       \A p \in Procs : ID[p] <= N /\ finish_arr[ID[p]] = 0 =>
         POOLS[p] # Absent /\ Updated(POOLS[p], arg.pools) = pools
  /\ pc = "search" \/ op = "update_pools" => Agrees(changed)
  /\ op = "search_arbs" => Agrees(arg.pools)

IInv == TypeOK /\ IdInv /\ ControlInv /\ BarrierInv /\ ReplicaInv

-----------------------------------------------------------------------------
(* Lemmas on the data                                                        *)

\* Procs is finite and has N elements.
LEMMA ProcsFinite == IsFiniteSet(Procs) /\ Cardinality(Procs) = N
BY NAssumption, FS_Interval DEF Procs

\* A set of workers or IDs is finite, and no larger than N.
LEMMA SubsetOfProcs ==
  ASSUME NEW S \in SUBSET Procs
  PROVE  /\ IsFiniteSet(S) /\ Cardinality(S) \in Nat /\ Cardinality(S) <= N
         /\ Cardinality(S) = N => S = Procs
BY ProcsFinite, FS_Subset, FS_CardinalityType, NAssumption

\* Updating a dict of pools with another gives a dict of pools.
LEMMA UpdatedType ==
  ASSUME NEW d \in PoolDict, NEW new \in PoolDict
  PROVE  Updated(d, new) \in PoolDict
<1>1. PICK D \in SUBSET Pools : d \in [D -> Reserves]
  BY DEF PoolDict
<1>2. PICK E \in SUBSET Pools : new \in [E -> Reserves]
  BY DEF PoolDict
<1>3. Updated(d, new) \in [D \cup E -> Reserves]
  BY <1>1, <1>2 DEF Updated
<1>. QED BY <1>3 DEF PoolDict

\* Updating with entries that are already there changes nothing.
LEMMA UpdatedAgreeing ==
  ASSUME NEW d \in PoolDict, NEW new \in PoolDict,
         DOMAIN new \subseteq DOMAIN d, \A x \in DOMAIN new : new[x] = d[x]
  PROVE  Updated(d, new) = d
<1>1. PICK D \in SUBSET Pools : d \in [D -> Reserves]
  BY DEF PoolDict
<1>2. DOMAIN d \cup DOMAIN new = DOMAIN d
  OBVIOUS
<1>. QED BY <1>1, <1>2 DEF Updated

\* Updating every entry gives the new dict.
LEMMA UpdatedAll ==
  ASSUME NEW d \in PoolDict, NEW new \in [DOMAIN d -> Reserves]
  PROVE  new \in PoolDict /\ Updated(d, new) = new
<1>1. PICK D \in SUBSET Pools : d \in [D -> Reserves]
  BY DEF PoolDict
<1>. QED BY <1>1 DEF Updated, PoolDict

\* The empty dict is a dict of pools, and restricting one gives another.
LEMMA EmptyDictType == EmptyDict \in PoolDict
<1>1. EmptyDict \in [{} -> Reserves]
  BY DEF EmptyDict
<1>. QED BY <1>1 DEF PoolDict

\* Reserves for some of the pools are a dictionary of them.
LEMMA FunctionType ==
  ASSUME NEW D \in SUBSET Pools, NEW d \in [D -> Reserves]
  PROVE  d \in PoolDict
BY DEF PoolDict

\* And the converse: what a dictionary of pools is.
LEMMA DomainType ==
  ASSUME NEW d \in PoolDict
  PROVE  DOMAIN d \subseteq Pools /\ d \in [DOMAIN d -> Reserves]
BY DEF PoolDict

\* What the messages of the calls carry.
LEMMA MessageFields ==
  /\ \A d : SendPools(d).pools = d /\ SendPools(d).gone = {}
  /\ \A p2p : SendPaths(p2p).pools = EmptyDict /\ SendPaths(p2p).gone = {}
  /\ \A S : SendGone(S).pools = EmptyDict /\ SendGone(S).gone = S
  /\ NoArg.pools = EmptyDict /\ NoArg.gone = {}
BY DEF SendPools, SendPaths, SendGone, NoArg

\* What the ID and the counters of a worker that is at work say.
LEMMA AtWork ==
  ASSUME IInv, NEW p \in Procs, wpc[p] # "idle"
  PROVE  left >= 1 /\ op # "none" /\ left - 1 \in 0..N
<1>1. Busy \in SUBSET Procs /\ p \in Busy
  BY DEF Busy
<1>2. Cardinality(Busy) \in Nat /\ Cardinality(Busy) # 0
  BY <1>1, SubsetOfProcs, FS_EmptySet
<1>. QED BY <1>2, NAssumption DEF IInv, TypeOK, CallTypeOK, ControlInv

-----------------------------------------------------------------------------
(* Type correctness                                                          *)

\* Counting one more answer.
LEMMA IncrementType ==
  ASSUME NEW f \in [Procs -> Nat], NEW i
  PROVE  [f EXCEPT ![i] = @ + 1] \in [Procs -> Nat]
<1>1. CASE i \in Procs
  BY <1>1
<1>2. CASE i \notin Procs
  <2>1. [f EXCEPT ![i] = @ + 1] = f
    BY <1>2
  <2>. QED BY <2>1
<1>. QED BY <1>1, <1>2

\* A call starts with the right types.
LEMMA BroadcastTypes ==
  ASSUME IInv, NEW o \in BarrierOps \cup {"search_arbs"}, NEW m,
         m.pools \in PoolDict, m.gone \subseteq Paths, Broadcast(o, m)
  PROVE  pc' \in MainPoints /\ CallTypeOK' /\ WorkerTypeOK'
<1>. USE DEF IInv, TypeOK, Broadcast
<1>1. pc' \in MainPoints
  BY DEF MainPoints
<1>2. CallTypeOK'
  <2>1. queue' \in 0..N /\ left' \in 0..N /\ lock' \in 0..N
    BY NAssumption
  <2>. QED BY <2>1 DEF CallTypeOK
<1>3. WorkerTypeOK'
  BY DEF WorkerTypeOK, workerVars
<1>. QED BY <1>1, <1>2, <1>3

\* Every step keeps the types.
LEMMA TypeStep == ASSUME IInv, Next PROVE TypeOK'
<1>. USE DEF IInv, TypeOK
<1>1. CASE LoadData
  BY <1>1, EmptyDictType DEF LoadData, callVars, workerVars, MainTypeOK,
     CallTypeOK, WorkerTypeOK, MainPoints
<1>2. CASE SharePools
  BY <1>2, MessageFields, BroadcastTypes DEF SharePools, MainTypeOK, BarrierOps
<1>3. CASE SharePaths
  BY <1>3, MessageFields, EmptyDictType, BroadcastTypes
  DEF SharePaths, MainTypeOK, BarrierOps
<1>4. CASE PollPools
  BY <1>4 DEF PollPools, callVars, workerVars, PoolDict, MainTypeOK,
     CallTypeOK, WorkerTypeOK, MainPoints
<1>5. CASE UpdateAllPools
  <2>1. pools' \in PoolDict /\ changed' \in PoolDict
    BY <1>5, EmptyDictType, UpdatedAll DEF UpdateAllPools, MainTypeOK
  <2>. QED
    BY <1>5, <2>1, MessageFields, BroadcastTypes
    DEF UpdateAllPools, MainTypeOK, BarrierOps
<1>6. CASE UpdateChangedPools
  <2>. PICK to_update \in SUBSET DOMAIN pools :
         \E last \in SUBSET to_update : \E new \in [to_update -> Reserves] :
           /\ pools' = Updated(pools, new)
           /\ changed' = Only(new, last)
           /\ Broadcast("update_pools", SendPools(new))
    BY <1>6 DEF UpdateChangedPools
  <2>1. PICK last \in SUBSET to_update, new \in [to_update -> Reserves] :
           /\ pools' = Updated(pools, new)
           /\ changed' = Only(new, last)
           /\ Broadcast("update_pools", SendPools(new))
    OBVIOUS
  <2>2. new \in PoolDict
    BY <2>1, DomainType, FunctionType DEF MainTypeOK
  <2>3. changed' \in PoolDict
    <3>1. Only(new, last) \in [last -> Reserves] /\ last \in SUBSET Pools
      BY DomainType DEF Only, MainTypeOK
    <3>. QED BY <2>1, <3>1, FunctionType
  <2>4. pools' \in PoolDict
    BY <2>1, <2>2, UpdatedType DEF MainTypeOK
  <2>. QED
    BY <1>6, <2>1, <2>2, <2>3, <2>4, MessageFields, BroadcastTypes
    DEF UpdateChangedPools, MainTypeOK, BarrierOps
<1>7. CASE SearchArbs
  BY <1>7, MessageFields, EmptyDictType, BroadcastTypes
  DEF SearchArbs, MainTypeOK
<1>8. CASE CheckArbs
  BY <1>8 DEF CheckArbs, workerVars, MainTypeOK, CallTypeOK, WorkerTypeOK,
     MainPoints
<1>9. CASE RemoveBlacklisted
  BY <1>9, MessageFields, EmptyDictType, BroadcastTypes
  DEF RemoveBlacklisted, MainTypeOK, BarrierOps
<1>10. CASE Return
  BY <1>10, NAssumption, MessageFields, EmptyDictType
  DEF Return, workerVars, MainTypeOK, CallTypeOK, WorkerTypeOK, MainPoints,
      BarrierOps
<1>11. CASE Restart
  BY <1>11 DEF Restart, callVars, workerVars, MainTypeOK, CallTypeOK,
     WorkerTypeOK, MainPoints
<1>12. ASSUME NEW p \in Procs, TakeTask(p) PROVE TypeOK'
  <2>1. queue' \in 0..N
    BY <1>12, NAssumption DEF TakeTask, CallTypeOK
  <2>. QED
    BY <1>12, <2>1 DEF TakeTask, mainVars, MainTypeOK, CallTypeOK,
       WorkerTypeOK, WorkerPoints
<1>13. ASSUME NEW p \in Procs, Apply(p) PROVE TypeOK'
  <2>1. left - 1 \in 0..N
    BY <1>13, AtWork DEF Apply
  <2>2. NewPOOLS(p) \in PoolDict \cup {Absent}
    BY UpdatedType DEF NewPOOLS, CallTypeOK, WorkerTypeOK
  <2>. QED
    BY <1>13, <2>1, <2>2 DEF Apply, Raise, mainVars, MainTypeOK, CallTypeOK,
       WorkerTypeOK, WorkerPoints
<1>14. ASSUME NEW p \in Procs, LeaveBarrier(p) PROVE TypeOK'
  <2>1. left - 1 \in 0..N
    BY <1>14, AtWork DEF LeaveBarrier
  <2>2. answers' \in [Procs -> Nat]
    BY <1>14, IncrementType DEF LeaveBarrier, Answer, CallTypeOK
  <2>. QED
    BY <1>14, <2>1, <2>2 DEF LeaveBarrier, Answer, mainVars, MainTypeOK,
       CallTypeOK, WorkerTypeOK, WorkerPoints
<1>15. ASSUME NEW p \in Procs, BeginSearch(p) PROVE TypeOK'
  <2>1. left - 1 \in 0..N
    BY <1>15, AtWork DEF BeginSearch
  <2>2. POOLS' \in [Procs -> PoolDict \cup {Absent}]
    BY <1>15, UpdatedType DEF BeginSearch, CallTypeOK, WorkerTypeOK
  <2>. QED
    BY <1>15, <2>1, <2>2 DEF BeginSearch, Raise, mainVars, callVars, MainTypeOK,
       CallTypeOK, WorkerTypeOK, WorkerPoints
<1>16. ASSUME NEW p \in Procs, ReadLastIdx(p) PROVE TypeOK'
  BY <1>16, NAssumption DEF ReadLastIdx, mainVars, Procs, MainTypeOK,
     CallTypeOK, WorkerTypeOK, WorkerPoints
<1>17. ASSUME NEW p \in Procs, WriteLastIdx(p) PROVE TypeOK'
  BY <1>17, NAssumption DEF WriteLastIdx, mainVars, MainTypeOK, CallTypeOK,
     WorkerTypeOK, WorkerPoints
<1>18. ASSUME NEW p \in Procs, SearchChunk(p) PROVE TypeOK'
  <2>1. left - 1 \in 0..N
    BY <1>18, AtWork DEF SearchChunk
  <2>2. answers' \in [Procs -> Nat]
    BY <1>18, IncrementType DEF SearchChunk, Answer, CallTypeOK
  <2>3. searched' \in [Paths -> Nat]
    BY <1>18 DEF SearchChunk, CallTypeOK
  <2>. QED
    BY <1>18, <2>1, <2>2, <2>3 DEF SearchChunk, Answer, mainVars, MainTypeOK,
       CallTypeOK, WorkerTypeOK, WorkerPoints
<1>19. ASSUME NEW p \in Procs, Die(p) PROVE TypeOK'
  BY <1>19, NAssumption, DeathsAssumption
  DEF Die, mainVars, callVars, IdInv, MainTypeOK, CallTypeOK, WorkerTypeOK,
      WorkerPoints
<1>. QED
  BY <1>1, <1>2, <1>3, <1>4, <1>5, <1>6, <1>7, <1>8, <1>9, <1>10, <1>11, <1>12,
     <1>13, <1>14, <1>15, <1>16, <1>17, <1>18, <1>19 DEF Next, Main, Worker

-----------------------------------------------------------------------------
(* IDs and accounting of the tasks                                           *)

\* Every step that is not a death leaves the IDs alone.
LEMMA IdUnchanged ==
  ASSUME Main \/ \E p \in Procs : Worker(p)
  PROVE  ID' = ID /\ counter' = counter
<1>1. CASE Main
  BY <1>1 DEF Main, LoadData, SharePools, SharePaths, PollPools, UpdateAllPools,
     UpdateChangedPools, SearchArbs, CheckArbs, RemoveBlacklisted, Return,
     Restart, Broadcast, workerVars
<1>2. ASSUME NEW p \in Procs, Worker(p) PROVE ID' = ID /\ counter' = counter
  BY <1>2 DEF Worker, TakeTask, Apply, LeaveBarrier, BeginSearch, ReadLastIdx,
     WriteLastIdx, SearchChunk, Raise
<1>. QED BY <1>1, <1>2

\* Every step keeps IDs distinct and the counter above them.
LEMMA IdStep == ASSUME IInv, Next PROVE IdInv'
<1>1. CASE Main \/ \E p \in Procs : Worker(p)
  BY <1>1, IdUnchanged DEF IInv, IdInv
<1>2. ASSUME NEW p \in Procs, Die(p) PROVE IdInv'
  BY <1>2, NAssumption DEF Die, IInv, IdInv, TypeOK, WorkerTypeOK
<1>. QED BY <1>1, <1>2 DEF Next

\* How a step of one worker changes the set of workers at work.
LEMMA BusyStep ==
  ASSUME TypeOK, NEW p \in Procs, NEW w \in WorkerPoints,
         wpc' = [wpc EXCEPT ![p] = w]
  PROVE  /\ Cardinality(Busy) \in Nat /\ Cardinality(Busy') \in Nat
         /\ w = "idle" /\ wpc[p] # "idle" =>
              Cardinality(Busy') = Cardinality(Busy) - 1
         /\ w = "idle" => Cardinality(Busy') <= Cardinality(Busy)
         /\ w # "idle" /\ wpc[p] = "idle" =>
              Cardinality(Busy') = Cardinality(Busy) + 1
         /\ w # "idle" /\ wpc[p] # "idle" => Busy' = Busy
<1>1. wpc \in [Procs -> WorkerPoints]
  BY DEF TypeOK, WorkerTypeOK
<1>2. Busy' = IF w = "idle" THEN Busy \ {p} ELSE Busy \cup {p}
  BY <1>1 DEF Busy
<1>3. Busy \in SUBSET Procs /\ (p \in Busy <=> wpc[p] # "idle")
  BY DEF Busy
<1>4. IsFiniteSet(Busy) /\ Cardinality(Busy) \in Nat
  BY <1>3, SubsetOfProcs
<1>5. CASE w = "idle"
  <2>1. Cardinality(Busy') =
          IF p \in Busy THEN Cardinality(Busy) - 1 ELSE Cardinality(Busy)
    BY <1>2, <1>4, <1>5, FS_RemoveElement
  <2>2. Busy' \in SUBSET Procs
    BY <1>2, <1>3, <1>5
  <2>3. Cardinality(Busy') \in Nat
    BY <2>2, SubsetOfProcs
  <2>. QED BY <1>3, <1>4, <1>5, <2>1, <2>3
<1>6. CASE w # "idle"
  <2>1. Cardinality(Busy') =
          IF p \in Busy THEN Cardinality(Busy) ELSE Cardinality(Busy) + 1
    BY <1>2, <1>4, <1>6, FS_AddElement
  <2>2. wpc[p] # "idle" => Busy' = Busy
    BY <1>2, <1>3, <1>6
  <2>. QED BY <1>3, <1>4, <1>6, <2>1, <2>2
<1>. QED BY <1>5, <1>6

\* Between calls no worker is at work.
LEMMA QuietBetweenCalls ==
  ASSUME IInv, op = "none" \/ left = 0
  PROVE  queue = 0 /\ Busy = {} /\ \A p \in Procs : wpc[p] = "idle"
<1>1. Busy \in SUBSET Procs
  BY DEF Busy
<1>2. IsFiniteSet(Busy) /\ Cardinality(Busy) \in Nat
  BY <1>1, SubsetOfProcs
<1>3. queue = 0 /\ Cardinality(Busy) = 0
  BY <1>2 DEF IInv, TypeOK, CallTypeOK, ControlInv
<1>4. Busy = {}
  BY <1>2, <1>3, FS_EmptySet
<1>. QED BY <1>3, <1>4 DEF Busy

\* A call starts with N tasks queued and every worker idle.
LEMMA BroadcastControl ==
  ASSUME IInv, NEW o \in BarrierOps \cup {"search_arbs"}, NEW m, Broadcast(o, m)
  PROVE  ControlInv'
<1>1. /\ op = "none" /\ op' = o /\ pc' = "call" /\ queue' = N /\ left' = N
      /\ wpc' = wpc
  BY DEF Broadcast, workerVars
<1>2. \A p \in Procs : wpc[p] = "idle"
  BY <1>1, QuietBetweenCalls
<1>3. Busy' = {}
  BY <1>1, <1>2 DEF Busy
<1>4. queue' + Cardinality(Busy') <= left'
  BY <1>1, <1>3, FS_EmptySet, NAssumption
<1>. QED BY <1>1, <1>2, <1>4 DEF ControlInv, BarrierOps

\* Every step keeps the account of the tasks that are neither queued nor answered.
LEMMA ControlStep == ASSUME IInv, Next PROVE ControlInv'
<1>. USE DEF IInv
<1>1. CASE SharePools \/ SharePaths \/ UpdateAllPools \/ UpdateChangedPools
           \/ SearchArbs \/ RemoveBlacklisted
  BY <1>1, BroadcastControl DEF SharePools, SharePaths, UpdateAllPools,
     UpdateChangedPools, SearchArbs, RemoveBlacklisted, BarrierOps
<1>2. CASE LoadData \/ PollPools \/ CheckArbs \/ Restart
  BY <1>2 DEF LoadData, PollPools, CheckArbs, Restart, callVars, workerVars,
     ControlInv, Busy
<1>3. CASE Return
  <2>1. \A p \in Procs : wpc'[p] = "idle"
    BY <1>3, QuietBetweenCalls DEF Return, workerVars
  <2>2. pc' # "call"
    BY <1>3 DEF Return, TypeOK, CallTypeOK, BarrierOps
  <2>3. Busy' = Busy
    BY <1>3 DEF Return, workerVars, Busy
  <2>. QED BY <1>3, <2>1, <2>2, <2>3 DEF Return, ControlInv
<1>4. ASSUME NEW p \in Procs, TakeTask(p) PROVE ControlInv'
  <2>1. Cardinality(Busy') = Cardinality(Busy) + 1 /\ Cardinality(Busy) \in Nat
    BY <1>4, BusyStep DEF TakeTask, WorkerPoints
  <2>. QED
    BY <1>4, <2>1 DEF TakeTask, mainVars, ControlInv, TypeOK, CallTypeOK,
       WorkerTypeOK
<1>5. ASSUME NEW p \in Procs, Apply(p) PROVE ControlInv'
  <2>1. ASSUME ID[p] <= N, finish_arr' = [finish_arr EXCEPT ![ID[p]] = 1],
               wpc' = [wpc EXCEPT ![p] = "spin"],
               UNCHANGED <<pc, op, queue, left, ID>>
        PROVE  ControlInv'
    <3>1. Busy' = Busy
      BY <1>5, <2>1, BusyStep DEF Apply, WorkerPoints
    <3>2. ID[p] \in Procs
      BY <2>1, NAssumption DEF Procs, TypeOK, WorkerTypeOK
    <3>. QED
      BY <1>5, <2>1, <3>1, <3>2 DEF Apply, ControlInv, TypeOK, CallTypeOK,
         WorkerTypeOK, BarrierOps
  <2>2. ASSUME Raise(p) PROVE ControlInv'
    <3>1. Cardinality(Busy') = Cardinality(Busy) - 1 /\ Cardinality(Busy) \in Nat
      BY <1>5, <2>2, BusyStep DEF Apply, Raise, WorkerPoints
    <3>. QED
      BY <1>5, <2>2, <3>1 DEF Apply, Raise, mainVars, ControlInv, TypeOK,
         CallTypeOK, WorkerTypeOK, BarrierOps
  <2>. QED BY <1>5, <2>1, <2>2 DEF Apply, mainVars
<1>6. ASSUME NEW p \in Procs, LeaveBarrier(p) PROVE ControlInv'
  <2>1. Cardinality(Busy') = Cardinality(Busy) - 1 /\ Cardinality(Busy) \in Nat
    BY <1>6, BusyStep DEF LeaveBarrier, Answer, WorkerPoints
  <2>. QED
    BY <1>6, <2>1 DEF LeaveBarrier, Answer, mainVars, ControlInv, TypeOK,
       CallTypeOK, WorkerTypeOK, BarrierOps
<1>7. ASSUME NEW p \in Procs, BeginSearch(p) PROVE ControlInv'
  <2>1. ASSUME Raise(p) PROVE ControlInv'
    <3>1. Cardinality(Busy') = Cardinality(Busy) - 1 /\ Cardinality(Busy) \in Nat
      BY <1>7, <2>1, BusyStep DEF BeginSearch, Raise, WorkerPoints
    <3>. QED
      BY <1>7, <2>1, <3>1 DEF BeginSearch, Raise, mainVars, ControlInv, TypeOK,
         CallTypeOK, WorkerTypeOK, BarrierOps
  <2>2. ASSUME wpc' = [wpc EXCEPT ![p] = "claim"], UNCHANGED callVars,
               POOLS[p] # Absent,
               POOLS' = [POOLS EXCEPT ![p] = Updated(POOLS[p], arg.pools)],
               UNCHANGED <<pc, ID>>
        PROVE  ControlInv'
    <3>1. Busy' = Busy
      BY <1>7, <2>2, BusyStep DEF BeginSearch, WorkerPoints
    <3>2. Updated(POOLS[p], arg.pools) # Absent
      BY <2>2, UpdatedType, AbsentAssumption DEF TypeOK, CallTypeOK, WorkerTypeOK
    <3>. QED
      BY <1>7, <2>2, <3>1, <3>2 DEF BeginSearch, callVars, ControlInv, TypeOK,
         CallTypeOK, WorkerTypeOK, BarrierOps
  <2>. QED BY <1>7, <2>1, <2>2 DEF BeginSearch, mainVars
<1>8. ASSUME NEW p \in Procs, ReadLastIdx(p) \/ WriteLastIdx(p) PROVE ControlInv'
  <2>1. Busy' = Busy
    BY <1>8, BusyStep DEF ReadLastIdx, WriteLastIdx, WorkerPoints
  <2>. QED
    BY <1>8, <2>1 DEF ReadLastIdx, WriteLastIdx, mainVars, ControlInv, TypeOK,
       CallTypeOK, WorkerTypeOK, BarrierOps
<1>9. ASSUME NEW p \in Procs, SearchChunk(p) PROVE ControlInv'
  <2>1. Cardinality(Busy') = Cardinality(Busy) - 1 /\ Cardinality(Busy) \in Nat
    BY <1>9, BusyStep DEF SearchChunk, Answer, WorkerPoints
  <2>. QED
    BY <1>9, <2>1 DEF SearchChunk, Answer, mainVars, ControlInv, TypeOK,
       CallTypeOK, WorkerTypeOK, BarrierOps
<1>10. ASSUME NEW p \in Procs, Die(p) PROVE ControlInv'
  <2>1. /\ Cardinality(Busy') <= Cardinality(Busy)
        /\ Cardinality(Busy) \in Nat /\ Cardinality(Busy') \in Nat
    BY <1>10, BusyStep DEF Die, WorkerPoints
  <2>. QED
    BY <1>10, <2>1 DEF Die, mainVars, callVars, ControlInv, TypeOK, CallTypeOK,
       WorkerTypeOK, BarrierOps
<1>. QED
  BY <1>1, <1>2, <1>3, <1>4, <1>5, <1>6, <1>7, <1>8, <1>9, <1>10
  DEF Next, Main, Worker

-----------------------------------------------------------------------------
(* The barrier                                                               *)

\* Took is a set of at most N IDs, of all of them when every slot is marked.
LEMMA TookSize ==
  /\ IsFiniteSet(Took) /\ Cardinality(Took) \in Nat
  /\ AllFinished => Cardinality(Took) = N
<1>1. Took \in SUBSET Procs
  BY DEF Took
<1>2. AllFinished => Took = Procs
  BY DEF Took, AllFinished
<1>. QED BY <1>1, <1>2, SubsetOfProcs, ProcsFinite

\* A set of IDs that loses none, or gains at most one.
LEMMA SubsetSize ==
  ASSUME NEW S \in SUBSET Procs, NEW T \in SUBSET Procs
  PROVE  /\ T \subseteq S => Cardinality(T) <= Cardinality(S)
         /\ \A i \in Procs :
              T \subseteq S \cup {i} => Cardinality(T) <= Cardinality(S) + 1
         /\ \A i \in Procs \ S :
              T = S \cup {i} => Cardinality(T) = Cardinality(S) + 1
<1>1. IsFiniteSet(S) /\ IsFiniteSet(T) /\ Cardinality(S) \in Nat
      /\ Cardinality(T) \in Nat
  BY SubsetOfProcs
<1>2. T \subseteq S => Cardinality(T) <= Cardinality(S)
  BY <1>1, FS_Subset
<1>3. ASSUME NEW i \in Procs
      PROVE  /\ T \subseteq S \cup {i} => Cardinality(T) <= Cardinality(S) + 1
             /\ i \notin S /\ T = S \cup {i} =>
                  Cardinality(T) = Cardinality(S) + 1
  <2>1. /\ IsFiniteSet(S \cup {i})
        /\ Cardinality(S \cup {i}) =
             IF i \in S THEN Cardinality(S) ELSE Cardinality(S) + 1
    BY <1>1, FS_AddElement
  <2>2. T \subseteq S \cup {i} => Cardinality(T) <= Cardinality(S \cup {i})
    BY <2>1, FS_Subset
  <2>3. CASE i \in S
    BY <1>1, <2>1, <2>2, <2>3
  <2>4. CASE i \notin S
    BY <1>1, <2>1, <2>2, <2>4
  <2>. QED BY <2>3, <2>4
<1>. QED BY <1>2, <1>3

\* At the start of a call nobody has taken or answered anything.
LEMMA BroadcastBarrier ==
  ASSUME IInv, NEW o \in BarrierOps \cup {"search_arbs"}, NEW m, Broadcast(o, m)
  PROVE  BarrierInv'
<1>1. /\ queue' = N /\ left' = N /\ answers' = [i \in Procs |-> 0]
      /\ finish_arr' = [i \in Procs |-> 0] /\ wpc' = wpc /\ ID' = ID
  BY DEF Broadcast, workerVars
<1>2. \A p \in Procs : wpc[p] = "idle"
  BY QuietBetweenCalls DEF Broadcast
<1>3. Took' = {} /\ Answered' = {}
  BY <1>1, <1>2 DEF Took, Answered
<1>4. Cardinality(Took') = 0 /\ Cardinality(Answered') = 0
  BY <1>3, FS_EmptySet
<1>5. \A p \in Procs : ID[p] <= N => ID[p] \in Procs
  BY NAssumption DEF IInv, TypeOK, WorkerTypeOK, Procs
<1>. QED BY <1>1, <1>2, <1>4, <1>5, NAssumption DEF BarrierInv, AllFinished

\* Every step keeps the slots of the barrier with their workers.
LEMMA BarrierStep == ASSUME IInv, Next PROVE BarrierInv'
<1>. USE DEF IInv
<1>0. \A p \in Procs : ID[p] <= N => ID[p] \in Procs
  BY NAssumption DEF TypeOK, WorkerTypeOK, Procs
<1>1. CASE SharePools \/ SharePaths \/ UpdateAllPools \/ UpdateChangedPools
           \/ SearchArbs \/ RemoveBlacklisted
  BY <1>1, BroadcastBarrier DEF SharePools, SharePaths, UpdateAllPools,
     UpdateChangedPools, SearchArbs, RemoveBlacklisted, BarrierOps
<1>2. CASE LoadData \/ PollPools \/ CheckArbs \/ Restart
  BY <1>2 DEF LoadData, PollPools, CheckArbs, Restart, callVars, workerVars,
     BarrierInv, Took, Answered, AllFinished
<1>3. CASE Return
  BY <1>3 DEF Return, BarrierInv, BarrierOps
<1>4. ASSUME NEW p \in Procs, TakeTask(p) PROVE BarrierInv'
  <2>1. SUFFICES ASSUME op \in BarrierOps PROVE BarrierInv'
    BY <1>4 DEF TakeTask, BarrierInv
  <2>2. /\ ID' = ID /\ finish_arr' = finish_arr /\ answers' = answers
        /\ op' = op /\ left' = left /\ raised' = raised
        /\ wpc' = [wpc EXCEPT ![p] = "run"] /\ queue' = queue - 1
    BY <1>4 DEF TakeTask
  <2>3. ID[p] <= N => finish_arr[ID[p]] = 0
    <3>1. queue > 0 /\ queue + Cardinality(Took) <= N
      BY <1>4, <2>1 DEF TakeTask, BarrierInv
    <3>2. ~ AllFinished
      BY <3>1, TookSize, NAssumption DEF TypeOK, CallTypeOK
    <3>. QED
      BY <1>0, <1>4, <2>1, <3>2 DEF TakeTask, BarrierInv, TypeOK, CallTypeOK
  <2>4. queue' + Cardinality(Took') <= N
    <3>1. Took \in SUBSET Procs /\ Took' \in SUBSET Procs
      BY DEF Took
    <3>2. CASE ID[p] \in Procs
      <4>1. Took' \subseteq Took \cup {ID[p]}
        BY <2>2 DEF Took, TypeOK, WorkerTypeOK
      <4>2. Cardinality(Took') <= Cardinality(Took) + 1
        BY <3>1, <3>2, <4>1, SubsetSize
      <4>3. Cardinality(Took') \in Nat /\ Cardinality(Took) \in Nat
        BY <3>1, SubsetOfProcs
      <4>. QED
        BY <2>1, <2>2, <4>2, <4>3, NAssumption DEF BarrierInv, TypeOK, CallTypeOK
    <3>3. CASE ID[p] \notin Procs
      <4>1. Took' \subseteq Took
        BY <2>2, <3>3 DEF Took, TypeOK, WorkerTypeOK
      <4>2. Cardinality(Took') <= Cardinality(Took)
        BY <3>1, <4>1, SubsetSize
      <4>3. Cardinality(Took') \in Nat /\ Cardinality(Took) \in Nat
        BY <3>1, SubsetOfProcs
      <4>. QED
        BY <2>1, <2>2, <4>2, <4>3, NAssumption DEF BarrierInv, TypeOK, CallTypeOK
    <3>. QED BY <3>2, <3>3
  <2>5. Answered' = Answered /\ AllFinished' = AllFinished
    BY <2>2 DEF Answered, AllFinished
  <2>. QED
    BY <1>0, <2>1, <2>2, <2>3, <2>4, <2>5 DEF BarrierInv, TypeOK, WorkerTypeOK
<1>5. ASSUME NEW p \in Procs, Apply(p) PROVE BarrierInv'
  <2>1. /\ ID' = ID /\ answers' = answers /\ op' = op /\ queue' = queue
        /\ op \in BarrierOps /\ wpc[p] = "run"
    BY <1>5 DEF Apply, Raise
  <2>2. Took \in SUBSET Procs /\ Took' \in SUBSET Procs /\ Answered' = Answered
    BY <2>1 DEF Took, Answered
  <2>3. CASE ID[p] <= N
    <3>1. /\ finish_arr' = [finish_arr EXCEPT ![ID[p]] = 1]
          /\ wpc' = [wpc EXCEPT ![p] = "spin"]
          /\ left' = left /\ raised' = raised
      BY <1>5, <2>3, NAssumption DEF Apply, TypeOK, WorkerTypeOK
    <3>2. ID[p] \in Procs /\ finish_arr[ID[p]] = 0
      BY <1>0, <2>1, <2>3 DEF BarrierInv
    <3>3. ~ AllFinished
      BY <3>2 DEF AllFinished
    <3>4. answers[ID[p]] = 0
      BY <2>1, <3>2, <3>3 DEF BarrierInv, TypeOK, CallTypeOK
    <3>5. Took' \subseteq Took
      BY <2>1, <3>1, <3>2 DEF Took, TypeOK, CallTypeOK, WorkerTypeOK
    <3>6. Cardinality(Took') <= Cardinality(Took)
      BY <2>2, <3>5, SubsetSize
    <3>7. queue' + Cardinality(Took') <= N
      BY <2>1, <2>2, <3>6, SubsetOfProcs, NAssumption DEF BarrierInv, TypeOK,
         CallTypeOK
    <3>8. \A q \in Procs : q # p => ID[q] # ID[p]
      BY DEF IdInv
    <3>9. /\ \A i \in Procs : answers'[i] = 0
          /\ left' < N => raised'
          /\ \A q \in Procs : wpc[q] = "idle" /\ ID[q] <= N => finish_arr[ID[q]] # 1
      BY <2>1, <3>1, <3>3 DEF BarrierInv, TypeOK, CallTypeOK
    <3>. QED
      BY <1>0, <2>1, <2>2, <3>1, <3>2, <3>4, <3>7, <3>8, <3>9
      DEF BarrierInv, TypeOK, CallTypeOK, WorkerTypeOK
  <2>4. CASE ~(ID[p] <= N)
    <3>1. Raise(p) /\ finish_arr' = finish_arr
      BY <1>5, <2>4 DEF Apply, Raise, TypeOK, WorkerTypeOK
    <3>2. Took' \subseteq Took
      BY <2>1, <3>1 DEF Took, Raise, TypeOK, WorkerTypeOK
    <3>3. Cardinality(Took') <= Cardinality(Took)
      BY <2>2, <3>2, SubsetSize
    <3>4. queue' + Cardinality(Took') <= N
      BY <2>1, <2>2, <3>3, SubsetOfProcs, NAssumption DEF BarrierInv, TypeOK,
         CallTypeOK
    <3>. QED
      BY <1>0, <2>1, <2>4, <3>1, <3>4
      DEF Raise, BarrierInv, AllFinished, TypeOK, WorkerTypeOK
  <2>. QED BY <2>3, <2>4
<1>6. ASSUME NEW p \in Procs, LeaveBarrier(p) PROVE BarrierInv'
  <2>1. /\ ID' = ID /\ finish_arr' = finish_arr /\ op' = op /\ queue' = queue
        /\ raised' = raised /\ left' = left - 1
        /\ answers' = [answers EXCEPT ![ID[p]] = @ + 1]
        /\ wpc' = [wpc EXCEPT ![p] = "idle"] /\ wpc[p] = "spin"
        /\ AllFinished /\ AllFinished'
    BY <1>6 DEF LeaveBarrier, Answer, AllFinished
  <2>2. op \in BarrierOps /\ ID[p] \in Procs
    BY <1>0, <2>1 DEF ControlInv
  <2>3. answers[ID[p]] = 0
    BY <1>0, <2>1, <2>2 DEF BarrierInv, ControlInv
  <2>4. Took' \subseteq Took /\ Took \in SUBSET Procs /\ Took' \in SUBSET Procs
    BY <2>1 DEF Took, TypeOK, WorkerTypeOK
  <2>5. Cardinality(Took') <= Cardinality(Took)
    BY <2>4, SubsetSize
  <2>6. queue' + Cardinality(Took') <= N
    BY <2>1, <2>2, <2>4, <2>5, SubsetOfProcs, NAssumption DEF BarrierInv, TypeOK,
       CallTypeOK
  <2>7. Answered' = Answered \cup {ID[p]} /\ ID[p] \notin Answered
    BY <2>1, <2>2, <2>3 DEF Answered, TypeOK, CallTypeOK
  <2>8. Cardinality(Answered') = Cardinality(Answered) + 1
        /\ Cardinality(Answered) \in Nat
    <3>1. Answered \in SUBSET Procs /\ Answered' \in SUBSET Procs
      BY DEF Answered
    <3>. QED BY <2>2, <2>7, <3>1, SubsetSize, SubsetOfProcs
  <2>9. ~raised' => left' + Cardinality(Answered') = N
    BY <2>1, <2>2, <2>8, NAssumption DEF BarrierInv, TypeOK, CallTypeOK
  <2>10. \A q \in Procs : q # p => ID[q] # ID[p]
    BY DEF IdInv
  <2>11. \A i \in Procs : answers'[i] <= 1
    BY <2>1, <2>2, <2>3 DEF BarrierInv, TypeOK, CallTypeOK
  <2>12. \A q \in Procs : ID[q] <= N =>
           /\ wpc'[q] = "run" => finish_arr'[ID[q]] = 0
           /\ wpc'[q] = "spin" => answers'[ID[q]] = 0
    BY <1>0, <2>1, <2>2, <2>10 DEF BarrierInv, TypeOK, CallTypeOK, WorkerTypeOK
  <2>. QED
    BY <2>1, <2>2, <2>6, <2>9, <2>11, <2>12 DEF BarrierInv
<1>7. ASSUME NEW p \in Procs,
             BeginSearch(p) \/ ReadLastIdx(p) \/ WriteLastIdx(p) \/ SearchChunk(p)
      PROVE  BarrierInv'
  <2>1. op = "search_arbs" /\ op' = op
    BY <1>7 DEF BeginSearch, Raise, callVars, ReadLastIdx, WriteLastIdx,
       SearchChunk, ControlInv
  <2>. QED BY <2>1 DEF BarrierInv, BarrierOps
<1>8. ASSUME NEW p \in Procs, Die(p) PROVE BarrierInv'
  <2>1. SUFFICES ASSUME op \in BarrierOps PROVE BarrierInv'
    BY <1>8 DEF Die, callVars, BarrierInv
  <2>2. /\ UNCHANGED callVars
        /\ ID' = [ID EXCEPT ![p] = counter] /\ wpc' = [wpc EXCEPT ![p] = "idle"]
    BY <1>8 DEF Die
  <2>3. counter > N /\ counter \in Nat
    BY DEF IdInv, TypeOK, WorkerTypeOK
  <2>4. Took' \subseteq Took /\ Took \in SUBSET Procs /\ Took' \in SUBSET Procs
    BY <2>2 DEF Took, callVars, TypeOK, WorkerTypeOK
  <2>5. Cardinality(Took') <= Cardinality(Took)
    BY <2>4, SubsetSize
  <2>6. queue' + Cardinality(Took') <= N
    BY <2>1, <2>2, <2>4, <2>5, SubsetOfProcs, NAssumption DEF BarrierInv, TypeOK,
       CallTypeOK, callVars
  <2>7. Answered' = Answered /\ AllFinished' = AllFinished
    BY <2>2 DEF Answered, AllFinished, callVars
  <2>8. \A q \in Procs : ID'[q] <= N => ID'[q] = ID[q] /\ wpc'[q] = wpc[q]
    BY <2>2, <2>3, NAssumption DEF TypeOK, WorkerTypeOK
  <2>. QED BY <2>1, <2>2, <2>6, <2>7, <2>8 DEF BarrierInv, callVars
<1>. QED
  BY <1>1, <1>2, <1>3, <1>4, <1>5, <1>6, <1>7, <1>8 DEF Next, Main, Worker

-----------------------------------------------------------------------------
(* The replicas                                                              *)

\* A call that returns with neither an exception nor an answer missing has seen
\* every slot marked.
LEMMA ReturnedFinished ==
  ASSUME IInv, op \in BarrierOps, left = 0, ~raised
  PROVE  AllFinished
BY NAssumption DEF IInv, BarrierInv

\* Then every worker holds main's pools, or is a replacement without any.
LEMMA ReturnedCurrent ==
  ASSUME IInv, op \in {"share_pools", "update_pools"}, left = 0, ~raised
  PROVE  Current
<1>1. AllFinished
  BY ReturnedFinished DEF BarrierOps
<1>2. \A p \in Procs : ID[p] <= N => ID[p] \in Procs
  BY NAssumption DEF IInv, TypeOK, WorkerTypeOK, Procs
<1>. QED
  BY <1>1, <1>2
  DEF IInv, ReplicaInv, AllFinished, Current, NewWorkersEmpty

\* Every step keeps the replicas equal to main's pools, or on their way there.
LEMMA ReplicaStep == ASSUME IInv, Next PROVE ReplicaInv'
<1>. USE DEF IInv
<1>0. \A p \in Procs : ID[p] <= N => ID[p] \in Procs
  BY NAssumption DEF TypeOK, WorkerTypeOK, Procs
<1>1. CASE LoadData \/ PollPools
  <2>1. NewWorkersEmpty
    BY <1>1 DEF LoadData, PollPools, ReplicaInv, Current, NewWorkersEmpty
  <2>2. pc' = "share" /\ op' = "none" /\ NewWorkersEmpty'
    BY <1>1, <2>1 DEF LoadData, PollPools, callVars, workerVars, ControlInv,
       NewWorkersEmpty
  <2>. QED BY <2>2 DEF ReplicaInv
<1>2. CASE SharePools
  <2>1. NewWorkersEmpty
    BY <1>2 DEF SharePools, ReplicaInv
  <2>2. /\ op' = "share_pools" /\ pc' = "call" /\ pools' = pools
        /\ arg'.pools = pools /\ finish_arr' = [i \in Procs |-> 0]
        /\ NewWorkersEmpty' /\ ID' = ID
    BY <1>2, <2>1, MessageFields DEF SharePools, Broadcast, workerVars,
       NewWorkersEmpty
  <2>3. \A p \in Procs : ID'[p] <= N => finish_arr'[ID'[p]] = 0
    BY <1>0, <2>2
  <2>. QED BY <2>2, <2>3 DEF ReplicaInv
<1>3. CASE SharePaths \/ RemoveBlacklisted
  BY <1>3 DEF SharePaths, RemoveBlacklisted, Broadcast, workerVars, ReplicaInv,
     Current
<1>4. CASE UpdateAllPools
  <2>1. Current
    BY <1>4 DEF UpdateAllPools, ReplicaInv
  <2>2. /\ op' = "update_pools" /\ pc' = "call" /\ arg'.pools = pools'
        /\ finish_arr' = [i \in Procs |-> 0] /\ POOLS' = POOLS /\ ID' = ID
        /\ changed' = EmptyDict
    BY <1>4, MessageFields DEF UpdateAllPools, Broadcast, workerVars
  <2>3. Updated(pools, pools') = pools' /\ pools # Absent
    BY <1>4, UpdatedAll, AbsentAssumption DEF UpdateAllPools, TypeOK, MainTypeOK
  <2>4. Agrees(changed)'
    BY <2>2 DEF Agrees, EmptyDict
  <2>5. NewWorkersEmpty'
    BY <2>1, <2>2 DEF Current, NewWorkersEmpty
  <2>6. \A p \in Procs : ID'[p] <= N =>
          finish_arr'[ID'[p]] = 0 /\ POOLS'[p] # Absent
          /\ Updated(POOLS'[p], arg'.pools) = pools'
    BY <1>0, <2>1, <2>2, <2>3 DEF Current
  <2>. QED
    BY <2>2, <2>4, <2>5, <2>6 DEF ReplicaInv
<1>5. CASE UpdateChangedPools
  <2>. PICK to_update \in SUBSET DOMAIN pools :
         \E last \in SUBSET to_update : \E new \in [to_update -> Reserves] :
           /\ pools' = Updated(pools, new)
           /\ changed' = Only(new, last)
           /\ Broadcast("update_pools", SendPools(new))
    BY <1>5 DEF UpdateChangedPools
  <2>1. PICK last \in SUBSET to_update, new \in [to_update -> Reserves] :
           /\ pools' = Updated(pools, new)
           /\ changed' = Only(new, last)
           /\ Broadcast("update_pools", SendPools(new))
    OBVIOUS
  <2>2. Current
    BY <1>5 DEF UpdateChangedPools, ReplicaInv
  <2>3. /\ op' = "update_pools" /\ pc' = "call" /\ arg'.pools = new
        /\ finish_arr' = [i \in Procs |-> 0] /\ POOLS' = POOLS /\ ID' = ID
    BY <2>1, MessageFields DEF Broadcast, workerVars
  <2>4. pools # Absent
    BY AbsentAssumption DEF TypeOK, MainTypeOK
  <2>5. Agrees(changed)'
    BY <2>1 DEF Agrees, Only, Updated
  <2>6. NewWorkersEmpty'
    BY <2>2, <2>3 DEF Current, NewWorkersEmpty
  <2>7. \A p \in Procs : ID'[p] <= N =>
          finish_arr'[ID'[p]] = 0 /\ POOLS'[p] # Absent
          /\ Updated(POOLS'[p], arg'.pools) = pools'
    BY <1>0, <2>1, <2>2, <2>3, <2>4 DEF Current
  <2>. QED
    BY <2>3, <2>5, <2>6, <2>7 DEF ReplicaInv
<1>6. CASE SearchArbs
  BY <1>6, MessageFields DEF SearchArbs, Broadcast, workerVars, ReplicaInv,
     Current, Agrees
<1>7. CASE CheckArbs \/ Restart
  <2>1. op = "none" /\ op' = "none" /\ Current
    BY <1>7 DEF CheckArbs, Restart, callVars, ControlInv, ReplicaInv
  <2>2. Current' /\ NewWorkersEmpty'
    BY <1>7, <2>1 DEF CheckArbs, Restart, workerVars, Current, NewWorkersEmpty
  <2>3. pc' # "search"
    BY <1>7 DEF CheckArbs, Restart
  <2>. QED BY <2>1, <2>2, <2>3 DEF ReplicaInv
<1>8. CASE Return
  <2>1. /\ op # "none" /\ left = 0 /\ op' = "none" /\ pools' = pools
        /\ POOLS' = POOLS /\ ID' = ID /\ changed' = changed
    BY <1>8 DEF Return, workerVars
  <2>2. CASE raised /\ op # "remove_blacklisted"
    BY <1>8, <2>1, <2>2 DEF Return, ReplicaInv
  <2>3. CASE op = "remove_blacklisted"
    <3>1. pc' = "loop"
      BY <1>8, <2>3 DEF Return
    <3>. QED BY <2>1, <2>3, <3>1 DEF ReplicaInv, Current
  <2>4. CASE ~raised /\ op \in {"share_pools", "update_pools"}
    <3>1. Current
      BY <2>1, <2>4, ReturnedCurrent
    <3>2. pc' \in {"build", "loop", "search"}
          /\ (pc' = "search" => op = "update_pools")
      BY <1>8, <2>4 DEF Return
    <3>. QED BY <2>1, <3>1, <3>2 DEF ReplicaInv, Current, Agrees
  <2>5. CASE ~raised /\ op \in {"share_paths", "search_arbs"}
    <3>1. pc' \in {"loop", "check"}
      BY <1>8, <2>5 DEF Return
    <3>. QED BY <2>1, <2>5, <3>1 DEF ReplicaInv, Current
  <2>. QED
    BY <2>1, <2>2, <2>3, <2>4, <2>5 DEF TypeOK, CallTypeOK, BarrierOps
<1>9. ASSUME NEW p \in Procs,
             \/ TakeTask(p) \/ LeaveBarrier(p) \/ ReadLastIdx(p)
             \/ WriteLastIdx(p) \/ SearchChunk(p)
      PROVE  ReplicaInv'
  BY <1>9 DEF TakeTask, LeaveBarrier, ReadLastIdx, WriteLastIdx, SearchChunk,
     mainVars, ReplicaInv, Current, NewWorkersEmpty, Agrees
<1>10. ASSUME NEW p \in Procs, Apply(p) PROVE ReplicaInv'
  <2>1. /\ op \in BarrierOps /\ op' = op /\ arg' = arg /\ pc' = pc
        /\ pools' = pools /\ changed' = changed /\ ID' = ID /\ wpc[p] = "run"
        /\ POOLS' = [POOLS EXCEPT ![p] = NewPOOLS(p)] /\ pc = "call"
    BY <1>10 DEF Apply, Raise, mainVars, ControlInv, BarrierOps
  <2>2. CASE op \in {"share_paths", "remove_blacklisted"}
    <3>1. POOLS' = POOLS
      BY <2>1, <2>2 DEF NewPOOLS, TypeOK, WorkerTypeOK
    <3>. QED BY <2>1, <2>2, <3>1 DEF ReplicaInv, Current
  <2>3. CASE op \in {"share_pools", "update_pools"}
    <3>1. CASE ID[p] <= N
      <4>1. finish_arr' = [finish_arr EXCEPT ![ID[p]] = 1] /\ raised' = raised
        BY <1>10, <3>1, NAssumption DEF Apply, TypeOK, WorkerTypeOK
      <4>2. finish_arr[ID[p]] = 0
        BY <2>1, <3>1 DEF BarrierInv
      <4>3. NewPOOLS(p) = pools
        BY <2>3, <3>1, <4>2 DEF NewPOOLS, ReplicaInv
      <4>4. \A q \in Procs : q # p => ID[q] # ID[p]
        BY DEF IdInv
      <4>5. \A q \in Procs : q # p =>
              POOLS'[q] = POOLS[q]
              /\ (ID[q] <= N => finish_arr'[ID[q]] = finish_arr[ID[q]])
        BY <1>0, <2>1, <4>1, <4>4 DEF TypeOK, WorkerTypeOK, CallTypeOK
      <4>6. POOLS'[p] = pools /\ finish_arr'[ID[p]] = 1
        BY <1>0, <2>1, <3>1, <4>1, <4>3 DEF TypeOK, WorkerTypeOK, CallTypeOK
      <4>7. ~raised => NewWorkersEmpty'
        BY <2>1, <2>3, <3>1, <4>5 DEF ReplicaInv, NewWorkersEmpty
      <4>. QED
        BY <2>1, <2>3, <4>1, <4>5, <4>6, <4>7 DEF ReplicaInv, Agrees
    <3>2. CASE ID[p] > N
      <4>1. raised' = TRUE /\ finish_arr' = finish_arr
        BY <1>10, <3>2, NAssumption DEF Apply, Raise, TypeOK, WorkerTypeOK
      <4>2. \A q \in Procs : ID[q] <= N => POOLS'[q] = POOLS[q]
        BY <2>1, <3>2, NAssumption DEF TypeOK, WorkerTypeOK
      <4>. QED
        BY <2>1, <2>3, <4>1, <4>2 DEF ReplicaInv, Agrees
    <3>. QED BY <3>1, <3>2, NAssumption DEF TypeOK, WorkerTypeOK
  <2>. QED BY <2>1, <2>2, <2>3 DEF BarrierOps
<1>11. ASSUME NEW p \in Procs, BeginSearch(p) PROVE ReplicaInv'
  <2>1. /\ op = "search_arbs" /\ op' = op /\ arg' = arg /\ pc' = pc
        /\ pools' = pools /\ changed' = changed /\ ID' = ID /\ pc = "call"
    BY <1>11 DEF BeginSearch, Raise, mainVars, callVars, ControlInv
  <2>2. Current /\ Agrees(arg.pools)
    BY <2>1 DEF ReplicaInv
  <2>3. POOLS[p] # Absent => Updated(POOLS[p], arg.pools) = POOLS[p]
    BY <2>2, UpdatedAgreeing DEF Current, Agrees, TypeOK, MainTypeOK, CallTypeOK
  <2>4. POOLS' = POOLS
    BY <1>11, <2>3 DEF BeginSearch, TypeOK, WorkerTypeOK
  <2>. QED BY <2>1, <2>2, <2>4 DEF ReplicaInv, Current, Agrees
<1>12. ASSUME NEW p \in Procs, Die(p) PROVE ReplicaInv'
  <2>1. /\ UNCHANGED <<mainVars, callVars>>
        /\ ID' = [ID EXCEPT ![p] = counter]
        /\ POOLS' = [POOLS EXCEPT ![p] = Absent]
    BY <1>12 DEF Die
  <2>2. \A q \in Procs :
          IF q = p THEN POOLS'[q] = Absent
          ELSE ID'[q] = ID[q] /\ POOLS'[q] = POOLS[q]
    BY <2>1 DEF IdInv, TypeOK, WorkerTypeOK
  <2>3. ~(ID'[p] <= N)
    BY <2>1, NAssumption DEF IdInv, TypeOK, WorkerTypeOK
  <2>. QED
    BY <2>1, <2>2, <2>3 DEF mainVars, callVars, ReplicaInv, Current,
       NewWorkersEmpty, Agrees
<1>. QED
  BY <1>1, <1>2, <1>3, <1>4, <1>5, <1>6, <1>7, <1>8, <1>9, <1>10, <1>11, <1>12
  DEF Next, Main, Worker

-----------------------------------------------------------------------------
(* The theorems                                                              *)

\* The invariant holds at first.
LEMMA InitIInv == Init => IInv
<1>. SUFFICES ASSUME Init PROVE IInv
  OBVIOUS
<1>1. TypeOK
  <2>1. MainTypeOK
    BY EmptyDictType DEF Init, MainTypeOK, MainPoints
  <2>2. CallTypeOK
    <3>1. arg.pools \in PoolDict /\ arg.gone \subseteq Paths
      BY EmptyDictType, MessageFields DEF Init
    <3>2. queue \in 0..N /\ left \in 0..N /\ lock \in 0..N
      BY NAssumption DEF Init
    <3>. QED BY <3>1, <3>2 DEF Init, CallTypeOK
  <2>3. WorkerTypeOK
    <3>1. ID \in [Procs -> Nat \ {0}]
      BY NAssumption DEF Init, Procs
    <3>. QED
      BY <3>1, NAssumption, DeathsAssumption
      DEF Init, WorkerTypeOK, WorkerPoints
  <2>. QED BY <2>1, <2>2, <2>3 DEF TypeOK
<1>2. IdInv
  BY NAssumption DEF Init, IdInv, Procs
<1>3. ControlInv
  <2>1. Busy = {}
    BY DEF Init, Busy
  <2>. QED BY <2>1, FS_EmptySet DEF Init, ControlInv
<1>4. BarrierInv
  BY DEF Init, BarrierInv, BarrierOps
<1>5. ReplicaInv
  BY NAssumption DEF Init, ReplicaInv, NewWorkersEmpty, Procs
<1>. QED BY <1>1, <1>2, <1>3, <1>4, <1>5 DEF IInv

\* It holds as long as nothing changes.
LEMMA StutterIInv == ASSUME IInv, UNCHANGED vars PROVE IInv'
BY DEF IInv, vars, mainVars, callVars, workerVars, TypeOK, MainTypeOK,
   CallTypeOK, WorkerTypeOK, IdInv, ControlInv, BarrierInv, ReplicaInv, Busy,
   Answered, AllFinished, Took, Current, NewWorkersEmpty, Agrees

\* The invariant holds in every reachable state.
THEOREM Invariance == Spec => []IInv
<1>1. IInv /\ [Next]_vars => IInv'
  BY TypeStep, IdStep, ControlStep, BarrierStep, ReplicaStep, StutterIInv DEF IInv
<1>. QED BY InitIInv, <1>1, PTL DEF Spec

\* Every variable keeps its type: in particular a call never waits for a
\* negative number of answers, nor for more than it has tasks.
THEOREM TypeCorrect == Spec => []TypeOK
BY Invariance, PTL DEF IInv

\* For any number of workers and of worker deaths, what a worker searches it
\* prices with the pools of the main process.
THEOREM SearchIsCurrent == Spec => []SearchSeesMainPools
<1>1. IInv => SearchSeesMainPools
  BY DEF IInv, ControlInv, ReplicaInv, Current, SearchSeesMainPools
<1>. QED BY Invariance, <1>1, PTL

\* For any number of workers and of worker deaths, a broadcast is answered at
\* most once by every ID, and by every one if it returns normally.
THEOREM BroadcastIsExact == Spec => []OneAnswerPerID
<1>1. IInv => OneAnswerPerID
  <2>. SUFFICES ASSUME IInv, op \in BarrierOps
                PROVE  /\ \A i \in Procs : answers[i] <= 1
                       /\ left = 0 /\ ~raised => \A i \in Procs : answers[i] = 1
    BY DEF OneAnswerPerID
  <2>1. \A i \in Procs : answers[i] <= 1
    BY DEF IInv, BarrierInv
  <2>2. ASSUME left = 0, ~raised PROVE \A i \in Procs : answers[i] = 1
    <3>1. Answered \in SUBSET Procs /\ Cardinality(Answered) = N
      BY <2>2, SubsetOfProcs DEF IInv, BarrierInv, Answered
    <3>. QED BY <3>1, SubsetOfProcs DEF Answered
  <2>. QED BY <2>1, <2>2
<1>. QED BY Invariance, <1>1, PTL

\* For any number of workers and of worker deaths, a broadcast of pools that
\* returns normally has reached every worker it was meant for.
THEOREM BroadcastIsComplete == Spec => []BroadcastReachesAll
<1>1. IInv => BroadcastReachesAll
  <2>1. ASSUME IInv PROVE \A p \in Procs : ID[p] <= N <=> ~(ID[p] > N)
    BY <2>1, NAssumption DEF IInv, TypeOK, WorkerTypeOK
  <2>. QED BY <2>1, ReturnedCurrent DEF BroadcastReachesAll, Current
<1>. QED BY Invariance, <1>1, PTL

-----------------------------------------------------------------------------
(* The mapping of the pools to their paths                                   *)

\* The mappings that a process can have.
PathDict == UNION {[D -> Seq(Paths)] : D \in SUBSET Pools}

\* The paths that main has: all their pools are in D, and they are not in bl.
Live(D, bl) == {q \in Paths : PoolsOf[q] \subseteq D /\ q \notin bl}

\* Under each of its pools, the mapping has those paths, in any order.
Maps(p2p, D, bl) ==
  /\ p2p \in PathDict
  /\ \A a \in Pools : \A q \in Paths :
       (a \in DOMAIN p2p /\ q \in ToSet(p2p[a])) <=> (a \in PoolsOf[q] /\ q \in Live(D, bl))

\* What build_paths builds.
LEMMA BuildMaps ==
  ASSUME NEW d \in PoolDict, NEW bl
  PROVE  Maps(build_paths(d, bl), DOMAIN d, bl)
<1>. DEFINE found == Live(DOMAIN d, bl)
            keys == UNION {PoolsOf[q] : q \in found}
            Of(a) == Kept(PathOrder, {q \in found : a \in PoolsOf[q]})
            p2p == build_paths(d, bl)
<1>1. p2p = [a \in keys |-> Of(a)]
  <2>1. {q \in Paths \ bl : PoolsOf[q] \subseteq DOMAIN d} = found
    BY DEF Live
  <2>. QED BY <2>1, Zenon DEF build_paths
<1>2. found \subseteq Paths
  BY DEF Live
<1>3. \A a : Of(a) \in Seq(Paths) /\ ToSet(Of(a)) = {q \in found : a \in PoolsOf[q]}
  <2>. TAKE a
  <2>. DEFINE S == {q \in found : a \in PoolsOf[q]}
  <2>1. S \subseteq Paths
    BY <1>2
  <2>. HIDE DEF S
  <2>2. Kept(PathOrder, S) \in Seq(Paths) /\ ToSet(Kept(PathOrder, S)) = S
    <3>1. PathOrder \in Seq(Paths) /\ ToSet(PathOrder) = Paths
      BY PathsAssumption
    <3>2. Kept(PathOrder, S) \in Seq(Paths) /\ ToSet(Kept(PathOrder, S)) = Paths \cap S
      BY <3>1, KeptIs
    <3>. QED BY <2>1, <3>2
  <2>. QED BY <2>2 DEF S
<1>4. keys \subseteq Pools
  BY <1>2, PathsAssumption
<1>. HIDE DEF Of, found
<1>5. p2p \in PathDict
  <2>1. [a \in keys |-> Of(a)] \in [keys -> Seq(Paths)]
    BY <1>3
  <2>. QED BY <1>1, <1>4, <2>1 DEF PathDict
<1>6. \A a \in Pools : \A q \in Paths :
        (a \in DOMAIN p2p /\ q \in ToSet(p2p[a])) <=> (a \in PoolsOf[q] /\ q \in found)
  <2>1. DOMAIN p2p = keys /\ \A a \in keys : p2p[a] = Of(a)
    BY <1>1
  <2>. HIDE DEF p2p
  <2>. QED BY <1>3, <2>1
<1>. QED BY <1>5, <1>6 DEF Maps, found

\* Removing paths from a mapping, whatever the order in which they are hashed.
LEMMA RemoveMaps ==
  ASSUME NEW p2p, NEW D, NEW bl, Maps(p2p, D, bl), NEW gone,
         NEW order \in Seq(Paths), ToSet(order) = Paths
  PROVE  Maps(remove_from_paths(p2p, gone, order), D, bl \cup gone)
<1>. DEFINE Of(a) == IF ToSet(p2p[a]) \cap gone = {} THEN p2p[a]
                     ELSE Kept(order, ToSet(p2p[a]) \ gone)
            new == remove_from_paths(p2p, gone, order)
<1>1. new = [a \in DOMAIN p2p |-> Of(a)]
  BY Zenon DEF remove_from_paths
<1>2. PICK E \in SUBSET Pools : p2p \in [E -> Seq(Paths)]
  BY DEF Maps, PathDict
<1>3. ASSUME NEW a \in E
      PROVE  Of(a) \in Seq(Paths) /\ ToSet(Of(a)) = ToSet(p2p[a]) \ gone
  <2>. DEFINE s == p2p[a]
              S == ToSet(s) \ gone
  <2>1. s \in Seq(Paths)
    BY <1>2
  <2>. HIDE DEF s
  <2>2. ToSet(s) \subseteq Paths
    BY <2>1 DEF ToSet
  <2>3. CASE ToSet(s) \cap gone = {}
    <3>1. Of(a) = s
      BY <2>3 DEF s
    <3>. QED BY <2>1, <2>3, <3>1 DEF s
  <2>4. CASE ToSet(s) \cap gone # {}
    <3>1. Of(a) = Kept(order, S)
      BY <2>4 DEF s
    <3>2. Kept(order, S) \in Seq(Paths) /\ ToSet(Kept(order, S)) = Paths \cap S
      BY KeptIs
    <3>. QED BY <2>2, <3>1, <3>2 DEF s
  <2>. QED BY <2>3, <2>4
<1>. HIDE DEF Of
<1>4. DOMAIN new = E /\ DOMAIN p2p = E /\ \A a \in E : new[a] = Of(a)
  BY <1>1, <1>2
<1>5. new \in PathDict
  <2>1. [a \in E |-> Of(a)] \in [E -> Seq(Paths)]
    BY <1>3
  <2>. QED BY <1>1, <1>4, <2>1 DEF PathDict
<1>. HIDE DEF new
<1>6. \A a \in Pools : \A q \in Paths :
        (a \in E /\ q \in ToSet(p2p[a])) <=> (a \in PoolsOf[q] /\ q \in Live(D, bl))
  BY <1>4 DEF Maps
<1>7. \A q : q \in Live(D, bl \cup gone) <=> q \in Live(D, bl) /\ q \notin gone
  BY DEF Live
<1>8. \A a \in Pools : \A q \in Paths :
        (a \in E /\ q \in ToSet(new[a])) <=> (a \in PoolsOf[q] /\ q \in Live(D, bl \cup gone))
  BY <1>3, <1>4, <1>6, <1>7
<1>. QED BY <1>4, <1>5, <1>8, Zenon DEF Maps, new

\* The paths of the pools that changed.
Wanted(new, D, bl) == {q \in Live(D, bl) : PoolsOf[q] \cap DOMAIN new # {}}

\* What get_unique_paths finds in a mapping.
LEMMA UniqueMaps ==
  ASSUME NEW new \in PoolDict, NEW p2p, NEW D, NEW bl, Maps(p2p, D, bl)
  PROVE  /\ get_unique_paths(new, p2p) \in Seq(Paths)
         /\ ToSet(get_unique_paths(new, p2p)) = Wanted(new, D, bl)
         /\ IsInjective(get_unique_paths(new, p2p))
<1>. DEFINE both == DOMAIN new \cap DOMAIN p2p
            keys == Kept(PoolOrder, both)
            seqs == [i \in DOMAIN keys |-> p2p[keys[i]]]
            all == FlattenSeq(seqs)
<1>1. get_unique_paths(new, p2p) = Once(all)
  BY Zenon DEF get_unique_paths, Once
<1>2. PICK E \in SUBSET Pools : p2p \in [E -> Seq(Paths)]
  BY DEF Maps, PathDict
<1>3. DOMAIN new \subseteq Pools /\ DOMAIN p2p = E
  BY <1>2, DomainType
<1>4. keys \in Seq(Pools) /\ ToSet(keys) = both
  <2>1. both \subseteq Pools
    BY <1>3
  <2>. HIDE DEF both
  <2>2. PoolOrder \in Seq(Pools) /\ ToSet(PoolOrder) = Pools
    BY PathsAssumption
  <2>3. Kept(PoolOrder, both) \in Seq(Pools) /\ ToSet(Kept(PoolOrder, both)) = Pools \cap both
    BY <2>2, KeptIs
  <2>. QED BY <2>1, <2>3
<1>. HIDE DEF keys
<1>5. DOMAIN keys = 1..Len(keys) /\ Len(keys) \in Nat
  BY <1>4
<1>6. \A i \in DOMAIN keys : keys[i] \in both
  BY <1>4 DEF ToSet
<1>7. seqs \in Seq(Seq(Paths)) /\ DOMAIN seqs = DOMAIN keys
  <2>1. \A i \in DOMAIN keys : p2p[keys[i]] \in Seq(Paths)
    BY <1>2, <1>3, <1>6
  <2>. QED BY <1>5, <2>1
<1>8. /\ all \in Seq(Paths)
      /\ ToSet(all) = UNION {ToSet(seqs[i]) : i \in DOMAIN seqs}
  <2>. HIDE DEF seqs
  <2>. QED BY <1>7, FlattenSeqIs
<1>9. \A i \in DOMAIN keys : seqs[i] = p2p[keys[i]]
  OBVIOUS
<1>10. \A q \in Paths : q \in ToSet(all) <=> \E a \in both : q \in ToSet(p2p[a])
  <2>. HIDE DEF seqs, all, both
  <2>1. \A a \in both : \E i \in DOMAIN keys : keys[i] = a
    BY <1>4 DEF ToSet
  <2>2. ASSUME NEW q \in ToSet(all) PROVE \E a \in both : q \in ToSet(p2p[a])
    <3>1. PICK i \in DOMAIN keys : q \in ToSet(seqs[i])
      BY <1>7, <1>8
    <3>2. seqs[i] = p2p[keys[i]] /\ keys[i] \in both
      BY <1>6, <1>9
    <3>. QED BY <3>1, <3>2, Zenon
  <2>3. ASSUME NEW a \in both, NEW q \in ToSet(p2p[a]) PROVE q \in ToSet(all)
    <3>1. PICK i \in DOMAIN keys : keys[i] = a
      BY <2>1
    <3>2. seqs[i] = p2p[a]
      BY <1>9, <3>1, Zenon
    <3>3. q \in ToSet(seqs[i]) /\ i \in DOMAIN seqs
      BY <1>7, <3>2, Zenon
    <3>. QED BY <1>8, <3>3
  <2>. QED BY <2>2, <2>3, Zenon
<1>. HIDE DEF seqs, all
<1>11. \A q \in Paths : (\E a \in both : q \in ToSet(p2p[a])) <=> q \in Wanted(new, D, bl)
  <2>1. \A a \in Pools : \A q \in Paths :
          (a \in E /\ q \in ToSet(p2p[a])) <=> (a \in PoolsOf[q] /\ q \in Live(D, bl))
    BY <1>3 DEF Maps
  <2>. QED BY <1>3, <2>1 DEF Wanted
<1>12. Wanted(new, D, bl) \subseteq Paths
  BY DEF Wanted, Live
<1>13. ToSet(all) = Wanted(new, D, bl)
  <2>1. ToSet(all) \subseteq Paths
    BY <1>8 DEF ToSet
  <2>. HIDE DEF both
  <2>. QED BY <1>10, <1>11, <1>12, <2>1
<1>14. /\ Once(all) \in Seq(Paths) /\ ToSet(Once(all)) = ToSet(all)
       /\ IsInjective(Once(all))
  BY <1>8, OnceIs
<1>. QED BY <1>1, <1>13, <1>14, Zenon

-----------------------------------------------------------------------------
(* The replicas of the mapping                                               *)

\* Each worker has its entry, and an order in which it hashes the paths, which never
\* changes; forked ones hash them alike.
OrderInv ==
  /\ DOMAIN PATHS = Procs
  /\ \A p \in Procs : hash_order[p] \in Seq(Paths) /\ ToSet(hash_order[p]) = Paths
  /\ SameHashSeed => \A p, q \in Procs : hash_order[p] = hash_order[q]

\* Every original worker has the paths that are not in bl, and forked ones have
\* them in the same order.
Right(bl) ==
  /\ \A p \in Procs : ID[p] <= N => Maps(PATHS[p], DOMAIN pools, bl)
  /\ SameHashSeed => \A p, q \in Procs : ID[p] <= N /\ ID[q] <= N => PATHS[p] = PATHS[q]

\* A worker was replaced; the barrier waits for one that is not there any more.
Replaced == \E p \in Procs : ~ (ID[p] <= N)
Lost == \E i \in Procs : finish_arr[i] = 0 /\ \A p \in Procs : ID[p] # i

\* While paths are removed, the workers that marked their slot have done it, forked
\* ones from the same mapping.
Removing(bl, old) ==
  /\ blacklist = bl \cup arg.gone
  /\ \A p \in Procs : ID[p] <= N =>
       /\ finish_arr[ID[p]] = 1 => Maps(PATHS[p], DOMAIN pools, blacklist)
       /\ finish_arr[ID[p]] = 0 => Maps(PATHS[p], DOMAIN pools, bl)
  /\ SameHashSeed => \A p \in Procs : ID[p] <= N =>
       /\ finish_arr[ID[p]] = 1 => PATHS[p] = remove_from_paths(old, arg.gone, hash_order[p])
       /\ finish_arr[ID[p]] = 0 => PATHS[p] = old
  /\ raised => Replaced

\* A replacement takes the task of another worker, which then misses what is
\* removed: until the next update, which does not return without an exception
\* unless no worker was replaced before.
MapsInv ==
  /\ pc \in {"search", "check"} \/ op = "search_arbs" => Right(blacklist)
  /\ pc = "loop" => Right(blacklist) \/ Replaced
  /\ pc = "execute" => \E bl : blacklist = bl \cup to_blacklist /\ Right(bl)
  /\ op = "share_paths" =>
       /\ Maps(arg.paths, DOMAIN pools, blacklist)
       /\ \A p \in Procs : ID[p] <= N /\ finish_arr[ID[p]] = 1 => PATHS[p] = arg.paths
  /\ op = "update_pools" => Right(blacklist) \/ Lost
  /\ op = "remove_blacklisted" => \E bl, old : Removing(bl, old)

\* The original workers keep what they have right when neither it nor the pools change.
LEMMA RightStays ==
  ASSUME NEW bl, Right(bl), DOMAIN pools' = DOMAIN pools,
         \A p \in Procs : ID'[p] <= N => ID[p] <= N /\ PATHS'[p] = PATHS[p]
  PROVE  Right(bl)'
<1>1. ASSUME NEW p \in Procs, ID'[p] <= N PROVE Maps(PATHS'[p], DOMAIN pools', bl)
  <2>1. Maps(PATHS[p], DOMAIN pools, bl)
    BY <1>1, Zenon DEF Right
  <2>2. PATHS'[p] = PATHS[p]
    BY <1>1, Zenon
  <2>. QED BY <2>1, <2>2, Zenon
<1>2. ASSUME SameHashSeed, NEW p \in Procs, NEW q \in Procs, ID'[p] <= N, ID'[q] <= N
      PROVE  PATHS'[p] = PATHS'[q]
  <2>1. /\ ID[p] <= N /\ PATHS'[p] = PATHS[p]
        /\ ID[q] <= N /\ PATHS'[q] = PATHS[q]
    BY <1>2, Zenon
  <2>2. PATHS[p] = PATHS[q]
    BY <1>2, <2>1, Zenon DEF Right
  <2>. QED BY <2>1, <2>2, Zenon
<1>. QED BY <1>1, <1>2, Zenon DEF Right

\* Where a worker was replaced, one of the first IDs is gone.
LEMMA ReplacedLoses ==
  ASSUME IInv, Replaced
  PROVE  \E i \in Procs : \A p \in Procs : ID[p] # i
<1>. SUFFICES ASSUME \A i \in Procs : \E p \in Procs : ID[p] = i PROVE FALSE
  OBVIOUS
<1>1. PICK lost \in Procs : ~ (ID[lost] <= N)
  BY DEF Replaced
<1>. DEFINE Others == Procs \ {lost}
            f == [p \in Others |-> ID[p]]
            Images == {f[p] : p \in Others}
<1>2. IsFiniteSet(Others) /\ Cardinality(Others) = N - 1
  BY ProcsFinite, FS_RemoveElement
<1>3. Procs \subseteq Images
  <2>1. lost # lost => FALSE
    OBVIOUS
  <2>2. \A i \in Procs : i <= N
    BY NAssumption DEF Procs
  <2>. QED BY <1>1, <2>2
<1>4. IsFiniteSet(Images) /\ Cardinality(Images) <= Cardinality(Others)
  <2>1. f \in [Others -> Images]
    OBVIOUS
  <2>2. f \in Surjection(Others, Images)
    BY <2>1 DEF Surjection
  <2>. QED BY <1>2, <2>2, FS_Surjection
<1>5. Cardinality(Procs) <= Cardinality(Images)
  BY <1>3, <1>4, FS_Subset
<1>6. Cardinality(Images) \in Nat
  BY <1>4, FS_CardinalityType
<1>. HIDE DEF Images
<1>. QED BY <1>2, <1>4, <1>5, <1>6, ProcsFinite, NAssumption

\* What share_paths sends.
LEMMA SendPathsIs == \A p2p : SendPaths(p2p).paths = p2p
BY DEF SendPaths, NoArg

\* The slots of the original workers.
LEMMA OriginalSlot ==
  ASSUME IInv, NEW p \in Procs, ID[p] <= N
  PROVE  ID[p] \in Procs /\ (finish_arr[ID[p]] = 0 \/ finish_arr[ID[p]] = 1)
BY NAssumption DEF IInv, TypeOK, WorkerTypeOK, CallTypeOK, Procs

\* A broadcast starts with no slot marked.
LEMMA BroadcastSlots ==
  ASSUME IInv, NEW o, NEW m, Broadcast(o, m)
  PROVE  /\ op = "none" /\ op' = o /\ arg' = m /\ pc' = "call" /\ raised' = FALSE
         /\ finish_arr' = [i \in Procs |-> 0]
         /\ ID' = ID /\ PATHS' = PATHS /\ hash_order' = hash_order /\ wpc' = wpc
         /\ \A i \in Procs : finish_arr'[i] = 0
BY DEF Broadcast, workerVars

\* Steps of main keep the replicas of the mapping right, or on their way there.
LEMMA MapsMain == ASSUME IInv, OrderInv, MapsInv, Main PROVE MapsInv'
<1>0. op = "none" <=> pc # "call"
  BY DEF IInv, ControlInv
<1>1. CASE LoadData \/ PollPools \/ Restart
  <2>1. pc' \in {"load", "share"} /\ op' = "none"
    BY <1>0, <1>1 DEF LoadData, PollPools, Restart, callVars
  <2>. QED BY <2>1 DEF MapsInv
<1>2. CASE SharePools
  <2>1. pc' = "call" /\ op' = "share_pools"
    BY <1>2 DEF SharePools, Broadcast
  <2>. QED BY <2>1 DEF MapsInv
<1>3. CASE SharePaths
  <2>. DEFINE p2p == build_paths(pools, blacklist)
  <2>1. /\ pc' = "call" /\ op' = "share_paths" /\ ID' = ID
        /\ pools' = pools /\ blacklist' = blacklist
        /\ arg' = SendPaths(p2p) /\ \A i \in Procs : finish_arr'[i] = 0
    BY <1>3, BroadcastSlots DEF SharePaths
  <2>2. arg'.paths = p2p
    BY <2>1, SendPathsIs
  <2>3. Maps(p2p, DOMAIN pools, blacklist)
    BY BuildMaps DEF IInv, TypeOK, MainTypeOK
  <2>. HIDE DEF p2p
  <2>4. \A p \in Procs : ID[p] <= N => finish_arr'[ID[p]] # 1
    BY <2>1, OriginalSlot
  <2>. QED BY <2>1, <2>2, <2>3, <2>4, Zenon DEF MapsInv
<1>4. CASE UpdateAllPools \/ UpdateChangedPools
  <2>1. /\ pc = "loop" /\ pc' = "call" /\ op' = "update_pools" /\ ID' = ID
        /\ PATHS' = PATHS /\ blacklist' = blacklist
        /\ \A i \in Procs : finish_arr'[i] = 0
    BY <1>4, BroadcastSlots DEF UpdateAllPools, UpdateChangedPools
  <2>2. DOMAIN pools' = DOMAIN pools
    <3>1. CASE UpdateAllPools
      BY <3>1 DEF UpdateAllPools
    <3>2. CASE UpdateChangedPools
      <4>1. PICK to_update \in SUBSET DOMAIN pools :
              \E new \in [to_update -> Reserves] : pools' = Updated(pools, new)
        BY <3>2, Zenon DEF UpdateChangedPools
      <4>. QED BY <4>1 DEF Updated
    <3>. QED BY <1>4, <3>1, <3>2
  <2>3. CASE Replaced
    <3>1. Lost'
      BY <2>1, <2>3, ReplacedLoses, Zenon DEF Lost
    <3>. QED BY <2>1, <3>1 DEF MapsInv
  <2>4. CASE Right(blacklist)
    <3>1. Right(blacklist)'
      BY <2>1, <2>2, <2>4, Zenon DEF Right
    <3>. QED BY <2>1, <3>1 DEF MapsInv
  <2>. QED BY <2>1, <2>3, <2>4 DEF MapsInv
<1>5. CASE SearchArbs
  <2>1. /\ pc = "search" /\ pc' = "call" /\ op' = "search_arbs" /\ ID' = ID
        /\ PATHS' = PATHS /\ blacklist' = blacklist /\ pools' = pools
    BY <1>5, BroadcastSlots DEF SearchArbs
  <2>2. Right(blacklist)'
    BY <2>1, Zenon DEF MapsInv, Right
  <2>. QED BY <2>1, <2>2 DEF MapsInv
<1>6. CASE CheckArbs
  <2>1. /\ pc = "check" /\ op = "none" /\ op' = "none" /\ ID' = ID /\ PATHS' = PATHS
        /\ pools' = pools /\ blacklist' = blacklist \cup to_blacklist'
        /\ pc' = IF to_blacklist' = {} THEN "loop" ELSE "execute"
    BY <1>0, <1>6 DEF CheckArbs, workerVars
  <2>2. Right(blacklist)
    BY <2>1 DEF MapsInv
  <2>3. \A bl : Right(bl) => Right(bl)'
    BY <2>1, Zenon DEF Right
  <2>4. CASE to_blacklist' = {}
    <3>1. pc' = "loop" /\ blacklist' = blacklist
      BY <2>1, <2>4
    <3>2. Right(blacklist)'
      BY <2>1, <2>2, <3>1, Zenon DEF Right
    <3>. QED BY <2>1, <3>1, <3>2 DEF MapsInv
  <2>5. CASE to_blacklist' # {}
    <3>1. pc' = "execute"
      BY <2>1, <2>5
    <3>2. \E bl : blacklist' = bl \cup to_blacklist' /\ Right(bl)'
      BY <2>1, <2>2, <2>3, Zenon
    <3>. QED BY <2>1, <3>1, <3>2 DEF MapsInv
  <2>. QED BY <2>4, <2>5
<1>7. CASE RemoveBlacklisted
  <2>1. /\ pc = "execute" /\ pc' = "call" /\ op' = "remove_blacklisted" /\ ID' = ID
        /\ PATHS' = PATHS /\ pools' = pools /\ blacklist' = blacklist
        /\ raised' = FALSE /\ arg' = SendGone(to_blacklist)
        /\ \A i \in Procs : finish_arr'[i] = 0
    BY <1>7, BroadcastSlots DEF RemoveBlacklisted
  <2>2. PICK bl : blacklist = bl \cup to_blacklist /\ Right(bl)
    BY <2>1 DEF MapsInv
  <2>3. arg'.gone = to_blacklist
    BY <2>1, MessageFields
  <2>4. \A p \in Procs : ID[p] <= N => finish_arr'[ID[p]] = 0 /\ finish_arr'[ID[p]] # 1
    BY <2>1, OriginalSlot
  <2>5. PICK old : SameHashSeed => \A p \in Procs : ID[p] <= N => PATHS[p] = old
    BY <2>2, Zenon DEF Right
  <2>6. Removing(bl, old)'
    BY <2>1, <2>2, <2>3, <2>4, <2>5, Zenon DEF Removing, Right
  <2>. QED BY <2>1, <2>6 DEF MapsInv
<1>8. CASE Return
  <2>1. /\ left = 0 /\ op' = "none" /\ ID' = ID /\ PATHS' = PATHS /\ pools' = pools
        /\ blacklist' = blacklist /\ to_blacklist' = to_blacklist
    BY <1>8 DEF Return, workerVars
  <2>2. \A bl : Right(bl) => Right(bl)'
    BY <2>1, Zenon DEF Right
  <2>3. Right(blacklist) => Right(blacklist)'
    BY <2>1, <2>2
  <2>4. Replaced => Replaced'
    BY <2>1 DEF Replaced
  <2>5. ASSUME op \in BarrierOps, ~ raised
        PROVE  \A i \in Procs : finish_arr[i] = 1
    BY <2>1, <2>5, ReturnedFinished DEF AllFinished
  <2>6. CASE (raised /\ op # "remove_blacklisted") \/ op = "share_pools"
    <3>1. pc' \in {"exit", "build"}
      BY <1>8, <2>6 DEF Return
    <3>. QED BY <2>1, <3>1 DEF MapsInv
  <2>7. CASE ~ raised /\ op = "share_paths"
    <3>1. pc' = "loop"
      BY <1>8, <2>7 DEF Return
    <3>2. \A p \in Procs : ID[p] <= N => finish_arr[ID[p]] = 1
      BY <2>5, <2>7, OriginalSlot DEF BarrierOps
    <3>3. Right(blacklist)
      BY <2>7, <3>2, Zenon DEF MapsInv, Right
    <3>. QED BY <2>1, <2>3, <3>1, <3>3 DEF MapsInv
  <2>8. CASE ~ raised /\ op = "update_pools"
    <3>1. pc' \in {"loop", "search"}
      BY <1>8, <2>8 DEF Return
    <3>2. ~ Lost
      <4>1. \A i \in Procs : finish_arr[i] # 0
        BY <2>5, <2>8 DEF BarrierOps
      <4>. QED BY <4>1 DEF Lost
    <3>3. Right(blacklist)
      BY <2>8, <3>2 DEF MapsInv
    <3>. QED BY <2>1, <2>3, <3>1, <3>3 DEF MapsInv
  <2>9. CASE ~ raised /\ op = "search_arbs"
    <3>1. pc' = "check"
      BY <1>8, <2>9 DEF Return
    <3>2. Right(blacklist)
      BY <2>9 DEF MapsInv
    <3>. QED BY <2>1, <2>3, <3>1, <3>2 DEF MapsInv
  <2>10. CASE op = "remove_blacklisted"
    <3>1. pc' = "loop"
      BY <1>8, <2>10 DEF Return
    <3>2. PICK bl, old : Removing(bl, old)
      BY <2>10 DEF MapsInv
    <3>3. CASE raised
      <4>1. Replaced'
        BY <2>4, <3>2, <3>3 DEF Removing
      <4>. QED BY <2>1, <3>1, <4>1 DEF MapsInv
    <3>4. CASE ~ raised
      <4>1. \A p \in Procs : ID[p] <= N => finish_arr[ID[p]] = 1
        BY <2>5, <2>10, <3>4, OriginalSlot DEF BarrierOps
      <4>2. ASSUME NEW p \in Procs, ID[p] <= N PROVE Maps(PATHS[p], DOMAIN pools, blacklist)
        BY <3>2, <4>1, <4>2, Zenon DEF Removing
      <4>3. ASSUME SameHashSeed, NEW p \in Procs, NEW q \in Procs, ID[p] <= N, ID[q] <= N
            PROVE  PATHS[p] = PATHS[q]
        <5>1. hash_order[p] = hash_order[q]
          BY <4>3, Zenon DEF OrderInv
        <5>2. /\ PATHS[p] = remove_from_paths(old, arg.gone, hash_order[p])
              /\ PATHS[q] = remove_from_paths(old, arg.gone, hash_order[q])
          BY <3>2, <4>1, <4>3, Zenon DEF Removing
        <5>. QED BY <5>1, <5>2, Zenon
      <4>4. Right(blacklist)
        BY <4>2, <4>3, Zenon DEF Right
      <4>. QED BY <2>1, <2>3, <3>1, <4>4 DEF MapsInv
    <3>. QED BY <3>3, <3>4
  <2>11. op # "none" /\ op \in BarrierOps \cup {"none", "search_arbs"} /\ raised \in BOOLEAN
    BY <1>8 DEF Return, IInv, TypeOK, CallTypeOK
  <2>. QED BY <2>6, <2>7, <2>8, <2>9, <2>10, <2>11 DEF BarrierOps
<1>. QED BY <1>1, <1>2, <1>3, <1>4, <1>5, <1>6, <1>7, <1>8 DEF Main

\* Steps of a worker that do not touch the mapping.
LEMMA MapsOthers ==
  ASSUME IInv, MapsInv, NEW p \in Procs,
         \/ TakeTask(p) \/ LeaveBarrier(p) \/ BeginSearch(p)
         \/ ReadLastIdx(p) \/ WriteLastIdx(p) \/ SearchChunk(p)
  PROVE  MapsInv'
<1>1. /\ UNCHANGED <<pc, op, arg, ID, PATHS, hash_order, pools, blacklist, to_blacklist,
                 finish_arr>>
      /\ raised' = raised \/ op = "search_arbs"
  BY DEF TakeTask, LeaveBarrier, BeginSearch, ReadLastIdx, WriteLastIdx, SearchChunk,
     Answer, Raise, mainVars, callVars
<1>2. \A bl : Right(bl) => Right(bl)'
  BY <1>1, RightStays, Zenon
<1>3. (Replaced => Replaced') /\ (Lost => Lost')
  BY <1>1, Zenon DEF Replaced, Lost
<1>4. ASSUME op = "remove_blacklisted", NEW bl, NEW old, Removing(bl, old)
      PROVE  Removing(bl, old)'
  <2>1. raised' = raised
    BY <1>1, <1>4
  <2>. QED BY <1>1, <1>3, <1>4, <2>1, Zenon DEF Removing
<1>5. Right(blacklist) => Right(blacklist)'
  BY <1>1, <1>2
<1>. QED BY <1>1, <1>2, <1>3, <1>4, <1>5, Zenon DEF MapsInv

\* A worker applies a broadcast.
LEMMA MapsApply ==
  ASSUME IInv, OrderInv, MapsInv, NEW p \in Procs, Apply(p)
  PROVE  MapsInv'
<1>1. /\ UNCHANGED <<pc, op, arg, ID, hash_order, pools, blacklist, to_blacklist>>
      /\ op \in BarrierOps /\ wpc[p] = "run"
      /\ PATHS' = [PATHS EXCEPT ![p] = NewPATHS(p)]
  BY DEF Apply, Raise, mainVars
<1>2. pc = "call"
  BY <1>1 DEF IInv, ControlInv, BarrierOps
<1>3. PATHS'[p] = NewPATHS(p) /\ \A r \in Procs : r # p => PATHS'[r] = PATHS[r]
  <2>1. DOMAIN PATHS = Procs
    BY DEF OrderInv
  <2>. QED BY <1>1, <2>1
<1>4. CASE ID[p] <= N
  <2>1. finish_arr' = [finish_arr EXCEPT ![ID[p]] = 1] /\ raised' = raised
    BY <1>4, NAssumption DEF Apply, IInv, TypeOK, WorkerTypeOK
  <2>2. /\ finish_arr[ID[p]] = 0 /\ finish_arr'[ID[p]] = 1
        /\ \A i \in Procs : i # ID[p] => finish_arr'[i] = finish_arr[i]
    <3>1. finish_arr[ID[p]] = 0
      BY <1>1, <1>4 DEF IInv, BarrierInv
    <3>2. finish_arr \in [Procs -> {0, 1}] /\ ID[p] \in Procs
      BY <1>4, OriginalSlot DEF IInv, TypeOK, CallTypeOK
    <3>. QED BY <2>1, <3>1, <3>2
  <2>3. \A r \in Procs : r # p => ID[r] # ID[p]
    BY DEF IInv, IdInv
  <2>4. \A r \in Procs : r # p /\ ID[r] <= N =>
          finish_arr'[ID[r]] = finish_arr[ID[r]] /\ PATHS'[r] = PATHS[r]
    BY <1>3, <2>2, <2>3, OriginalSlot, Zenon
  <2>5. CASE op = "share_pools"
    BY <1>1, <1>2, <2>5 DEF MapsInv
  <2>6. CASE op = "share_paths"
    <3>1. PATHS'[p] = arg.paths
      BY <1>3, <2>6 DEF NewPATHS
    <3>2. \A r \in Procs : ID[r] <= N /\ finish_arr'[ID[r]] = 1 => PATHS'[r] = arg.paths
      <4>1. \A r \in Procs : ID[r] <= N /\ finish_arr[ID[r]] = 1 => PATHS[r] = arg.paths
        BY <2>6, Zenon DEF MapsInv
      <4>. QED BY <2>4, <3>1, <4>1, Zenon
    <3>3. Maps(arg.paths, DOMAIN pools, blacklist)
      BY <2>6, Zenon DEF MapsInv
    <3>4. /\ Maps(arg.paths, DOMAIN pools, blacklist)'
          /\ \A r \in Procs : ID'[r] <= N /\ finish_arr'[ID'[r]] = 1 => PATHS'[r] = arg'.paths
      BY <1>1, <3>2, <3>3, Zenon
    <3>. QED BY <1>1, <1>2, <2>6, <3>4 DEF MapsInv
  <2>7. CASE op = "update_pools"
    <3>1. PATHS'[p] = PATHS[p]
      BY <1>3, <2>7 DEF NewPATHS
    <3>2. \A r \in Procs : PATHS'[r] = PATHS[r]
      BY <1>3, <3>1, Zenon
    <3>3. Right(blacklist) => Right(blacklist)'
      BY <1>1, <3>2, RightStays, Zenon
    <3>4. Lost => Lost'
      BY <1>1, <2>2, Zenon DEF Lost
    <3>. QED BY <1>1, <1>2, <2>7, <3>3, <3>4 DEF MapsInv
  <2>8. CASE op = "remove_blacklisted"
    <3>1. PICK bl, old : Removing(bl, old)
      BY <2>8 DEF MapsInv
    <3>2. Maps(PATHS[p], DOMAIN pools, bl)
      BY <1>4, <2>2, <3>1, Zenon DEF Removing
    <3>3. PATHS[p] # Absent
      BY <3>2, AbsentAssumption DEF Maps, PathDict
    <3>4. PATHS'[p] = remove_from_paths(PATHS[p], arg.gone, hash_order[p])
      BY <1>3, <2>8, <3>3 DEF NewPATHS
    <3>5. Maps(PATHS'[p], DOMAIN pools, blacklist)
      <4>1. hash_order[p] \in Seq(Paths) /\ ToSet(hash_order[p]) = Paths
        BY DEF OrderInv
      <4>2. Maps(remove_from_paths(PATHS[p], arg.gone, hash_order[p]),
                 DOMAIN pools, bl \cup arg.gone)
        BY <3>2, <4>1, RemoveMaps, Zenon
      <4>3. blacklist = bl \cup arg.gone
        BY <3>1 DEF Removing
      <4>. QED BY <3>4, <4>2, <4>3
    <3>6. SameHashSeed => PATHS'[p] = remove_from_paths(old, arg.gone, hash_order[p])
      <4>1. SameHashSeed => PATHS[p] = old
        BY <1>4, <2>2, <3>1, Zenon DEF Removing
      <4>. QED BY <3>4, <4>1
    <3>7. \A r \in Procs : ID[r] <= N =>
            /\ finish_arr'[ID[r]] = 1 => Maps(PATHS'[r], DOMAIN pools, blacklist)
            /\ finish_arr'[ID[r]] = 0 => Maps(PATHS'[r], DOMAIN pools, bl)
      <4>1. 1 # 0
        OBVIOUS
      <4>. QED BY <2>2, <2>4, <3>1, <3>5, <4>1, Zenon DEF Removing
    <3>8. SameHashSeed => \A r \in Procs : ID[r] <= N =>
            /\ finish_arr'[ID[r]] = 1 =>
                 PATHS'[r] = remove_from_paths(old, arg.gone, hash_order[r])
            /\ finish_arr'[ID[r]] = 0 => PATHS'[r] = old
      <4>1. 1 # 0
        OBVIOUS
      <4>. QED BY <2>2, <2>4, <3>1, <3>6, <4>1, Zenon DEF Removing
    <3>9. blacklist = bl \cup arg.gone /\ (raised => Replaced)
      BY <3>1, Zenon DEF Removing
    <3>10. Replaced => Replaced'
      BY <1>1, Zenon DEF Replaced
    <3>11. Removing(bl, old)'
      BY <1>1, <2>1, <3>7, <3>8, <3>9, <3>10, Zenon DEF Removing
    <3>. QED BY <1>1, <1>2, <2>8, <3>11, Zenon DEF MapsInv
  <2>. QED BY <1>1, <2>5, <2>6, <2>7, <2>8 DEF BarrierOps
<1>5. CASE ~ (ID[p] <= N)
  <2>1. finish_arr' = finish_arr /\ raised' = TRUE
    BY <1>5, NAssumption DEF Apply, Raise, IInv, TypeOK, WorkerTypeOK
  <2>2. Replaced'
    BY <1>1, <1>5, Zenon DEF Replaced
  <2>3. \A r \in Procs : ID[r] <= N => PATHS'[r] = PATHS[r]
    BY <1>3, <1>5, Zenon
  <2>4. \A bl : Right(bl) => Right(bl)'
    BY <1>1, <2>3, RightStays, Zenon
  <2>5. Lost => Lost'
    BY <1>1, <2>1, Zenon DEF Lost
  <2>6. \A bl, old : Removing(bl, old) => Removing(bl, old)'
    BY <1>1, <2>1, <2>2, <2>3, Zenon DEF Removing
  <2>7. /\ op = "share_paths" =>
             /\ Maps(arg.paths, DOMAIN pools, blacklist)'
             /\ \A r \in Procs : ID'[r] <= N /\ finish_arr'[ID'[r]] = 1 =>
                  PATHS'[r] = arg'.paths
    BY <1>1, <2>1, <2>3, Zenon DEF MapsInv
  <2>8. op # "search_arbs" /\ pc \notin {"search", "check", "loop", "execute"}
    BY <1>1, <1>2 DEF BarrierOps
  <2>9. Right(blacklist) => Right(blacklist)'
    BY <1>1, <2>4
  <2>. QED BY <1>1, <2>5, <2>6, <2>7, <2>8, <2>9 DEF MapsInv
<1>. QED BY <1>4, <1>5

\* A worker dies: only the replicas of the original ones matter.
LEMMA MapsDie ==
  ASSUME IInv, OrderInv, MapsInv, NEW p \in Procs, Die(p)
  PROVE  MapsInv'
<1>1. /\ UNCHANGED <<pc, op, arg, raised, hash_order, pools, blacklist, to_blacklist,
                     finish_arr>>
      /\ ID' = [ID EXCEPT ![p] = counter] /\ PATHS' = [PATHS EXCEPT ![p] = Absent]
  BY DEF Die, mainVars, callVars
<1>2. /\ ID'[p] = counter /\ \A i \in Procs : counter # i
      /\ \A r \in Procs : r # p => ID'[r] = ID[r]
      /\ ~ (ID'[p] <= N)
  <2>1. ID \in [Procs -> Nat \ {0}] /\ counter \in Nat /\ counter > N
    BY DEF IInv, TypeOK, WorkerTypeOK, IdInv
  <2>2. \A i \in Procs : counter # i
    BY <2>1, NAssumption DEF Procs
  <2>. QED BY <1>1, <2>1, <2>2, NAssumption
<1>3. \A r \in Procs : r # p => PATHS'[r] = PATHS[r]
  <2>1. DOMAIN PATHS = Procs
    BY DEF OrderInv
  <2>. QED BY <1>1, <2>1
<1>4. \A r \in Procs : ID'[r] <= N => ID'[r] = ID[r] /\ PATHS'[r] = PATHS[r]
  BY <1>2, <1>3, Zenon
<1>5. Replaced'
  BY <1>2, Zenon DEF Replaced
<1>6. Lost => Lost'
  BY <1>1, <1>2, Zenon DEF Lost
<1>7. \A bl : Right(bl) => Right(bl)'
  <2>1. \A r \in Procs : ID'[r] <= N => ID[r] <= N /\ PATHS'[r] = PATHS[r]
    BY <1>4, Zenon
  <2>. QED BY <1>1, <2>1, RightStays, Zenon
<1>8. \A bl, old : Removing(bl, old) => Removing(bl, old)'
  BY <1>1, <1>4, <1>5, Zenon DEF Removing
<1>9. op = "share_paths" =>
        /\ Maps(arg.paths, DOMAIN pools, blacklist)'
        /\ \A r \in Procs : ID'[r] <= N /\ finish_arr'[ID'[r]] = 1 => PATHS'[r] = arg'.paths
  BY <1>1, <1>4, Zenon DEF MapsInv
<1>10. Right(blacklist) => Right(blacklist)'
  BY <1>1, <1>7
<1>. QED BY <1>1, <1>5, <1>6, <1>7, <1>8, <1>9, <1>10, Zenon DEF MapsInv

\* The orders stay, and the entries.
LEMMA OrderStep == ASSUME OrderInv, [Next]_vars PROVE OrderInv'
<1>1. CASE Main \/ UNCHANGED vars
  <2>1. hash_order' = hash_order /\ PATHS' = PATHS
    BY <1>1 DEF Main, LoadData, SharePools, SharePaths, PollPools, UpdateAllPools,
       UpdateChangedPools, SearchArbs, CheckArbs, RemoveBlacklisted, Return, Restart,
       Broadcast, vars, workerVars
  <2>. QED BY <2>1 DEF OrderInv
<1>2. ASSUME NEW p \in Procs, Worker(p) \/ Die(p) PROVE OrderInv'
  <2>1. hash_order' = hash_order
    BY <1>2 DEF Worker, TakeTask, Apply, Raise, LeaveBarrier, BeginSearch, ReadLastIdx,
       WriteLastIdx, SearchChunk, Die
  <2>2. PATHS' = PATHS \/ \E m : PATHS' = [PATHS EXCEPT ![p] = m]
    BY <1>2 DEF Worker, TakeTask, Apply, LeaveBarrier, BeginSearch, ReadLastIdx,
       WriteLastIdx, SearchChunk, Die
  <2>3. DOMAIN PATHS' = DOMAIN PATHS
    BY <2>2
  <2>. QED BY <2>1, <2>3, Zenon DEF OrderInv
<1>. QED BY <1>1, <1>2 DEF Next

\* A permutation of the paths has them all.
LEMMA Permutes ==
  ASSUME NEW s \in SetToSeqs(Paths)
  PROVE  s \in Seq(Paths) /\ ToSet(s) = Paths
<1>. DEFINE n == Cardinality(Paths)
<1>1. IsFiniteSet(Paths) /\ n \in Nat
  BY PathsAssumption, FS_CardinalityType
<1>2. s \in [1..n -> Paths] /\ \A i, j \in 1..n : i # j => s[i] # s[j]
  BY Zenon DEF SetToSeqs
<1>. HIDE DEF n
<1>3. DOMAIN s = 1..n /\ s \in Seq(Paths)
  BY <1>1, <1>2
<1>4. ToSet(s) = {s[i] : i \in 1..n}
  BY <1>3, Zenon DEF ToSet
<1>5. ToSet(s) \subseteq Paths
  BY <1>2, <1>4
<1>6. s \in Bijection(1..n, ToSet(s))
  <2>1. s \in [1..n -> ToSet(s)]
    BY <1>2, <1>4
  <2>2. \A i, j \in 1..n : s[i] = s[j] => i = j
    BY <1>2, Zenon
  <2>3. \A y \in ToSet(s) : \E i \in 1..n : s[i] = y
    BY <1>4
  <2>4. s \in Injection(1..n, ToSet(s))
    BY <2>1, <2>2, Zenon DEF Injection, IsInjective
  <2>5. s \in Surjection(1..n, ToSet(s))
    BY <2>1, <2>3, Zenon DEF Surjection
  <2>. QED BY <2>4, <2>5, Zenon DEF Bijection
<1>7. Cardinality(ToSet(s)) = n
  <2>1. IsFiniteSet(1..n) /\ Cardinality(1..n) = n
    BY <1>1, FS_Interval
  <2>. QED BY <1>6, <2>1, FS_Bijection, Zenon DEF ExistsBijection
<1>8. ToSet(s) = Paths
  BY <1>1, <1>5, <1>7, FS_Subset DEF n
<1>. QED BY <1>3, <1>8

\* At first there is no replica, and nothing to be said of it.
LEMMA InitMaps == Init => OrderInv /\ MapsInv
<1>1. Init => OrderInv
  BY Permutes DEF Init, OrderInv
<1>2. Init => MapsInv
  BY DEF Init, MapsInv
<1>. QED BY <1>1, <1>2

\* Every step keeps the replicas of the mapping right, or on their way there.
LEMMA MapsStep == ASSUME IInv, OrderInv, MapsInv, [Next]_vars PROVE MapsInv'
<1>1. CASE Main
  BY <1>1, MapsMain
<1>2. ASSUME NEW p \in Procs, Worker(p) PROVE MapsInv'
  BY <1>2, MapsOthers, MapsApply DEF Worker
<1>3. ASSUME NEW p \in Procs, Die(p) PROVE MapsInv'
  BY <1>3, MapsDie
<1>4. CASE UNCHANGED vars
  <2>1. /\ UNCHANGED <<pc, op, arg, raised, finish_arr, ID, PATHS, hash_order, pools>>
        /\ UNCHANGED <<blacklist, to_blacklist>>
    BY <1>4 DEF vars, mainVars, callVars, workerVars
  <2>2. (Replaced => Replaced') /\ (Lost => Lost')
    BY <2>1, Zenon DEF Replaced, Lost
  <2>3. \A bl : Right(bl) => Right(bl)'
    BY <2>1, RightStays, Zenon
  <2>4. \A bl, old : Removing(bl, old) => Removing(bl, old)'
    BY <2>1, <2>2, Zenon DEF Removing
  <2>5. Right(blacklist) => Right(blacklist)'
    BY <2>1, <2>3, Zenon
  <2>. QED BY <2>1, <2>2, <2>3, <2>4, <2>5, Zenon DEF MapsInv
<1>. QED BY <1>1, <1>2, <1>3, <1>4 DEF Next

\* The invariant with what the workers know of the paths.
LEMMA MapsAlways == Spec => [](IInv /\ OrderInv /\ MapsInv)
<1>1. (OrderInv /\ MapsInv) /\ IInv /\ [Next]_vars => (OrderInv /\ MapsInv)'
  BY OrderStep, MapsStep
<1>. QED BY <1>1, InitMaps, Invariance, PTL DEF Spec

\* For any number of workers and of worker deaths, and however each of them hashes
\* the paths: what is blacklisted before a search is not searched in it.
THEOREM BlacklistStops == Spec => []BlacklistedNotSearched
<1>1. ASSUME IInv, MapsInv, NEW p \in Procs, wpc[p] = "search"
      PROVE  Chunk(p) \cap blacklist = {}
  <2>1. op = "search_arbs" /\ POOLS[p] # Absent
    BY <1>1 DEF IInv, ControlInv
  <2>2. ID[p] <= N
    BY <1>1, <2>1 DEF IInv, ReplicaInv, Current
  <2>3. Maps(PATHS[p], DOMAIN pools, blacklist)
    BY <1>1, <2>1, <2>2, Zenon DEF MapsInv, Right
  <2>. DEFINE unique == get_unique_paths(arg.pools, PATHS[p])
  <2>4. ToSet(unique) = Wanted(arg.pools, DOMAIN pools, blacklist)
    <3>1. arg.pools \in PoolDict
      BY <1>1 DEF IInv, TypeOK, CallTypeOK
    <3>. QED BY <2>3, <3>1, UniqueMaps, Zenon
  <2>. HIDE DEF unique
  <2>5. ToSet(unique) \cap blacklist = {}
    BY <2>4 DEF Wanted, Live
  <2>6. Chunk(p) \subseteq ToSet(unique)
    BY DEF Chunk, ToSet, unique
  <2>. QED BY <2>5, <2>6
<1>2. IInv /\ MapsInv => BlacklistedNotSearched
  BY <1>1 DEF BlacklistedNotSearched
<1>. QED BY <1>2, MapsAlways, PTL

-----------------------------------------------------------------------------
(* The chunks of a search                                                    *)

\* The positions of the k-th chunk of a sequence of paths.
Block(u, k) ==
  {i \in 1..Len(u) : k * chunk_size(u) < i /\ i <= k * chunk_size(u) + chunk_size(u)}

\* The paths of the chunks in D.
Covered(u, D) == {q \in Paths : \E k \in D : \E i \in Block(u, k) : u[i] = q}

\* What a chunk holds is a natural number, and N chunks hold every path.
LEMMA ChunkSize ==
  ASSUME NEW u \in Seq(Paths)
  PROVE  chunk_size(u) \in Nat /\ N * chunk_size(u) >= Len(u)
<1>. DEFINE n == Len(u)
            c == (n + N - 1) \div N
<1>1. n \in Nat /\ N \in Nat /\ N > 0
  BY NAssumption
<1>2. chunk_size(u) = c
  BY DEF chunk_size
<1>. HIDE DEF n
<1>3. c \in Nat /\ N * c >= n
  BY <1>1
<1>. QED BY <1>2, <1>3 DEF n

\* One more chunk.
LEMMA NextChunk ==
  ASSUME NEW c \in Nat, NEW k \in Nat
  PROVE  k * c \in Nat /\ (k + 1) * c = k * c + c
OBVIOUS

\* Later chunks begin after earlier ones.
LEMMA ChunksGrow ==
  ASSUME NEW c \in Nat, NEW j \in Nat, NEW k \in Nat, j < k
  PROVE  j * c + c <= k * c
<1>1. PICK d \in Nat : k = j + 1 + d
  <2>1. k - j - 1 \in Nat /\ k = j + 1 + (k - j - 1)
    OBVIOUS
  <2>. QED BY <2>1
<1>2. d * c \in Nat /\ k * c = j * c + c + d * c /\ j * c \in Nat
  BY <1>1
<1>. QED BY <1>2

\* Two chunks have no position in common.
LEMMA BlocksApart ==
  ASSUME NEW u \in Seq(Paths), NEW j \in Nat, NEW k \in Nat, j # k
  PROVE  Block(u, j) \cap Block(u, k) = {}
<1>. DEFINE c == chunk_size(u)
<1>1. c \in Nat
  BY ChunkSize
<1>. HIDE DEF c
<1>2. j * c \in Nat /\ k * c \in Nat
  BY <1>1
<1>3. j * c + c <= k * c \/ k * c + c <= j * c
  <2>1. CASE j < k
    BY <1>1, <2>1, ChunksGrow
  <2>2. CASE k < j
    BY <1>1, <2>2, ChunksGrow
  <2>. QED BY <2>1, <2>2
<1>4. ASSUME NEW i \in Nat, j * c < i, i <= j * c + c, k * c < i, i <= k * c + c
      PROVE  FALSE
  BY <1>1, <1>2, <1>3, <1>4
<1>5. ASSUME NEW i \in Block(u, j), i \in Block(u, k) PROVE FALSE
  <2>1. /\ i \in Nat /\ j * c < i /\ i <= j * c + c /\ k * c < i /\ i <= k * c + c
    BY <1>5 DEF Block, c
  <2>. QED BY <1>4, <2>1
<1>. QED BY <1>5

\* The first n chunks hold the first n * chunk_size(u) positions.
LEMMA BlocksCover ==
  ASSUME NEW u \in Seq(Paths)
  PROVE  \A n \in 0..N : \A i \in 1..Len(u) : i <= n * chunk_size(u) =>
           \E k \in 0..(n - 1) : i \in Block(u, k)
<1>. DEFINE c == chunk_size(u)
            G == {n \in 0..N : \A i \in 1..Len(u) : i <= n * c =>
                                 \E k \in 0..(n - 1) : i \in Block(u, k)}
<1>1. c \in Nat /\ N \in Nat
  BY ChunkSize, NAssumption
<1>. HIDE DEF c
<1>2. 0 \in G
  <2>1. 0 * c = 0
    BY <1>1
  <2>2. \A i \in 1..Len(u) : ~ (i <= 0 * c)
    BY <2>1
  <2>. QED BY <1>1, <2>2
<1>3. ASSUME NEW n \in 0..(N - 1), n \in G PROVE n + 1 \in G
  <2>1. n \in Nat /\ n + 1 \in 0..N
    BY <1>1
  <2>2. n * c \in Nat /\ (n + 1) * c = n * c + c
    BY <1>1, <2>1, NextChunk
  <2>3. ASSUME NEW i \in 1..Len(u), i <= (n + 1) * c
        PROVE  \E k \in 0..((n + 1) - 1) : i \in Block(u, k)
    <3>1. CASE i <= n * c
      <4>1. PICK k \in 0..(n - 1) : i \in Block(u, k)
        BY <1>3, <3>1
      <4>2. k \in 0..((n + 1) - 1)
        BY <2>1
      <4>. QED BY <4>1, <4>2
    <3>2. CASE ~ (i <= n * c)
      <4>1. n * c < i /\ i <= n * c + c
        BY <2>2, <2>3, <3>2
      <4>2. i \in Block(u, n)
        BY <4>1 DEF Block, c
      <4>3. n \in 0..((n + 1) - 1)
        BY <2>1
      <4>. QED BY <4>2, <4>3
    <3>. QED BY <3>1, <3>2
  <2>. QED BY <2>1, <2>3
<1>4. \A n \in 0..N : n \in G
  <2>. HIDE DEF G
  <2>. QED BY <1>1, <1>2, <1>3, Induction
<1>. QED BY <1>4 DEF c

\* The paths of the first N chunks are all those of the sequence.
LEMMA AllCovered ==
  ASSUME NEW u \in Seq(Paths)
  PROVE  Covered(u, 0..(N - 1)) = ToSet(u)
<1>1. DOMAIN u = 1..Len(u) /\ \A i \in 1..Len(u) : u[i] \in Paths
  OBVIOUS
<1>2. \A i \in 1..Len(u) : \E k \in 0..(N - 1) : i \in Block(u, k)
  <2>1. N * chunk_size(u) >= Len(u) /\ chunk_size(u) \in Nat /\ N \in Nat
    BY ChunkSize, NAssumption
  <2>2. \A i \in 1..Len(u) : i <= N * chunk_size(u)
    <3>. DEFINE all == N * chunk_size(u)
    <3>1. all >= Len(u) /\ all \in Nat
      BY <2>1
    <3>. HIDE DEF all
    <3>2. \A i \in 1..Len(u) : i <= all
      BY <3>1
    <3>. QED BY <3>2 DEF all
  <2>3. N \in 0..N
    BY <2>1
  <2>. QED BY <2>2, <2>3, BlocksCover, Zenon
<1>3. \A k : Block(u, k) \subseteq 1..Len(u)
  BY DEF Block
<1>4. ToSet(u) = {u[i] : i \in 1..Len(u)}
  BY <1>1, Zenon DEF ToSet
<1>5. ASSUME NEW q \in ToSet(u) PROVE q \in Covered(u, 0..(N - 1))
  <2>1. PICK i \in 1..Len(u) : u[i] = q
    BY <1>4
  <2>. QED BY <1>1, <1>2, <2>1, Zenon DEF Covered
<1>6. ASSUME NEW q \in Covered(u, 0..(N - 1)) PROVE q \in ToSet(u)
  BY <1>3, <1>4 DEF Covered
<1>. QED BY <1>5, <1>6

-----------------------------------------------------------------------------
(* The searches                                                              *)

\* The workers that have taken a task of the search and not claimed their chunk.
Unclaimed == {p \in Procs : wpc[p] \in {"run", "claim", "claimed"}}

\* Every original worker finds the same paths, in the same order.
SamePaths(u) ==
  /\ u \in Seq(Paths) /\ IsInjective(u)
  /\ ToSet(u) = Wanted(arg.pools, DOMAIN pools, blacklist)
  /\ \A p \in Procs : ID[p] <= N => get_unique_paths(arg.pools, PATHS[p]) = u

\* The first chunks are claimed, each by one worker; those in done are searched.
Claims(u, claims, done, at) ==
  /\ claims \in Nat /\ done \subseteq 0..(claims - 1)
  /\ last_idx = claims * chunk_size(u)
  /\ queue + Cardinality(Unclaimed) + claims <= N
  /\ \A p \in Procs : wpc[p] = "claimed" => lock = p /\ start_idx[p] = last_idx
  /\ \A p \in Procs : wpc[p] = "search" =>
       at[p] \in (0..(claims - 1)) \ done /\ start_idx[p] = at[p] * chunk_size(u)
  /\ \A p, q \in Procs : wpc[p] = "search" /\ wpc[q] = "search" /\ at[p] = at[q] => p = q
  /\ ~ raised => Cardinality(done) + left = N
  /\ searched = [q \in Paths |-> IF q \in Covered(u, done) THEN 1 ELSE 0]

\* A search accounts for its paths: what is searched once is claimed once.
SearchInv ==
  /\ DOMAIN start_idx = Procs
  /\ op = "search_arbs" => \E u : SamePaths(u)
                                  /\ \E claims, done, at : Claims(u, claims, done, at)

\* Forked workers find the same paths when a search starts.
LEMMA SamePathsExist ==
  ASSUME SameHashSeed, Right(blacklist), NEW d \in PoolDict
  PROVE  \E u : /\ u \in Seq(Paths) /\ IsInjective(u)
                /\ ToSet(u) = Wanted(d, DOMAIN pools, blacklist)
                /\ \A p \in Procs : ID[p] <= N => get_unique_paths(d, PATHS[p]) = u
<1>1. CASE \E p \in Procs : ID[p] <= N
  <2>1. PICK p \in Procs : ID[p] <= N
    BY <1>1
  <2>. DEFINE u == get_unique_paths(d, PATHS[p])
  <2>2. Maps(PATHS[p], DOMAIN pools, blacklist)
    BY <2>1, Zenon DEF Right
  <2>3. /\ u \in Seq(Paths) /\ IsInjective(u)
        /\ ToSet(u) = Wanted(d, DOMAIN pools, blacklist)
    BY <2>2, UniqueMaps, Zenon
  <2>4. \A q \in Procs : ID[q] <= N => get_unique_paths(d, PATHS[q]) = u
    <3>1. \A q \in Procs : ID[q] <= N => PATHS[q] = PATHS[p]
      BY <2>1, Zenon DEF Right
    <3>. QED BY <3>1, Zenon
  <2>. QED BY <2>3, <2>4, Zenon
<1>2. CASE ~ \E p \in Procs : ID[p] <= N
  <2>. DEFINE W == Wanted(d, DOMAIN pools, blacklist)
              s == Kept(PathOrder, W)
  <2>1. W \subseteq Paths
    BY DEF Wanted, Live
  <2>. HIDE DEF W
  <2>2. s \in Seq(Paths) /\ ToSet(s) = W
    <3>1. PathOrder \in Seq(Paths) /\ ToSet(PathOrder) = Paths
      BY PathsAssumption
    <3>2. Kept(PathOrder, W) \in Seq(Paths) /\ ToSet(Kept(PathOrder, W)) = Paths \cap W
      BY <3>1, KeptIs
    <3>. QED BY <2>1, <3>2
  <2>. HIDE DEF s
  <2>3. Once(s) \in Seq(Paths) /\ IsInjective(Once(s)) /\ ToSet(Once(s)) = W
    BY <2>2, OnceIs
  <2>. QED BY <1>2, <2>3, Zenon DEF W
<1>. QED BY <1>1, <1>2

\* How a step of one worker changes the set of those that have no chunk yet.
LEMMA UnclaimedStep ==
  ASSUME TypeOK, NEW p \in Procs, NEW w \in WorkerPoints,
         wpc' = [wpc EXCEPT ![p] = w]
  PROVE  /\ Cardinality(Unclaimed) \in Nat /\ Cardinality(Unclaimed') \in Nat
         /\ w = "run" /\ wpc[p] = "idle" =>
              Cardinality(Unclaimed') = Cardinality(Unclaimed) + 1
         /\ wpc[p] \in {"run", "claim", "claimed"} /\ w \in {"run", "claim", "claimed"} =>
              Cardinality(Unclaimed') = Cardinality(Unclaimed)
         /\ wpc[p] = "claimed" /\ w = "search" =>
              Cardinality(Unclaimed') = Cardinality(Unclaimed) - 1
         /\ w = "idle" => Cardinality(Unclaimed') <= Cardinality(Unclaimed)
<1>. DEFINE early == {"run", "claim", "claimed"}
<1>1. \A q \in Procs : wpc'[q] = IF q = p THEN w ELSE wpc[q]
  BY DEF TypeOK, WorkerTypeOK
<1>2. Unclaimed' = IF w \in early THEN Unclaimed \cup {p} ELSE Unclaimed \ {p}
  BY <1>1 DEF Unclaimed
<1>3. /\ Unclaimed \in SUBSET Procs /\ Unclaimed' \in SUBSET Procs
      /\ p \in Unclaimed <=> wpc[p] \in early
  BY DEF Unclaimed
<1>4. /\ IsFiniteSet(Unclaimed) /\ Cardinality(Unclaimed) \in Nat
      /\ Cardinality(Unclaimed') \in Nat
  BY <1>3, SubsetOfProcs
<1>5. CASE w \in early
  <2>1. Cardinality(Unclaimed') =
          IF p \in Unclaimed THEN Cardinality(Unclaimed) ELSE Cardinality(Unclaimed) + 1
    BY <1>2, <1>4, <1>5, FS_AddElement
  <2>. QED BY <1>3, <1>4, <1>5, <2>1
<1>6. CASE w \notin early
  <2>1. Cardinality(Unclaimed') =
          IF p \in Unclaimed THEN Cardinality(Unclaimed) - 1 ELSE Cardinality(Unclaimed)
    BY <1>2, <1>4, <1>6, FS_RemoveElement
  <2>. QED BY <1>3, <1>4, <1>6, <2>1
<1>. QED BY <1>5, <1>6

\* A search starts with nothing claimed.
LEMMA SearchStarts ==
  ASSUME SameHashSeed, IInv, MapsInv, SearchInv, SearchArbs
  PROVE  SearchInv'
<1>1. /\ pc = "search" /\ op = "none" /\ op' = "search_arbs" /\ arg' = SendPools(changed)
      /\ queue' = N /\ left' = N /\ last_idx' = 0
      /\ searched' = [q \in Paths |-> 0] /\ UNCHANGED <<pools, blacklist>>
      /\ UNCHANGED <<ID, PATHS, wpc, start_idx>>
  BY DEF SearchArbs, Broadcast, workerVars
<1>2. Right(blacklist) /\ changed \in PoolDict
  BY <1>1 DEF MapsInv, IInv, TypeOK, MainTypeOK
<1>3. arg'.pools = changed
  BY <1>1, MessageFields
<1>4. PICK u : /\ u \in Seq(Paths) /\ IsInjective(u)
               /\ ToSet(u) = Wanted(changed, DOMAIN pools, blacklist)
               /\ \A p \in Procs : ID[p] <= N => get_unique_paths(changed, PATHS[p]) = u
  BY <1>2, SamePathsExist, Zenon
<1>5. SamePaths(u)'
  BY <1>1, <1>3, <1>4, Zenon DEF SamePaths
<1>6. \A p \in Procs : wpc'[p] = "idle"
  BY <1>1, QuietBetweenCalls
<1>7. Claims(u, 0, {}, 0)'
  <2>1. Unclaimed' = {}
    BY <1>6 DEF Unclaimed
  <2>2. queue' + Cardinality(Unclaimed') + 0 <= N
    BY <1>1, <2>1, FS_EmptySet, NAssumption
  <2>3. Cardinality({}) + left' = N
    BY <1>1, FS_EmptySet, NAssumption
  <2>4. last_idx' = 0 * chunk_size(u)
    BY <1>1, <1>4, ChunkSize
  <2>5. Covered(u, {}) = {}
    BY DEF Covered
  <2>6. searched' = [q \in Paths |-> IF q \in Covered(u, {}) THEN 1 ELSE 0]
    BY <1>1, <2>5
  <2>. QED BY <1>6, <2>2, <2>3, <2>4, <2>6 DEF Claims
<1>8. DOMAIN start_idx' = Procs
  BY <1>1, Zenon DEF SearchInv
<1>. QED BY <1>5, <1>7, <1>8, Zenon DEF SearchInv

\* The paths that a search looks for stay the same until it returns.
LEMMA SamePathsStay ==
  ASSUME IInv, OrderInv, op = "search_arbs", NEW u, SamePaths(u), NEW p \in Procs,
         Worker(p) \/ Die(p)
  PROVE  SamePaths(u)' /\ op' = op
<1>1. UNCHANGED <<op, arg, pools, blacklist>>
  BY DEF Worker, TakeTask, Apply, Raise, LeaveBarrier, BeginSearch, ReadLastIdx,
     WriteLastIdx, SearchChunk, Die, mainVars, callVars
<1>2. CASE Worker(p)
  <2>1. PATHS' = PATHS /\ ID' = ID
    BY <1>2 DEF Worker, TakeTask, Apply, LeaveBarrier, BeginSearch, ReadLastIdx,
       WriteLastIdx, SearchChunk, Raise, BarrierOps
  <2>. QED BY <1>1, <2>1, Zenon DEF SamePaths
<1>3. CASE Die(p)
  <2>1. \A q \in Procs : ID'[q] <= N => ID'[q] = ID[q] /\ q # p
    <3>1. ID' = [ID EXCEPT ![p] = counter]
      BY <1>3 DEF Die
    <3>2. ID \in [Procs -> Nat \ {0}] /\ counter \in Nat /\ counter > N
      BY DEF IInv, TypeOK, WorkerTypeOK, IdInv
    <3>. QED BY <3>1, <3>2, NAssumption
  <2>2. \A q \in Procs : q # p => PATHS'[q] = PATHS[q]
    BY <1>3 DEF Die, OrderInv
  <2>. QED BY <1>1, <2>1, <2>2, Zenon DEF SamePaths
<1>. QED BY <1>2, <1>3

\* A worker at work in a search is an original one.
LEMMA SearchersAreOriginal ==
  ASSUME IInv, op = "search_arbs", NEW p \in Procs, wpc[p] \in {"claim", "claimed", "search"}
  PROVE  ID[p] <= N
BY DEF IInv, ControlInv, ReplicaInv, Current

\* Taking a task of the search.
LEMMA ClaimsTake ==
  ASSUME IInv, NEW u, NEW claims, NEW done, NEW at, Claims(u, claims, done, at),
         NEW p \in Procs, TakeTask(p)
  PROVE  Claims(u, claims, done, at)'
<1>1. /\ wpc[p] = "idle" /\ queue > 0 /\ queue' = queue - 1
      /\ wpc' = [wpc EXCEPT ![p] = "run"]
      /\ UNCHANGED <<left, raised, lock, last_idx, searched, start_idx>>
  BY DEF TakeTask
<1>2. Cardinality(Unclaimed) \in Nat /\ Cardinality(Unclaimed') = Cardinality(Unclaimed) + 1
  BY <1>1, UnclaimedStep DEF WorkerPoints, IInv
<1>3. queue' + Cardinality(Unclaimed') + claims <= N
  BY <1>1, <1>2, NAssumption DEF Claims, IInv, TypeOK, CallTypeOK
<1>4. \A q \in Procs : wpc'[q] \in {"claimed", "search"} => wpc'[q] = wpc[q]
  BY <1>1 DEF IInv, TypeOK, WorkerTypeOK
<1>5. \A q \in Procs : wpc'[q] = "claimed" => wpc[q] = "claimed"
  BY <1>4
<1>6. \A q \in Procs : wpc'[q] = "search" => wpc[q] = "search"
  BY <1>4
<1>. QED BY <1>1, <1>3, <1>5, <1>6, Zenon DEF Claims

\* A task that is lost or fails before the worker searches its chunk, or goes on
\* to the lock.
LEMMA ClaimsLose ==
  ASSUME IInv, SearchInv, NEW u, NEW claims, NEW done, NEW at, Claims(u, claims, done, at),
         NEW p \in Procs, BeginSearch(p) \/ Die(p)
  PROVE  Claims(u, claims, done, at)' /\ DOMAIN start_idx' = Procs
<1>1. /\ UNCHANGED <<queue, lock, last_idx, searched>>
      /\ \E w \in {"idle", "claim"} :
           /\ wpc' = [wpc EXCEPT ![p] = w]
           /\ w = "claim" => wpc[p] = "run"
      /\ raised' = TRUE \/ (raised' = raised /\ left' = left)
      /\ start_idx' = start_idx \/ start_idx' = [start_idx EXCEPT ![p] = 0]
  BY DEF BeginSearch, Raise, Die, callVars
<1>2. PICK w \in {"idle", "claim"} : /\ wpc' = [wpc EXCEPT ![p] = w]
                                     /\ w = "claim" => wpc[p] = "run"
  BY <1>1
<1>3. /\ Cardinality(Unclaimed) \in Nat /\ Cardinality(Unclaimed') \in Nat
      /\ Cardinality(Unclaimed') <= Cardinality(Unclaimed)
  <2>0. w \in WorkerPoints /\ TypeOK
    BY DEF WorkerPoints, IInv
  <2>1. CASE w = "idle"
    BY <1>2, <2>0, <2>1, UnclaimedStep
  <2>2. CASE w = "claim"
    <3>1. wpc[p] = "run"
      BY <1>2, <2>2
    <3>2. /\ Cardinality(Unclaimed) \in Nat /\ Cardinality(Unclaimed') \in Nat
          /\ Cardinality(Unclaimed') = Cardinality(Unclaimed)
      BY <1>2, <2>0, <2>2, <3>1, UnclaimedStep
    <3>. QED BY <3>2
  <2>. QED BY <2>1, <2>2
<1>4. queue' + Cardinality(Unclaimed') + claims <= N
  BY <1>1, <1>3, NAssumption DEF Claims, IInv, TypeOK, CallTypeOK
<1>5. \A q \in Procs : wpc'[q] \in {"claimed", "search"} => wpc'[q] = wpc[q] /\ q # p
  BY <1>2 DEF IInv, TypeOK, WorkerTypeOK
<1>6. DOMAIN start_idx' = Procs /\ \A q \in Procs : q # p => start_idx'[q] = start_idx[q]
  BY <1>1 DEF SearchInv
<1>7. \A q \in Procs : wpc'[q] = "claimed" => wpc[q] = "claimed" /\ start_idx'[q] = start_idx[q]
  BY <1>5, <1>6
<1>8. \A q \in Procs : wpc'[q] = "search" => wpc[q] = "search" /\ start_idx'[q] = start_idx[q]
  BY <1>5, <1>6
<1>9. ~ raised' => Cardinality(done) + left' = N
  BY <1>1 DEF Claims
<1>10. /\ \A q \in Procs : wpc'[q] = "claimed" => lock' = q /\ start_idx'[q] = last_idx'
       /\ \A q \in Procs : wpc'[q] = "search" =>
            at[q] \in (0..(claims - 1)) \ done /\ start_idx'[q] = at[q] * chunk_size(u)
  BY <1>1, <1>7, <1>8, Zenon DEF Claims
<1>. QED BY <1>1, <1>4, <1>6, <1>8, <1>9, <1>10, Zenon DEF Claims

\* Under the lock, a worker reads where its chunk starts.
LEMMA ClaimsRead ==
  ASSUME IInv, SearchInv, NEW u, NEW claims, NEW done, NEW at, Claims(u, claims, done, at),
         NEW p \in Procs, ReadLastIdx(p)
  PROVE  Claims(u, claims, done, at)' /\ DOMAIN start_idx' = Procs
<1>1. /\ wpc[p] = "claim" /\ lock = 0 /\ lock' = p
      /\ start_idx' = [start_idx EXCEPT ![p] = last_idx]
      /\ wpc' = [wpc EXCEPT ![p] = "claimed"]
      /\ UNCHANGED <<queue, left, raised, last_idx, searched>>
  BY DEF ReadLastIdx
<1>2. Cardinality(Unclaimed') = Cardinality(Unclaimed)
  BY <1>1, UnclaimedStep DEF WorkerPoints, IInv
<1>3. \A q \in Procs : q # p => wpc'[q] = wpc[q] /\ start_idx'[q] = start_idx[q]
  BY <1>1 DEF IInv, TypeOK, WorkerTypeOK, SearchInv
<1>4. wpc'[p] = "claimed" /\ start_idx'[p] = last_idx /\ DOMAIN start_idx' = Procs
  BY <1>1 DEF IInv, TypeOK, WorkerTypeOK, SearchInv
<1>5. \A q \in Procs : wpc[q] # "claimed"
  <2>1. \A q \in Procs : q # 0
    BY NAssumption DEF Procs
  <2>. QED BY <1>1, <2>1 DEF Claims
<1>6. \A q \in Procs : wpc'[q] = "claimed" => lock' = q /\ start_idx'[q] = last_idx'
  BY <1>1, <1>3, <1>4, <1>5
<1>7. \A q \in Procs : wpc'[q] = "search" => wpc[q] = "search" /\ start_idx'[q] = start_idx[q]
  BY <1>3, <1>4
<1>8. queue' + Cardinality(Unclaimed') + claims <= N
  BY <1>1, <1>2 DEF Claims
<1>9. \A q \in Procs : wpc'[q] = "search" =>
        at[q] \in (0..(claims - 1)) \ done /\ start_idx'[q] = at[q] * chunk_size(u)
  BY <1>7, Zenon DEF Claims
<1>10. \A q, r \in Procs : wpc'[q] = "search" /\ wpc'[r] = "search" /\ at[q] = at[r]
          => q = r
  BY <1>7, Zenon DEF Claims
<1>. QED BY <1>1, <1>4, <1>6, <1>8, <1>9, <1>10, Zenon DEF Claims

\* Before it releases the lock, it has claimed the next chunk.
LEMMA ClaimsWrite ==
  ASSUME IInv, SearchInv, op = "search_arbs", NEW u, SamePaths(u),
         NEW claims, NEW done, NEW at, Claims(u, claims, done, at),
         NEW p \in Procs, WriteLastIdx(p)
  PROVE  /\ \E at2 : Claims(u, claims + 1, done, at2)'
         /\ DOMAIN start_idx' = Procs
<1>. DEFINE c == chunk_size(u)
            at2 == [q \in Procs |-> IF q = p THEN claims ELSE at[q]]
<1>1. /\ wpc[p] = "claimed" /\ lock' = 0
      /\ last_idx' = start_idx[p] + chunk_size(get_unique_paths(arg.pools, PATHS[p]))
      /\ wpc' = [wpc EXCEPT ![p] = "search"]
      /\ UNCHANGED <<queue, left, raised, start_idx, searched>>
  BY DEF WriteLastIdx
<1>2. claims \in Nat /\ c \in Nat /\ u \in Seq(Paths)
  BY ChunkSize DEF Claims, SamePaths
<1>3. lock = p /\ start_idx[p] = claims * c /\ last_idx' = claims * c + c
  <2>1. ID[p] <= N
    BY <1>1, SearchersAreOriginal
  <2>2. get_unique_paths(arg.pools, PATHS[p]) = u
    BY <2>1, Zenon DEF SamePaths
  <2>3. lock = p /\ start_idx[p] = last_idx /\ last_idx = c * claims
    BY <1>1, <1>2 DEF Claims
  <2>. QED BY <1>1, <1>2, <2>2, <2>3
<1>. HIDE DEF c
<1>4. last_idx' = (claims + 1) * c
  BY <1>2, <1>3, NextChunk
<1>5. /\ Cardinality(Unclaimed) \in Nat
      /\ Cardinality(Unclaimed') = Cardinality(Unclaimed) - 1
  BY <1>1, UnclaimedStep DEF WorkerPoints, IInv
<1>6. queue' + Cardinality(Unclaimed') + (claims + 1) <= N
  BY <1>1, <1>2, <1>5, NAssumption DEF Claims, IInv, TypeOK, CallTypeOK
<1>7. \A q \in Procs : q # p => wpc'[q] = wpc[q] /\ at2[q] = at[q]
  BY <1>1 DEF IInv, TypeOK, WorkerTypeOK
<1>8. wpc'[p] = "search" /\ at2[p] = claims
  BY <1>1 DEF IInv, TypeOK, WorkerTypeOK
<1>. HIDE DEF at2
<1>9. \A q \in Procs : wpc'[q] # "claimed"
  BY <1>1, <1>3, <1>7, <1>8 DEF Claims
<1>10. done \subseteq 0..(claims - 1)
  BY DEF Claims
<1>11. done \subseteq 0..((claims + 1) - 1) /\ claims \in (0..((claims + 1) - 1)) \ done
  BY <1>2, <1>10
<1>12. ASSUME NEW q \in Procs, q # p, wpc'[q] = "search"
       PROVE  /\ at[q] \in 0..(claims - 1) /\ at[q] # claims /\ at[q] \notin done
              /\ start_idx[q] = at[q] * c
  <2>1. wpc[q] = "search"
    BY <1>7, <1>12
  <2>2. at[q] \in (0..(claims - 1)) \ done /\ start_idx[q] = at[q] * c
    BY <2>1, Zenon DEF Claims, c
  <2>. QED BY <1>2, <2>2
<1>13. \A q \in Procs : wpc'[q] = "search" =>
         /\ at2[q] \in (0..((claims + 1) - 1)) \ done
         /\ start_idx'[q] = at2[q] * c
  <2>. TAKE q \in Procs
  <2>. HAVE wpc'[q] = "search"
  <2>1. CASE q = p
    BY <1>1, <1>3, <1>8, <1>11, <2>1
  <2>2. CASE q # p
    <3>1. at2[q] = at[q]
      BY <1>7, <2>2
    <3>2. at[q] \in 0..(claims - 1) /\ at[q] \notin done /\ start_idx[q] = at[q] * c
      BY <1>12, <2>2
    <3>3. at[q] \in 0..((claims + 1) - 1)
      BY <1>2, <3>2
    <3>. QED BY <1>1, <3>1, <3>2, <3>3
  <2>. QED BY <2>1, <2>2
<1>14. \A q, r \in Procs : wpc'[q] = "search" /\ wpc'[r] = "search" /\ at2[q] = at2[r]
          => q = r
  <2>1. \A q, r \in Procs : wpc[q] = "search" /\ wpc[r] = "search" /\ at[q] = at[r] => q = r
    BY Zenon DEF Claims
  <2>. QED BY <1>7, <1>8, <1>12, <2>1, Zenon
<1>15. /\ ~ raised' => Cardinality(done) + left' = N
       /\ searched' = [q \in Paths |-> IF q \in Covered(u, done) THEN 1 ELSE 0]
  BY <1>1, Zenon DEF Claims
<1>16. claims + 1 \in Nat
  BY <1>2
<1>17. Claims(u, claims + 1, done, at2)'
  BY <1>4, <1>6, <1>9, <1>11, <1>13, <1>14, <1>15, <1>16, Zenon DEF Claims, c
<1>18. DOMAIN start_idx' = Procs
  BY <1>1 DEF SearchInv
<1>. QED BY <1>17, <1>18, Zenon

\* The worker searches its chunk, which no other has searched.
LEMMA ClaimsSearch ==
  ASSUME IInv, SearchInv, op = "search_arbs", NEW u, SamePaths(u),
         NEW claims, NEW done, NEW at, Claims(u, claims, done, at),
         NEW p \in Procs, SearchChunk(p)
  PROVE  Claims(u, claims, done \cup {at[p]}, at)' /\ DOMAIN start_idx' = Procs
<1>. DEFINE c == chunk_size(u)
            k == at[p]
            more == done \cup {k}
<1>1. /\ wpc[p] = "search" /\ left' = left - 1
      /\ searched' = [q \in Paths |-> IF q \in Chunk(p) THEN searched[q] + 1 ELSE searched[q]]
      /\ wpc' = [wpc EXCEPT ![p] = "idle"]
      /\ start_idx' = [start_idx EXCEPT ![p] = 0]
      /\ UNCHANGED <<queue, raised, lock, last_idx>>
  BY DEF SearchChunk, Answer
<1>2. claims \in Nat /\ c \in Nat /\ u \in Seq(Paths) /\ done \subseteq 0..(claims - 1)
  BY ChunkSize DEF Claims, SamePaths
<1>. HIDE DEF c
<1>3. k \in 0..(claims - 1) /\ k \notin done /\ start_idx[p] = k * c
  <2>1. k \in (0..(claims - 1)) \ done /\ start_idx[p] = k * c
    BY <1>1, Zenon DEF Claims, c
  <2>. QED BY <2>1
<1>. HIDE DEF k
<1>4. Chunk(p) = {u[i] : i \in Block(u, k)}
  <2>1. ID[p] <= N
    BY <1>1, SearchersAreOriginal
  <2>2. get_unique_paths(arg.pools, PATHS[p]) = u
    BY <2>1, Zenon DEF SamePaths
  <2>3. DOMAIN u = 1..Len(u)
    BY <1>2
  <2>. QED BY <1>3, <2>2, <2>3, Zenon DEF Chunk, Block, c
<1>5. Chunk(p) \subseteq Paths
  <2>1. Block(u, k) \subseteq 1..Len(u) /\ \A i \in 1..Len(u) : u[i] \in Paths
    BY <1>2 DEF Block
  <2>. QED BY <1>4, <2>1
<1>6. \A q \in Chunk(p) : q \notin Covered(u, done)
  <2>. SUFFICES ASSUME NEW i \in Block(u, k), NEW j \in done, NEW b \in Block(u, j),
                       u[i] = u[b]
                PROVE  FALSE
    BY <1>4, Zenon DEF Covered
  <2>1. i \in 1..Len(u) /\ b \in 1..Len(u) /\ DOMAIN u = 1..Len(u)
    BY <1>2 DEF Block
  <2>2. i = b
    BY <2>1, Zenon DEF SamePaths, IsInjective
  <2>3. j \in Nat /\ k \in Nat /\ j # k
    BY <1>2, <1>3
  <2>. QED BY <1>2, <2>2, <2>3, BlocksApart
<1>7. Covered(u, more) = Covered(u, done) \cup Chunk(p)
  <2>1. ASSUME NEW q PROVE q \in Chunk(p) <=> \E i \in Block(u, k) : u[i] = q
    BY <1>4
  <2>. QED BY <1>5, <2>1 DEF Covered
<1>8. searched' = [q \in Paths |-> IF q \in Covered(u, more) THEN 1 ELSE 0]
  <2>1. searched = [q \in Paths |-> IF q \in Covered(u, done) THEN 1 ELSE 0]
    BY DEF Claims
  <2>2. ASSUME NEW q \in Paths
        PROVE  (IF q \in Chunk(p) THEN searched[q] + 1 ELSE searched[q])
                 = IF q \in Covered(u, more) THEN 1 ELSE 0
    BY <1>6, <1>7, <2>1
  <2>. QED BY <1>1, <2>2
<1>9. IsFiniteSet(done) /\ Cardinality(done) \in Nat /\ Cardinality(more) = Cardinality(done) + 1
  <2>1. IsFiniteSet(0..(claims - 1))
    BY <1>2, FS_Interval
  <2>2. IsFiniteSet(done) /\ Cardinality(done) \in Nat
    BY <1>2, <2>1, FS_Subset, FS_CardinalityType
  <2>. QED BY <1>3, <2>2, FS_AddElement
<1>10. ~ raised' => Cardinality(more) + left' = N
  BY <1>1, <1>9, NAssumption DEF Claims, IInv, TypeOK, CallTypeOK
<1>11. /\ Cardinality(Unclaimed) \in Nat /\ Cardinality(Unclaimed') \in Nat
       /\ Cardinality(Unclaimed') <= Cardinality(Unclaimed)
  BY <1>1, UnclaimedStep DEF WorkerPoints, IInv
<1>12. queue' + Cardinality(Unclaimed') + claims <= N
  BY <1>1, <1>2, <1>11, NAssumption DEF Claims, IInv, TypeOK, CallTypeOK
<1>13. \A q \in Procs : wpc'[q] \in {"claimed", "search"} =>
         q # p /\ wpc'[q] = wpc[q] /\ start_idx'[q] = start_idx[q]
  BY <1>1 DEF IInv, TypeOK, WorkerTypeOK, SearchInv
<1>14. \A q \in Procs : wpc'[q] = "claimed" => lock' = q /\ start_idx'[q] = last_idx'
  BY <1>1, <1>13 DEF Claims
<1>15. \A q \in Procs : wpc'[q] = "search" =>
         /\ q # p /\ wpc[q] = "search" /\ start_idx'[q] = start_idx[q]
  BY <1>13
<1>16. \A q \in Procs : wpc'[q] = "search" => at[q] # k
  BY <1>1, <1>15, Zenon DEF Claims, k
<1>17. \A q \in Procs : wpc'[q] = "search" =>
         at[q] \in (0..(claims - 1)) \ done /\ start_idx'[q] = at[q] * c
  BY <1>15, Zenon DEF Claims, c
<1>18. \A q \in Procs : wpc'[q] = "search" =>
         at[q] \in (0..(claims - 1)) \ more /\ start_idx'[q] = at[q] * c
  BY <1>16, <1>17
<1>19. \A q, r \in Procs : wpc'[q] = "search" /\ wpc'[r] = "search" /\ at[q] = at[r]
          => q = r
  BY <1>15, Zenon DEF Claims
<1>20. more \subseteq 0..(claims - 1)
  BY <1>2, <1>3
<1>. HIDE DEF more
<1>21. claims \in Nat /\ last_idx' = claims * chunk_size(u)
  BY <1>1, Zenon DEF Claims
<1>22. Claims(u, claims, more, at)'
  BY <1>8, <1>10, <1>12, <1>14, <1>18, <1>19, <1>20, <1>21, Zenon DEF Claims, c
<1>23. DOMAIN start_idx' = Procs
  BY <1>1 DEF SearchInv
<1>. QED BY <1>22, <1>23, Zenon DEF more, k

\* At first no search is under way.
LEMMA InitSearch == Init => SearchInv
BY DEF Init, SearchInv

\* Every step keeps the accounting of the search.
LEMMA SearchStep ==
  ASSUME SameHashSeed, IInv, OrderInv, MapsInv, SearchInv, [Next]_vars
  PROVE  SearchInv'
<1>1. CASE SearchArbs
  BY <1>1, SearchStarts
<1>2. CASE Main /\ ~ SearchArbs
  <2>1. start_idx' = start_idx
    BY <1>2 DEF Main, LoadData, SharePools, SharePaths, PollPools, UpdateAllPools,
       UpdateChangedPools, CheckArbs, RemoveBlacklisted, Return, Restart, Broadcast, workerVars
  <2>2. op' # "search_arbs"
    <3>1. CASE LoadData \/ PollPools \/ CheckArbs \/ Restart
      <4>1. pc # "call" /\ op' = op
        BY <3>1 DEF LoadData, PollPools, CheckArbs, Restart, callVars
      <4>. QED BY <4>1 DEF IInv, ControlInv
    <3>2. CASE \/ SharePools \/ SharePaths \/ UpdateAllPools \/ UpdateChangedPools
               \/ RemoveBlacklisted \/ Return
      BY <3>2 DEF SharePools, SharePaths, UpdateAllPools, UpdateChangedPools,
         RemoveBlacklisted, Return, Broadcast
    <3>. QED BY <1>2, <3>1, <3>2 DEF Main
  <2>. QED BY <2>1, <2>2 DEF SearchInv
<1>3. CASE UNCHANGED vars
  <2>1. /\ UNCHANGED <<op, arg, pools, blacklist, ID, PATHS, wpc, start_idx>>
        /\ UNCHANGED <<queue, left, raised, lock, last_idx, searched>>
    BY <1>3 DEF vars, mainVars, callVars, workerVars
  <2>2. Unclaimed' = Unclaimed
    BY <2>1, Zenon DEF Unclaimed
  <2>3. \A u : SamePaths(u) => SamePaths(u)'
    BY <2>1, Zenon DEF SamePaths
  <2>4. ASSUME NEW u, NEW claims, NEW done, NEW at, Claims(u, claims, done, at)
        PROVE  Claims(u, claims, done, at)'
    BY <2>1, <2>2, <2>4, Zenon DEF Claims
  <2>. QED BY <2>1, <2>3, <2>4, Zenon DEF SearchInv
<1>4. ASSUME NEW p \in Procs, Worker(p) \/ Die(p), op # "search_arbs" PROVE SearchInv'
  <2>1. op' = op
    BY <1>4 DEF Worker, TakeTask, Apply, Raise, LeaveBarrier, BeginSearch, ReadLastIdx,
       WriteLastIdx, SearchChunk, Die, callVars
  <2>2. start_idx' = start_idx \/ \E s : start_idx' = [start_idx EXCEPT ![p] = s]
    BY <1>4 DEF Worker, TakeTask, Apply, Raise, LeaveBarrier, BeginSearch, ReadLastIdx,
       WriteLastIdx, SearchChunk, Die
  <2>3. DOMAIN start_idx' = DOMAIN start_idx
    BY <2>2
  <2>. QED BY <1>4, <2>1, <2>3 DEF SearchInv
<1>5. ASSUME NEW p \in Procs, Worker(p) \/ Die(p), op = "search_arbs" PROVE SearchInv'
  <2>1. PICK u : SamePaths(u) /\ \E claims, done, at : Claims(u, claims, done, at)
    BY <1>5, Zenon DEF SearchInv
  <2>2. PICK claims, done, at : Claims(u, claims, done, at)
    BY <2>1, Zenon
  <2>3. SamePaths(u)' /\ op' = op
    BY <1>5, <2>1, SamePathsStay
  <2>4. SUFFICES (\E n, d, a : Claims(u, n, d, a)') /\ DOMAIN start_idx' = Procs
    BY <2>3, Zenon DEF SearchInv
  <2>5. CASE TakeTask(p)
    <3>1. Claims(u, claims, done, at)'
      BY <2>2, <2>5, ClaimsTake
    <3>2. DOMAIN start_idx' = Procs
      BY <2>5, Zenon DEF TakeTask, SearchInv
    <3>. QED BY <3>1, <3>2, Zenon
  <2>6. CASE BeginSearch(p) \/ Die(p)
    BY <2>2, <2>6, ClaimsLose, Zenon
  <2>7. CASE ReadLastIdx(p)
    BY <2>2, <2>7, ClaimsRead, Zenon
  <2>8. CASE WriteLastIdx(p)
    BY <1>5, <2>1, <2>2, <2>8, ClaimsWrite, Zenon
  <2>9. CASE SearchChunk(p)
    BY <1>5, <2>1, <2>2, <2>9, ClaimsSearch, Zenon
  <2>10. CASE Apply(p) \/ LeaveBarrier(p)
    <3>1. op \in BarrierOps
      BY <2>10 DEF Apply, LeaveBarrier, IInv, ControlInv
    <3>. QED BY <1>5, <3>1 DEF BarrierOps
  <2>. QED BY <1>5, <2>5, <2>6, <2>7, <2>8, <2>9, <2>10 DEF Worker
<1>. QED BY <1>1, <1>2, <1>3, <1>4, <1>5 DEF Next

\* For any number of workers and of worker deaths, when the workers hash the paths
\* alike: a search that returns without an exception has searched every path through
\* a changed pool that is not blacklisted, once.
THEOREM SearchIsExact == ASSUME SameHashSeed PROVE Spec => []EachPathSearchedOnce
<1>1. ASSUME IInv, SearchInv, op = "search_arbs", left = 0, ~ raised, NEW q \in Paths
      PROVE  searched[q] = IF /\ PoolsOf[q] \subseteq DOMAIN pools
                              /\ PoolsOf[q] \cap DOMAIN arg.pools # {}
                              /\ q \notin blacklist
                           THEN 1 ELSE 0
  <2>1. PICK u : SamePaths(u) /\ \E claims, done, at : Claims(u, claims, done, at)
    BY <1>1, Zenon DEF SearchInv
  <2>2. PICK claims, done, at : Claims(u, claims, done, at)
    BY <2>1, Zenon
  <2>3. /\ claims \in Nat /\ done \subseteq 0..(claims - 1)
        /\ searched[q] = IF q \in Covered(u, done) THEN 1 ELSE 0
    BY <2>2 DEF Claims
  <2>4. Cardinality(done) = N
    <3>1. Cardinality(done) + 0 = N
      BY <1>1, <2>2 DEF Claims
    <3>2. IsFiniteSet(0..(claims - 1))
      BY <2>3, FS_Interval
    <3>3. Cardinality(done) \in Nat
      BY <2>3, <3>2, FS_Subset, FS_CardinalityType
    <3>. QED BY <3>1, <3>3
  <2>5. claims <= N
    <3>1. Unclaimed \in SUBSET Procs
      BY DEF Unclaimed
    <3>2. Cardinality(Unclaimed) \in Nat /\ queue \in Nat
      BY <1>1, <3>1, SubsetOfProcs DEF IInv, TypeOK, CallTypeOK
    <3>. QED BY <2>2, <2>3, <3>2, NAssumption DEF Claims
  <2>6. done = 0..(N - 1)
    <3>1. IsFiniteSet(0..(N - 1)) /\ Cardinality(0..(N - 1)) = N
      BY NAssumption, FS_Interval
    <3>2. done \subseteq 0..(N - 1)
      BY <2>3, <2>5, NAssumption
    <3>. QED BY <2>4, <3>1, <3>2, FS_Subset
  <2>7. Covered(u, done) = Wanted(arg.pools, DOMAIN pools, blacklist)
    BY <2>1, <2>6, AllCovered DEF SamePaths
  <2>. QED BY <2>3, <2>7 DEF Wanted, Live
<1>2. IInv /\ SearchInv => EachPathSearchedOnce
  BY <1>1, Zenon DEF EachPathSearchedOnce
<1>3. ASSUME SameHashSeed
      PROVE  IInv /\ OrderInv /\ MapsInv /\ SearchInv /\ [Next]_vars => SearchInv'
  BY <1>3, SearchStep
<1>. QED BY <1>2, <1>3, InitSearch, MapsAlways, PTL DEF Spec

-----------------------------------------------------------------------------
(* Calls come to an end                                                      *)

\* What a worker can do next: its next action is possible.
Ready(p) ==
  \/ wpc[p] = "idle" /\ queue > 0
  \/ wpc[p] = "run"
  \/ wpc[p] = "spin" /\ AllFinished
  \/ wpc[p] = "claim" /\ lock = 0
  \/ wpc[p] \in {"claimed", "search"}

\* As long as no worker has died, every task without an answer is queued or at a
\* worker, every task of a broadcast that has been taken has an ID of its own,
\* and a worker that holds the lock is about to release it.
WholeInv ==
  deaths = 0 =>
    /\ \A p \in Procs : ID[p] = p
    /\ queue + Cardinality(Busy) = left
    /\ op \in BarrierOps => queue + Cardinality(Took) = N
    /\ lock # 0 => wpc[lock] = "claimed"

At(S) == {p \in Procs : wpc[p] \in S}

\* The steps the workers have before them: five for a task in the queue, and as
\* many as are left of the longest way to its answer for one that was taken.
ToDo ==
  5 * queue + Cardinality(At({"run", "spin", "claim", "claimed", "search"}))
            + Cardinality(At({"run", "claim", "claimed"}))
            + Cardinality(At({"run", "claim"}))
            + Cardinality(At({"run"}))

\* A call starts with no task taken.
LEMMA BroadcastWhole ==
  ASSUME IInv, WholeInv, NEW o \in BarrierOps \cup {"search_arbs"}, NEW m,
         Broadcast(o, m)
  PROVE  WholeInv'
<1>1. /\ op = "none" /\ queue' = N /\ left' = N /\ lock' = 0
      /\ finish_arr' = [i \in Procs |-> 0]
      /\ wpc' = wpc /\ ID' = ID /\ deaths' = deaths
  BY DEF Broadcast, workerVars
<1>2. \A p \in Procs : wpc[p] = "idle"
  BY <1>1, QuietBetweenCalls
<1>3. Busy' = {} /\ Took' = {}
  BY <1>1, <1>2 DEF Busy, Took
<1>4. Cardinality(Busy') = 0 /\ Cardinality(Took') = 0
  BY <1>3, FS_EmptySet
<1>. QED BY <1>1, <1>4, NAssumption DEF WholeInv

\* Taking a task marks the ID of its worker, which had none of the broadcast.
LEMMA TakeWhole ==
  ASSUME IInv, WholeInv, NEW p \in Procs, TakeTask(p)
  PROVE  WholeInv'
<1>. USE DEF IInv
<1>1. /\ wpc[p] = "idle" /\ queue > 0 /\ queue' = queue - 1
      /\ wpc' = [wpc EXCEPT ![p] = "run"]
      /\ UNCHANGED <<op, left, finish_arr, lock, ID, deaths>>
  BY DEF TakeTask
<1>. SUFFICES ASSUME deaths = 0 PROVE WholeInv'
  BY <1>1 DEF WholeInv
<1>2. queue' + Cardinality(Busy') = left'
  <2>1. Cardinality(Busy') = Cardinality(Busy) + 1 /\ Cardinality(Busy) \in Nat
    BY <1>1, BusyStep DEF WorkerPoints
  <2>. QED BY <1>1, <2>1 DEF WholeInv, TypeOK, CallTypeOK
<1>3. ASSUME op \in BarrierOps PROVE queue' + Cardinality(Took') = N
  <2>1. queue + Cardinality(Took) = N /\ ID[p] = p
    BY <1>3 DEF WholeInv
  <2>2. ~ AllFinished
    BY <1>1, <2>1, TookSize, NAssumption DEF TypeOK, CallTypeOK
  <2>3. finish_arr[p] = 0
    BY <1>1, <1>3, <2>1, <2>2, NAssumption DEF BarrierInv, TypeOK, CallTypeOK, Procs
  <2>4. p \notin Took
    <3>1. \A q \in Procs : ID[q] = p /\ wpc[q] = "run" => FALSE
      BY <1>1, <2>1 DEF IdInv
    <3>. QED BY <2>3, <3>1 DEF Took
  <2>5. Took' = Took \cup {p}
    BY <1>1, <2>1 DEF Took, TypeOK, WorkerTypeOK
  <2>6. Took \in SUBSET Procs /\ Took' \in SUBSET Procs
    BY DEF Took
  <2>7. Cardinality(Took') = Cardinality(Took) + 1 /\ Cardinality(Took) \in Nat
    BY <2>4, <2>5, <2>6, SubsetSize, SubsetOfProcs
  <2>. QED BY <1>1, <2>1, <2>7, NAssumption DEF TypeOK, CallTypeOK
<1>4. lock' # 0 => wpc'[lock'] = "claimed"
  BY <1>1 DEF WholeInv, TypeOK, CallTypeOK, WorkerTypeOK
<1>. QED BY <1>1, <1>2, <1>3, <1>4 DEF WholeInv

\* A worker that reaches the barrier marks the slot of the ID it has.
LEMMA ApplyWhole ==
  ASSUME IInv, WholeInv, NEW p \in Procs, Apply(p)
  PROVE  WholeInv'
<1>. USE DEF IInv
<1>1. wpc[p] = "run" /\ UNCHANGED <<op, queue, lock, ID, deaths>>
  BY DEF Apply, Raise
<1>. SUFFICES ASSUME deaths = 0 PROVE WholeInv'
  BY <1>1 DEF WholeInv
<1>2. ID[p] = p /\ p \in 1..N
  BY DEF WholeInv, Procs
<1>3. /\ finish_arr' = [finish_arr EXCEPT ![p] = 1]
      /\ wpc' = [wpc EXCEPT ![p] = "spin"] /\ left' = left
  BY <1>2, NAssumption DEF Apply
<1>4. queue' + Cardinality(Busy') = left'
  <2>1. Busy' = Busy
    BY <1>1, <1>3, BusyStep DEF WorkerPoints
  <2>. QED BY <1>1, <1>3, <2>1 DEF WholeInv
<1>5. Took' = Took
  <2>1. \A q \in Procs : ID[q] = q
    BY DEF WholeInv
  <2>. QED BY <1>1, <1>3, <2>1 DEF Took, TypeOK, CallTypeOK, WorkerTypeOK
<1>6. lock' # 0 => wpc'[lock'] = "claimed"
  BY <1>1, <1>3 DEF WholeInv, TypeOK, WorkerTypeOK
<1>. QED BY <1>1, <1>4, <1>5, <1>6 DEF WholeInv

\* A worker that answers, or whose task raises, leaves one task less.
LEMMA EndWhole ==
  ASSUME IInv, WholeInv, NEW p \in Procs, wpc[p] \notin {"idle", "claimed"},
         op \in BarrierOps => finish_arr[p] = 1 \/ wpc[p] # "run",
         wpc' = [wpc EXCEPT ![p] = "idle"], left' = left - 1,
         UNCHANGED <<op, queue, finish_arr, lock, ID, deaths>>
  PROVE  WholeInv'
<1>. USE DEF IInv
<1>. SUFFICES ASSUME deaths = 0 PROVE WholeInv'
  BY DEF WholeInv
<1>1. queue' + Cardinality(Busy') = left'
  <2>1. Cardinality(Busy') = Cardinality(Busy) - 1 /\ Cardinality(Busy) \in Nat
    BY BusyStep DEF WorkerPoints
  <2>. QED BY <2>1 DEF WholeInv, TypeOK, CallTypeOK
<1>2. op \in BarrierOps => Took' = Took
  <2>1. \A q \in Procs : ID[q] = q
    BY DEF WholeInv
  <2>. QED BY <2>1 DEF Took, TypeOK, WorkerTypeOK
<1>3. lock' # 0 => wpc'[lock'] = "claimed"
  BY DEF WholeInv, TypeOK, WorkerTypeOK
<1>. QED BY <1>1, <1>2, <1>3 DEF WholeInv

\* The steps of a search.
LEMMA SearchWhole ==
  ASSUME IInv, WholeInv, NEW p \in Procs,
         BeginSearch(p) \/ ReadLastIdx(p) \/ WriteLastIdx(p) \/ SearchChunk(p)
  PROVE  WholeInv'
<1>. USE DEF IInv
<1>0. op = "search_arbs" /\ op \notin BarrierOps
  BY DEF BeginSearch, ReadLastIdx, WriteLastIdx, SearchChunk, ControlInv, BarrierOps
<1>1. CASE BeginSearch(p)
  <2>1. CASE Raise(p)
    BY <1>0, <1>1, <2>1, EndWhole DEF BeginSearch, Raise
  <2>2. CASE ~ Raise(p)
    <3>1. /\ wpc[p] = "run" /\ wpc' = [wpc EXCEPT ![p] = "claim"]
          /\ UNCHANGED <<op, queue, left, lock, ID, deaths>>
      BY <1>1, <2>2 DEF BeginSearch, callVars
    <3>2. Busy' = Busy
      BY <3>1, BusyStep DEF WorkerPoints
    <3>. QED BY <1>0, <3>1, <3>2 DEF WholeInv, TypeOK, WorkerTypeOK
  <2>. QED BY <2>1, <2>2
<1>2. CASE ReadLastIdx(p) \/ WriteLastIdx(p)
  <2>1. /\ wpc[p] \in {"claim", "claimed"} /\ wpc[p] # "idle"
        /\ UNCHANGED <<op, queue, left, ID, deaths>>
    BY <1>2 DEF ReadLastIdx, WriteLastIdx
  <2>2. Busy' = Busy
    BY <1>2, <2>1, BusyStep DEF ReadLastIdx, WriteLastIdx, WorkerPoints
  <2>3. lock' # 0 => wpc'[lock'] = "claimed"
    BY <1>2 DEF ReadLastIdx, WriteLastIdx, TypeOK, WorkerTypeOK
  <2>. QED BY <1>0, <2>1, <2>2, <2>3 DEF WholeInv
<1>3. CASE SearchChunk(p)
  BY <1>0, <1>3, EndWhole DEF SearchChunk, Answer
<1>. QED BY <1>1, <1>2, <1>3

\* Every step keeps the account.
LEMMA WholeStep == ASSUME IInv, WholeInv, [Next]_vars PROVE WholeInv'
<1>. USE DEF IInv
<1>1. CASE SharePools \/ SharePaths \/ UpdateAllPools \/ UpdateChangedPools
           \/ SearchArbs \/ RemoveBlacklisted
  BY <1>1, BroadcastWhole DEF SharePools, SharePaths, UpdateAllPools,
     UpdateChangedPools, SearchArbs, RemoveBlacklisted, BarrierOps
<1>2. CASE LoadData \/ PollPools \/ CheckArbs \/ Restart \/ UNCHANGED vars
  BY <1>2 DEF LoadData, PollPools, CheckArbs, Restart, vars, callVars, workerVars,
     WholeInv, Busy, Took
<1>3. CASE Return
  <2>1. op' \notin BarrierOps /\ lock' = 0 /\ UNCHANGED <<queue, left, wpc, ID, deaths>>
    BY <1>3 DEF Return, workerVars, BarrierOps
  <2>2. Busy' = Busy
    BY <2>1 DEF Busy
  <2>. QED BY <2>1, <2>2 DEF WholeInv
<1>4. ASSUME NEW p \in Procs, Worker(p) PROVE WholeInv'
  <2>1. CASE LeaveBarrier(p)
    BY <2>1, EndWhole DEF LeaveBarrier, Answer
  <2>. QED
    BY <1>4, <2>1, TakeWhole, ApplyWhole, SearchWhole DEF Worker
<1>5. ASSUME NEW p \in Procs, Die(p) PROVE WholeInv'
  <2>1. deaths' # 0
    BY <1>5 DEF Die, TypeOK, WorkerTypeOK
  <2>. QED BY <2>1 DEF WholeInv
<1>. QED BY <1>1, <1>2, <1>3, <1>4, <1>5 DEF Next, Main

\* It holds at first.
LEMMA InitWhole == Init => WholeInv
<1>. SUFFICES ASSUME Init PROVE WholeInv
  OBVIOUS
<1>1. Busy = {}
  BY DEF Init, Busy
<1>. QED BY <1>1, FS_EmptySet DEF Init, WholeInv, BarrierOps

\* Until a worker dies, a call that waits for an answer has a worker that can
\* take its next step, for any number of workers: nobody waits at the barrier
\* for a slot that no task is left to mark, nor for a lock that is never given
\* back.  (What liveness adds, CallReturns, is that a worker that can take its
\* next step does so.)
THEOREM NeverStuck ==
  Spec => [](op # "none" /\ left > 0 /\ deaths = 0 => \E p \in Procs : Ready(p))
<1>1. ASSUME IInv, WholeInv, op # "none", left > 0, deaths = 0,
             \A p \in Procs : ~ Ready(p)
      PROVE  FALSE
  <2>. USE <1>1 DEF IInv
  <2>1. \A p \in Procs : wpc[p] \in {"idle", "spin", "claim"}
    BY DEF Ready, TypeOK, WorkerTypeOK, WorkerPoints
  <2>2. PICK p \in Procs : wpc[p] # "idle"
    <3>1. CASE queue > 0
      <4>1. 1 \in Procs
        BY NAssumption DEF Procs
      <4>. QED BY <3>1, <4>1 DEF Ready
    <3>2. CASE ~ (queue > 0)
      <4>1. queue = 0
        BY <3>2 DEF TypeOK, CallTypeOK
      <4>2. Cardinality(Busy) # 0
        BY <4>1 DEF WholeInv, TypeOK, CallTypeOK
      <4>3. Busy # {}
        BY <4>2, FS_EmptySet
      <4>. QED BY <4>3 DEF Busy
    <3>. QED BY <3>1, <3>2
  <2>3. wpc[p] # "claim"
    <3>1. lock # 0 => lock \in Procs
      BY DEF TypeOK, CallTypeOK, Procs
    <3>. QED BY <2>1, <3>1 DEF Ready, WholeInv
  <2>4. wpc[p] = "spin" /\ op \in BarrierOps /\ ~ AllFinished
    BY <2>1, <2>2, <2>3 DEF Ready, ControlInv
  <2>5. PICK i \in Procs : finish_arr[i] = 0
    BY <2>4 DEF AllFinished, TypeOK, CallTypeOK
  <2>6. i \notin Took
    BY <2>1, <2>5 DEF Took
  <2>7. Cardinality(Took) # N
    <3>1. Took \in SUBSET Procs
      BY DEF Took
    <3>. QED BY <2>6, <3>1, SubsetOfProcs
  <2>8. queue > 0
    BY <2>4, <2>7, TookSize, NAssumption DEF WholeInv, TypeOK, CallTypeOK
  <2>9. wpc[i] # "idle" /\ ID[i] = i
    BY <2>8 DEF Ready, WholeInv
  <2>10. wpc[i] = "spin"
    BY <2>1, <2>4, <2>9 DEF ControlInv, BarrierOps
  <2>. QED BY <2>5, <2>9, <2>10 DEF ControlInv
<1>2. IInv /\ WholeInv /\ [Next]_vars => WholeInv'
  BY WholeStep
<1>3. Spec => []WholeInv
  BY InitWhole, Invariance, <1>2, PTL DEF Spec
<1>4. IInv /\ WholeInv =>
        (op # "none" /\ left > 0 /\ deaths = 0 => \E p \in Procs : Ready(p))
  BY <1>1
<1>. QED BY Invariance, <1>3, <1>4, PTL

\* How a step of one worker changes the number of workers at some points.
LEMMA AtStep ==
  ASSUME TypeOK, NEW p \in Procs, NEW w \in WorkerPoints,
         wpc' = [wpc EXCEPT ![p] = w], NEW S
  PROVE  /\ Cardinality(At(S)) \in Nat /\ Cardinality(At(S)') \in Nat
         /\ w \in S /\ wpc[p] \notin S =>
              Cardinality(At(S)') = Cardinality(At(S)) + 1
         /\ w \notin S /\ wpc[p] \in S =>
              Cardinality(At(S)') = Cardinality(At(S)) - 1
         /\ (w \in S <=> wpc[p] \in S) =>
              Cardinality(At(S)') = Cardinality(At(S))
<1>1. At(S)' = IF w \in S THEN At(S) \cup {p} ELSE At(S) \ {p}
  BY DEF At, TypeOK, WorkerTypeOK
<1>2. At(S) \in SUBSET Procs /\ (p \in At(S) <=> wpc[p] \in S)
  BY DEF At
<1>3. IsFiniteSet(At(S)) /\ Cardinality(At(S)) \in Nat
  BY <1>2, SubsetOfProcs
<1>4. At(S)' \in SUBSET Procs
  BY <1>1, <1>2
<1>5. Cardinality(At(S)') \in Nat
  BY <1>4, SubsetOfProcs
<1>6. CASE w \in S
  <2>1. Cardinality(At(S)') =
          IF p \in At(S) THEN Cardinality(At(S)) ELSE Cardinality(At(S)) + 1
    BY <1>1, <1>3, <1>6, FS_AddElement
  <2>. QED BY <1>2, <1>3, <1>5, <1>6, <2>1
<1>7. CASE w \notin S
  <2>1. Cardinality(At(S)') =
          IF p \in At(S) THEN Cardinality(At(S)) - 1 ELSE Cardinality(At(S))
    BY <1>1, <1>3, <1>7, FS_RemoveElement
  <2>. QED BY <1>2, <1>3, <1>5, <1>7, <2>1
<1>. QED BY <1>6, <1>7

\* A step of a worker leaves the workers fewer steps to take.
LEMMA WorkerFalls ==
  ASSUME IInv, NEW p \in Procs, Worker(p)
  PROVE  ToDo' < ToDo
<1>. DEFINE A == {"run", "spin", "claim", "claimed", "search"}
            B == {"run", "claim", "claimed"}
            C == {"run", "claim"}
            D == {"run"}
<1>. HIDE DEF A, B, C, D
<1>0. TypeOK /\ queue \in Nat /\ wpc[p] \in WorkerPoints
  BY DEF IInv, TypeOK, CallTypeOK, WorkerTypeOK
<1>1. ToDo = 5 * queue + Cardinality(At(A)) + Cardinality(At(B))
                       + Cardinality(At(C)) + Cardinality(At(D))
  BY DEF ToDo, A, B, C, D
<1>2. ToDo' = 5 * queue' + Cardinality(At(A)') + Cardinality(At(B)')
                         + Cardinality(At(C)') + Cardinality(At(D)')
  BY DEF ToDo, A, B, C, D
<1>3. ASSUME NEW w \in WorkerPoints, wpc' = [wpc EXCEPT ![p] = w],
             \/ queue' = queue - 1 /\ wpc[p] = "idle" /\ w = "run"
             \/ queue' = queue /\ wpc[p] = "run" /\ w \in {"spin", "claim", "idle"}
             \/ queue' = queue /\ wpc[p] \in {"spin", "search"} /\ w = "idle"
             \/ queue' = queue /\ wpc[p] = "claim" /\ w = "claimed"
             \/ queue' = queue /\ wpc[p] = "claimed" /\ w = "search"
      PROVE  ToDo' < ToDo
  <2>1. \A S \in {A, B, C, D} :
          /\ Cardinality(At(S)) \in Nat /\ Cardinality(At(S)') \in Nat
          /\ w \in S /\ wpc[p] \notin S =>
               Cardinality(At(S)') = Cardinality(At(S)) + 1
          /\ w \notin S /\ wpc[p] \in S =>
               Cardinality(At(S)') = Cardinality(At(S)) - 1
          /\ (w \in S <=> wpc[p] \in S) =>
               Cardinality(At(S)') = Cardinality(At(S))
    BY <1>0, <1>3, AtStep
  <2>. QED BY <1>0, <1>1, <1>2, <1>3, <2>1 DEF A, B, C, D
<1>4. "run" \in WorkerPoints /\ "spin" \in WorkerPoints /\ "claim" \in WorkerPoints
      /\ "claimed" \in WorkerPoints /\ "search" \in WorkerPoints
      /\ "idle" \in WorkerPoints
  BY DEF WorkerPoints
<1>. QED
  BY <1>3, <1>4 DEF Worker, TakeTask, Apply, Raise, LeaveBarrier, Answer,
     BeginSearch, ReadLastIdx, WriteLastIdx, SearchChunk, callVars

\* A call has at most 5 N steps of workers before it, 5 N when it starts, and
\* fewer with every step: it cannot go on for ever, unless a worker dies.  With
\* NeverStuck this is why a call returns when the workers keep running.
THEOREM CallsRunOut ==
  Spec => [][/\ ToDo \in Nat
             /\ op = "none" /\ op' # "none" => ToDo' = 5 * N
             /\ op # "none" /\ op' # "none" => ToDo' < ToDo \/ deaths' > deaths]_vars
<1>1. ASSUME IInv, Next
      PROVE  /\ op = "none" /\ op' # "none" => ToDo' = 5 * N
             /\ op # "none" /\ op' # "none" => ToDo' < ToDo \/ deaths' > deaths
  <2>. USE <1>1
  <2>1. CASE Main
    <3>1. ASSUME op # "none" PROVE op' = "none"
      BY <2>1, <3>1 DEF IInv, ControlInv, Main, LoadData, SharePools, SharePaths,
         PollPools, UpdateAllPools, UpdateChangedPools, SearchArbs, CheckArbs,
         RemoveBlacklisted, Return, Restart
    <3>2. ASSUME op = "none", op' # "none" PROVE queue' = N /\ wpc' = wpc
      BY <2>1, <3>2 DEF Main, LoadData, SharePools, SharePaths, PollPools,
         UpdateAllPools, UpdateChangedPools, SearchArbs, CheckArbs,
         RemoveBlacklisted, Return, Restart, Broadcast, callVars, workerVars
    <3>3. ASSUME op = "none", op' # "none" PROVE ToDo' = 5 * N
      <4>1. \A p \in Procs : wpc'[p] = "idle"
        BY <3>2, <3>3, QuietBetweenCalls
      <4>2. /\ At({"run", "spin", "claim", "claimed", "search"})' = {}
            /\ At({"run", "claim", "claimed"})' = {}
            /\ At({"run", "claim"})' = {} /\ At({"run"})' = {}
        BY <4>1 DEF At
      <4>. QED BY <3>2, <3>3, <4>2, FS_EmptySet, NAssumption DEF ToDo
    <3>. QED BY <3>1, <3>3
  <2>2. ASSUME NEW p \in Procs, Worker(p) PROVE op' = op /\ ToDo' < ToDo
    <3>1. op' = op
      BY <2>2 DEF Worker, TakeTask, Apply, Raise, LeaveBarrier, BeginSearch,
         ReadLastIdx, WriteLastIdx, SearchChunk, callVars
    <3>. QED BY <2>2, <3>1, WorkerFalls
  <2>3. ASSUME NEW p \in Procs, Die(p) PROVE op' = op /\ deaths' > deaths
    BY <2>3 DEF Die, callVars, IInv, TypeOK, WorkerTypeOK
  <2>. QED BY <2>1, <2>2, <2>3 DEF Next
<1>2. ASSUME IInv PROVE ToDo \in Nat
  <2>1. Procs \in SUBSET Procs /\ IsFiniteSet(Procs)
    BY NAssumption, FS_Interval DEF Procs
  <2>2. \A S : Cardinality(At(S)) \in Nat
    BY <2>1, FS_Subset, FS_CardinalityType DEF At
  <2>3. queue \in Nat
    BY <1>2 DEF IInv, TypeOK, CallTypeOK
  <2>. QED BY <2>2, <2>3 DEF ToDo
<1>. QED BY Invariance, <1>1, <1>2, PTL DEF Spec
=============================================================================
