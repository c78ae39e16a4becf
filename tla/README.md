# Specifications of the Uniswap V2 arbitrage bot

TLA+ models of the bot in this repository, checked with TLC on small instances
and, for what matters most, proved with TLAPS for every instance. All definitions
are translated from the Python source; `PROJECT.json` maps each of them to its
lines.

## 1. The system

The bot follows the Sync events of a chain's Uniswap V2 pools, searches the
closed paths through the pools that changed for arbitrages, checks the
candidates with a contract on a node, and executes the profitable ones through
its router contract. `main.py` runs `main()` again and again: a
`ConnectionError` (of `requests`, or raised when the local node does not catch
up, `main.py:217`) waits and starts it anew, every other exception ends the
program.

| component | state | operations | talks to |
|---|---|---|---|
| main loop (`main.py`) | pools, pool-to-paths mapping, last block, blacklist, burners | load, poll pools, drain, wait, update, search, check, execute, blacklist, save, restart | everything below |
| worker pool (`core/processes.py`, `core/loader.py`, `path/unique.py`, `path/blacklist.py`) | per process: ID, POOLS, PATHS; per call: finish array, lock, shared index | share pools and paths, update pools, search, remove blacklisted paths; death and replacement | task queue, manager objects |
| pool synchronisation (`blockchain/changes.py`, `blockchain/update.py`, `persistance/pools.py`, `persistance/last_block.py`) | the node's filter, `cached_block`, two files | create filter, get changed pools, read pools, save | node, files |
| transaction execution (`arbitrage/executor.py`, `blockchain/burner.py`, `persistance/burner.py`) | nonce, formatted transactions, stock of burners and its file | format, estimate and skip, send, wait for receipts, take out used burners | nodes, chain, router, file |
| Web3 wrapper (`blockchain/ww3.py`) | nodes, filter, nonces, node index | rotation with poll intervals, batches over nodes, receipts | nodes, thread pool |
| arbitrage check (`arbitrage/checker.py`) | revert counts, blacklist | batch check with bisection, decode, choose disjoint arbitrages, count reverts | node, blacklist files |
| multicall (`blockchain/multicall.py`) | none between calls | split, call, retry and put back | nodes |
| path finding (`path/builder.py`, `path/graph.py`) | token graph | depth-first search, mapping of pools to paths | loader |
| profit calculation (`arbitrage/calculator.py`) | none | optimal input, burners count, best gas price | workers |
| argument encoding (`arbitrage/arguments.py`) | none | pack and unpack calldata | execution |
| prices (`core/price.py`, `blockchain/prices.py`) | gas prices, error, running flag | polling thread, readers, kill | main thread, nodes |
| timers (`utils/timer.py`, `utils/uptime.py`) | passed/started flags | pace polls, uptime | threads |
| pool discovery (`blockchain/pools.py`, `blockchain/filterer.py`) | none | page factories, fees, liquidity | multicall |
| task manager (`processes/`) | tasks, results | submit, ordered results | nobody: not used by main any more |
| logs, statistics, configuration, whitelisting, scripts, contracts | files | reports and maintenance | |

What is hard, and what makes each part correct:

* **Worker pool.** Replicated state kept by broadcasts without acknowledged
  delivery: the pool hands N equal tasks to whichever worker is free, and only
  a busy-waiting barrier stops one worker from taking two. A search partitions
  a list that each worker computes for itself, by an index under a lock. Correct
  means: a search sees main's pools, each due path is searched once, broadcasts
  reach every worker, blacklisted paths are gone, calls return.
* **Pool synchronisation.** Three block numbers of different age
  (`last_block`, `cached_block`, the file's), a filter that the node may drop
  and that is created from "latest" when too far back, reads that take several
  requests, files written one after the other. Correct means: no change of a
  pool is lost, whatever happens; a restart can replay; a search is current.
* **Transaction execution.** Nonces are given out before anybody knows which
  transactions are sent; burners are promised from a copy of the stock and
  taken out after the receipts. Correct means: nothing in flight competes for
  a nonce or a burner, and a destroyed burner is never offered again.
* **Discovery.** The number of pairs is asked of one node, their addresses and
  tokens of others, in calls that retry inside calls that retry, and four files
  are written two by two. Correct means: a number never runs ahead of the pools
  that were looked at, each answer stays with its question, the filter removes
  thin old pools only, and the paths are exactly the closed walks.
* **Arbitrage check.** Batches are halved while they fail; reverts are counted
  in memory and in a file that is saved apart from the blacklist; economics are
  computed twice, before and after the check. Correct means: results stay with
  their arbitrages, a path is blacklisted for its reverts and eventually is, the
  files agree, and what is executed pays and shares no pair.
* **Threads.** main, the price thread and the uptime thread share objects that
  are made anew with each start of main(), a generator and a file. Correct
  means: main never works with prices of a dead thread, two threads of a kind
  never work side by side, `kill()` returns, and no uptime is made up.

The hazards are listed, each at its line, in `PROJECT.json`.

## 2. Modules

| module | models | checked by |
|---|---|---|
| `WorkerPool` | worker pool with the part of main that calls it | `MCWorkerPool`, 2 cfgs |
| `PoolSync` | pool synchronisation with the part of main that polls, updates and saves | `MCPoolSync`, 4 cfgs |
| `TxPipeline` | execution of an iteration's arbitrages, nonces, burners | `MCTxPipeline`, 3 cfgs |
| `Calls` | abstract: what a caller of `multicall.call()` may rely on | refined by `Multicall` |
| `Multicall` | `multicall.call()` with chunks and nested retries | `MCDiscovery` |
| `PathFinding` | depth-first search of the paths, and what a path is | `MCDiscovery` |
| `PoolDiscovery` | load_data, the poll_pools branch of main, pools, filter, files; on top of the two above | `MCDiscovery` |
| `Lists` | `Kept`, a loop that collects what passes a test; for `WorkerPool` and `PoolDiscovery` | with these |
| `Calculator` | amounts, gas prices, burners, profit of a path | `MCArbCheck` |
| `ArbArgs` | calldata: encoding, batches, decoding | `MCArbCheck` |
| `ArbCheck` | the check with the part of main around it and the blacklist files; on top of the two above | `MCArbCheck` |
| `PricePoll` | the price thread and its object | `MCThreads` |
| `Uptime` | the uptime thread and its file | `MCThreads` |
| `Threads` | main with both threads: start, polls, reads, finally, restart | `MCThreads` |

The proofs are in `WorkerPoolProofs`, `PoolSyncProofs`, `TxPipelineProofs`,
`DiscoveryProofs` (with `Multicall`), `ArbCheckProofs` and `ThreadsProofs`;
`PathProofs` has the lemmas on `PathFinding` that `DiscoveryProofs` builds on, and
`SequenceLemmas` has the facts on folds and sequences that the burners, the offers,
the workers' paths and the lists of requests rest on.

Each module that has main in it has its program counter `pc`, whose values are the places in
`main()` between two calls that concern the component. Operators named `Bug_...`
are broken variants of the definition next to them, used to show that the
properties can fail; no behaviour of the specification uses them.

### WorkerPool

`pools`, `pool_to_paths`, `blacklist`, `changed` (`changed_pools`) and
`to_blacklist` are main's; `saved_blacklist` is the file. A call of main is
`op` (which function is mapped over the pool), `arg` (what every task carries),
`queue` (tasks nobody has taken), `left` and `answers` (results), `finish_arr`,
`lock` and `last_idx` (the manager's objects). A worker `p` has its place `wpc[p]` and the
globals `ID[p]`, `POOLS[p]`, `PATHS[p]`. Dictionaries are functions with
variable domains, and an update of one is `Updated`; a loop that collects what
passes a test is `Kept`. Steps of a worker are cut
where another process can see a difference: taking a task, applying it
(`Apply`, up to the barrier), leaving the barrier, reading and writing the
shared index (two steps, although under the lock), searching. `Die` replaces a
worker by an empty process with the next ID; its task is lost, its lock stays
taken. A replacement that gets a broadcast raises an IndexError at
`finished_arr[ID - 1]`, which ends the program through `starmap`.

`hash_order[p]` is the order in which process `p` iterates a set of paths. With
`SameHashSeed` the workers are forked and agree; without it they are spawned.

Left out: prices and gas (arguments that the properties do not tell apart),
what a search finds (any searched path may be blacklisted), the logs.

### PoolSync

The chain is a number of blocks; `reserves[p]` is the block that last changed
pool `p`, and main's copy `pools[p]` is the block as of which it was read.
`next` is the first block the filter has not reported; a dropped filter has
`alive = FALSE`. `FirstPoll`, `Drain` and `Await` are the three calls of
`get_changed_pools` in main's loop, with `far` the test for a gap of more than
`max_blocks`. `ReadPool` reads one pool, with blocks coming in between, and
`ApplyUpdates` enters the results. `SavePools` and `SaveLastBlock` are two
steps. `Disconnect` (a ConnectionError) forgets all but the files and
`cached_block`, which lives in a closure; `Crash` forgets that too.

### TxPipeline

`sent` lists what the nodes have taken and what became of it. `Format` is the
whole of `format_transactions`: burners from a copy of the stock, in the order
in which `get_burner_addresses` pops them, consecutive nonces. `Skip`, `Send`
and `Refused` are the three ways an iteration of `execute_transactions` ends.
`Confirmed` and `ReceiptTimeout` end the wait for the receipts; `Settle`,
`RemoveUsedBurner` and `SaveBurners` are main's handling of them. The chain
mines in the order of nonces, so a transaction above a gap stays pending. The
router's outcomes are: profit (all burners are destroyed), no profit (the
first one is), and a revert with less or with more than 60,000 gas (none is).
No node takes a nonce that is mined or pending; a pending transaction is not
replaced by one with a higher gas price.

### Calls, Multicall, PathFinding, PoolDiscovery

`Multicall` keeps the recursion of `call()` as a stack of `frames`, each with the
requests (`params`), the flat list of `results`, where the code has pairs (chunk,
index), and the positions that are being asked again (`retry_idxs`). `CallOne`
takes the answer to one chunk; a chunk that raises a ValueError is one in which
all failed. `Retry` goes one level down, `PutBack` comes back up, `Exceeded` is
the BlockchainError after `max_retries` levels. `Contract` instantiates `Calls`
with the outermost frame's requests and the outcome: everything in between is a
stutter of it.

`PathFinding` follows `find_paths` step by step: `stack` of substacks,
`current_path`, one action per branch of the loop. A substack is a set of
<<pool, token>> pairs, because the order of a dictionary is of no account; which
element is taken is fixed (`CHOOSE`), as it is in one run of the program. The second
half of the module defines the closed walks without a search (`AllPaths`).

`PoolDiscovery` runs `get_pools` for all pools (`round = "all"`, at the first
start) and for new ones (`"new"`, from main's loop). `todo` are the factories
still to be asked, `levels` the recursion of `get_pool_addresses` and
`get_tokens` over zero addresses; the former appends what it gets at last, the
latter puts it in its place. The files are `saved_pools` and `saved_numbers`,
`saved_all` and `saved_all_numbers`, each written in a step of its own.
`invalid` are the indices of `invalid_pools`, which `get_tokens` returns and
`create_pools` leaves out.
`SyncPools` stands for an iteration of the main loop as `PoolSync` shows it. The
histories `judged` and `unanswered` belong to the properties only. A pool is judged
when it was dropped for a reason the code gives (no address or token after all
retries, too little liquidity); one that a file has after all, from which a restart
resumes with it, is not judged any more. `unanswered` are excluded pools of which
no node gave the address. `Updated` is the update of a dictionary, as in `WorkerPool`.
Left out: names of pools, versions of the multicall contract,
`download_pools` = TRUE (the path search is skipped; one branch of `LoadData`
and of `AfterUpdate`).

### Calculator, ArbArgs, ArbCheck

`Calculator` has the formulas of `arbitrage/calculator.py` on integers. Where the
code has a Decimal of 40 digits, a fraction is kept and rounded where the code
rounds, with the same rule (`Rounded` is half-even; `Raised` knows which
percentages a double stores too high). Scaled down for TLC: fees are out of 100
instead of 10,000, the ratios of the configuration are whole percents, gas
prices whole gwei. The gas constants (17,566, 6,434, 23,640, 36,930) are the
code's.

`ArbArgs` writes calldata as fields with their width in hexadecimal digits, so
that decoding by fixed positions finds a field, nothing, or something across two
fields (`Garbled`). What a field holds is not converted.

`ArbCheck` goes through one iteration after another: `Search` (any of the paths
that pay in this market, in any order), `CallBatch` and `BatchFails` (batch by
batch; `batches` lists what is still to be called, over all levels of halving),
`Handle` (`check_arbs` from the decoded results to the three lists), `Execute`,
`SavePre`, `SaveBlacklist`, `RemoveBlacklisted`, `Timer`. `Crash` stands for
everything that leaves main() and starts it again from the files. Each result
carries `of`, the path it is about, which the program does not see. `reverts`
is a history: the checks a path failed since it last passed one.

Two facts of the code that the model follows: the first revert of a path never
blacklists it, so that a configured target of 1 needs two (`Target`); and a crash
may forget that a path passed, so that its older count comes back (`Start`).

### PricePoll, Uptime, Threads

Objects of `PricePollInterval` are numbered, as main() makes a new one with each
start; `error`, `running`, `published` and the place of the thread (`thread`) are
functions of the number. `executing` says who is inside the shared generator
`node_idx`: `next()` raises ValueError then, which the price thread's retry
counts as a failed attempt and main takes for a dropped filter, once (`attempt`);
the second time ends the program.

`Uptime` numbers the events of `start()` likewise. Writing the file is two steps,
`Truncate` and `Write`, and a crash in between leaves `Torn`, which
`load_uptime` replaces by the value in the statistics. The lock is held from
`Truncate` to `Write`. A tick of the clock is a second.

`Threads` is main: construct, start, poll, read prices twice, execute, and the
finally clause with `uptime.stop()` and `kill()`. A reader that comes before the
first prices gets PricePollNotRunning, which ends the program; so does any error
but ConnectionError.

The gas price itself is a constant in the code (`prices.py:40`), so the model keeps
whether prices are there, not what they are.

## 3. Runs

`SPECIFICATION` is `Spec` for safety and `FairSpec` where liveness is checked.

| run | instance | shows |
|---|---|---|
| `workers` | 2 workers, 2 pools with 2 states each, 2 paths, 1 death, forked | all safety properties of the worker pool, and that calls return when no worker dies |
| `order` (violated) | 2 workers, 1 pool, 3 paths, spawned | with hash seeds that differ, chunks overlap after a blacklisting |
| `sync` | 2 pools, `max_blocks` 3, 4 new blocks, disconnections, dropped filters, crashes | no change is lost and files are replayable while no gap of more than `max_blocks` opens on a running program; the loops end |
| `sync_cached` (violated) | `max_blocks` 2, 5 new blocks, disconnections | a long outage is not noticed because of the stale `cached_block` |
| `sync_dropped` (violated) | `max_blocks` 2, 3 new blocks, dropped filters | a filter created again too late skips changes |
| `sync_drain` (violated) | `max_blocks` 1, 3 new blocks | the draining loop never ends after a long drain |
| `discovery` | 2 factories with 2 pairs each, 3 tokens and a broken pair, chunks of 2, 1 retry, 2 faults | numbers never run ahead of pools, tokens and fees stay with their pools, the filter takes what it should, the paths are exact, rounds end, `Multicall` implements `Calls` |
| `check` | 4 paths (one for each selector) in 6 pools, batches of 2, target 3, 2 faults | results stay in place, blacklisting and its files, choice and economics of the offers, amounts, calldata |
| `threads` | 2 starts of main(), 2 sessions, 2 seconds, 1 retry, 2 faults | reads are good, threads are alone, the uptime is true, the finally clause ends |
| `tx` | 5 burners in 3 batches, up to 3 transactions of up to 2 burners, 2 iterations, ConnectionErrors between iterations | the safety of nonces and burners, with a stock that loses what is destroyed and keeps what lives; an execution ends |
| `tx_nonce` (violated) | as `tx` | a refused transaction leaves the nonce too high |
| `tx_restart` (violated) | as `tx`, ConnectionErrors while waiting for receipts | burners of what was in flight stay in the stock |

Why the bounds are enough to be interesting: two workers suffice for one to
overtake the other or to die at the barrier; two pools and two paths that
share one make duplicates in `get_unique_paths` and partial updates; three
paths are the fewest that two workers cut unevenly. Four blocks past the start
with `max_blocks = 3` allow gaps at, below and (while the program is not
running) beyond the limit, and two blocks that the main loop has not seen when
it saves; with fewer, saving the newest block instead of main's would pass
unnoticed. Two pools allow one to change while the other is read. Three batches of burners with
three transactions make an iteration cross two batch borders, where the first
two batches are all `remove_used_burners` looks at. The second iteration sees
the nonces and the stock left by the first one.

In `discovery`, chunks of two make a call of several chunks, one retry makes
the second failure the last, and two faults are enough for any of: a failure and a
failed retry, a zero and a zero again, a lagging node and a crash. `Exclude` = 1
with two pairs has a factory at and above the edge of the excluded range.
The triangle with the two weths has a path of each kind: back to its start,
to the other weth, through one pool, around. In `check`, four paths of which
two share a pool give batches of two and one, a failing one of each, and offers
that compete; a target of 3 is above the special case of the first revert, and
two faults let one hit between the two saves and another one later. In
`threads`, the second start sees what is left of the first, and the second
fault may hit while the first is handled.

Deadlock checking is off where the program may stop: after an exit, with a
dead worker's call (`WorkerPool`), at the bound on iterations
(`TxPipeline`), and after an exit (`PoolDiscovery` may wait in its loop for ever,
`Threads` ends). `PoolSync` never stops and is checked for deadlock.

### Fairness

* `WorkerPool`: weak fairness for main and for each worker. They are operating
  system processes that run whenever they can; the lock is taken once per task,
  so weak fairness suffices. Deaths are not fair, and `CallReturns` excuses them.
* `PoolSync`: weak fairness for main's steps. Blocks come and failures happen
  without fairness; the chain is finite, which matters to `DrainEnds` only:
  a drain that blocks keep feeding would go on, in the model as in the code.
* `TxPipeline`: weak fairness for main's steps. Nothing makes the chain mine a
  transaction; what ends the wait is the timeout.
* `PoolDiscovery`: weak fairness for the program's steps and the answers of the
  nodes, which HTTP timeouts guarantee. Faults, crashes and polls are not fair.
* `Threads`: weak fairness for main, for each price thread and for each uptime
  thread: they are scheduled, and their calls return. Nothing has to fail.
* `ArbCheck` claims no liveness: that a path which always reverts is blacklisted
  is the safety property `NoEndlessReverts`, which bounds how often it can fail.

### What the code does otherwise than it says

The six violated runs are disagreements between the source and its own
comments; `PROJECT.json` quotes both. In short: `remove_from_paths` reorders
paths per process; `cached_block` survives a restart; a filter created again
may start at "latest"; the drain compares with a block that stays; `break` in
`execute_transactions` forgets nonces; a restart forgets transactions in
flight. The passing runs make the assumption that excludes each of them
explicit: `SameHashSeed`, `LongGaps = FALSE`, `ConnectionErrors = {"loop"}`,
and for nonces `NonceIsNext` is simply not claimed.

Besides these, without a run of its own: the docstring of `get_excluded_ranges`
(`filterer.py:44-45`) gives a factory with fewer than `exclude_num` pools the range
`(pool_count, pool_count)`, which exempts none of them; the code gives `(0,
pool_count)`, which exempts them all, as it exempts the newest ones of a factory with
many. `OldThinPoolsGo` says nothing of these pools (`Disputed`): it states what both
agree on, down to a factory with exactly `exclude_num` pools. What the code does with
all pools is `FilterExact`, which is proved. And very unbalanced paths that would pay are
dropped, because an amount that `tweak_amount_in` only tries raises
BigNumberError (`calculator.py:384`).

## 4. Proofs

`WorkerPoolProofs` proves, for any number of workers, any pools, paths and
orders, and any number of deaths:

* `TypeCorrect`: `Spec => []TypeOK`
* `SearchIsCurrent`: `Spec => []SearchSeesMainPools`
* `BroadcastIsExact`: `Spec => []OneAnswerPerID`
* `BroadcastIsComplete`: `Spec => []BroadcastReachesAll`
* `BlacklistStops`: `Spec => []BlacklistedNotSearched`
* `SearchIsExact`: `SameHashSeed` implies `Spec => []EachPathSearchedOnce` (`order`
  shows what happens otherwise)

They rest on the constants' assumptions (`NAssumption`, `DeathsAssumption`,
`AbsentAssumption`: what stands for a missing entry is neither a pools dictionary nor a
mapping; `PathsAssumption`: the paths are finite, and the two orders list all
paths and all pools), which TLC evaluates in the runs. None of the six is
inductive alone. The invariant of the first four, `IInv`, has these parts:

1. *Counting.* The tasks of a call that are neither answered nor in the queue
   are at least those the workers hold, so `left = 0` means that no worker is at
   work on it. A death makes this an inequality.
2. *IDs.* IDs are distinct and below `counter`; a worker with an ID of at most
   N has never been replaced.
3. *Barrier.* In a broadcast a slot of `finish_arr` is marked only by the
   worker with that ID, which is then at the barrier or through; through means
   that all slots were marked. Hence a worker that answers has no second task
   of the same broadcast left to take: N tasks were taken by N workers.
4. *Replicas.* Outside a broadcast the replica of every worker that has one
   equals main's pools; within one, the replica of a worker that has marked its
   slot does, and the broadcast's argument applied to any other one gives
   main's pools. A search starts only after a broadcast that every original
   worker answered, and a replacement has no replica and raises KeyError.

The other two need the replicas of the mapping, `MapsInv`, on top. An update of the
pools is safe because it is sent before every search; the mapping changes only
after a check. When a worker was replaced, the replacement may take the task of
`remove_blacklisted` from an original worker and raise, which main, as it only waits
for these tasks, does not see, so that the mapping of a worker can be out of date.
Such a worker never searches:
`Replaced` says that an ID of at most N is gone, so a slot of the next update's
barrier is never marked (`Lost`), and no task of it returns normally. In all other
cases `Right` holds: under each pool of main's, a worker has exactly the paths that
are not blacklisted, each once; forked workers have them in one order, as
`remove_from_paths` reorders them alike. That gives `SamePaths`: all workers cut one
list. `SearchInv` then counts: with `claims` chunks claimed, `last_idx` is `claims`
times the size of a chunk, changed under the lock only; each claimed chunk is being
searched by one worker, or done, or lost; every normal answer is a done chunk,
so that `left = 0` without an exception leaves none out; and the N blocks of this size
are disjoint and cover the list. That `get_unique_paths` lists each due
path once is a fact on folds (`SequenceLemmas`).

Two more theorems are the part of `CallReturns` that needs no fairness:

* `NeverStuck`: while a call waits for an answer and no worker has died, some worker
  is `Ready`, which is to say that its next step is enabled. Nobody spins at
  the barrier for a slot that no task is left to mark, as the tasks in the queue and
  those taken make N (`WholeInv`), and the lock is held by one that can give it back.
* `CallsRunOut`: a call has `ToDo`, a natural number, steps of workers before it: 5 N when it
  starts, fewer after each step until the next death.

What fairness adds is that a worker that is ready takes its step.

`Init` gives the invariant; one lemma per part shows that every step keeps that
part, with a step for each action; the theorems follow with PTL.

`TxPipelineProofs` proves, for any stock, any number of arbitrages, of burners
and of iterations, assuming that a ConnectionError strikes only between
iterations (`ConnectionErrors \subseteq {"loop"}`; `tx_restart` shows what
happens otherwise):

* `NothingInFlight`: `Spec => []AllSettled`
* `NoncesAreFresh`: `Spec => []NonceFresh`

`NonceFresh` is not inductive: it says nothing of the transactions that are
still to come, nor of the counter between iterations. The invariant adds that
the formatted transactions have increasing nonces, above those in flight and
not below the number of transactions ever sent, and that the counter leaves
room for all that remain; a skipped or refused transaction only widens the
room. Between iterations the counter is at least the number sent (it may be
more, which is the finding of `tx_nonce`), or unknown, and then
`eth.get_transaction_count` answers that number because nothing is in flight:
this is where `AllSettled` is needed. Each action has a lemma.

It proves on top of that, for any stock of distinct addresses and under the same
assumption:

* `TypeCorrect`: `Spec => []TypeOK`
* `BurnersStayAlive`: `Spec => []BurnersAlive`
* `DestroyedStayOut`: `Spec => []DestroyedNotOffered`
* `StockStaysExact`: `Spec => []StockExact`

`BurnersAlive` is about what is in flight; it becomes inductive with what is
still to be sent (`Promised`: the formatted transactions have disjoint burners of
the stock, none of which this iteration has already sent), with what was
destroyed (`Spent`: earlier iterations' burners are out of the stock, this one's
are among the used burners while these are taken out) and with the stock itself
(`Stocks`: addresses are distinct, and the file has main's stock except while used
burners are taken out). That `format_transactions` hands out disjoint slices, and
that `remove_used_burners` leaves a stock without one address and with all others,
are facts on folds over sequences of any length. `SequenceLemmas` proves them:
induction is stated for sets of numbers there (the least number that is missing
from a set cannot exist), and FlattenSeq, FoldLeft with +, RemoveFirst,
Reverse and slices are taken through it.

`StockExact` adds the other half: no burner leaves the stock or the file unless it is
destroyed or `doubted`, that is, counted as used by the gas of a transaction that failed.
Its invariant (`KInv`) has what is left of the first stock in main's, and only such
burners among the used ones: main settles when everything of the iteration has a
receipt, so that `get_used_burnerns` never judges a transaction in flight.

`PoolSyncProofs` proves, for any pools, chain and `max_blocks`, assuming that the
chain gets no more than `max_blocks` ahead of a running program (`~LongGaps`;
the three violated runs show what happens otherwise):

* `TypeCorrect`: `[]TypeOK`
* `NoChangeIsLost`: `[]NoLostChange`
* `FilesAreReplayable`: `[]SavedIsReplayable`
* `SearchIsCurrent`: `[]SearchUpToLastBlock`

The invariant says of each pool that main, or a file, does not have as the chain
has it, that the change is in the blocks that the next poll reports: at or above
`last_block` (the saved block), and at or above where the filter stands, or else
`get_changed_pools` is bound to see a gap and read all pools. The second case is why
the age of `cached_block` is part of it. `NumberInv` orders the three block
numbers, `IdleInv` says when an update is under way, `Behind` looks through
an update that is. All three polls share one lemma (`PollKeeps`).

Under the same hypothesis two theorems are the safety halves of `DrainEnds` and
`ChangeIsSearched`:

* `DrainRunsOut`: the loop that notes what changed meanwhile polls once more only if a block
  arrived since its last poll, or with this step. Two polls without a new block end it.
* `ChangeEndsWait`: a poll that finds a change that main has neither read nor noted ends the
  wait, and leads to the update (or to `main()` starting again).

They rest on `NearInv`: `last_block`, the filter and the cached block stay within
`max_blocks` of the chain while the program runs. `LongGaps` breaks it, and then the loop need
not end (the finding of the run `drain`).

`DiscoveryProofs` proves first, of `Multicall`, for any requests, answers, size of
the chunks and number of retries:

* `FramesAligned`: the inductive invariant. Each frame has a reply for each of
  its first requests; a frame that waits has in `retry_idxs` exactly the
  positions that failed, and the requests of the next frame are those; a frame
  whose retry is back misses nothing.
* `CallsAreAnswered`: `multicallSpec => CallsAnswered`, the refinement of `Calls`.
  Every step maps to a step or a stutter: inner steps leave the outermost
  requests alone, `Return` gives a list of answers because nothing is missing.
* `CallRunsOut`: a call of n requests takes fewer than `(MaxRetries + 1) * (n + 2)` steps,
  whatever the nodes answer. `StepsLeft` falls with each: no level asks for more than the
  outermost one (`SizesInv`), a level takes at most a step for each request and one for the
  retry, and one more to be put back.

And then, of `PoolDiscovery`, for any factories with any pairs, tokens and fees, any
answers of the nodes, sizes of chunks, numbers of retries and of faults, with
crashes and restarts at any place:

* `DiscoveryInvariant`: the inductive invariant `DInv`
* `DiscoveryTypes`: `Spec => []TypeOK`
* `PoolsNotForgotten`: `Spec => []NoPoolForgotten`
* `PoolsTold`: `Spec => []PoolsAsOnChain`
* `FilterIsExact`: `Spec => FilterExact`, and from it `OldThinPoolsLeave`: `Spec => OldThinPoolsGo`
* `PathsAreExact`: `Spec => []PathsExact`, for any lengths of paths, start tokens, ignored
  tokens and blacklist, under the two hypotheses below
* `DiscoveryCallsAnswered`: `Spec => CallsAnswered`: the caller here is main, which
  asks one thing after another and may die in the middle

`DInv` has these parts:

1. `CallInv`. While main asks, the outermost frame of `Multicall` has the
   requests of main's present question, and what is returned are answers to them,
   one by one; this is where the invariant of `Multicall` comes in.
2. `WorkInv`. Each factory is still to be asked, once, for the range of its new pairs
   (`Span`), or was asked. Each level of a recursion asks for exactly the zeros of the
   one before, so that its answers can be put back in their places, or appended (`get_tokens`,
   `get_pool_addresses`). After the addresses were asked, each pair of the range is among the
   addresses found, or judged (for the filter: `unanswered`); after the
   tokens, a zero makes its own pool invalid and no other.
3. `PoolInv`. Main's pools and those in the files have their own tokens, and their own
   fees, but for the pools that were created and wait for their first update (`fresh`).
4. `CoverInv`. Each of the three numbers counts pools that are in what goes with it, or judged:
   main's in main's pools, the files' both in what a restart resumes from
   (`Backing`, the small file before the big one) and in what main has. The second half
   makes it inductive, as main goes on to save its pools over those of the file.

That lists come back as they were put together (parts joined and cut, levels folded
into one another) is proved on `FlattenSeq`, `FoldLeft` and `FoldRight` in
`SequenceLemmas`. The assumptions describe the chain and the nodes: factories are
listed once, a factory creates each pair at an address of its own
(`PairsAssumption`), a pair has two tokens, the requests are those the program
makes (`RequestsAssumption`), a node answers with the truth, a zero, or an older number
(`NodesAssumption`), and an absent file is neither numbers nor pools.

`PathsAreExact` rests on `PathProofs`. The tree of all walks is never there as a whole: the
search has one path, and for each of its places a substack with the steps that have not
been taken yet. The invariant (`SearchInv`) says what these stand for:

1. `GraphOk`. Each pool joins two different tokens; no token is a pool.
2. `SearchOk`. The path is an open walk from the task's token, over different pools, that
   meets no token at which it could end. Each step in a substack fits to the path at its
   place, leads to no such token, and is not the step that the path took there.
3. `FoundOk`. A closed walk that is not blacklisted has been found if and only if it is not
   `Pending`: no substack has a step that goes on from the path's beginning along this
   walk. What is found has no duplicates. `Visit` moves walks from one side to the
   other (those that the step closes) and splits the rest over the new substack;
   `Backtrack` takes an empty one away, from which none was pending.
4. `MappedUpTo`. The walks of the tasks that are done are mapped, each once at each of its
   pools. Walks of two tasks differ in their first token.

At the end of a task the stack is empty, nothing is pending, and all walks are found. That
the walks, which `ClosedWalks` builds from sequences of pools, are what can be said
place by place (`ClosedWalksAre`) is an induction along a walk; how deep the search goes
needs none, as one step looks at one substack. `PathsInv` ties this to main: the graph
is that of main's pools while the paths are searched and until they are replaced.

One hypothesis is `NoPoolIsToken`: `_find_neighbors` and `_finalize_path` ask whether a pool
is in `current_path`, where tokens and pools are mixed. Uniswap allows pairs of liquidity
tokens, which are pools; a path through such a token would not pass its pool afterwards,
although the pool was not used. The other one is `~DownloadPools`: with
`download_pools`, main goes on without a search.

`ArbCheckProofs` proves, for any paths, markets, verdicts, batch size, target and
number of faults:

* `TypeCorrect`: `Spec => []TypeOK`
* `ResultsStayInPlace`: `Spec => []ResultsInPlace`
* `OnlyForReverts`: `Spec => []BlacklistedForReverts`
* `FilesStayTrue`: `Spec => []FilesAgree`
* `RevertsEnd`: `Spec => []NoEndlessReverts`
* `ArgumentsSurvive`: `Spec => []ArgumentsRoundTrip`, from `ArgumentsDecode`: for
  any amounts, pools and numbers of burners below 256, calldata that
  `create_arb_args` laid out is read back, at its fixed positions, as what went in
* `FoundPays`: `Spec => []AmountsPay`, the first half of `AmountsBest`: whatever the markets,
  an arbitrage that goes to the check is stated with what its path pays for its amount at
  the reserves of the search, and that is a gain
* `ChecksRunOut`: however batches fail, the n arbitrages of a search take at most 2n - 1
  calls of the contract. `CallsLeft`, twice the arbitrages without a result less the batches
  to be called, falls with each call; it is a natural number since no batch is empty

`SeqInv` says that the batches still to be called tile what is left of the
arbitrages, in order and without gap; halving a batch in place keeps that.
`FileInv` says for each place of main how memory, the workers and the two files
differ. `CountInv` brackets the count of a path: no more than its failures, and
no fewer than these less one target for each fault, as a fault can lose no more
than what was counted up to the blacklisting.

It also proves, for any markets, verdicts, gas prices and number of offers:

* `OffersStayApart`: `Spec => []OffersApart`
* `OffersStayWorth`: `Spec => []OffersPay`

The invariant (`OfferInv`) is that at "execute" the offers are what `Handle` computes
from results that stand in place (`SeqInv`); the rest are facts on the
operators. For `OffersApart`: the order in which arbitrages are looked at is a
permutation that sorts them by price, and the loop over it keeps an arbitrage iff
no kept one before it shares a pair, which by induction over the prefixes is the
only set that satisfies the declarative definition. For `OffersPay`: the
recalculation subtracts all costs from what the contract reports, and the number
of burners, found by a search that stops at the first rise, is the best of all,
because the gas falls by 17,566 a burner until the refund's cap of one half binds
and rises with each one after. The assumptions are that paths have swaps and known
prices (`PathsAssumption`), that reserves and fees are positive
(`MarketsAssumption`: `get_pools` drops thin pools, and no exchange lets a pool be
drained to zero), and that the contract's profit and gas are decoded as unsigned
(`VerdictsAssumption`, `checker.py:158`). For the arguments they are that a path has two or
three swaps (`LengthAssumption`: `create_arb_args` raises for any other), and that `Nothing`,
which stands for an absent byte range, is no number and no burner (`NothingAssumption`,
`SomeBurnersAssumption`).

`ThreadsProofs` proves, for any number of starts, retries, sessions, faults and
seconds:

* `TypeCorrect`: `Spec => []TypeOK`
* `ThreadsAreAlone`: `Spec => []OneThread`
* `OnlyGoodReads`: `Spec => ReadsAreGood`
* `UptimeIsTrue`: `Spec => UptimeTrue`

`PriceInv`: a thread that lives is that of main's object, and an object without an
error has a living thread or main waits for its end. `UptimeInv`: only the
newest event is set, and while time is measured, or a thread is about to write
it, the total is time that was measured; one thread writes, and then the file is
torn. `MainInv` ties both to main's place.

The safety halves of `MainRecovers`, whose only wait is the join in `kill()`:

* `JoinIsForThread`: what is joined is a thread that was started and told to stop
* `JoinRunsOut`: it has at most `2 * MaxRetries + 5` steps before it ends, fewer after each,
  wherever it was when it was told, and no step of another actor gives it more

Assumptions: only those named `...Assumption` in the modules, about constants,
and the hypotheses stated above. TLC evaluates the former in the runs.

Only model-checked:

* `AmountsBest` (`ArbCheck`): that no other amount gains more than the rounding of each swap
  explains. The optimum is one of quotients of products of reserves, with a rounded
  division in each swap, and takes arithmetic that is not linear. Its first half, that
  what is found pays, is proved (`FoundPays`).
* All liveness properties (`CallReturns`, `DrainEnds`, `ChangeIsSearched`,
  `RoundEnds`, `DiscoveryEnds`, `MainRecovers`): fairness and `ENABLED` are out of the
  prover's reach. Proved is what they rest on besides fairness: that there is a step to
  take (`NeverStuck`, `JoinIsForThread`, `ChangeEndsWait`) and that something falls with
  each (`CallsRunOut`, `CallRunsOut`, `DrainRunsOut`, `JoinRunsOut`, `ChecksRunOut`,
  `RevertsEnd`). `RoundEnds` has no such theorem.

## 5. Not modelled

* The task manager (`processes/`): an earlier worker pool that main does not
  use any more.
* Creating burners (`exe_tx` and its resending): used by scripts; switched off
  in main.
* The arithmetic of token prices (`extract_all_reserves`,
  `update_global_prices`): `PricePoll` keeps whether they are known. The getter
  `get_weth_prices` returns the dictionary itself, outside the lock under which
  an update replaces its values one by one, so a search may mix the prices of
  two updates.
* The timers (`utils/timer.py`): each has a single caller, so that "due or not
  due" is a free choice wherever one is asked.
* EVM code of the contracts, except for the outcomes that matter; logging,
  statistics other than the uptime, configuration; the disabled whitelisting and
  sync processes; the maintenance scripts.
* Torn files other than the uptime's: a file is written in one step. One that is
  cut by a crash cannot be parsed at the next start, and the program ends.
* Precision: 40-digit Decimals, `uint112` limits, and reserves of real size are
  out of TLC's reach; the formulas are checked on small integers.

## 6. Plan

What is left, in this order:

1. Burner creation (`exe_tx`): resending, and the nonces it shares with
   `TxPipeline`.
2. `TaskManager`: ordered results as a refinement of a queue, should it be used
   again.
3. The composition of `PoolSync` with `PoolDiscovery`: both save the pools, under
   different timers.
4. Proofs: that the worker pool implements one process with one copy of the
   pools, and a measure for `RoundEnds`.
