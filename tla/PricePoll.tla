----------------------------- MODULE PricePoll -----------------------------
(***************************************************************************)
(* core/price.py and blockchain/prices.py: a thread reads the pools that   *)
(* prices come from, and main reads the prices it publishes.  main() makes *)
(* a new PricePollInterval each time it starts; objects are numbered, and  *)
(* so are their threads.  The gas price is a constant of the code, so that *)
(* only whether the prices are set matters.                                *)
(*                                                                         *)
(* The thread shares Web3's generator node_idx with main: next() on a      *)
(* generator that is executing raises ValueError.                          *)
(***************************************************************************)
EXTENDS Integers

CONSTANTS
  MaxStarts,      \* bound: objects made
  MaxRetries,     \* CONFIG["max_retries"]
  NoError, PricePollNotRunning, ConnectionError, OtherError,
  Nobody, Main

ASSUME PriceAssumption == MaxStarts \in Nat \ {0} /\ MaxRetries \in Nat
ASSUME ErrorsAssumption ==
  NoError \notin {PricePollNotRunning, ConnectionError, OtherError}

Objects == 1..MaxStarts

VARIABLES
  made,           \* objects made so far; the last one is main's
  running,        \* object |-> _running
  error,          \* object |-> _error
  published,      \* object |-> whether the gas prices and gas_params are set
  thread,         \* object |-> where its thread is
  cause,          \* object |-> the exception its thread handles
  retries,        \* object |-> of update_price_pools
  prices_known,   \* the global _prices and _gas_price are set
  executing       \* who is inside node_idx: Nobody, Main or an object's thread

priceVars == <<made, running, error, published, thread, cause, retries,
               prices_known, executing>>

Alive(g) == thread[g] \notin {"none", "dead"}

priceInit ==
  /\ made = 0
  /\ running = [g \in Objects |-> FALSE]
  /\ error = [g \in Objects |-> PricePollNotRunning]
  /\ published = [g \in Objects |-> FALSE]
  /\ thread = [g \in Objects |-> "none"]
  /\ cause = [g \in Objects |-> NoError]
  /\ retries = [g \in Objects |-> 0]
  /\ prices_known = FALSE
  /\ executing = Nobody

\* PricePollInterval(new_singleton=True), after Web3(new_singleton=True).
NewObject ==
  /\ made < MaxStarts
  /\ made' = made + 1
  /\ executing' = Nobody
  /\ UNCHANGED <<running, error, published, thread, cause, retries, prices_known>>

StartThread ==
  /\ running' = [running EXCEPT ![made] = TRUE]
  /\ thread' = [thread EXCEPT ![made] = "update"]
  /\ UNCHANGED <<made, error, published, cause, retries, prices_known, executing>>

-----------------------------------------------------------------------------
(* The thread                                                              *)

Raise(g, e) ==
  /\ thread' = [thread EXCEPT ![g] = "except"]
  /\ cause' = [cause EXCEPT ![g] = e]
  /\ retries' = [retries EXCEPT ![g] = 0]

\* update_global_prices and the gas price, when all results are there.
Updated(g) ==
  /\ prices_known' = TRUE
  /\ thread' = [thread EXCEPT ![g] = "publish"]
  /\ retries' = [retries EXCEPT ![g] = 0]
  /\ UNCHANGED cause

Bug_OneMoreRetry(g) ==
  /\ IF retries[g] > MaxRetries THEN Raise(g, OtherError)
     ELSE /\ retries' = [retries EXCEPT ![g] = @ + 1]
          /\ thread' = [thread EXCEPT ![g] = "retry"]
          /\ UNCHANGED cause
  /\ UNCHANGED prices_known

\* One more attempt, or BlockchainError.
Missing(g) ==
  /\ IF retries[g] >= MaxRetries THEN Raise(g, OtherError)
     ELSE /\ retries' = [retries EXCEPT ![g] = @ + 1]
          /\ thread' = [thread EXCEPT ![g] = "retry"]
          /\ UNCHANGED cause
  /\ UNCHANGED prices_known

\* WaitPrevious and fast_call, which does without the generator; it raises what the node raises.
Update(g) ==
  /\ thread[g] = "update"
  /\ \/ Updated(g)
     \/ /\ thread' = [thread EXCEPT ![g] = "retry"]
        /\ UNCHANGED <<cause, retries, prices_known>>
  /\ UNCHANGED <<made, running, error, published, executing>>

UpdateRaises(g) ==
  /\ thread[g] \in {"update", "retrying"}
  /\ \E e \in {ConnectionError, OtherError} : Raise(g, e)
  /\ executing' = IF executing = g THEN Nobody ELSE executing
  /\ UNCHANGED <<made, running, error, published, prices_known>>

\* multicall.call takes the next node; a ValueError is a failed attempt to it.
Retry(g) ==
  /\ thread[g] = "retry"
  /\ \/ /\ executing = Nobody
        /\ executing' = g
        /\ thread' = [thread EXCEPT ![g] = "retrying"]
        /\ UNCHANGED <<cause, retries, prices_known>>
     \/ /\ executing # Nobody
        /\ Missing(g)
        /\ UNCHANGED executing
  /\ UNCHANGED <<made, running, error, published>>

Retried(g) ==
  /\ thread[g] = "retrying"
  /\ executing' = Nobody
  /\ Updated(g) \/ Missing(g)
  /\ UNCHANGED <<made, running, error, published>>

\* The first time the error goes; then while self._running.
Publish(g) ==
  /\ thread[g] = "publish"
  /\ error' = [error EXCEPT ![g] = IF published[g] THEN @ ELSE NoError]
  /\ published' = [published EXCEPT ![g] = TRUE]
  /\ thread' = [thread EXCEPT ![g] = IF running[g] THEN "update" ELSE "dead"]
  /\ UNCHANGED <<made, running, cause, retries, prices_known, executing>>

Bug_OnlyLogs(g) ==
  /\ thread[g] = "except"
  /\ running' = [running EXCEPT ![g] = FALSE]
  /\ cause' = [cause EXCEPT ![g] = NoError]
  /\ thread' = [thread EXCEPT ![g] = "dead"]
  /\ UNCHANGED <<made, error, published, retries, prices_known, executing>>

\* except Exception
Except(g) ==
  /\ thread[g] = "except"
  /\ running' = [running EXCEPT ![g] = FALSE]
  /\ error' = [error EXCEPT ![g] = cause[g]]
  /\ cause' = [cause EXCEPT ![g] = NoError]
  /\ thread' = [thread EXCEPT ![g] = "dead"]
  /\ UNCHANGED <<made, published, retries, prices_known, executing>>

ThreadStep(g) ==
  \/ Update(g) \/ Retry(g) \/ Retried(g) \/ Publish(g) \/ Except(g)

-----------------------------------------------------------------------------
(* What main does with the object                                          *)

\* The getters: a stored error is raised once, then it is PricePollNotRunning.
Readable == error[made] = NoError
TakeError == error' = [error EXCEPT ![made] = PricePollNotRunning]

Bug_KillLeavesRunning ==
  UNCHANGED running

\* kill(), up to the join.
AskToStop == running' = [running EXCEPT ![made] = FALSE]

\* The process is gone, and all threads with it.
priceCrash ==
  /\ running' = [g \in Objects |-> FALSE]
  /\ error' = [g \in Objects |-> PricePollNotRunning]
  /\ published' = [g \in Objects |-> FALSE]
  /\ thread' = [g \in Objects |-> "none"]
  /\ cause' = [g \in Objects |-> NoError]
  /\ retries' = [g \in Objects |-> 0]
  /\ prices_known' = FALSE
  /\ executing' = Nobody
  /\ UNCHANGED made

priceTypeOK ==
  /\ made \in 0..MaxStarts
  /\ running \in [Objects -> BOOLEAN]
  /\ error \in [Objects -> {NoError, PricePollNotRunning, ConnectionError, OtherError}]
  /\ published \in [Objects -> BOOLEAN]
  /\ thread \in [Objects -> {"none", "update", "retry", "retrying", "publish",
                             "except", "dead"}]
  /\ cause \in [Objects -> {NoError, ConnectionError, OtherError}]
  /\ retries \in [Objects -> 0..MaxRetries]
  /\ prices_known \in BOOLEAN
  /\ executing \in {Nobody, Main} \cup Objects
=============================================================================
