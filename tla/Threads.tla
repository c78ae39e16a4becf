------------------------------ MODULE Threads ------------------------------
(***************************************************************************)
(* main() with the threads of its process: the one that polls prices, the  *)
(* one that writes the uptime, and the generator node_idx that main and    *)
(* the first share.  What main does between its steps is in the other      *)
(* modules; here it starts, polls, reads prices and ends: by a             *)
(* ConnectionError, after which it starts again, or by any other error,    *)
(* after which the process ends.                                           *)
(***************************************************************************)
EXTENDS PricePoll, Uptime, FiniteSets

CONSTANTS MaxFaults     \* bound: errors from outside and deaths of the process

ASSUME FaultsAssumption == MaxFaults \in Nat

VARIABLES
  pc,
  has_price,      \* whether this run of main() has made its price object
  attempt,        \* of next(node_idx) in get_changed_pools
  ending,         \* what follows the finally clause
  faults

mainVars == <<pc, has_price, attempt, ending, faults>>
vars == <<mainVars, priceVars, uptimeVars>>

Fault == faults < MaxFaults /\ faults' = faults + 1

GoTo(step) == pc' = step /\ UNCHANGED <<has_price, attempt, ending, faults>>

\* An exception leaves the loop; ConnectionError is the one main() survives.
Leave(e) ==
  /\ pc' = "finally" /\ attempt' = 1
  /\ ending' = IF e = ConnectionError THEN "start" ELSE "exited"

-----------------------------------------------------------------------------
(* main()                                                                  *)

Construct ==
  /\ pc = "start"
  /\ NewObject
  /\ pc' = "load" /\ has_price' = TRUE
  /\ UNCHANGED <<attempt, ending, faults, uptimeVars>>

StartPrice ==
  /\ pc = "load"
  /\ StartThread
  /\ GoTo("build")
  /\ UNCHANGED uptimeVars

\* Also each time the pools have been polled, when it is running already.
StartUptime ==
  /\ pc = "build"
  /\ uptimeStart
  /\ pc' = "poll" /\ attempt' = 1
  /\ UNCHANGED <<has_price, ending, faults, priceVars>>

PollPools ==
  /\ pc = "poll" /\ attempt = 1
  /\ GoTo("build")
  /\ UNCHANGED <<priceVars, uptimeVars>>

\* get_changed_pools: the filter, or, after a ValueError, the node for a new
\* filter and that filter.
NextNode ==
  /\ pc = "poll" /\ executing = Nobody
  /\ executing' = Main
  /\ GoTo("polling")
  /\ UNCHANGED <<made, running, error, published, thread, cause, retries,
                 prices_known, uptimeVars>>

AlreadyExecuting ==
  /\ pc = "poll" /\ executing # Nobody
  /\ IF attempt = 1 THEN attempt' = 2 /\ UNCHANGED <<pc, ending>>
     ELSE Leave(OtherError)
  /\ UNCHANGED <<has_price, faults, priceVars, uptimeVars>>

\* New entries come with the filter; without any main polls again.
Polled ==
  /\ pc = "polling"
  /\ executing' = Nobody
  /\ IF attempt = 2
     THEN pc' = "poll" /\ attempt' = 3
     ELSE pc' \in {"poll", "prices"} /\ attempt' = 1
  /\ UNCHANGED <<has_price, ending, faults, made, running, error, published, thread,
                 cause, retries, prices_known, uptimeVars>>

\* price.gas_prices before the search and price.gas_params before the execution.
Read(next) ==
  \/ /\ Readable
     /\ pc' \in next
     /\ UNCHANGED <<attempt, ending, priceVars>>
  \/ /\ ~ Readable
     /\ TakeError
     /\ Leave(error[made])
     /\ UNCHANGED <<made, running, published, thread, cause, retries, prices_known,
                    executing>>

\* Without an arbitrage main polls again.
ReadPrices ==
  /\ pc = "prices"
  /\ Read({"search", "poll"})
  /\ UNCHANGED <<has_price, faults, uptimeVars>>

ReadParams ==
  /\ pc = "search"
  /\ Read({"execute"})
  /\ UNCHANGED <<has_price, faults, uptimeVars>>

Execute ==
  /\ pc = "execute"
  /\ SaveStats
  /\ GoTo("poll")
  /\ UNCHANGED priceVars

\* A call of main fails, wherever it is.
Fails ==
  /\ pc \in {"start", "load", "build", "polling", "search", "execute"}
  /\ Fault
  /\ \E e \in {ConnectionError, OtherError} : Leave(e)
  /\ executing' = IF executing = Main THEN Nobody ELSE executing
  /\ UNCHANGED <<has_price, made, running, error, published, thread, cause,
                 retries, prices_known, uptimeVars>>

-----------------------------------------------------------------------------
(* The finally clause                                                      *)

\* uptime.stop(), and kill() when the price thread is running.
Finally ==
  /\ pc = "finally"
  /\ uptimeStop
  /\ IF has_price /\ running[made]
     THEN AskToStop /\ GoTo("join")
     ELSE /\ pc' = ending /\ has_price' = FALSE
          /\ UNCHANGED <<attempt, ending, faults, running>>
  /\ UNCHANGED <<made, error, published, thread, cause, retries, prices_known,
                 executing>>

Bug_DoesNotJoin ==
  /\ pc = "join"
  /\ TakeError
  /\ pc' = ending /\ has_price' = FALSE
  /\ UNCHANGED <<attempt, ending, faults, made, running, published, thread, cause,
                 retries, prices_known, executing, uptimeVars>>

Join ==
  /\ pc = "join" /\ thread[made] = "dead"
  /\ TakeError
  /\ pc' = ending /\ has_price' = FALSE
  /\ UNCHANGED <<attempt, ending, faults, made, running, published, thread, cause,
                 retries, prices_known, executing, uptimeVars>>

\* The process is killed and started again.
Crash ==
  /\ Fault
  /\ priceCrash /\ uptimeCrash
  /\ pc' = "start" /\ has_price' = FALSE /\ attempt' = 1 /\ ending' = "start"

PriceThread(g) == ThreadStep(g) /\ UNCHANGED <<mainVars, uptimeVars>>

PriceFails(g) ==
  /\ Fault
  /\ UpdateRaises(g)
  /\ UNCHANGED <<pc, has_price, attempt, ending, uptimeVars>>

UptimeThread(s) == UpdaterStep(s) /\ UNCHANGED <<mainVars, priceVars>>

Time == Tick /\ UNCHANGED <<mainVars, priceVars>>

Init ==
  /\ priceInit /\ uptimeInit
  /\ pc = "start" /\ has_price = FALSE /\ attempt = 1
  /\ ending = "start" /\ faults = 0

MainStep ==
  \/ Construct \/ StartPrice \/ StartUptime \/ PollPools \/ NextNode
  \/ AlreadyExecuting \/ Polled \/ ReadPrices \/ ReadParams \/ Execute
  \/ Finally \/ Join

Next ==
  \/ MainStep \/ Fails \/ Crash \/ Time
  \/ \E g \in Objects : PriceThread(g) \/ PriceFails(g)
  \/ \E s \in Sessions : UptimeThread(s)

\* Threads are scheduled, calls return and sleeps end; nothing has to fail.
Fairness ==
  /\ WF_vars(MainStep)
  /\ \A g \in Objects : WF_vars(PriceThread(g))
  /\ \A s \in Sessions : WF_vars(UptimeThread(s))

Spec == Init /\ [][Next]_vars /\ Fairness

-----------------------------------------------------------------------------
(* Properties                                                              *)

TypeOK ==
  /\ priceTypeOK /\ uptimeTypeOK
  /\ pc \in {"start", "load", "build", "poll", "polling", "prices", "search",
             "execute", "finally", "join", "exited"}
  /\ has_price \in BOOLEAN /\ attempt \in 1..3
  /\ ending \in {"start", "exited"} /\ faults \in 0..MaxFaults

\* main goes on with prices only when they were published by a thread that still
\* lives, and when the prices of the tokens are there, too: once the thread has
\* died, no read succeeds, though main finds out at the next read only.
ReadsAreGood ==
  [][(<<pc, pc'>> \in {<<"prices", "search">>, <<"search", "execute">>})
     => (published[made] /\ Alive(made) /\ prices_known)]_vars

\* However often main() starts again, one thread polls prices and one writes the
\* uptime: kill() waits for the one, and the event stops the other.
OneThread ==
  /\ Cardinality({g \in Objects : Alive(g)}) <= 1
  /\ Cardinality({s \in Sessions : updater[s] \in {"sleep", "save", "write"}
                                     /\ is_set[s]}) <= 1

\* No uptime is recorded that was not there, and what is on file falls only when
\* the process is killed while it writes the file.
UptimeTrue ==
  [][stats_uptime' <= ran'
       /\ (uptime_file' = Torn \/ uptime_file' <= ran')
       /\ (uptime_file = Torn \/ uptime_file' = Torn \/ uptime_file' >= uptime_file)]_vars

\* main() gets through its finally clause: kill() waits for a thread that is told
\* to stop and comes to see it, whatever it is waiting for.
MainRecovers == pc = "finally" ~> pc \in {"start", "exited"}
=============================================================================
