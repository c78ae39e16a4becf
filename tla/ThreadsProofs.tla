--------------------------- MODULE ThreadsProofs ---------------------------
(* What holds of Threads for any number of starts of main(), of retries, of  *)
(* sessions of the uptime and of faults, and for a clock that runs for any   *)
(* time.                                                                     *)
EXTENDS Threads, FiniteSetTheorems, TLAPS

(* The inductive invariant                                                   *)

\* The uptime.  Only the newest event is set.  While time is being measured, or
\* a thread is about to write it, the total is time that was measured; only one
\* thread writes, and then the file is cut.
Writing(s) == updater[s] = "write"
Recording == Measuring \/ \E s \in Sessions : updater[s] \in {"save", "write"}

UptimeInv ==
  /\ uptimeTypeOK
  /\ \A s \in Sessions : is_set[s] => s = session
  /\ prev_uptime <= start_time /\ start_time <= now
  /\ stats_uptime <= ran
  /\ uptime_file # Torn => uptime_file <= ran
  /\ Recording => total <= ran
  /\ \A s \in Sessions : Writing(s) => uptime_file = Torn
  /\ \A s, t \in Sessions : Writing(s) /\ Writing(t) => s = t

\* main.  It measures while it polls, and has an object once it is through with
\* its constructor.
MainInv ==
  /\ TypeOK
  /\ pc \in {"poll", "polling", "prices", "search", "execute"} => Measuring
  /\ pc \notin {"start", "finally", "exited"} => has_price
  /\ pc = "start" => ~ has_price
  /\ has_price => made \in Objects

\* The prices.  A thread that lives is that of main's object, and is told to run
\* unless main waits for its end; without an error there is such a thread, or
\* main waits, and there are prices.
PriceInv ==
  /\ \A g \in Objects : Alive(g) =>
       g = made /\ has_price /\ (running[g] \/ pc = "join")
  /\ \A g \in Objects : error[g] = NoError =>
       published[g] /\ (Alive(g) \/ (pc = "join" /\ g = made))
  /\ \A g \in Objects : published[g] \/ thread[g] = "publish" => prices_known
  /\ \A g \in Objects : thread[g] = "except" => cause[g] # NoError

IInv == MainInv /\ UptimeInv /\ PriceInv

-----------------------------------------------------------------------------
(* The uptime                                                                *)

\* A total that is recorded is a time of the clock.
LEMMA TotalIsTime ==
  ASSUME UptimeInv
  PROVE  total \in 0..now /\ total \in 0..MaxTime
BY UptimeAssumption DEF UptimeInv, uptimeTypeOK, total

\* A start goes on from what is on file, which is time that was measured, and
\* measures from now on.
LEMMA UptimeStartKeeps ==
  ASSUME UptimeInv, uptimeStart
  PROVE  UptimeInv' /\ Measuring'
<1>1. CASE Measuring /\ UNCHANGED uptimeVars
  BY <1>1 DEF UptimeInv, uptimeTypeOK, uptimeVars, Measuring, Recording, total, Writing
<1>2. CASE ~ Measuring /\ Begin /\ prev_uptime' = load_uptime
              /\ UNCHANGED <<now, uptime_file, stats_uptime, ran>>
  <2>1. uptimeTypeOK'
    BY <1>2, UptimeAssumption
    DEF UptimeInv, uptimeTypeOK, Begin, load_uptime, Sessions
  <2>2. session + 1 \in Sessions /\ session' = session + 1
    BY <1>2, UptimeAssumption DEF UptimeInv, uptimeTypeOK, Begin, Sessions
  <2>3. \A s \in Sessions : ~ is_set[s]
    BY <1>2 DEF UptimeInv, uptimeTypeOK, Measuring, Sessions
  <2>4. /\ \A s \in Sessions : is_set'[s] => s = session'
        /\ is_set'[session'] /\ session' # 0
    BY <1>2, <2>2, <2>3 DEF UptimeInv, uptimeTypeOK, Begin, Sessions
  <2>5. load_uptime \in Nat /\ load_uptime <= ran /\ ran <= now
    BY <1>2 DEF UptimeInv, uptimeTypeOK, load_uptime
  <2>6. prev_uptime' <= start_time' /\ start_time' <= now' /\ total' <= ran'
    BY <1>2, <2>5 DEF UptimeInv, uptimeTypeOK, Begin, total
  <2>7. \A s \in Sessions : Writing(s)' => Writing(s)
    BY <1>2, <2>2 DEF UptimeInv, uptimeTypeOK, Begin, Writing
  <2>. QED
    BY <1>2, <2>1, <2>4, <2>6, <2>7 DEF UptimeInv, Measuring
<1>. QED BY <1>1, <1>2 DEF uptimeStart

\* stop() clears the only event that is set.
LEMMA UptimeStopKeeps ==
  ASSUME UptimeInv, uptimeStop
  PROVE  UptimeInv'
<1>1. uptimeTypeOK'
  BY DEF UptimeInv, uptimeTypeOK, uptimeStop
<1>2. \A s \in Sessions : ~ is_set'[s] \/ s # session
  BY DEF uptimeStop
<1>3. Recording' => Recording
  BY <1>2 DEF UptimeInv, uptimeTypeOK, uptimeStop, Recording, Measuring, Sessions
<1>. QED BY <1>1, <1>2, <1>3 DEF UptimeInv, uptimeTypeOK, uptimeStop, Writing, total

\* A thread that wakes up and finds its event set is the one of this session.
LEMMA WakeKeeps ==
  ASSUME UptimeInv, NEW s \in Sessions, Wake(s)
  PROVE  UptimeInv'
<1>1. uptimeTypeOK'
  BY DEF UptimeInv, uptimeTypeOK, Wake
<1>2. is_set[s] => Measuring
  BY DEF UptimeInv, Measuring, Sessions
<1>3. Recording' => Recording
  BY <1>2 DEF UptimeInv, uptimeTypeOK, Wake, Recording, Measuring
<1>4. \A t \in Sessions : Writing(t)' => Writing(t)
  BY DEF UptimeInv, uptimeTypeOK, Wake, Writing
<1>. QED BY <1>1, <1>3, <1>4 DEF UptimeInv, Wake, total

\* The lock keeps a second thread from cutting the file while one writes it.
LEMMA TruncateKeeps ==
  ASSUME UptimeInv, NEW s \in Sessions, Truncate(s)
  PROVE  UptimeInv'
<1>1. uptimeTypeOK'
  BY UptimeAssumption DEF UptimeInv, uptimeTypeOK, Truncate
<1>2. Recording
  BY DEF Recording, Truncate
<1>3. \A t \in Sessions : Writing(t)' => t = s
  BY DEF UptimeInv, uptimeTypeOK, Truncate, Unlocked, Writing
<1>. QED BY <1>1, <1>2, <1>3 DEF UptimeInv, Truncate, total

\* What is written is the total, and that was measured.
LEMMA WriteKeeps ==
  ASSUME UptimeInv, NEW s \in Sessions, Write(s)
  PROVE  UptimeInv'
<1>1. uptimeTypeOK'
  BY TotalIsTime, UptimeAssumption DEF UptimeInv, uptimeTypeOK, Write
<1>2. Recording /\ total <= ran
  BY DEF Recording, Write, UptimeInv
<1>3. \A t \in Sessions : ~ Writing(t)'
  BY DEF UptimeInv, uptimeTypeOK, Write, Writing
<1>. QED BY <1>1, <1>2, <1>3 DEF UptimeInv, Write, total

\* A second passes while it is measured, or no total is about to be recorded.
LEMMA TickKeeps ==
  ASSUME UptimeInv, Tick
  PROVE  UptimeInv'
<1>1. uptimeTypeOK'
  BY UptimeAssumption DEF UptimeInv, uptimeTypeOK, Tick
<1>2. Recording' => Measuring
  BY DEF UptimeInv, Tick, Recording, Measuring
<1>3. Measuring => total <= ran /\ total' = total + 1 /\ ran' = ran + 1
  BY DEF UptimeInv, uptimeTypeOK, Tick, Recording, total
<1>4. Measuring => total' <= ran'
  BY <1>3, TotalIsTime DEF UptimeInv, uptimeTypeOK
<1>5. ran' >= ran /\ now' = now + 1
  BY UptimeAssumption DEF UptimeInv, uptimeTypeOK, Tick
<1>6. stats_uptime' <= ran' /\ (uptime_file' # Torn => uptime_file' <= ran')
  BY <1>5, UptimeAssumption DEF UptimeInv, uptimeTypeOK, Tick
<1>7. prev_uptime' <= start_time' /\ start_time' <= now'
  BY <1>5 DEF UptimeInv, uptimeTypeOK, Tick
<1>8. UNCHANGED <<session, is_set, updater, uptime_file>>
  BY DEF Tick
<1>. QED BY <1>1, <1>2, <1>4, <1>6, <1>7, <1>8 DEF UptimeInv, Writing

\* The statistics get a total that was measured.
LEMMA SaveStatsKeeps ==
  ASSUME UptimeInv, Measuring, SaveStats
  PROVE  UptimeInv'
<1>1. total <= ran
  BY DEF UptimeInv, Recording
<1>2. uptimeTypeOK'
  BY TotalIsTime, UptimeAssumption DEF UptimeInv, uptimeTypeOK, SaveStats
<1>. QED BY <1>1, <1>2
         DEF UptimeInv, SaveStats, Writing, Recording, Measuring, total

\* Of the uptime a crash leaves the files, which hold time that was measured.
LEMMA UptimeCrashKeeps ==
  ASSUME UptimeInv, uptimeCrash
  PROVE  UptimeInv'
<1>1. uptimeTypeOK'
  BY UptimeAssumption DEF UptimeInv, uptimeTypeOK, uptimeCrash
<1>2. /\ \A s \in Sessions : ~ is_set'[s] /\ updater'[s] = "none"
      /\ start_time' = 0 /\ prev_uptime' = 0
      /\ UNCHANGED <<now, session, uptime_file, stats_uptime, ran>>
  BY DEF uptimeCrash
<1>3. ~ Recording'
  BY <1>1, <1>2 DEF Recording, Measuring, uptimeTypeOK, Sessions
<1>. QED BY <1>1, <1>2, <1>3 DEF UptimeInv, uptimeTypeOK, Writing

\* Steps of others.
LEMMA UptimeUnchanged ==
  ASSUME UptimeInv, UNCHANGED uptimeVars
  PROVE  UptimeInv' /\ Measuring' = Measuring
BY DEF UptimeInv, uptimeTypeOK, uptimeVars, Measuring, Recording, total, Writing

-----------------------------------------------------------------------------
(* The steps of the price thread                                             *)

\* What the steps of a thread leave alone, and what they do not disturb.
PriceThreadKeeps(g) ==
  /\ priceTypeOK' /\ PriceInv' /\ made' = made

\* The price thread reads its pools: prices are known, or it asks again.
LEMMA UpdateKeeps ==
  ASSUME IInv, NEW g \in Objects, Update(g), UNCHANGED <<mainVars, uptimeVars>>
  PROVE  PriceThreadKeeps(g)
<1>. /\ MaxRetries \in Nat /\ priceTypeOK
     /\ UNCHANGED <<made, running, error, published, executing, cause>>
  BY PriceAssumption DEF IInv, MainInv, TypeOK, Update, Updated
<1>1. priceTypeOK'
  <2>1. CASE Updated(g)
    BY <2>1 DEF priceTypeOK, Updated
  <2>2. CASE /\ thread' = [thread EXCEPT ![g] = "retry"]
             /\ UNCHANGED <<cause, retries, prices_known>>
    BY <2>2 DEF priceTypeOK
  <2>. QED BY <2>1, <2>2 DEF Update
<1>2. PriceInv'
  BY DEF IInv, MainInv, TypeOK, priceTypeOK, PriceInv, Update, Updated, Alive, mainVars
<1>. QED BY <1>1, <1>2 DEF PriceThreadKeeps, Update

\* An exception of the node brings the price thread to its except clause.
LEMMA UpdateRaisesKeeps ==
  ASSUME IInv, NEW g \in Objects, UpdateRaises(g),
         UNCHANGED <<pc, has_price, attempt, ending, uptimeVars>>
  PROVE  PriceThreadKeeps(g)
<1>. PICK e \in {ConnectionError, OtherError} : Raise(g, e)
  BY DEF UpdateRaises
<1>1. priceTypeOK'
  BY PriceAssumption
  DEF IInv, MainInv, TypeOK, priceTypeOK, UpdateRaises, Raise
<1>2. PriceInv'
  BY ErrorsAssumption
  DEF IInv, MainInv, TypeOK, priceTypeOK, PriceInv, UpdateRaises, Raise, Alive
<1>. QED BY <1>1, <1>2 DEF PriceThreadKeeps, UpdateRaises

\* One more attempt, or the exception.
LEMMA MissingKeeps ==
  ASSUME IInv, NEW g \in Objects, thread[g] \in {"retry", "retrying"}, Missing(g),
         executing' \in {Nobody, Main} \cup Objects,
         UNCHANGED <<made, running, error, published, mainVars, uptimeVars>>
  PROVE  PriceThreadKeeps(g)
<1>1. priceTypeOK'
  BY PriceAssumption
  DEF IInv, MainInv, TypeOK, priceTypeOK, Missing, Raise
<1>2. PriceInv'
  BY ErrorsAssumption
  DEF IInv, MainInv, TypeOK, priceTypeOK, PriceInv, Missing, Raise, Alive, mainVars
<1>. QED BY <1>1, <1>2 DEF PriceThreadKeeps

\* A retry enters the shared generator, or fails because another is inside.
LEMMA RetryKeeps ==
  ASSUME IInv, NEW g \in Objects, Retry(g), UNCHANGED <<mainVars, uptimeVars>>
  PROVE  PriceThreadKeeps(g)
<1>1. CASE executing # Nobody
  BY <1>1, MissingKeeps DEF Retry, IInv, MainInv, TypeOK, priceTypeOK
<1>2. CASE executing = Nobody
  <2>1. priceTypeOK'
    BY <1>2, PriceAssumption
    DEF IInv, MainInv, TypeOK, priceTypeOK, Retry
  <2>2. PriceInv'
    BY <1>2 DEF IInv, MainInv, TypeOK, priceTypeOK, PriceInv, Retry, Alive, mainVars
  <2>. QED BY <2>1, <2>2 DEF PriceThreadKeeps, Retry
<1>. QED BY <1>1, <1>2

\* A retry leaves the generator again, whatever comes of it.
LEMMA RetriedKeeps ==
  ASSUME IInv, NEW g \in Objects, Retried(g), UNCHANGED <<mainVars, uptimeVars>>
  PROVE  PriceThreadKeeps(g)
<1>1. CASE Missing(g)
  BY <1>1, MissingKeeps DEF Retried
<1>2. CASE Updated(g)
  <2>1. priceTypeOK'
    BY <1>2, PriceAssumption
    DEF IInv, MainInv, TypeOK, priceTypeOK, Retried, Updated
  <2>2. PriceInv'
    BY <1>2
    DEF IInv, MainInv, TypeOK, priceTypeOK, PriceInv, Retried, Updated, Alive, mainVars
  <2>. QED BY <2>1, <2>2 DEF PriceThreadKeeps, Retried
<1>. QED BY <1>1, <1>2 DEF Retried

\* Prices are known when the thread publishes; told to stop, it ends.
LEMMA PublishKeeps ==
  ASSUME IInv, NEW g \in Objects, Publish(g), UNCHANGED <<mainVars, uptimeVars>>
  PROVE  PriceThreadKeeps(g)
<1>1. priceTypeOK'
  BY DEF IInv, MainInv, TypeOK, priceTypeOK, Publish
<1>2. PriceInv'
  BY DEF IInv, MainInv, TypeOK, priceTypeOK, PriceInv, Publish, Alive, mainVars
<1>. QED BY <1>1, <1>2 DEF PriceThreadKeeps, Publish

\* A thread that dies of an error stores it, so that no read succeeds.
LEMMA ExceptKeeps ==
  ASSUME IInv, NEW g \in Objects, Except(g), UNCHANGED <<mainVars, uptimeVars>>
  PROVE  PriceThreadKeeps(g)
<1>1. priceTypeOK'
  BY DEF IInv, MainInv, TypeOK, priceTypeOK, Except
<1>2. PriceInv'
  BY DEF IInv, MainInv, TypeOK, priceTypeOK, PriceInv, Except, Alive, mainVars
<1>. QED BY <1>1, <1>2 DEF PriceThreadKeeps, Except

-----------------------------------------------------------------------------
(* The steps of main                                                         *)

\* A step of main that leaves the threads and what they publish alone.
LEMMA MainAlone ==
  ASSUME IInv, UNCHANGED <<made, running, error, published, thread, cause, prices_known>>,
         has_price' = has_price, pc # "join", pc' # "join"
  PROVE  PriceInv'
BY DEF IInv, PriceInv, Alive

\* main takes an error away, and gives the object up or not.
LEMMA ErrorTaken ==
  ASSUME IInv, TakeError,
         UNCHANGED <<made, running, published, thread, cause, prices_known>>,
         has_price' = has_price, pc # "join", pc' # "join"
  PROVE  PriceInv'
BY ErrorsAssumption
DEF IInv, MainInv, TypeOK, priceTypeOK, PriceInv, Alive, TakeError

\* A new object has an error and no thread, and those of old ones have ended.
LEMMA ConstructKeeps ==
  ASSUME IInv, Construct
  PROVE  IInv'
<1>1. made' \in Objects
  BY PriceAssumption DEF IInv, MainInv, TypeOK, priceTypeOK, Construct, NewObject, Objects
<1>2. TypeOK'
  BY <1>1 DEF IInv, MainInv, TypeOK, priceTypeOK, uptimeTypeOK, Construct, NewObject,
              Objects, uptimeVars
<1>3. MainInv'
  BY <1>1, <1>2 DEF MainInv, Construct
<1>4. PriceInv'
  BY DEF IInv, MainInv, PriceInv, Construct, NewObject, Alive
<1>. QED BY <1>3, <1>4, UptimeUnchanged DEF IInv, Construct

\* The thread that starts is that of main's object, which is told to run.
LEMMA StartPriceKeeps ==
  ASSUME IInv, StartPrice
  PROVE  IInv'
<1>1. MainInv'
  BY DEF IInv, MainInv, TypeOK, priceTypeOK, uptimeTypeOK, StartPrice, StartThread,
         GoTo, uptimeVars, Measuring
<1>2. PriceInv'
  BY DEF IInv, MainInv, TypeOK, priceTypeOK, PriceInv, StartPrice, StartThread, GoTo, Alive
<1>. QED BY <1>1, <1>2, UptimeUnchanged DEF IInv, StartPrice

\* Before main polls it measures, newly or still.
LEMMA StartUptimeKeeps ==
  ASSUME IInv, StartUptime
  PROVE  IInv'
<1>1. UptimeInv' /\ Measuring'
  BY UptimeStartKeeps DEF IInv, StartUptime
<1>2. MainInv'
  BY <1>1 DEF IInv, MainInv, TypeOK, priceTypeOK, UptimeInv, StartUptime, priceVars
<1>3. PriceInv'
  BY MainAlone DEF StartUptime, priceVars
<1>. QED BY <1>1, <1>2, <1>3 DEF IInv

\* The pools are polled without the threads.
LEMMA PollPoolsKeeps ==
  ASSUME IInv, PollPools
  PROVE  IInv'
<1>1. MainInv'
  BY DEF IInv, MainInv, TypeOK, priceTypeOK, uptimeTypeOK, PollPools, GoTo, priceVars,
         uptimeVars
<1>2. PriceInv'
  BY MainAlone DEF PollPools, priceVars, GoTo
<1>. QED BY <1>1, <1>2, UptimeUnchanged DEF IInv, PollPools

\* main enters the generator.
LEMMA NextNodeKeeps ==
  ASSUME IInv, NextNode
  PROVE  IInv'
<1>1. MainInv'
  BY DEF IInv, MainInv, TypeOK, priceTypeOK, uptimeTypeOK, NextNode, GoTo, uptimeVars,
         Measuring
<1>2. PriceInv'
  BY MainAlone DEF NextNode, GoTo
<1>. QED BY <1>1, <1>2, UptimeUnchanged DEF IInv, NextNode

\* main meets the price thread in the generator: it tries once more or leaves.
LEMMA AlreadyExecutingKeeps ==
  ASSUME IInv, AlreadyExecuting
  PROVE  IInv'
<1>1. MainInv'
  BY DEF IInv, MainInv, TypeOK, priceTypeOK, uptimeTypeOK, AlreadyExecuting, Leave,
         priceVars, uptimeVars, Measuring
<1>2. PriceInv'
  BY MainAlone DEF AlreadyExecuting, Leave, priceVars
<1>. QED BY <1>1, <1>2, UptimeUnchanged DEF IInv, AlreadyExecuting

\* main leaves the generator.
LEMMA PolledKeeps ==
  ASSUME IInv, Polled
  PROVE  IInv'
<1>1. MainInv'
  BY DEF IInv, MainInv, TypeOK, priceTypeOK, uptimeTypeOK, Polled, uptimeVars, Measuring
<1>2. PriceInv'
  BY MainAlone DEF Polled
<1>. QED BY <1>1, <1>2, UptimeUnchanged DEF IInv, Polled

\* Both reads.
LEMMA ReadKeeps ==
  ASSUME IInv, NEW next, next \subseteq {"poll", "search", "execute"},
         pc \in {"prices", "search"}, Read(next),
         UNCHANGED <<has_price, faults, uptimeVars>>
  PROVE  IInv'
<1>1. TypeOK'
  <2>1. CASE Readable
    BY <2>1
    DEF IInv, MainInv, TypeOK, priceTypeOK, uptimeTypeOK, Read, priceVars, uptimeVars
  <2>2. CASE ~ Readable
    BY <2>2
    DEF IInv, MainInv, TypeOK, priceTypeOK, uptimeTypeOK, Read, TakeError, Leave,
        uptimeVars
  <2>. QED BY <2>1, <2>2
<1>2. MainInv'
  BY <1>1 DEF IInv, MainInv, Read, Leave, priceVars, uptimeVars, Measuring
<1>3. PriceInv'
  BY MainAlone, ErrorTaken DEF Read, Leave, priceVars
<1>. QED BY <1>2, <1>3, UptimeUnchanged DEF IInv

\* main saves the statistics while it measures.
LEMMA ExecuteKeeps ==
  ASSUME IInv, Execute
  PROVE  IInv'
<1>1. UptimeInv' /\ Measuring' = Measuring
  BY SaveStatsKeeps DEF IInv, MainInv, Execute, SaveStats, Measuring
<1>2. MainInv'
  BY <1>1 DEF IInv, MainInv, TypeOK, priceTypeOK, UptimeInv, Execute, GoTo, priceVars
<1>3. PriceInv'
  BY MainAlone DEF Execute, priceVars, GoTo
<1>. QED BY <1>1, <1>2, <1>3 DEF IInv

\* A call of main raises: it goes to its finally clause with what it has made.
LEMMA FailsKeeps ==
  ASSUME IInv, Fails
  PROVE  IInv'
<1>. PICK e \in {ConnectionError, OtherError} : Leave(e)
  BY DEF Fails
<1>1. MainInv'
  BY FaultsAssumption
  DEF IInv, MainInv, TypeOK, priceTypeOK, uptimeTypeOK, Fails, Fault, Leave, uptimeVars,
      Measuring
<1>2. PriceInv'
  BY MainAlone DEF Fails, Leave
<1>. QED BY <1>1, <1>2, UptimeUnchanged DEF IInv, Fails

\* stop(), and kill() when the thread is told to run; one that is not is dead.
LEMMA FinallyKeeps ==
  ASSUME IInv, Finally
  PROVE  IInv'
<1>1. UptimeInv'
  BY UptimeStopKeeps DEF IInv, Finally
<1>2. CASE has_price /\ running[made]
  <2>1. MainInv'
    BY <1>1, <1>2
    DEF IInv, MainInv, TypeOK, priceTypeOK, UptimeInv, Finally, AskToStop, GoTo
  <2>2. PriceInv'
    BY <1>2
    DEF IInv, MainInv, TypeOK, priceTypeOK, PriceInv, Finally, AskToStop, GoTo, Alive
  <2>. QED BY <1>1, <2>1, <2>2 DEF IInv
<1>3. CASE ~ (has_price /\ running[made])
  <2>1. MainInv'
    BY <1>1, <1>3
    DEF IInv, MainInv, TypeOK, priceTypeOK, UptimeInv, Finally
  <2>2. PriceInv'
    BY <1>3 DEF IInv, MainInv, PriceInv, Finally, Alive
  <2>. QED BY <1>1, <2>1, <2>2 DEF IInv
<1>. QED BY <1>2, <1>3

\* Once the thread is dead the object gets an error, and main may start anew.
LEMMA JoinKeeps ==
  ASSUME IInv, Join
  PROVE  IInv'
<1>1. MainInv'
  BY DEF IInv, MainInv, TypeOK, priceTypeOK, uptimeTypeOK, Join, TakeError, uptimeVars
<1>2. \A g \in Objects : ~ Alive(g)
  BY DEF IInv, PriceInv, Alive, Join
<1>3. \A g \in Objects : error'[g] # NoError
  BY <1>2, ErrorsAssumption
  DEF IInv, MainInv, TypeOK, priceTypeOK, PriceInv, Join, TakeError
<1>4. PriceInv'
  BY <1>2, <1>3 DEF IInv, PriceInv, Join, Alive
<1>. QED BY <1>1, <1>4, UptimeUnchanged DEF IInv, Join

\* No thread survives its process, and no price.
LEMMA CrashKeeps ==
  ASSUME IInv, Crash
  PROVE  IInv'
<1>1. UptimeInv'
  BY UptimeCrashKeeps DEF IInv, Crash
<1>. made \in 0..MaxStarts
  BY DEF IInv, MainInv, TypeOK, priceTypeOK
<1>. 0 \in 0..MaxRetries
  BY PriceAssumption
<1>2. priceTypeOK'
  BY Zenon DEF priceTypeOK, Crash, priceCrash
<1>3. faults' \in 0..MaxFaults /\ attempt' \in 1..3
  BY FaultsAssumption DEF IInv, MainInv, TypeOK, Crash, Fault
<1>4. TypeOK'
  BY <1>1, <1>2, <1>3, Zenon DEF UptimeInv, TypeOK, Crash
<1>5. MainInv'
  BY <1>4 DEF MainInv, Crash
<1>6. PriceInv'
  BY ErrorsAssumption DEF PriceInv, Crash, priceCrash, Alive
<1>. QED BY <1>1, <1>5, <1>6 DEF IInv

-----------------------------------------------------------------------------
(* The invariant                                                             *)

\* The invariant holds when the program is first started.
LEMMA InitEstablishes == Init => IInv
<1>. SUFFICES ASSUME Init PROVE IInv
  OBVIOUS
<1>1. TypeOK
  <2>1. 0 \in 0..MaxStarts /\ 0 \in 0..MaxRetries
    BY PriceAssumption
  <2>2. priceTypeOK
    BY <2>1, Zenon DEF Init, priceInit, priceTypeOK
  <2>3. uptimeTypeOK
    BY UptimeAssumption DEF Init, uptimeInit, uptimeTypeOK, Sessions
  <2>4. faults \in 0..MaxFaults /\ attempt \in 1..3
    BY FaultsAssumption DEF Init
  <2>. QED BY <2>2, <2>3, <2>4, Zenon DEF Init, TypeOK
<1>2. MainInv
  BY <1>1 DEF Init, MainInv
<1>3. UptimeInv
  BY <1>1 DEF Init, uptimeInit, UptimeInv, TypeOK, uptimeTypeOK, Recording, Measuring,
              Writing
<1>4. PriceInv
  BY ErrorsAssumption DEF Init, priceInit, PriceInv, Alive
<1>. QED BY <1>2, <1>3, <1>4 DEF IInv

\* The threads leave main and each other's state alone.
LEMMA ThreadsKeep ==
  ASSUME IInv,
         \/ \E g \in Objects : PriceThread(g) \/ PriceFails(g)
         \/ \E s \in Sessions : UptimeThread(s)
         \/ Time
  PROVE  IInv'
<1>1. ASSUME NEW g \in Objects, PriceThread(g) PROVE IInv'
  <2>1. PriceThreadKeeps(g)
    BY <1>1, UpdateKeeps, RetryKeeps, RetriedKeeps, PublishKeeps, ExceptKeeps
    DEF PriceThread, ThreadStep
  <2>2. MainInv'
    BY <1>1, <2>1
    DEF PriceThreadKeeps, IInv, MainInv, TypeOK, uptimeTypeOK, PriceThread, mainVars,
        uptimeVars, Measuring
  <2>. QED BY <1>1, <2>1, <2>2, UptimeUnchanged DEF IInv, PriceThread, PriceThreadKeeps
<1>2. ASSUME NEW g \in Objects, PriceFails(g) PROVE IInv'
  <2>1. PriceThreadKeeps(g)
    BY <1>2, UpdateRaisesKeeps DEF PriceFails
  <2>2. MainInv'
    BY <1>2, <2>1, FaultsAssumption
    DEF PriceThreadKeeps, IInv, MainInv, TypeOK, uptimeTypeOK, PriceFails, Fault,
        uptimeVars, Measuring
  <2>. QED BY <1>2, <2>1, <2>2, UptimeUnchanged DEF IInv, PriceFails, PriceThreadKeeps
<1>3. ASSUME NEW s \in Sessions, UptimeThread(s) PROVE IInv'
  <2>1. UptimeInv'
    BY <1>3, WakeKeeps, TruncateKeeps, WriteKeeps DEF IInv, UptimeThread, UpdaterStep
  <2>2. Measuring' = Measuring
    BY <1>3 DEF UptimeThread, UpdaterStep, Wake, Truncate, Write, Measuring
  <2>3. MainInv'
    BY <1>3, <2>1, <2>2
    DEF IInv, MainInv, UptimeInv, TypeOK, priceTypeOK, UptimeThread, mainVars, priceVars
  <2>4. PriceInv'
    BY <1>3 DEF IInv, PriceInv, UptimeThread, mainVars, priceVars, Alive
  <2>. QED BY <2>1, <2>3, <2>4 DEF IInv
<1>4. ASSUME Time PROVE IInv'
  <2>1. UptimeInv' /\ Measuring' = Measuring
    BY <1>4, TickKeeps DEF IInv, Time, Tick, Measuring
  <2>2. MainInv'
    BY <1>4, <2>1
    DEF IInv, MainInv, UptimeInv, TypeOK, priceTypeOK, Time, mainVars, priceVars
  <2>3. PriceInv'
    BY <1>4 DEF IInv, PriceInv, Time, mainVars, priceVars, Alive
  <2>. QED BY <2>1, <2>2, <2>3 DEF IInv
<1>. QED BY <1>1, <1>2, <1>3, <1>4

\* Every step keeps the invariant.
LEMMA NextKeeps ==
  ASSUME IInv, [Next]_vars
  PROVE  IInv'
<1>1. CASE UNCHANGED vars
  <2>1. UptimeInv' /\ Measuring' = Measuring
    BY <1>1, UptimeUnchanged DEF IInv, vars
  <2>2. MainInv'
    BY <1>1, <2>1
    DEF IInv, MainInv, UptimeInv, TypeOK, priceTypeOK, vars, mainVars, priceVars
  <2>3. PriceInv'
    BY <1>1 DEF IInv, PriceInv, vars, mainVars, priceVars, Alive
  <2>. QED BY <2>1, <2>2, <2>3 DEF IInv
<1>2. CASE MainStep
  <2>1. CASE ReadPrices
    BY <2>1, ReadKeeps DEF ReadPrices
  <2>2. CASE ReadParams
    BY <2>2, ReadKeeps DEF ReadParams
  <2>. QED
    BY <1>2, <2>1, <2>2, ConstructKeeps, StartPriceKeeps, StartUptimeKeeps,
       PollPoolsKeeps, NextNodeKeeps, AlreadyExecutingKeeps, PolledKeeps, ExecuteKeeps,
       FinallyKeeps, JoinKeeps
    DEF MainStep
<1>. QED BY <1>1, <1>2, FailsKeeps, CrashKeeps, ThreadsKeep DEF Next

\* The inductive invariant: what the threads and main may rely on of each other.
THEOREM InvariantHolds == Spec => []IInv
BY InitEstablishes, NextKeeps, PTL DEF Spec

-----------------------------------------------------------------------------
(* What it is for                                                            *)

\* The types, for any bounds: no attempt is made after max_retries, and no time
\* is recorded that the clock does not have.
THEOREM TypeCorrect == Spec => []TypeOK
<1>1. IInv => TypeOK
  BY DEF IInv, MainInv
<1>. QED BY <1>1, InvariantHolds, PTL

\* However often main() starts again, one thread polls prices and one writes the
\* uptime (kill() joins, stop() clears the event of the last start).
THEOREM ThreadsAreAlone == Spec => []OneThread
<1>1. ASSUME IInv PROVE OneThread
  <2>. DEFINE P == {g \in Objects : Alive(g)}
              U == {s \in Sessions : updater[s] \in {"sleep", "save", "write"}
                                       /\ is_set[s]}
  <2>1. P \subseteq {made} /\ U \subseteq {session}
    BY <1>1 DEF IInv, PriceInv, UptimeInv
  <2>2. ASSUME NEW x, NEW S, S \subseteq {x} PROVE Cardinality(S) <= 1
    <3>1. S = {} \/ S = {x}
      BY <2>2
    <3>2. Cardinality({}) = 0 /\ Cardinality({x}) = 1
      BY FS_EmptySet, FS_Singleton
    <3>3. Cardinality(S) = 0 \/ Cardinality(S) = 1
      BY <3>1, <3>2
    <3>. QED BY <3>3
  <2>. QED BY <2>1, <2>2 DEF OneThread
<1>. QED BY <1>1, InvariantHolds, PTL

\* No read succeeds unless the prices were published by a thread that lives
\* (the getters of core/price.py).
THEOREM OnlyGoodReads == Spec => ReadsAreGood
<1>. DEFINE Reads == <<pc, pc'>> \in {<<"prices", "search">>, <<"search", "execute">>}
            Good == published[made] /\ Alive(made) /\ prices_known
<1>1. ASSUME IInv, Next, Reads PROVE Good
  <2>1. pc \in {"prices", "search"} /\ Readable
    BY <1>1
    DEF Next, MainStep, Construct, StartPrice, StartUptime, PollPools, NextNode,
        AlreadyExecuting, Polled, ReadPrices, ReadParams, Read, Execute, Finally, Join,
        Fails, Crash, PriceThread, PriceFails, UptimeThread, Time, GoTo, Leave, mainVars
  <2>2. made \in Objects /\ error[made] = NoError /\ pc # "join"
    BY <1>1, <2>1 DEF IInv, MainInv, Readable
  <2>. QED BY <1>1, <2>2 DEF IInv, PriceInv
<1>2. IInv /\ [Next]_vars => [Reads => Good]_vars
  BY <1>1
<1>. QED BY <1>2, InvariantHolds, PTL DEF Spec, ReadsAreGood

\* No uptime is recorded that was not measured, and no value on file is replaced
\* by a lower one (utils/uptime.py).
THEOREM UptimeIsTrue == Spec => UptimeTrue
<1>. DEFINE True == /\ stats_uptime' <= ran'
                    /\ (uptime_file' = Torn \/ uptime_file' <= ran')
                    /\ (uptime_file = Torn \/ uptime_file' = Torn
                          \/ uptime_file' >= uptime_file)
<1>1. ASSUME IInv, IInv', Next PROVE True
  <2>1. stats_uptime' <= ran' /\ (uptime_file' = Torn \/ uptime_file' <= ran')
    BY <1>1 DEF IInv, UptimeInv
  <2>2. uptime_file' = uptime_file \/ uptime_file = Torn \/ uptime_file' = Torn
    <3>1. ASSUME NEW s \in Sessions, UpdaterStep(s)
          PROVE  uptime_file' = uptime_file \/ uptime_file = Torn \/ uptime_file' = Torn
      BY <1>1, <3>1 DEF IInv, UptimeInv, UpdaterStep, Wake, Truncate, Write, Writing
    <3>. QED
      BY <1>1, <3>1
      DEF Next, MainStep, Construct, StartPrice, StartUptime, PollPools, NextNode,
          AlreadyExecuting, Polled, ReadPrices, ReadParams, Execute, Finally, Join,
          Fails, Crash, PriceThread, PriceFails, UptimeThread, Time, uptimeStart, Begin,
          uptimeStop, SaveStats, Tick, uptimeCrash, uptimeVars
  <2>3. uptime_file = Torn \/ uptime_file \in Nat
    BY <1>1 DEF IInv, UptimeInv, uptimeTypeOK
  <2>. QED BY <2>1, <2>2, <2>3
<1>2. IInv /\ IInv' /\ [Next]_vars => [True]_vars
  BY <1>1
<1>. QED BY <1>2, InvariantHolds, PTL DEF Spec, UptimeTrue

-----------------------------------------------------------------------------
(* kill() comes to its end                                                   *)

\* Only a thread that was started is told to run, and while main waits for one,
\* it has been told to stop.
JoinInv ==
  /\ \A g \in Objects : running[g] => thread[g] # "none"
  /\ pc = "join" => made \in Objects /\ ~ running[made] /\ thread[made] # "none"

\* The steps that a price thread takes at most before it has ended, once it was
\* told to stop.
StepsLeft(g) ==
  IF thread[g] = "update" THEN 2 * MaxRetries + 5
  ELSE IF thread[g] = "retry" THEN 2 * (MaxRetries - retries[g]) + 4
  ELSE IF thread[g] = "retrying" THEN 2 * (MaxRetries - retries[g]) + 3
  ELSE IF thread[g] \in {"publish", "except"} THEN 1
  ELSE 0

\* The threads keep it.
LEMMA ThreadJoins ==
  ASSUME IInv, JoinInv, NEW g \in Objects, PriceThread(g) \/ PriceFails(g)
  PROVE  JoinInv'
<1>1. UNCHANGED <<pc, made>>
  BY DEF PriceThread, PriceFails, mainVars, ThreadStep, Update, Retry, Retried, Publish,
     Except, UpdateRaises
<1>2. \A h \in Objects : running'[h] => running[h]
  BY DEF IInv, MainInv, TypeOK, priceTypeOK, PriceThread, PriceFails, ThreadStep, Update,
     Retry, Retried, Publish, Except, UpdateRaises
<1>3. \A h \in Objects : thread[h] # "none" => thread'[h] # "none"
  BY DEF IInv, MainInv, TypeOK, priceTypeOK, PriceThread, PriceFails, ThreadStep, Update,
     Updated, Retry, Retried, Missing, Raise, Publish, Except, UpdateRaises
<1>. QED BY <1>1, <1>2, <1>3 DEF JoinInv

\* Every step keeps it.
LEMMA NextJoins == ASSUME IInv, JoinInv, [Next]_vars PROVE JoinInv'
<1>. /\ pc \in {"start", "load", "build", "poll", "polling", "prices", "search",
                "execute", "finally", "join", "exited"}
     /\ ending \in {"start", "exited"} /\ running \in [Objects -> BOOLEAN]
     /\ (has_price => made \in Objects)
     /\ thread \in [Objects -> {"none", "update", "retry", "retrying", "publish",
                                "except", "dead"}]
  BY DEF IInv, MainInv, TypeOK, priceTypeOK
<1>1. CASE Construct \/ StartUptime \/ PollPools \/ NextNode \/ AlreadyExecuting
           \/ Polled \/ Execute \/ Fails \/ Time
  BY <1>1 DEF JoinInv, Construct, NewObject, StartUptime, PollPools, NextNode,
     AlreadyExecuting, Polled, Execute, Fails, Time, Leave, GoTo, mainVars, priceVars
<1>2. CASE ReadPrices \/ ReadParams
  BY <1>2 DEF JoinInv, ReadPrices, ReadParams, Read, Leave, priceVars
<1>3. CASE StartPrice
  BY <1>3 DEF JoinInv, StartPrice, StartThread, GoTo
<1>4. CASE Finally
  <2>1. CASE has_price /\ running[made]
    BY <1>4, <2>1 DEF JoinInv, Finally, AskToStop, GoTo
  <2>2. CASE ~ (has_price /\ running[made])
    BY <1>4, <2>2 DEF JoinInv, Finally
  <2>. QED BY <2>1, <2>2
<1>5. CASE Join
  BY <1>5 DEF JoinInv, Join
<1>6. CASE Crash
  BY <1>6 DEF JoinInv, Crash, priceCrash
<1>7. ASSUME NEW g \in Objects, PriceThread(g) \/ PriceFails(g) PROVE JoinInv'
  BY <1>7, ThreadJoins
<1>8. CASE \/ UNCHANGED vars
           \/ \E s \in Sessions : UptimeThread(s)
  BY <1>8 DEF JoinInv, vars, mainVars, priceVars, UptimeThread
<1>. QED
  BY <1>1, <1>2, <1>3, <1>4, <1>5, <1>6, <1>7, <1>8 DEF Next, MainStep

\* It holds in every reachable state.
LEMMA JoinAlways == Spec => []JoinInv
<1>1. Init => JoinInv
  BY DEF Init, priceInit, JoinInv
<1>2. IInv /\ JoinInv /\ [Next]_vars => JoinInv'
  BY NextJoins
<1>. QED BY <1>1, <1>2, InvariantHolds, PTL DEF Spec

\* While kill() waits it waits for a thread that was started and told to stop: one
\* that has ended, or has a step to take, as the generator that it shares with
\* main never blocks but raises.
THEOREM JoinIsForThread ==
  Spec => [](pc = "join" => made \in Objects /\ ~ running[made] /\ thread[made] # "none")
<1>1. JoinInv =>
        (pc = "join" => made \in Objects /\ ~ running[made] /\ thread[made] # "none")
  BY DEF JoinInv
<1>. QED BY <1>1, JoinAlways, PTL

\* A step of a thread that was told to stop leaves it fewer steps to take.
LEMMA ThreadStops ==
  ASSUME IInv, NEW g \in Objects, ~ running[g], PriceThread(g) \/ PriceFails(g)
  PROVE  StepsLeft(g)' < StepsLeft(g)
<1>. /\ MaxRetries \in Nat /\ retries \in [Objects -> 0..MaxRetries]
     /\ thread \in [Objects -> {"none", "update", "retry", "retrying", "publish",
                                "except", "dead"}]
  BY PriceAssumption DEF IInv, MainInv, TypeOK, priceTypeOK
<1>1. CASE Update(g) \/ UpdateRaises(g)
  BY <1>1 DEF Update, Updated, UpdateRaises, Raise, StepsLeft
<1>2. ASSUME Missing(g), thread[g] \in {"retry", "retrying"}
      PROVE  StepsLeft(g)' < StepsLeft(g)
  BY <1>2 DEF Missing, Raise, StepsLeft
<1>3. CASE Retry(g)
  BY <1>2, <1>3 DEF Retry, StepsLeft
<1>4. CASE Retried(g)
  BY <1>2, <1>4 DEF Retried, Updated, StepsLeft
<1>5. CASE Publish(g) \/ Except(g)
  BY <1>5 DEF Publish, Except, StepsLeft
<1>. QED BY <1>1, <1>3, <1>4, <1>5 DEF PriceThread, PriceFails, ThreadStep

\* The join ends: each step of the thread that kill() waits for leaves it fewer
\* to take, of at most 2 * MaxRetries + 5, whatever it was about to do, and no
\* other step gives it more.
THEOREM JoinRunsOut ==
  Spec => [][pc = "join" /\ pc' = "join" =>
               /\ StepsLeft(made) \in 0..(2 * MaxRetries + 5)
               /\ <<thread, retries>> # <<thread', retries'>> =>
                    StepsLeft(made)' < StepsLeft(made)]_vars
<1>1. ASSUME IInv, JoinInv, Next, pc = "join", pc' = "join"
      PROVE  /\ StepsLeft(made) \in 0..(2 * MaxRetries + 5)
             /\ <<thread, retries>> # <<thread', retries'>> =>
                  StepsLeft(made)' < StepsLeft(made)
  <2>1. made \in Objects /\ ~ running[made]
    BY <1>1 DEF JoinInv
  <2>2. StepsLeft(made) \in 0..(2 * MaxRetries + 5)
    BY <1>1, <2>1, PriceAssumption DEF IInv, MainInv, TypeOK, priceTypeOK, StepsLeft
  <2>3. ASSUME NEW g \in Objects, PriceThread(g) \/ PriceFails(g)
        PROVE  g = made /\ made' = made
    <3>1. Alive(g)
      BY <2>3 DEF PriceThread, PriceFails, ThreadStep, Update, Retry, Retried, Publish,
         Except, UpdateRaises, Alive
    <3>2. made' = made
      BY <2>3 DEF PriceThread, PriceFails, ThreadStep, Update, Retry, Retried, Publish,
         Except, UpdateRaises
    <3>. QED BY <1>1, <3>1, <3>2 DEF IInv, PriceInv
  <2>4. ASSUME <<thread, retries>> # <<thread', retries'>>
        PROVE  \E g \in Objects : PriceThread(g) \/ PriceFails(g)
    BY <1>1, <2>4 DEF Next, MainStep, Construct, StartPrice, StartUptime, PollPools,
       NextNode, AlreadyExecuting, Polled, ReadPrices, ReadParams, Read, Execute, Finally,
       Join, Fails, Crash, UptimeThread, Time, priceVars
  <2>. QED BY <1>1, <2>1, <2>2, <2>3, <2>4, ThreadStops
<1>2. IInv /\ JoinInv /\ [Next]_vars =>
        [pc = "join" /\ pc' = "join" =>
           /\ StepsLeft(made) \in 0..(2 * MaxRetries + 5)
           /\ <<thread, retries>> # <<thread', retries'>> =>
                StepsLeft(made)' < StepsLeft(made)]_vars
  BY <1>1
<1>. QED BY <1>2, JoinAlways, InvariantHolds, PTL DEF Spec
=============================================================================
