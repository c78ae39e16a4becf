------------------------------- MODULE Uptime -------------------------------
(***************************************************************************)
(* utils/uptime.py with the files of persistance/stats.py: a thread writes *)
(* the uptime to its file every second while its event is set.  start()    *)
(* makes a new event and a new thread, numbered here; stop() clears the    *)
(* event.  A file that is cut off while it is written cannot be read, and  *)
(* the statistics have an older value.  A tick of the clock is a second.   *)
(***************************************************************************)
EXTENDS Integers

CONSTANTS MaxSessions, MaxTime, Torn    \* bounds, and an unreadable file

ASSUME UptimeAssumption ==
  MaxSessions \in Nat \ {0} /\ MaxTime \in Nat /\ Torn \notin Int

Sessions == 1..MaxSessions

VARIABLES
  now,            \* perf_counter()
  session,        \* the number of _running_event, 0 before the first
  is_set,         \* event |-> whether it is set
  updater,        \* event |-> where its thread is
  wake,           \* event |-> when its thread's sleep(1) is over
  start_time, prev_uptime,
  uptime_file,    \* uptime.txt
  stats_uptime,   \* "uptime" in the file of the statistics
  ran             \* history: the seconds for which uptime was being measured

uptimeVars == <<now, session, is_set, updater, wake, start_time, prev_uptime,
                uptime_file, stats_uptime, ran>>

Measuring == session # 0 /\ is_set[session]
total == prev_uptime + now - start_time

\* The lock is held while the file is written.
Unlocked == \A s \in Sessions : updater[s] # "write"

uptimeInit ==
  /\ now = 0 /\ session = 0
  /\ is_set = [s \in Sessions |-> FALSE]
  /\ updater = [s \in Sessions |-> "none"]
  /\ wake = [s \in Sessions |-> 0]
  /\ start_time = 0 /\ prev_uptime = 0
  /\ uptime_file = 0 /\ stats_uptime = 0
  /\ ran = 0

load_uptime == IF uptime_file = Torn THEN stats_uptime ELSE uptime_file

Bug_KeepsStart ==
  /\ session < MaxSessions
  /\ session' = session + 1
  /\ is_set' = [is_set EXCEPT ![session + 1] = TRUE]
  /\ updater' = [updater EXCEPT ![session + 1] = "sleep"]
  /\ wake' = [wake EXCEPT ![session + 1] = now + 1]
  /\ UNCHANGED start_time

Begin ==
  /\ session < MaxSessions
  /\ session' = session + 1
  /\ is_set' = [is_set EXCEPT ![session + 1] = TRUE]
  /\ updater' = [updater EXCEPT ![session + 1] = "sleep"]
  /\ wake' = [wake EXCEPT ![session + 1] = now + 1]
  /\ start_time' = now

uptimeStart ==
  /\ Unlocked
  /\ \/ Measuring /\ UNCHANGED uptimeVars
     \/ /\ ~ Measuring
        /\ Begin
        /\ prev_uptime' = load_uptime
        /\ UNCHANGED <<now, uptime_file, stats_uptime, ran>>

uptimeStop ==
  /\ Unlocked
  /\ is_set' = [s \in Sessions |-> is_set[s] /\ s # session]
  /\ UNCHANGED <<now, session, updater, wake, start_time, prev_uptime, uptime_file,
                 stats_uptime, ran>>

\* while running_event.is_set()
Wake(s) ==
  /\ updater[s] = "sleep" /\ now >= wake[s]
  /\ updater' = [updater EXCEPT ![s] = IF is_set[s] THEN "save" ELSE "dead"]
  /\ UNCHANGED <<now, session, is_set, wake, start_time, prev_uptime, uptime_file,
                 stats_uptime, ran>>

\* The file is cut to nothing and then written.
Truncate(s) ==
  /\ updater[s] = "save" /\ Unlocked
  /\ updater' = [updater EXCEPT ![s] = "write"]
  /\ uptime_file' = Torn
  /\ UNCHANGED <<now, session, is_set, wake, start_time, prev_uptime, stats_uptime,
                 ran>>

Write(s) ==
  /\ updater[s] = "write"
  /\ updater' = [updater EXCEPT ![s] = "sleep"]
  /\ wake' = [wake EXCEPT ![s] = now + 1]
  /\ uptime_file' = total
  /\ UNCHANGED <<now, session, is_set, start_time, prev_uptime, stats_uptime, ran>>

UpdaterStep(s) == Wake(s) \/ Truncate(s) \/ Write(s)

\* log_executed_arbs saves uptime.total() with the statistics.
SaveStats ==
  /\ Unlocked
  /\ stats_uptime' = total
  /\ UNCHANGED <<now, session, is_set, updater, wake, start_time, prev_uptime,
                 uptime_file, ran>>

\* What a thread does once it is awake takes no time.
Tick ==
  /\ now < MaxTime
  /\ \A s \in Sessions : updater[s] \notin {"save", "write"}
  /\ now' = now + 1
  /\ ran' = IF Measuring THEN ran + 1 ELSE ran
  /\ UNCHANGED <<session, is_set, updater, wake, start_time, prev_uptime,
                 uptime_file, stats_uptime>>

uptimeCrash ==
  /\ is_set' = [s \in Sessions |-> FALSE]
  /\ updater' = [s \in Sessions |-> "none"]
  /\ wake' = [s \in Sessions |-> 0]
  /\ start_time' = 0 /\ prev_uptime' = 0
  /\ UNCHANGED <<now, session, uptime_file, stats_uptime, ran>>

uptimeTypeOK ==
  /\ now \in 0..MaxTime /\ ran \in 0..now
  /\ session \in 0..MaxSessions
  /\ is_set \in [Sessions -> BOOLEAN]
  /\ updater \in [Sessions -> {"none", "sleep", "save", "write", "dead"}]
  /\ wake \in [Sessions -> 0..(MaxTime + 1)]
  /\ {start_time, prev_uptime, stats_uptime} \subseteq 0..MaxTime
  /\ uptime_file \in 0..MaxTime \cup {Torn}
=============================================================================
