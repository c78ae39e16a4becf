----------------------------- MODULE MCThreads -----------------------------
(* Two runs of main(), and so two price threads and two sessions of the      *)
(* uptime, over two seconds of the clock, with two errors or deaths of the   *)
(* process.                                                                  *)
EXTENDS Threads
=============================================================================
