---------------------------- MODULE MCWorkerPool ----------------------------
(* Instances of WorkerPool for TLC.                                          *)
EXTENDS WorkerPool

CONSTANTS a, b, q1, q2, q3

\* One arbitrage through both pools and one through b only.
MCPoolsOf == [q \in {q1, q2} |-> IF q = q1 THEN {a, b} ELSE {b}]
MCPathOrder == <<q1, q2>>
MCPoolOrder == <<a, b>>

\* A single changing pool with every path through it, for more workers or for
\* more paths.
MCPoolsOfOne == [q \in {q1, q2} |-> {a}]
MCPoolOrderOne == <<a>>
MCPoolsOfThree == [q \in {q1, q2, q3} |-> {a}]
MCPathOrderThree == <<q1, q2, q3>>
=============================================================================
