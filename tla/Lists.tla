-------------------------------- MODULE Lists --------------------------------
(* What the bot's loops over a list have in common.                          *)
EXTENDS SequencesExt

\* A loop that collects what is in S, in its order.
Kept(s, S) ==
  FoldLeft(LAMBDA kept, x : IF x \in S THEN Append(kept, x) ELSE kept, <<>>, s)
==============================================================================
