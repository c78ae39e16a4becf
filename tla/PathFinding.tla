----------------------------- MODULE PathFinding -----------------------------
(***************************************************************************)
(* path/graph.py and path/builder.py: every closed walk over the pools,    *)
(* found by a depth-first search from each of the configured tokens, and   *)
(* the mapping of pools to the paths through them.                         *)
(*                                                                         *)
(* A path is the code's flat tuple: token, pool, token, ... , token.  The  *)
(* order of a dict or a list of neighbours is of no account: a substack of *)
(* the search is the set of <<pool, token>> pairs still to be tried.  The  *)
(* searches of the tokens run in the process pool, on data of their own;   *)
(* their results are mapped in the tokens' order, so here they run in that *)
(* order.                                                                  *)
(***************************************************************************)
EXTENDS Integers, Lists

CONSTANTS
  PathTokens,     \* CONFIG["paths"]["tokens"], a sequence
  Weths,          \* CONFIG["weths"]
  Length,         \* CONFIG["paths"]["length"]
  Ignored,        \* CONFIG["paths"]["ignored"]
  Blacklist       \* blacklist_paths

ASSUME LengthAssumption == Length \in Nat \ {0}
\* There is a token to start from, and none is listed twice.
ASSUME PathTokensAssumption ==
  /\ PathTokens \in Seq({PathTokens[n] : n \in DOMAIN PathTokens})
  /\ PathTokens # <<>> /\ IsInjective(PathTokens)
\* _finalize_path does not look at ignore_tokens, _find_neighbors does.
ASSUME IgnoredAssumption ==
  Ignored \cap (Weths \cup {PathTokens[n] : n \in DOMAIN PathTokens}) = {}

VARIABLES
  graph,          \* the pools of the round: pool |-> the set of its two tokens
  task,           \* which of PathTokens is searched from
  stack,          \* substacks of the search
  current_path,
  final_paths,    \* of the search from this token
  pool_to_paths   \* pool |-> the paths through it

pathVars == <<graph, task, stack, current_path, final_paths, pool_to_paths>>

final_tokens ==
  IF PathTokens[task] \in Weths THEN Weths ELSE {PathTokens[task]}
CompareLength == 2 * Length - 1

\* graph[token].items(), each pool with the token at its other end.
Neighbours(token) ==
  {step \in (DOMAIN graph) \X UNION {graph[p] : p \in DOMAIN graph} :
     step[2] # token /\ graph[step[1]] = {token, step[2]}}

\* The neighbours that do not go through a pool of the path again.
Onward(path) ==
  {step \in Neighbours(path[Len(path)]) : step[1] \notin ToSet(path)}

\* path with a last step to a final token, unless it is blacklisted.
Closings(path, steps) ==
  {path \o step : step \in {s \in steps : s[2] \in final_tokens}} \ Blacklist

NotIgnored(steps) == {s \in steps : s[2] \notin Ignored}

StartSearch(n) ==
  /\ task' = n
  /\ stack' = <<{<<>>}>>
  /\ current_path' = <<>>
  /\ final_paths' = <<>>

\* build_graph, and the first task of build_paths.
BuildGraph(pools) ==
  /\ graph' = pools
  /\ pool_to_paths' = <<>>
  /\ StartSearch(1)

Top == stack[Len(stack)]
Under == SubSeq(stack, 1, Len(stack) - 1)

\* The next step of the top substack; the start token has no pool before it.
Taken == CHOOSE step \in Top : TRUE
Path == IF Taken = <<>> THEN <<PathTokens[task]>> ELSE current_path \o Taken

ToVisit == stack # <<>> /\ Top # {}

\* graph[current_token] of a start token that no pool has: a KeyError.
NoSuchToken ==
  /\ ToVisit /\ Taken = <<>>
  /\ CompareLength > 1 /\ Neighbours(Path[1]) = {}

Visit(found, substack) ==
  /\ current_path' = Path
  /\ final_paths' = final_paths \o SetToSeq(found)
  /\ stack' = Under \o <<Top \ {Taken}, substack>>
  /\ UNCHANGED <<graph, task, pool_to_paths>>

\* _finalize_path: the path is as long as it may get before its last pool.
FinalizePath ==
  /\ ToVisit /\ Len(Path) = CompareLength
  /\ Visit(Closings(Path, Onward(Path)), {})

\* _find_neighbors
FindNeighbors ==
  /\ ToVisit /\ ~NoSuchToken /\ Len(Path) < CompareLength
  /\ LET steps == NotIgnored(Onward(Path))
     IN  Visit(Closings(Path, steps), {s \in steps : s[2] \notin final_tokens})

\* A plausible bug: only the token is taken off the path again.
Bug_KeepsPool ==
  /\ stack # <<>> /\ Top = {} /\ Len(stack) > 1
  /\ stack' = Under
  /\ current_path' = SubSeq(current_path, 1, Len(current_path) - 1)
  /\ UNCHANGED <<graph, task, final_paths, pool_to_paths>>

\* The substack is empty: the search goes back over the last pool.
Backtrack ==
  /\ stack # <<>> /\ Top = {} /\ Len(stack) > 1
  /\ stack' = Under
  /\ current_path' = SubSeq(current_path, 1, Len(current_path) - 2)
  /\ UNCHANGED <<graph, task, final_paths, pool_to_paths>>

\* The pools of a path are every other of its places.
PoolsOf(path) == {path[2 * n] : n \in 1..(Len(path) \div 2)}
PathsAt(p) == IF p \in DOMAIN pool_to_paths THEN pool_to_paths[p] ELSE <<>>

\* map_paths: each path of the finished search, at each of its pools.
Mapped ==
  LET pools == UNION {PoolsOf(final_paths[n]) : n \in DOMAIN final_paths}
      Through(p) == Kept(final_paths, {path \in ToSet(final_paths) : p \in PoolsOf(path)})
  IN  [p \in DOMAIN pool_to_paths \cup pools |-> PathsAt(p) \o Through(p)]

SearchDone == stack # <<>> /\ Top = {} /\ Len(stack) = 1

NextTask ==
  /\ SearchDone /\ task < Len(PathTokens)
  /\ pool_to_paths' = Mapped
  /\ StartSearch(task + 1)
  /\ UNCHANGED graph

LastTask ==
  /\ SearchDone /\ task = Len(PathTokens)
  /\ pool_to_paths' = Mapped
  /\ stack' = <<>> /\ current_path' = <<>> /\ final_paths' = <<>>
  /\ UNCHANGED <<graph, task>>

\* The search and its result go with the program.
DropPaths ==
  /\ graph' = <<>> /\ pool_to_paths' = <<>> /\ task' = 1
  /\ stack' = <<>> /\ current_path' = <<>> /\ final_paths' = <<>>

pathInit ==
  /\ graph = <<>> /\ task = 1 /\ pool_to_paths = <<>>
  /\ stack = <<>> /\ current_path = <<>> /\ final_paths = <<>>

SearchStep == FinalizePath \/ FindNeighbors \/ Backtrack \/ NextTask

------------------------------------------------------------------------------
(* What a path is, said without a search                                     *)

SimpleSequences ==
  UNION {{s \in [1..n -> DOMAIN graph] :
            \A i, j \in 1..n : i # j => s[i] # s[j]} : n \in 1..Length}

\* The token after each pool, when each pool is left by its other token.
TokensAlong(start, pools) ==
  LET token[n \in 0..Len(pools)] ==
        IF n = 0 THEN start
        ELSE CHOOSE t \in graph[pools[n]] : t # token[n - 1]
  IN  token

\* A walk that ends where it may, and does not pass through such a token or an
\* ignored one.
IsClosed(token, pools, ends) ==
  LET last == Len(pools)
  IN  /\ \A n \in 1..last : token[n - 1] \in graph[pools[n]]
      /\ token[last] \in ends
      /\ \A n \in 1..(last - 1) : token[n] \notin ends \cup Ignored

ClosedWalks(start) ==
  LET ends == IF start \in Weths THEN Weths ELSE {start}
  IN  {[i \in 1..(2 * Len(pools) + 1) |->
          IF i % 2 = 0 THEN pools[i \div 2]
          ELSE TokensAlong(start, pools)[i \div 2]] :
         pools \in {s \in SimpleSequences :
                      IsClosed(TokensAlong(start, s), s, ends)}}

AllPaths ==
  (UNION {ClosedWalks(PathTokens[n]) : n \in DOMAIN PathTokens}) \ Blacklist
==============================================================================
