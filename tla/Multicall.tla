------------------------------ MODULE Multicall ------------------------------
(***************************************************************************)
(* multicall.call() of blockchain/multicall.py.  The requests are cut into *)
(* chunks of Size, each chunk is one request to the multicall contract,    *)
(* and what failed or came back empty is asked again by a recursive call,  *)
(* whose results are put back where they belong.  More than MaxRetries     *)
(* levels raise a BlockchainError.                                         *)
(*                                                                         *)
(* A frame of the recursion is [params, results, retry_idxs].  results is  *)
(* flat: the position of a result stands for the pair (chunk, index) of    *)
(* the code.  A chunk whose request raises a ValueError is one in which    *)
(* every call failed.                                                      *)
(***************************************************************************)
EXTENDS Integers, SequencesExt

CONSTANTS
  Requests,       \* what can be asked of the chain
  Answers,        \* for each request, the answers a node may give
  Bad,            \* no success, or zero bytes
  Size,           \* CONFIG["multicall"]["size"]
  MaxRetries,     \* CONFIG["max_retries"]
  BlockchainError, ConnectionError, None

ASSUME AnswersAssumption == \A r \in Requests : Bad \notin Answers[r]
ASSUME SizeAssumption == Size \in Nat \ {0}
ASSUME MaxRetriesAssumption == MaxRetries \in Nat
ASSUME NoneAssumption == None \notin Seq(Requests)

VARIABLES
  frames,         \* the calls in progress, the innermost one last
  returned        \* the outcome of the last outermost call

multicallVars == <<frames, returned>>

AnyReply == (UNION {Answers[r] : r \in Requests}) \cup {Bad}

Frame(params) == [params |-> params, results |-> <<>>, retry_idxs |-> <<>>]
Busy == frames # <<>>
inner == frames[Len(frames)]
Complete == Len(inner.results) = Len(inner.params)

\* The requests of the next chunk.
Chunk ==
  LET first == Len(inner.results)
      rest  == Len(inner.params) - first
  IN  SubSeq(inner.params, first + 1, first + IF rest < Size THEN rest ELSE Size)

\* Where a result is missing (in any order: results are put back pair by pair).
FailedPositions(results) ==
  SetToSeq({i \in DOMAIN results : results[i] = Bad})

\* results with those of a second attempt in the places of the failed ones.
Merged(results, idxs, retried) ==
  [i \in DOMAIN results |->
     IF \E j \in DOMAIN idxs : idxs[j] = i
     THEN retried[CHOOSE j \in DOMAIN idxs : idxs[j] = i]
     ELSE results[i]]

Call(params) ==
  /\ ~Busy
  /\ frames' = <<Frame(params)>>
  /\ returned' = None

\* _call_one, for one chunk: reply is what tryAggregate gives for its requests.
CallOne(reply) ==
  /\ Busy /\ ~Complete
  /\ Len(reply) = Len(Chunk)
  /\ frames' = [frames EXCEPT ![Len(frames)].results = @ \o reply]
  /\ UNCHANGED returned

HasFailures ==
  /\ Busy /\ Complete /\ inner.retry_idxs = <<>>
  /\ \E i \in DOMAIN inner.results : inner.results[i] = Bad

\* A plausible bug: of the pair (chunk, index) only the index is kept.
Bug_ForgetsChunk ==
  /\ HasFailures
  /\ Len(frames) <= MaxRetries
  /\ LET idxs == FailedPositions(inner.results)
     IN  frames' = Append([frames EXCEPT ![Len(frames)].retry_idxs =
                             [j \in DOMAIN idxs |-> ((idxs[j] - 1) % Size) + 1]],
                          Frame([j \in DOMAIN idxs |-> inner.params[idxs[j]]]))
  /\ UNCHANGED returned

\* A plausible bug: one retry more than max_retries.
Bug_RetriesOnceMore ==
  /\ HasFailures
  /\ Len(frames) <= MaxRetries + 1
  /\ LET idxs == FailedPositions(inner.results)
     IN  frames' = Append([frames EXCEPT ![Len(frames)].retry_idxs = idxs],
                          Frame([j \in DOMAIN idxs |-> inner.params[idxs[j]]]))
  /\ UNCHANGED returned

\* What failed is asked for again, one level down.
Retry ==
  /\ HasFailures
  /\ Len(frames) <= MaxRetries
  /\ LET idxs == FailedPositions(inner.results)
     IN  frames' = Append([frames EXCEPT ![Len(frames)].retry_idxs = idxs],
                          Frame([j \in DOMAIN idxs |-> inner.params[idxs[j]]]))
  /\ UNCHANGED returned

\* The recursive call finds retries > max_retries.
Exceeded ==
  /\ HasFailures
  /\ Len(frames) > MaxRetries
  /\ frames' = <<>> /\ returned' = BlockchainError

\* Nothing failed, or it has been asked for again and put back.
Finished ==
  /\ Busy /\ Complete
  /\ \/ inner.retry_idxs # <<>>
     \/ \A i \in DOMAIN inner.results : inner.results[i] # Bad

\* A recursive call returns to the one that made it.
PutBack ==
  /\ Finished /\ Len(frames) > 1
  /\ LET n     == Len(frames) - 1
         outer == frames[n]
     IN  frames' = [SubSeq(frames, 1, n) EXCEPT
                      ![n].results = Merged(@, outer.retry_idxs, inner.results)]
  /\ UNCHANGED returned

\* The outermost call returns.
Return ==
  /\ Finished /\ Len(frames) = 1
  /\ frames' = <<>> /\ returned' = inner.results

\* A request raises a ConnectionError, which leaves all levels.
Disconnected ==
  /\ Busy /\ ~Complete
  /\ frames' = <<>> /\ returned' = ConnectionError

\* The caller is done with the results, or is no longer there.
Forget == frames' = <<>> /\ returned' = None

multicallInit == frames = <<>> /\ returned = None

\* What a node may reply to the requests of a chunk.
Replies ==
  {reply \in [DOMAIN Chunk -> AnyReply] :
     \A i \in DOMAIN Chunk : reply[i] \in Answers[Chunk[i]] \cup {Bad}}

multicallNext ==
  \/ \E params \in Seq(Requests) : Call(params)
  \/ Busy /\ \E reply \in Replies : CallOne(reply)
  \/ Retry \/ Exceeded \/ PutBack \/ Return
  \/ Disconnected
  \/ Forget

multicallSpec == multicallInit /\ [][multicallNext]_multicallVars

Contract ==
  INSTANCE Calls WITH asked <- IF Busy THEN frames[1].params ELSE None,
                      answer <- IF Busy THEN None ELSE returned,
                      Exceptions <- {BlockchainError, ConnectionError}

(* call() gives one answer per request, in the order of the requests, or     *)
(* raises: however the requests are cut, whatever fails and is asked again,  *)
(* and over all levels of retries, no answer lands at another's place        *)
(* (multicall.py:126).                                                       *)
CallsAnswered == Contract!Spec
==============================================================================
