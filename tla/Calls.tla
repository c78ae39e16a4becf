-------------------------------- MODULE Calls --------------------------------
(***************************************************************************)
(* What blockchain/multicall.py promises about call(): the caller hands    *)
(* over a list of requests and gets back one answer for each, in their     *)
(* order, or an exception.  How many HTTP requests that takes, how the     *)
(* list is cut and what is asked again, is left to Multicall.              *)
(***************************************************************************)
EXTENDS Sequences, Integers

CONSTANTS
  Requests,       \* what can be asked of the chain
  Answers,        \* for each request, the answers a node may give
  Exceptions,     \* what a call may raise
  None            \* no call, or no answer

VARIABLES
  asked,          \* the requests of the call in progress, or None
  answer          \* the list returned, an exception, or None

callVars == <<asked, answer>>

\* The lists that answer params request by request.
AnswersTo(params) ==
  {results \in [DOMAIN params -> UNION {Answers[r] : r \in Requests}] :
     \A i \in DOMAIN params : results[i] \in Answers[params[i]]}

Init == asked = None /\ answer = None

\* The caller has taken the last answer and asks for something else.
Ask ==
  /\ asked = None
  /\ asked' \in Seq(Requests)
  /\ answer' = None

Return ==
  /\ asked # None
  /\ asked' = None
  /\ answer' \in AnswersTo(asked)

Raise ==
  /\ asked # None
  /\ asked' = None
  /\ answer' \in Exceptions

\* The caller drops the answer; or the program ends, and the call with it.
Forget ==
  /\ asked' = None
  /\ answer' = None

Next == Ask \/ Return \/ Raise \/ Forget

Spec == Init /\ [][Next]_callVars
==============================================================================
