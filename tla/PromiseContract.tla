--------------------------- MODULE PromiseContract ---------------------------
(***************************************************************************)
(* What promises promise to the program that uses them, with no queues, no *)
(* callback lists and no call stack: a promise settles at most once; the   *)
(* handler of a derived promise starts at most once, and only after its    *)
(* source settled with the outcome the handler awaits; a derived promise   *)
(* is settled by its own handler only, but for two shortcuts: `then` on a  *)
(* rejected promise forwards the rejection at once, and an exception that  *)
(* tears down a nested run of the event loop rejects the promise that was  *)
(* being derived.  Module Promise implements this specification.           *)
(***************************************************************************)
CONSTANTS Promise, Value, Error, None

VARIABLES
  origin,   \* how each promise was made; "none": not yet
  src,      \* the promise it is derived from
  pstate,   \* PENDING, FULFILLED or REJECTED
  value,    \* the result or the reason
  ran       \* the derived promises whose handler has started

cvars == <<origin, src, pstate, value, ran>>

Derived == {"then", "catch"}

Awaited(q) == IF origin[q] = "then" THEN "FULFILLED" ELSE "REJECTED"

Applicable(q) == origin[q] \in Derived /\ pstate[src[q]] = Awaited(q)

Init ==
  /\ origin = [p \in Promise |-> "none"]
  /\ src    = [p \in Promise |-> None]
  /\ pstate = [p \in Promise |-> "PENDING"]
  /\ value  = [p \in Promise |-> None]
  /\ ran = {}

Become(p, outcome, v) ==
  /\ pstate[p] = "PENDING"
  /\ pstate' = [pstate EXCEPT ![p] = outcome]
  /\ value'  = [value EXCEPT ![p] = v]

Make(q, how, from) ==
  /\ origin[q] = "none"
  /\ origin' = [origin EXCEPT ![q] = how]
  /\ src'    = [src EXCEPT ![q] = from]

\* A promise with an executor, yet to be settled by whoever holds its resolvers.
MakePending(q) ==
  Make(q, "executor", None) /\ UNCHANGED <<pstate, value, ran>>

\* Promise.resolve, Promise.reject, readFile.
MakeSettled(q, outcome, v) ==
  /\ \E how \in {"resolve", "reject", "readFile"} : Make(q, how, None)
  /\ Become(q, outcome, v)
  /\ UNCHANGED ran

\* then and catch.
Derive(p, q, how) ==
  /\ origin[p] # "none"
  /\ Make(q, how, p)
  /\ UNCHANGED <<pstate, value, ran>>

\* `then` on a rejected promise.
Forward(p, q) ==
  /\ pstate[p] = "REJECTED"
  /\ Make(q, "then", p)
  /\ Become(q, "REJECTED", value[p])
  /\ UNCHANGED ran

\* Called by user code, or with Error because the executor threw.
Settle(p, outcome, v) ==
  /\ origin[p] = "executor"
  /\ Become(p, outcome, v)
  /\ UNCHANGED <<origin, src, ran>>

StartHandler(q) ==
  /\ Applicable(q) /\ q \notin ran
  /\ ran' = ran \cup {q}
  /\ UNCHANGED <<origin, src, pstate, value>>

\* The handler of q returned v, or threw.
HandlerReturns(q, v) ==
  /\ origin[q] \in Derived /\ q \in ran
  /\ Become(q, "FULFILLED", v)
  /\ UNCHANGED <<origin, src, ran>>

HandlerThrows(q) ==
  /\ origin[q] \in Derived /\ q \in ran
  /\ Become(q, "REJECTED", Error)
  /\ UNCHANGED <<origin, src, ran>>

\* An exception arrived while the callback of q was being enqueued.
Abandon(q) ==
  /\ Applicable(q) /\ q \notin ran
  /\ Become(q, "REJECTED", Error)
  /\ UNCHANGED <<origin, src, ran>>

Next ==
  \/ \E q \in Promise :
       MakePending(q) \/ StartHandler(q) \/ HandlerThrows(q) \/ Abandon(q)
  \/ \E q \in Promise, v \in Value : HandlerReturns(q, v)
  \/ \E p, q \in Promise :
       Forward(p, q) \/ Derive(p, q, "then") \/ Derive(p, q, "catch")
  \/ \E q \in Promise, v \in Value \cup {Error}, o \in {"FULFILLED", "REJECTED"} :
       MakeSettled(q, o, v) \/ Settle(q, o, v)

Spec == Init /\ [][Next]_cvars
=============================================================================
