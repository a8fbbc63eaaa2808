-------------------------------- MODULE Input --------------------------------
(***************************************************************************)
(* input() on the event bus (Tools/EventBus, Binding/C_API, Input of       *)
(* BuiltinFunction.cpp), with the two threads of Demo/main.cpp: "main"     *)
(* interprets the program, "reader" publishes the lines it reads.  There   *)
(* is no lock.  A line is delivered by calling the resolve of a promise on *)
(* the reader's thread, which runs the event loop there if it is stopped.  *)
(*                                                                         *)
(* A call of input() is named by its promise, and so is the handler that   *)
(* the program passes to `then` for it.  Every read and every write of     *)
(* something both threads use is a step of its own; only pushing a         *)
(* subscription, erasing one, pushing a task and taking one are single     *)
(* steps.  (Without a lock these are data races too; their outcomes other  *)
(* than an order of the two are left out.)  What does not depend on        *)
(* input() is modelled in EventLoop and Promise and left out here.         *)
(***************************************************************************)
EXTENDS Integers, SequencesExt

CONSTANTS
  Prompt,    \* calls of input()
  Host,      \* C callbacks that the host subscribes
  MaxLines,  \* bound: lines typed
  IdLimit    \* 2^32: event ids are computed modulo this number

\* The code that is neither a handler nor a callback: the module's, and main's
\* before it interprets.
Module == "module"
Setup  == "setup"

ASSUME InputAssumption ==
  /\ Prompt \cap Host = {} /\ (Prompt \cup Host) \cap {Module, Setup} = {}
  /\ MaxLines \in Nat /\ IdLimit \in Nat \ {0}

VARIABLES
  subscriptions, \* EventBus::subscriptions of INPUT: a vector
  capacity,      \* ... and the capacity of its buffer, another one each time
  nextId,        \* EventBus::next_id
  hostId,        \* what eventbus_subscribe returned to the host
  pstate,        \* PyPromise::state of the promise of input()
  answer,        \* PyPromise::value: the number of the line, or 0
  callbacks,     \* the promises with a callback in onFulfilledCallbacks
  loopState,     \* EventLoop::state
  microTaskQueue,\* EventLoop::microTaskQueue
  stack,         \* the activations of each thread, top first
  stopFlag,      \* stop_flag of main
  dead,          \* the process has been terminated
  lines,         \* how many lines have been read
  \* history, for the properties
  handled,       \* the promises `then` has been called on
  started,       \* the handlers invoked, in order
  asked,         \* how many lines had been read when input() was called
  issued,        \* how many subscriptions have been made
  overlap,       \* a line has been published while main was interpreting
  crowded,       \* a line has been published for two unsettled subscribers
  erased,        \* a callback of the host has unsubscribed
  strayed        \* publish has read outside the vector

bus     == <<subscriptions, capacity, nextId, hostId, issued>>
promise == <<pstate, answer, callbacks, handled, asked>>
loop    == <<loopState, microTaskQueue, started>>
rest    == <<stopFlag, dead, lines, overlap, crowded, erased, strayed>>
vars    == <<bus, promise, loop, stack, rest>>

Thread == {"main", "reader"}

\* Activations of functions, as far as they go on after a step.
Code(c)        == [fn |-> "Code", of |-> c]
Registering(p) == [fn |-> "Registering", of |-> p]
Resolving(p, at) == [fn |-> "Resolving", of |-> p, at |-> at]
Waking         == [fn |-> "Waking"]
Run(at)        == [fn |-> "Run", at |-> at]
Reading(at)    == [fn |-> "Reading", at |-> at]
Publishing(at, end, buffer) ==
  [fn |-> "Publishing", at |-> at, end |-> end, buffer |-> buffer]

Top(t)      == Head(stack[t])
In(t, f)    == ~dead /\ stack[t] # <<>> /\ Top(t).fn = f
Return(t)   == stack' = [stack EXCEPT ![t] = Tail(@)]
Become(t, f) == stack' = [stack EXCEPT ![t] = <<f>> \o Tail(@)]
Call(t, f)  == stack' = [stack EXCEPT ![t] = <<f>> \o @]

Init ==
  /\ subscriptions = <<>> /\ capacity = 0 /\ nextId = 0
  /\ hostId = [h \in Host |-> 0]
  /\ pstate = [p \in Prompt |-> "unasked"]
  /\ answer = [p \in Prompt |-> 0]
  /\ callbacks = {} /\ handled = {}
  /\ asked = [p \in Prompt |-> 0]
  /\ loopState = "Stopped" /\ microTaskQueue = <<>> /\ started = <<>>
  /\ stack = [t \in Thread |-> IF t = "main" THEN <<Code(Setup)>> ELSE <<>>]
  /\ stopFlag = FALSE /\ dead = FALSE /\ lines = 0
  /\ issued = 0 /\ overlap = FALSE /\ crowded = FALSE
  /\ erased = FALSE /\ strayed = FALSE

-----------------------------------------------------------------------------
(* EventBus                                                                 *)

\* Faulty variants: the id is the number of subscriptions; it does not wrap.
IdFromSize == Len(subscriptions) + 1
WideId == nextId + 1

generate_id == (nextId + 1) % IdLimit

\* The vector moves to a larger buffer when it is full: larger by half or twice
\* as large, as standard libraries have it.
GrownCapacity(n) == IF n < 2 THEN {n + 1} ELSE {n + n \div 2, 2 * n}
MakeRoom ==
  IF Len(subscriptions) < capacity
    THEN UNCHANGED capacity
    ELSE \E c \in GrownCapacity(capacity) : capacity' = c

\* A faulty variant: the latest subscription comes first.
push_front(s) == subscriptions' = <<s>> \o subscriptions /\ MakeRoom

push_back(s) == subscriptions' = Append(subscriptions, s) /\ MakeRoom

subscribe(who) ==
  /\ nextId' = generate_id
  /\ push_back([id |-> generate_id, who |-> who])
  /\ issued' = issued + 1

\* What is left of a list of subscriptions without an id, in the same order: a
\* set of one list.  (SelectSeq is recursive, and could not be reasoned about.)
Without(list, id) ==
  LET kept == {i \in DOMAIN list : list[i].id # id}
      Increasing(f) == \A k, l \in DOMAIN f : k < l => f[k] < f[l]
  IN {[k \in DOMAIN f |-> list[f[k]]] :
        f \in {g \in [1..Cardinality(kept) -> kept] : Increasing(g)}}

\* Every subscription with that id is erased, in place.
unsubscribe(id) ==
  /\ subscriptions' \in Without(subscriptions, id)
  /\ UNCHANGED <<capacity, nextId, hostId, issued>>

\* Is there still an element where the iteration of publish points?
Valid(f) == f.buffer = capacity /\ f.at <= Len(subscriptions)

-----------------------------------------------------------------------------
(* The C API and the threads of the demo                                    *)

\* eventbus_subscribe, before anything runs.
HostSubscribes(h) ==
  /\ In("main", "Code") /\ Top("main") = Code(Setup)
  /\ \A i \in 1..Len(subscriptions) : subscriptions[i].who # h
  /\ subscribe(h)
  /\ hostId' = [hostId EXCEPT ![h] = generate_id]
  /\ UNCHANGED <<promise, loop, stack, rest>>

\* main starts the thread that reads, and interprets.
Starts ==
  /\ In("main", "Code") /\ Top("main") = Code(Setup)
  /\ stack' = [main |-> <<Code(Module)>>, reader |-> <<Reading("check")>>]
  /\ UNCHANGED <<bus, promise, loop, rest>>

\* interpret() has returned: the flag is set, and main waits in join().
Stops ==
  /\ ~dead /\ stack["main"] = <<>> /\ ~stopFlag
  /\ stopFlag' = TRUE
  /\ UNCHANGED <<bus, promise, loop, stack, dead, lines, overlap, crowded, erased, strayed>>

\* An exception of the module leaves main's try block, which destroys a thread
\* that has not been joined: std::terminate.
ModuleThrows ==
  /\ In("main", "Code") /\ Top("main") = Code(Module)
  /\ dead' = TRUE
  /\ UNCHANGED <<bus, promise, loop, stack, stopFlag, lines, overlap, crowded,
                 erased, strayed>>

\* The condition of the while: the flag first, then getline.
ReaderChecks ==
  /\ In("reader", "Reading") /\ Top("reader").at = "check"
  /\ IF stopFlag THEN Return("reader") ELSE Become("reader", Reading("getline"))
  /\ UNCHANGED <<bus, promise, loop, rest>>

ReaderAtEof ==
  /\ In("reader", "Reading") /\ Top("reader").at = "getline"
  /\ Return("reader")
  /\ UNCHANGED <<bus, promise, loop, rest>>

Unsettled(s) == s.who \in Host \/ pstate[s.who] = "pending"

Crowd == \E i, j \in 1..Len(subscriptions) :
           i < j /\ Unsettled(subscriptions[i]) /\ Unsettled(subscriptions[j])

\* getline returns a line, and publish begins: the range of the iteration is
\* what the vector holds now.
ReaderGetsLine ==
  /\ In("reader", "Reading") /\ Top("reader").at = "getline"
  /\ lines < MaxLines /\ lines' = lines + 1
  /\ stack' = [stack EXCEPT !["reader"] =
                 <<Publishing(1, Len(subscriptions), capacity), Reading("check")>>]
  /\ overlap' = (overlap \/ stack["main"] # <<>>)
  /\ crowded' = (crowded \/ Crowd)
  /\ UNCHANGED <<bus, promise, loop, stopFlag, dead, erased, strayed>>

PublishEnds(t) ==
  /\ In(t, "Publishing") /\ Top(t).at > Top(t).end
  /\ Return(t)
  /\ UNCHANGED <<bus, promise, loop, rest>>

PublishNext(t) == [Top(t) EXCEPT !.at = @ + 1]

\* A faulty variant: a settled promise is settled again.
PendingOrNot(p) == pstate[p] # "unasked"

Pending(p) == pstate[p] = "pending"

\* The callback of input() calls the resolve of its promise, which changes a
\* pending one only: its state, then its value.  It does not unsubscribe.
PublishResolves(t, p) ==
  /\ In(t, "Publishing") /\ Top(t).at <= Top(t).end
  /\ Valid(Top(t)) /\ subscriptions[Top(t).at].who = p
  /\ IF Pending(p)
       THEN /\ pstate' = [pstate EXCEPT ![p] = "fulfilled"]
            /\ stack' = [stack EXCEPT ![t] = <<Resolving(p, "value"), PublishNext(t)>> \o Tail(@)]
       ELSE Become(t, PublishNext(t)) /\ UNCHANGED pstate
  /\ UNCHANGED <<bus, answer, callbacks, handled, asked, loop, rest>>

SetValue(t) ==
  /\ In(t, "Resolving") /\ Top(t).at = "value"
  /\ answer' = [answer EXCEPT ![Top(t).of] = lines]
  /\ Become(t, Resolving(Top(t).of, "callbacks"))
  /\ UNCHANGED <<bus, pstate, callbacks, handled, asked, loop, rest>>

\* The callback of the host.
PublishCalls(t, h) ==
  /\ In(t, "Publishing") /\ Top(t).at <= Top(t).end
  /\ Valid(Top(t)) /\ subscriptions[Top(t).at].who = h
  /\ stack' = [stack EXCEPT ![t] = <<Code(h), PublishNext(t)>> \o Tail(@)]
  /\ UNCHANGED <<bus, promise, loop, rest>>

\* The element is not there any more: an empty function is called, whose
\* exception ends the thread that reads, or the process dies.
PublishStrays(t) ==
  /\ In(t, "Publishing") /\ Top(t).at <= Top(t).end
  /\ ~Valid(Top(t))
  /\ strayed' = TRUE
  /\ \/ stack' = [stack EXCEPT ![t] = <<>>] /\ UNCHANGED dead
     \/ dead' = TRUE /\ UNCHANGED stack
  /\ UNCHANGED <<bus, promise, loop, stopFlag, lines, overlap, crowded, erased>>

\* eventbus_unsubscribe, from the callback itself; it ignores the id 0.
HostUnsubscribes(t, h) ==
  /\ In(t, "Code") /\ Top(t) = Code(h)
  /\ hostId[h] # 0
  /\ unsubscribe(hostId[h])
  /\ erased' = TRUE
  /\ UNCHANGED <<promise, loop, stack, stopFlag, dead, lines, overlap, crowded, strayed>>

-----------------------------------------------------------------------------
(* The program: the module, on main, and handlers, on whichever thread runs *)
(* the loop.                                                                *)

InProgram(t) == In(t, "Code") /\ Top(t).of \in Prompt \cup {Module}

\* input(): a promise whose executor subscribes.
Input(t, p) ==
  /\ InProgram(t)
  /\ pstate[p] = "unasked"
  /\ pstate' = [pstate EXCEPT ![p] = "pending"]
  /\ asked' = [asked EXCEPT ![p] = lines]
  /\ subscribe(p)
  /\ UNCHANGED <<hostId, answer, callbacks, handled, loop, stack, rest>>

\* `then` reads the state of the promise; it enqueues the callback, or goes on
\* to store it.
Then(t, p) ==
  /\ InProgram(t)
  /\ pstate[p] # "unasked" /\ p \notin handled
  /\ handled' = handled \cup {p}
  /\ IF Pending(p)
       THEN Call(t, Registering(p)) /\ UNCHANGED microTaskQueue
       ELSE Call(t, Waking) /\ microTaskQueue' = Append(microTaskQueue, p)
  /\ UNCHANGED <<bus, pstate, answer, callbacks, asked, loopState, started, rest>>

Registers(t) ==
  /\ In(t, "Registering")
  /\ callbacks' = callbacks \cup {Top(t).of}
  /\ Return(t)
  /\ UNCHANGED <<bus, pstate, answer, handled, asked, loop, rest>>

\* Faulty variants: the callbacks of the promise are not visited; the loop is
\* not woken.
NoCallback(p) == FALSE
NeverStopped == FALSE

HasCallback(p) == p \in callbacks
Stopped == loopState = "Stopped"

\* ForEach in resolve: the callback, if it is there, is enqueued.
Resolves(t) ==
  /\ In(t, "Resolving") /\ Top(t).at = "callbacks"
  /\ IF HasCallback(Top(t).of)
       THEN microTaskQueue' = Append(microTaskQueue, Top(t).of) /\ Become(t, Waking)
       ELSE Return(t) /\ UNCHANGED microTaskQueue
  /\ UNCHANGED <<bus, promise, loopState, started, rest>>

\* EnqueueMicroTask, past its push: Run() is entered if the loop is stopped.
Wakes(t) ==
  /\ In(t, "Waking")
  /\ IF Stopped THEN Become(t, Run("enter")) ELSE Return(t)
  /\ UNCHANGED <<bus, promise, loop, rest>>

\* The module's end enters the loop; a handler or a callback goes back.
CodeReturns(t) ==
  /\ In(t, "Code") /\ Top(t) # Code(Setup)
  /\ IF Top(t) = Code(Module) THEN Become(t, Run("enter")) ELSE Return(t)
  /\ UNCHANGED <<bus, promise, loop, rest>>

InRun(t, at) == In(t, "Run") /\ Top(t).at = at

RunEnters(t) ==
  /\ InRun(t, "enter")
  /\ loopState' = "Running" /\ Become(t, Run("top"))
  /\ UNCHANGED <<bus, promise, microTaskQueue, started, rest>>

RunTests(t) ==
  /\ InRun(t, "top")
  /\ Become(t, Run(IF Stopped THEN "end" ELSE "drain"))
  /\ UNCHANGED <<bus, promise, loop, rest>>

RunMicroTask(t) ==
  /\ InRun(t, "drain") /\ microTaskQueue # <<>>
  /\ microTaskQueue' = Tail(microTaskQueue)
  /\ started' = Append(started, Head(microTaskQueue))
  /\ Call(t, Code(Head(microTaskQueue)))
  /\ UNCHANGED <<bus, promise, loopState, rest>>

\* Idle() says that there is nothing to do; then the state is written.
RunFindsNothing(t) ==
  /\ InRun(t, "drain") /\ microTaskQueue = <<>>
  /\ Become(t, Run("stop"))
  /\ UNCHANGED <<bus, promise, loop, rest>>

RunStops(t) ==
  /\ InRun(t, "stop")
  /\ loopState' = "Stopped" /\ Become(t, Run("top"))
  /\ UNCHANGED <<bus, promise, microTaskQueue, started, rest>>

\* Past the loop the state is written once more.
RunEnds(t) ==
  /\ InRun(t, "end")
  /\ loopState' = "Stopped" /\ Return(t)
  /\ UNCHANGED <<bus, promise, microTaskQueue, started, rest>>

-----------------------------------------------------------------------------
Steps(t) ==
  \/ PublishEnds(t) \/ PublishStrays(t)
  \/ \E p \in Prompt : PublishResolves(t, p) \/ Input(t, p) \/ Then(t, p)
  \/ \E h \in Host : PublishCalls(t, h) \/ HostUnsubscribes(t, h)
  \/ SetValue(t) \/ Registers(t) \/ Resolves(t) \/ Wakes(t) \/ CodeReturns(t)
  \/ RunEnters(t) \/ RunTests(t) \/ RunMicroTask(t) \/ RunFindsNothing(t) \/ RunStops(t)
  \/ RunEnds(t)

Next ==
  \/ Starts \/ Stops \/ ModuleThrows
  \/ ReaderChecks \/ ReaderAtEof \/ ReaderGetsLine
  \/ \E h \in Host : HostSubscribes(h)
  \/ \E t \in Thread : Steps(t)

Spec == Init /\ [][Next]_vars

-----------------------------------------------------------------------------
TypeOK ==
  /\ subscriptions \in Seq([id : 0..IdLimit - 1, who : Prompt \cup Host])
  /\ nextId \in 0..IdLimit - 1 /\ hostId \in [Host -> 0..IdLimit - 1]
  /\ pstate \in [Prompt -> {"unasked", "pending", "fulfilled"}]
  /\ answer \in [Prompt -> 0..MaxLines] /\ asked \in [Prompt -> 0..MaxLines]
  /\ callbacks \subseteq handled /\ handled \subseteq Prompt
  /\ loopState \in {"Stopped", "Running"}
  /\ microTaskQueue \in Seq(Prompt) /\ started \in Seq(Prompt)
  /\ lines \in 0..MaxLines /\ issued \in Nat

\* An id belongs to one subscription, and is not the 0 that eventbus_unsubscribe
\* ignores, as long as the counter has not gone round: callers keep an id and
\* unsubscribe with it at any later time, whoever has unsubscribed meanwhile.
IdsUnique ==
  issued < IdLimit =>
    \A i, j \in 1..Len(subscriptions) :
      /\ subscriptions[i].id # 0
      /\ subscriptions[i].id = subscriptions[j].id => i = j

\* publish goes through a vector that its callbacks change.  It stays inside as
\* long as lines come when main has left the interpreter and find one unsettled
\* subscriber: the program that asks again in the handler of the last answer.
StraysOnlyInCrowd ==
  strayed => overlap \/ crowded

\* The reader is between two publications.
BetweenLines == stack["reader"] = <<>> \/ Top("reader").fn = "Reading"

\* input() never removes its subscription, and the handler of an answer may ask
\* again while the line is being delivered: still every input() is answered by
\* the first line after it, and by that one only.  (A callback of the host that
\* unsubscribes moves the subscriptions behind it, and publish skips one.)
AnsweredByNextLine ==
  BetweenLines /\ ~strayed /\ ~overlap /\ ~erased =>
    \A p \in Prompt :
      /\ pstate[p] = "fulfilled" => answer[p] = asked[p] + 1
      /\ pstate[p] = "pending" => asked[p] = lines

\* If no line came while main was interpreting, no handler of an answered
\* input() is left behind when both threads have nothing to do.  (If one came,
\* a callback can be stored too late, or queued for a loop that just stops.)
AnswersHandled ==
  ~dead /\ ~strayed /\ ~overlap /\ stack["main"] = <<>> /\ BetweenLines =>
    \A p \in handled : pstate[p] = "fulfilled" => Contains(started, p)
=============================================================================
