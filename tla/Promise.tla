------------------------------- MODULE Promise -------------------------------
(***************************************************************************)
(* Promises (Object/Core/PyPromise.cpp) on the event loop.                 *)
(*                                                                         *)
(* Every promise that `then` or `catch` derives has exactly one callback,  *)
(* so the derived promise's name stands for its callback: in the callback  *)
(* lists of its source, in the microtask queue and on the stack, where     *)
(* Code(q) is the user's handler (or, for a promise made by the            *)
(* constructor, the user's executor).                                      *)
(*                                                                         *)
(* User code (the module, handlers, executors, tasks of the host) is       *)
(* opaque: it may make promises, derive from promises it can see, settle   *)
(* any promise whose resolve and reject it was given, return or throw.     *)
(***************************************************************************)
EXTENDS EventLoop

CONSTANTS
  Value,    \* what promises are resolved and rejected with
  Error,    \* the reason made from a caught exception
  None      \* PyNone, and "no source"

ASSUME PromiseAssumption ==
  /\ Error \notin Value /\ None \notin Value /\ Error # None
  /\ None \notin MicroTask

\* A promise is named by its callback, which is a microtask.
Promise == MicroTask

VARIABLES
  origin,               \* how the promise was made; "none": not yet
  src,                  \* the promise it is derived from
  pstate,               \* PyPromise::state
  value,                \* PyPromise::value
  onFulfilledCallbacks, \* PyPromise::onFulfilledCallbacks
  onRejectedCallbacks   \* PyPromise::onRejectedCallbacks

callbackLists == <<onFulfilledCallbacks, onRejectedCallbacks>>
promiseVars   == <<origin, src, pstate, value, callbackLists>>
vars          == <<loopVars, promiseVars>>

Origin  == {"none", "executor", "resolve", "reject", "readFile", "then", "catch"}
Derived == {"then", "catch"}

(***************************************************************************)
(* Three more activations: CreatePyPromise once the native executor of a   *)
(* derived promise has enqueued its callback; the callback of q once the   *)
(* user's handler has returned; and the ForEach of resolve or reject over  *)
(* the callbacks of p, about to enqueue the one at `next`.                 *)
(***************************************************************************)
Creating(q)       == [fn |-> "Creating", task |-> q]
Callback(q)       == [fn |-> "Callback", task |-> q]
Settling(p, next) == [fn |-> "Settling", task |-> p, next |-> next]

SettlingFrame == [fn : {"Settling"}, task : Promise, next : Nat \ {0}]
NativeFrame   == [fn : {"Creating", "Callback"}, task : Promise]
Frame == LoopFrame \cup NativeFrame \cup SettlingFrame

Top == Head(stack)

Init ==
  /\ LoopInit
  /\ origin = [p \in Promise |-> "none"]
  /\ src    = [p \in Promise |-> None]
  /\ pstate = [p \in Promise |-> "PENDING"]
  /\ value  = [p \in Promise |-> None]
  /\ onFulfilledCallbacks = [p \in Promise |-> <<>>]
  /\ onRejectedCallbacks  = [p \in Promise |-> <<>>]

\* The promise object has been returned to user code.
Visible(p) ==
  /\ origin[p] # "none"
  /\ \A i \in 1..Len(stack) :
       /\ stack[i] # Creating(p)
       /\ origin[p] = "executor" => stack[i] # Code(p)

-----------------------------------------------------------------------------
(* resolve and reject, the native functions CreatePyPromise makes.          *)

\* A faulty variant: a promise can be settled again.
PendingOrNot(p) == origin[p] # "none"

\* Lines 29 and 51: settling has an effect on a pending promise only.
Pending(p) == pstate[p] = "PENDING"

\* The callbacks ForEach visits.  No callback is added to them any more.
Callbacks(p) ==
  IF pstate[p] = "FULFILLED" THEN onFulfilledCallbacks[p]
                             ELSE onRejectedCallbacks[p]

\* p is settled by a call that returns to `s`; its callbacks are visited next.
Settle(p, outcome, v, s) ==
  /\ pstate' = [pstate EXCEPT ![p] = outcome]
  /\ value'  = [value EXCEPT ![p] = v]
  /\ stack'  = Push(Settling(p, 1), s)
  /\ UNCHANGED <<origin, src, callbackLists>>

\* The same call on a promise that may already be settled, a no-op then.
TrySettle(p, outcome, v, s) ==
  IF Pending(p)
    THEN Settle(p, outcome, v, s)
    ELSE stack' = s /\ UNCHANGED promiseVars

\* User code calls the resolve or reject it was given by a constructor.
CallSettler(p, outcome, v) ==
  /\ Running("Code")
  /\ origin[p] = "executor" /\ Pending(p)
  /\ Settle(p, outcome, v, stack)
  /\ UNCHANGED <<loopState, queues, exc, runs, started, history>>

\* A faulty variant: ForEach skips the last callback.
NextCallbackBut(p, i) == i < Len(Callbacks(p))

\* ListIterator::next: is there a callback at position i?
HasCallback(p, i) == i <= Len(Callbacks(p))

\* Lines 32-45 and 54-64: one round of ForEach.  The enqueue may run the loop.
SettlingEnqueues ==
  /\ Running("Settling")
  /\ HasCallback(Top.task, Top.next)
  /\ EnqueueMicroTask(Callbacks(Top.task)[Top.next],
                      Push(Settling(Top.task, Top.next + 1), Tail(stack)))
  /\ UNCHANGED <<exc, runs, started, history, promiseVars>>

SettlingDone ==
  /\ Running("Settling")
  /\ ~HasCallback(Top.task, Top.next)
  /\ stack' = Tail(stack)
  /\ UNCHANGED <<loopState, queues, exc, runs, started, history, promiseVars>>

-----------------------------------------------------------------------------
(* Making promises.                                                         *)

Make(q, how, from) ==
  /\ origin[q] = "none"
  /\ origin' = [origin EXCEPT ![q] = how]
  /\ src'    = [src EXCEPT ![q] = from]

\* Promise(executor): the executor runs inside the constructor.
NewPromise(q) ==
  /\ Running("Code")
  /\ Make(q, "executor", None)
  /\ stack' = Push(Code(q), stack)
  /\ UNCHANGED <<loopState, queues, exc, runs, started, history,
                 pstate, value, callbackLists>>

\* Native executors that settle at once: nobody can have a callback on q yet.
MakeSettled(q, how, outcome, v) ==
  /\ Running("Code")
  /\ Make(q, how, None)
  /\ pstate' = [pstate EXCEPT ![q] = outcome]
  /\ value'  = [value EXCEPT ![q] = v]
  /\ UNCHANGED <<loopVars, callbackLists>>

\* Promise.resolve(v) for a v that is not itself a promise.
PromiseResolve(q, v) == MakeSettled(q, "resolve", "FULFILLED", v)

\* Promise.reject(v): line 216 takes the executor's argument 0, its resolve.
PromiseReject(q, v) == MakeSettled(q, "reject", "FULFILLED", v)

\* readFile: reads synchronously, then resolves with the content or rejects.
ReadFile(q, v) ==
  \/ MakeSettled(q, "readFile", "FULFILLED", v)
  \/ MakeSettled(q, "readFile", "REJECTED", Error)

-----------------------------------------------------------------------------
(* then and catch.  The executor of the derived promise is native code.     *)

\* A faulty variant: `then` forgets the callback if the source is settled.
ThenRegistersOnly(p, q) ==
  /\ onFulfilledCallbacks' = [onFulfilledCallbacks EXCEPT ![p] = Append(@, q)]
  /\ stack' = stack
  /\ UNCHANGED <<loopState, queues, pstate, value, onRejectedCallbacks>>

\* Lines 104-112.
ThenExecutor(p, q) ==
  \/ /\ pstate[p] = "FULFILLED"
     /\ EnqueueMicroTask(q, Push(Creating(q), stack))
     /\ UNCHANGED <<pstate, value, callbackLists>>
  \/ /\ pstate[p] = "REJECTED"
     /\ pstate' = [pstate EXCEPT ![q] = "REJECTED"]
     /\ value'  = [value EXCEPT ![q] = value[p]]
     /\ UNCHANGED <<loopState, queues, stack, callbackLists>>
  \/ /\ pstate[p] = "PENDING"
     /\ onFulfilledCallbacks' = [onFulfilledCallbacks EXCEPT ![p] = Append(@, q)]
     /\ UNCHANGED <<loopState, queues, stack, pstate, value, onRejectedCallbacks>>

Then(p, q) ==
  /\ Running("Code")
  /\ Visible(p) /\ Make(q, "then", p)
  /\ ThenExecutor(p, q)
  /\ UNCHANGED <<exc, runs, started, history>>

\* A faulty variant: `catch` runs its callback whatever the outcome.
CatchAnyOutcome(p, q) ==
  \/ /\ pstate[p] # "PENDING"
     /\ EnqueueMicroTask(q, Push(Creating(q), stack))
     /\ UNCHANGED callbackLists
  \/ /\ pstate[p] = "PENDING"
     /\ onRejectedCallbacks' = [onRejectedCallbacks EXCEPT ![p] = Append(@, q)]
     /\ UNCHANGED <<loopState, queues, stack, onFulfilledCallbacks>>

\* Lines 143-147: on a fulfilled source the callback is stored, for nobody.
CatchExecutor(p, q) ==
  \/ /\ pstate[p] = "REJECTED"
     /\ EnqueueMicroTask(q, Push(Creating(q), stack))
     /\ UNCHANGED callbackLists
  \/ /\ pstate[p] # "REJECTED"
     /\ onRejectedCallbacks' = [onRejectedCallbacks EXCEPT ![p] = Append(@, q)]
     /\ UNCHANGED <<loopState, queues, stack, onFulfilledCallbacks>>

Catch(p, q) ==
  /\ Running("Code")
  /\ Visible(p) /\ Make(q, "catch", p)
  /\ CatchExecutor(p, q)
  /\ UNCHANGED <<exc, runs, started, history, pstate, value>>

-----------------------------------------------------------------------------
(* Returning from, and throwing out of, the code on the top of the stack.   *)

\* A handler returns v: still inside its try block, q is resolved with v.
HandlerReturns(q, v) ==
  /\ InCode(q)
  /\ origin[q] \in Derived
  /\ TrySettle(q, "FULFILLED", v, Push(Callback(q), Tail(stack)))
  /\ UNCHANGED <<loopState, queues, exc, runs, started, history>>

\* An executor returns: so does CreatePyPromise, with the new promise.
ExecutorReturns(q) ==
  /\ InCode(q)
  /\ origin[q] = "executor"
  /\ stack' = Tail(stack)
  /\ UNCHANGED <<loopState, queues, exc, runs, started, history, promiseVars>>

\* CreatePyPromise, or a callback whose resolve is done, returns.
NativeReturns ==
  /\ Running("Creating") \/ Running("Callback")
  /\ stack' = Tail(stack)
  /\ UNCHANGED <<loopState, queues, exc, runs, started, history, promiseVars>>

\* A task of the host returns.
TaskDone(t) ==
  /\ InCode(t)
  /\ stack' = Tail(stack)
  /\ UNCHANGED <<loopState, queues, exc, runs, started, history, promiseVars>>

\* The try blocks: CreatePyPromise, lines 69-77, and the callbacks, lines
\* 90-102 and 127-140.
InTry(q) ==
  /\ exc /\ stack # <<>>
  /\ Top \in {Code(q), Callback(q), Creating(q)}

\* A faulty variant: the exception is swallowed and q is left as it is.
SwallowException(q) ==
  /\ InTry(q)
  /\ exc' = FALSE
  /\ stack' = Tail(stack)
  /\ UNCHANGED <<loopState, queues, runs, started, history, promiseVars>>

\* The exception is caught and q rejected with it.  The reject is outside the
\* try block: what it throws propagates further.
CatchException(q) ==
  /\ InTry(q)
  /\ exc' = FALSE
  /\ TrySettle(q, "REJECTED", Error, Tail(stack))
  /\ UNCHANGED <<loopState, queues, runs, started, history>>

Propagate ==
  /\ ~\E q \in Promise : InTry(q)
  /\ Unwind
  /\ UNCHANGED promiseVars

-----------------------------------------------------------------------------
Next ==
  \/ HostRun /\ UNCHANGED promiseVars
  \/ ModuleReturns /\ UNCHANGED promiseVars
  \/ RunMicroTask /\ UNCHANGED promiseVars
  \/ RunMacroTask /\ UNCHANGED promiseVars
  \/ RunIdle /\ UNCHANGED promiseVars
  \/ RunStopped /\ UNCHANGED promiseVars
  \/ CodeEnqueuesTask /\ UNCHANGED promiseVars
  \/ Stop /\ UNCHANGED promiseVars
  \/ Throw /\ UNCHANGED promiseVars
  \/ SettlingEnqueues \/ SettlingDone \/ NativeReturns \/ Propagate
  \/ \E t \in MacroTask : TaskDone(t)
  \/ \E q \in Promise : NewPromise(q) \/ ExecutorReturns(q) \/ CatchException(q)
  \/ \E p, q \in Promise : Then(p, q) \/ Catch(p, q)
  \/ \E q \in Promise, v \in Value :
       \/ PromiseResolve(q, v) \/ PromiseReject(q, v) \/ ReadFile(q, v)
       \/ HandlerReturns(q, v)
       \/ CallSettler(q, "FULFILLED", v) \/ CallSettler(q, "REJECTED", v)

Spec == Init /\ [][Next]_vars

\* One thread that keeps executing: user code returns, native code goes on.
FairSpec == Spec /\ WF_vars(Next)

-----------------------------------------------------------------------------
TypeOK ==
  /\ loopState \in {"Stopped", "Running"}
  /\ microTaskQueue \in Seq(Promise)
  /\ macroTaskQueue \in Seq(MacroTask)
  /\ stack \in Seq(Frame)
  /\ exc \in BOOLEAN /\ runs \in 0..MaxRuns
  /\ started \in Seq(Task)
  /\ stopCalled \in BOOLEAN /\ escaped \in BOOLEAN
  /\ origin \in [Promise -> Origin]
  /\ src \in [Promise -> Promise \cup {None}]
  /\ pstate \in [Promise -> {"PENDING", "FULFILLED", "REJECTED"}]
  /\ value \in [Promise -> Value \cup {Error, None}]
  /\ onFulfilledCallbacks \in [Promise -> Seq(Promise)]
  /\ onRejectedCallbacks \in [Promise -> Seq(Promise)]

\* A settled promise keeps its state and its value, whoever calls its resolve
\* and reject afterwards: a second call, the handler's result after an
\* exception already rejected it, an exception after it was resolved.
SettledForGood ==
  [][\A p \in Promise : pstate[p] # "PENDING" =>
       pstate'[p] = pstate[p] /\ value'[p] = value[p]]_vars

\* The outcome of its source that makes the handler of q run.
Awaited(q) == IF origin[q] = "then" THEN "FULFILLED" ELSE "REJECTED"

Applicable(q) == origin[q] \in Derived /\ pstate[src[q]] = Awaited(q)

\* A handler runs only for the outcome it was registered for, after the source
\* has settled, although callbacks are stored, queued and run at three
\* different moments, in nested activations of the loop.
HandlerMatchesOutcome ==
  \A q \in Promise : Contains(started, q) => Applicable(q)

\* The callbacks of one promise registered while it was pending run in the
\* order of registration, also when ForEach is cut by nested runs of the loop.
HandlersInOrder ==
  \A p \in Promise : \A i, j \in 1..Len(Callbacks(p)) :
    i < j => \A b \in 1..Len(started) : started[b] = Callbacks(p)[j] =>
               \E a \in 1..b - 1 : started[a] = Callbacks(p)[i]

\* ForEach has still to enqueue the callback of q.
Owed(q) ==
  \E i \in 1..Len(stack) :
    /\ stack[i].fn = "Settling" /\ stack[i].task = src[q]
    /\ \E j \in stack[i].next..Len(Callbacks(src[q])) : Callbacks(src[q])[j] = q

\* No callback is lost: unless an exception has torn down a run of the loop,
\* the handler of a derived promise whose source settled as awaited has run,
\* is queued, or is about to be queued.
NoHandlerLost ==
  ~escaped => \A q \in Promise : Applicable(q) =>
    Contains(started, q) \/ Contains(microTaskQueue, q) \/ Owed(q)

\* When a handler has ended, by returning or throwing, also in a program that
\* later crashes, the promise derived from it is settled.
HandlerSettles ==
  \A q \in Promise :
    Contains(started, q) /\ pstate[q] = "PENDING" =>
      \E i \in 1..Len(stack) : stack[i] = Code(q)

\* At the end of a program that neither threw out of the loop nor stopped it,
\* the only derived promises left pending are those whose handler awaits the
\* other outcome: `then` registered before a rejection, or `catch` on a
\* promise that is not rejected.
PendingExplained ==
  stack = <<>> /\ runs > 0 /\ ~exc /\ ~escaped /\ ~stopCalled =>
    \A q \in Promise :
      origin[q] \in Derived /\ pstate[q] = "PENDING" => ~Applicable(q)

-----------------------------------------------------------------------------
(* The inductive invariant behind the properties above.                     *)

\* The callback of q has been taken out of its source's list.
Released(q) == Contains(microTaskQueue, q) \/ Contains(started, q)

\* A promise nobody made yet is pending; a derived one has a source.
OriginOK ==
  \A q \in Promise :
    /\ origin[q] = "none" => pstate[q] = "PENDING"
    /\ origin[q] \in Derived => src[q] \in Promise

\* A callback list holds callbacks derived from its promise, each of them once.
ListsOK ==
  \A p \in Promise :
    /\ IsInjective(onFulfilledCallbacks[p]) /\ IsInjective(onRejectedCallbacks[p])
    /\ \A q \in Promise :
         /\ Contains(onFulfilledCallbacks[p], q) => origin[q] = "then" /\ src[q] = p
         /\ Contains(onRejectedCallbacks[p], q) => origin[q] = "catch" /\ src[q] = p

\* The callbacks of p that ForEach has still to visit have not been released.
Unreleased(p, next) ==
  \A j \in next..Len(Callbacks(p)) : ~Released(Callbacks(p)[j])

\* What an activation on the stack says about its promise.
FrameOK(f) ==
  /\ f.fn = "Settling" =>
       /\ origin[f.task] # "none" /\ pstate[f.task] # "PENDING"
       /\ Unreleased(f.task, f.next)
  /\ f.fn = "Callback" => pstate[f.task] # "PENDING"
  /\ f.fn = "Creating" => Applicable(f.task)
  /\ f.fn = "Code" /\ f.task \in Promise =>
       \/ origin[f.task] = "executor"
       \/ Applicable(f.task) /\ Contains(started, f.task)

StackOK == \A i \in 1..Len(stack) : FrameOK(stack[i])

\* Only applicable callbacks leave their list.
ReleasedOK == \A q \in Promise : Released(q) => Applicable(q)

\* The callbacks of a promise are visited by one ForEach only.
SettlingOK ==
  \A i, k \in 1..Len(stack) :
    /\ stack[i].fn = "Settling" /\ stack[k].fn = "Settling"
    /\ stack[i].task = stack[k].task
    => i = k

\* Every task is at most once in its queue or among the started.
OnceOK ==
  /\ IsInjective(microTaskQueue) /\ IsInjective(macroTaskQueue) /\ IsInjective(started)
  /\ \A t \in Task :
       Contains(started, t) => ~Contains(microTaskQueue, t) /\ ~Contains(macroTaskQueue, t)

PromiseInv ==
  OriginOK /\ ListsOK /\ StackOK /\ ReleasedOK /\ SettlingOK /\ OnceOK

-----------------------------------------------------------------------------
(* What else must be known to see that no handler is lost or overtaken.     *)

\* The module's code is at the bottom of the stack.
ModuleAtBottom == \A i \in 1..Len(stack) : stack[i] = Code(Module) => i = Len(stack)

\* ForEach is interrupted by activations of Run() only, so an exception can
\* leave it only after it has left one of them.
ForEachCallsRun ==
  /\ \A i \in 1..Len(stack) - 1 : stack[i + 1].fn = "Settling" => stack[i] \in RunFrame
  /\ exc /\ ~escaped /\ stack # <<>> => Head(stack).fn # "Settling"

\* Promises are derived from promises that have been made, and wait in the list
\* for the outcome that they were registered for.
Registered ==
  \A q \in Promise :
    /\ origin[q] \in Derived => origin[src[q]] # "none"
    /\ origin[q] = "then" /\ pstate[src[q]] = "PENDING" =>
         Contains(onFulfilledCallbacks[src[q]], q)
    /\ origin[q] = "catch" /\ pstate[src[q]] = "PENDING" =>
         Contains(onRejectedCallbacks[src[q]], q)

\* ForEach has released the callbacks that it is past.
VisitedReleased ==
  \A i \in 1..Len(stack) : stack[i].fn = "Settling" =>
    \A j \in 1..stack[i].next - 1 : Released(Callbacks(stack[i].task)[j])

\* The callbacks of one promise that wait in the queue are in the order of
\* registration, and behind those that have run.
QueuedInOrder ==
  \A p \in Promise : \A i, j \in 1..Len(Callbacks(p)) :
    i < j => \A b \in 1..Len(microTaskQueue) : microTaskQueue[b] = Callbacks(p)[j] =>
               \/ Contains(started, Callbacks(p)[i])
               \/ \E a \in 1..b - 1 : microTaskQueue[a] = Callbacks(p)[i]

DeliveryInv ==
  /\ PromiseInv
  /\ ModuleAtBottom /\ ForEachCallsRun /\ Registered
  /\ VisitedReleased /\ QueuedInOrder
  /\ HandlerSettles /\ NoHandlerLost /\ HandlersInOrder

-----------------------------------------------------------------------------
Contract == INSTANCE PromiseContract
              WITH ran <- {q \in Promise : Contains(started, q)}

\* The queues, lists and nested runs together do what promises are for: every
\* step is a step of the contract or invisible to it.
ImplementsContract == Contract!Spec

\* A handler whose source has settled as awaited gets its promise settled.
HandlerEventuallySettles ==
  \A q \in Promise :
    Applicable(q) ~> pstate[q] # "PENDING" \/ Crashed \/ escaped \/ stopCalled

\* Promise.reject makes a rejected promise (it is registered as "reject" in
\* PyPromise.cpp:181, and line 216 names the argument it calls `reject`).
RejectRejects ==
  \A q \in Promise : origin[q] = "reject" => pstate[q] = "REJECTED"
=============================================================================
