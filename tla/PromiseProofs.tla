---------------------------- MODULE PromiseProofs ----------------------------
(***************************************************************************)
(* Proofs about promises (module Promise): type correctness, the wake-up   *)
(* discipline of the loop they drive, the inductive invariant PromiseInv   *)
(* and what follows from it: no handler runs twice, and none runs for the  *)
(* wrong outcome; then that promises implement their contract (module      *)
(* PromiseContract), and deliver what was registered with them: no         *)
(* callback is lost, none overtakes another, and a handler that has ended  *)
(* has settled its promise.                                                *)
(*                                                                         *)
(* The argument for PromiseInv: what is known of a promise only grows      *)
(* (Mono), so what an activation on the stack relies on stays true.  The   *)
(* exception is the callbacks that a ForEach has still to visit: they stay *)
(* unreleased because only that ForEach releases them.                     *)
(*                                                                         *)
(* The contract: every step of module Promise is a step of the contract or *)
(* leaves what the contract speaks of unchanged.                           *)
(*                                                                         *)
(* Delivery: a callback waits in its source's list while the source is     *)
(* pending (Registered), is owed by one ForEach when the source settles,   *)
(* waits in the queue, and starts.  What a step does to the stack          *)
(* (StackStep) and to the queue (QueueStep) is shown once; each part of    *)
(* DeliveryInv follows from these two without going through the actions.   *)
(* A ForEach ends early only by an exception that has left a Run() before: *)
(* nothing but Run() is called by it (ForEachCallsRun).                    *)
(***************************************************************************)
EXTENDS Promise, EventLoopProofs

-----------------------------------------------------------------------------
(* Type correctness.                                                        *)

TypedPromises ==
  /\ origin \in [Promise -> Origin]
  /\ src \in [Promise -> Promise \cup {None}]
  /\ pstate \in [Promise -> {"PENDING", "FULFILLED", "REJECTED"}]
  /\ value \in [Promise -> Value \cup {Error, None}]
  /\ onFulfilledCallbacks \in [Promise -> Seq(Promise)]
  /\ onRejectedCallbacks \in [Promise -> Seq(Promise)]

LEMMA TypeOKIs == TypeOK <=> TypedLoop(Frame) /\ TypedPromises
BY DEF TypeOK, TypedLoop, TypedPromises, Promise

LEMMA TypeOKNext == ASSUME TypedLoop(Frame)', TypedPromises' PROVE TypeOK'
BY DEF TypeOK, TypedLoop, TypedPromises, Promise

LEMMA PromiseFrames ==
  /\ LoopFrame \subseteq Frame /\ RunFrame \subseteq Frame
  /\ \A q \in Promise :
       /\ Code(q) \in Frame /\ Creating(q) \in Frame /\ Callback(q) \in Frame
       /\ Code(q) \notin RunFrame /\ Creating(q) \notin RunFrame
       /\ Callback(q) \notin RunFrame
  /\ \A p \in Promise, n \in Nat \ {0} :
       Settling(p, n) \in Frame /\ Settling(p, n) \notin RunFrame
  /\ \A f \in Frame : f \in RunFrame <=> f.fn = "Run"
<1>1. \A f \in SettlingFrame \cup NativeFrame : f \notin RunFrame /\ f.fn # "Run"
  BY DEF SettlingFrame, NativeFrame, RunFrame, Run
<1>2. \A p \in Promise, n \in Nat \ {0} : Settling(p, n) \in SettlingFrame
  BY DEF Settling, SettlingFrame
<1>3. \A q \in Promise : Creating(q) \in NativeFrame /\ Callback(q) \in NativeFrame
  BY DEF Creating, Callback, NativeFrame
<1> QED BY <1>1, <1>2, <1>3, FrameTypes DEF Frame, Promise, Task

\* A frame of a promise's resolve or reject holds a promise and a position.
LEMMA SettlingTypes ==
  \A f \in Frame : f.fn = "Settling" =>
    /\ f \in SettlingFrame /\ f.task \in Promise /\ f.next \in Nat \ {0}
    /\ f = Settling(f.task, f.next)
BY DEF Frame, SettlingFrame, NativeFrame, LoopFrame, RunFrame, Code, Run, Settling

LEMMA TypedSettle ==
  ASSUME TypeOK, NEW p \in Promise, NEW outcome \in {"FULFILLED", "REJECTED"},
         NEW v \in Value \cup {Error}, NEW s \in Seq(Frame),
         TrySettle(p, outcome, v, s), exc' \in BOOLEAN,
         UNCHANGED <<loopState, queues, runs, started, history>>
  PROVE  TypeOK'
<1>1. Push(Settling(p, 1), s) \in Seq(Frame)
  BY PushLemma, PromiseFrames
<1>2. CASE Pending(p)
  BY <1>1, <1>2 DEF TrySettle, Settle, TypeOK, queues, history, callbackLists
<1>3. CASE ~Pending(p)
  BY <1>3 DEF TrySettle, TypeOK, queues, history, promiseVars, callbackLists
<1> QED BY <1>2, <1>3

LEMMA TypedMake ==
  ASSUME TypedPromises, NEW q \in Promise, NEW how \in Origin,
         NEW from \in Promise \cup {None}, Make(q, how, from)
  PROVE  origin' \in [Promise -> Origin] /\ src' \in [Promise -> Promise \cup {None}]
BY DEF TypedPromises, Make

\* The executors of then and catch.
LEMMA TypedDerive ==
  ASSUME TypeOK, NEW p \in Promise, NEW q \in Promise, Then(p, q) \/ Catch(p, q)
  PROVE  TypeOK'
<1>a. TypedLoop(Frame) /\ TypedPromises
  BY TypeOKIs
<1>0. Push(Creating(q), stack) \in Seq(Frame)
  BY <1>a, PushLemma, PromiseFrames DEF TypedLoop
<1>1. origin' \in [Promise -> Origin] /\ src' \in [Promise -> Promise \cup {None}]
  BY <1>a, TypedMake DEF Then, Catch, Origin
<1>2. Append(onFulfilledCallbacks[p], q) \in Seq(Promise)
      /\ Append(onRejectedCallbacks[p], q) \in Seq(Promise)
  BY <1>a DEF TypedPromises
<1>3. ASSUME EnqueueMicroTask(q, Push(Creating(q), stack)) PROVE TypedLoop(Frame)'
  BY <1>a, <1>0, <1>3, PromiseFrames, TypedEnqueue DEF Then, Catch, Promise
<1>4. CASE Then(p, q)
  <2>1. CASE EnqueueMicroTask(q, Push(Creating(q), stack))
             /\ UNCHANGED <<pstate, value, callbackLists>>
    BY <1>a, <1>1, <1>3, <2>1, TypeOKNext DEF TypedPromises, callbackLists
  <2>2. CASE /\ pstate' = [pstate EXCEPT ![q] = "REJECTED"]
             /\ value'  = [value EXCEPT ![q] = value[p]]
             /\ UNCHANGED <<loopState, queues, stack, callbackLists>>
    BY <1>a, <1>1, <1>4, <2>2, TypeOKNext
       DEF Then, TypedLoop, TypedPromises, queues, history, callbackLists
  <2>3. CASE /\ onFulfilledCallbacks' = [onFulfilledCallbacks EXCEPT ![p] = Append(@, q)]
             /\ UNCHANGED <<loopState, queues, stack, pstate, value, onRejectedCallbacks>>
    BY <1>a, <1>1, <1>2, <1>4, <2>3, TypeOKNext
       DEF Then, TypedLoop, TypedPromises, queues, history
  <2> QED BY <1>4, <2>1, <2>2, <2>3 DEF Then, ThenExecutor
<1>5. CASE Catch(p, q)
  <2>1. CASE EnqueueMicroTask(q, Push(Creating(q), stack)) /\ UNCHANGED callbackLists
    BY <1>a, <1>1, <1>3, <1>5, <2>1, TypeOKNext DEF Catch, TypedPromises, callbackLists
  <2>2. CASE /\ onRejectedCallbacks' = [onRejectedCallbacks EXCEPT ![p] = Append(@, q)]
             /\ UNCHANGED <<loopState, queues, stack, onFulfilledCallbacks>>
    BY <1>a, <1>1, <1>2, <1>5, <2>2, TypeOKNext
       DEF Catch, TypedLoop, TypedPromises, queues, history
  <2> QED BY <1>5, <2>1, <2>2 DEF Catch, CatchExecutor
<1> QED BY <1>4, <1>5

LEMMA TypedSettlingEnqueues ==
  ASSUME TypeOK, SettlingEnqueues PROVE TypeOK'
<1> DEFINE p == Top.task
           n == Top.next
<1>0. TypedLoop(Frame) /\ TypedPromises
  BY TypeOKIs
<1>1. stack # <<>> /\ Top \in Frame /\ Tail(stack) \in Seq(Frame)
  BY <1>0 DEF SettlingEnqueues, Running, TypedLoop, Top
<1>2. p \in Promise /\ n \in Nat \ {0} /\ n + 1 \in Nat \ {0}
  BY <1>1, SettlingTypes DEF SettlingEnqueues, Running, Top
<1>3. Callbacks(p) \in Seq(Promise)
  BY <1>0, <1>2 DEF Callbacks, TypedPromises
<1>4. Callbacks(p)[n] \in Promise
  BY <1>2, <1>3 DEF SettlingEnqueues, HasCallback
<1>5. Push(Settling(p, n + 1), Tail(stack)) \in Seq(Frame)
  BY <1>1, <1>2, PushLemma, PromiseFrames
<1>6. TypedLoop(Frame)'
  BY <1>0, <1>4, <1>5, PromiseFrames, TypedEnqueue DEF SettlingEnqueues, Promise
<1>7. TypedPromises'
  BY <1>0 DEF SettlingEnqueues, TypedPromises, promiseVars, callbackLists
<1> QED BY <1>6, <1>7, TypeOKNext

LEMMA TypedPopFrame ==
  ASSUME TypeOK, stack # <<>>, stack' = Tail(stack), exc' \in BOOLEAN,
         UNCHANGED <<loopState, queues, runs, started, history, promiseVars>>
  PROVE  TypeOK'
<1>1. TypedLoop(Frame)'
  BY TypeOKIs, TypedPop DEF TypedLoop, history
<1>2. TypedPromises'
  BY TypeOKIs DEF TypedPromises, promiseVars, callbackLists
<1> QED BY <1>1, <1>2, TypeOKNext

\* Every value of the state of the loop and of the promises has its type, for
\* all sets of promises, tasks and values.
THEOREM TypeCorrect == Spec => []TypeOK
<1>1. Init => TypeOK
  <2>1. <<>> \in Seq(Promise)
    OBVIOUS
  <2> QED BY <2>1, TypedInit, TypeOKIs DEF Init, TypedPromises, Origin
<1>2. TypeOK /\ [Next]_vars => TypeOK'
  <2> SUFFICES ASSUME TypeOK, [Next]_vars PROVE TypeOK'
    OBVIOUS
  <2>0. TypedLoop(Frame) /\ TypedPromises
    BY TypeOKIs
  <2>1. ASSUME UNCHANGED promiseVars, TypedLoop(Frame)' PROVE TypeOK'
    BY <2>0, <2>1, TypeOKNext DEF promiseVars, callbackLists, TypedPromises
  <2>2. CASE /\ RunMicroTask \/ RunMacroTask \/ RunIdle \/ RunStopped
             /\ UNCHANGED promiseVars
    BY <2>0, <2>1, <2>2, PromiseFrames, TypedRun
  <2>3. CASE /\ HostRun \/ ModuleReturns \/ CodeEnqueuesTask \/ Stop \/ Throw \/ Propagate
             /\ UNCHANGED promiseVars
    BY <2>0, <2>1, <2>3, PromiseFrames, TypedShared DEF Propagate
  <2>4. CASE SettlingEnqueues
    BY <2>4, TypedSettlingEnqueues
  <2>5. CASE SettlingDone \/ NativeReturns
    BY <2>0, <2>5, TypedPopFrame DEF SettlingDone, NativeReturns, Running, TypedLoop
  <2>6. CASE \E t \in MacroTask : TaskDone(t)
    BY <2>0, <2>6, TypedPopFrame DEF TaskDone, InCode, TypedLoop
  <2>7. ASSUME NEW q \in Promise, ExecutorReturns(q) PROVE TypeOK'
    BY <2>0, <2>7, TypedPopFrame DEF ExecutorReturns, InCode, TypedLoop
  <2>8. ASSUME NEW q \in Promise, NewPromise(q) PROVE TypeOK'
    <3>1. origin' \in [Promise -> Origin] /\ src' \in [Promise -> Promise \cup {None}]
      BY <2>0, <2>8, TypedMake DEF NewPromise, Origin
    <3>2. Push(Code(q), stack) \in Seq(Frame)
      BY <2>0, PushLemma, PromiseFrames DEF TypedLoop
    <3> QED BY <2>8, <3>1, <3>2 DEF NewPromise, TypeOK, queues, history, callbackLists
  <2>9. ASSUME NEW q \in Promise, CatchException(q) PROVE TypeOK'
    <3>1. Tail(stack) \in Seq(Frame)
      BY <2>0, <2>9 DEF CatchException, InTry, TypedLoop
    <3> QED BY <2>9, <3>1, TypedSettle DEF CatchException
  <2>10. ASSUME NEW p \in Promise, NEW q \in Promise, Then(p, q) \/ Catch(p, q)
         PROVE  TypeOK'
    BY <2>10, TypedDerive
  <2>11. ASSUME NEW q \in Promise, NEW v \in Value, HandlerReturns(q, v) PROVE TypeOK'
    <3>1. Tail(stack) \in Seq(Frame)
      BY <2>0, <2>11 DEF HandlerReturns, InCode, TypedLoop
    <3>2. Push(Callback(q), Tail(stack)) \in Seq(Frame)
      BY <3>1, PushLemma, PromiseFrames
    <3> QED BY <2>0, <2>11, <3>2, TypedSettle DEF HandlerReturns, TypedLoop
  <2>12. ASSUME NEW q \in Promise, NEW how \in {"resolve", "reject", "readFile"},
                NEW outcome \in {"FULFILLED", "REJECTED"}, NEW v \in Value \cup {Error},
                MakeSettled(q, how, outcome, v)
         PROVE  TypeOK'
    <3>1. origin' \in [Promise -> Origin] /\ src' \in [Promise -> Promise \cup {None}]
      BY <2>0, <2>12, TypedMake DEF MakeSettled, Origin
    <3> QED BY <2>12, <3>1 DEF MakeSettled, TypeOK, loopVars, queues, history, callbackLists
  <2>13. ASSUME NEW q \in Promise, NEW v \in Value,
                PromiseResolve(q, v) \/ PromiseReject(q, v) \/ ReadFile(q, v)
         PROVE  TypeOK'
    BY <2>12, <2>13 DEF PromiseResolve, PromiseReject, ReadFile
  <2>14. ASSUME NEW p \in Promise, NEW v \in Value,
                CallSettler(p, "FULFILLED", v) \/ CallSettler(p, "REJECTED", v)
         PROVE  TypeOK'
    BY <2>0, <2>14, TypedSettle DEF CallSettler, TrySettle, TypedLoop
  <2>15. CASE UNCHANGED vars
    BY <2>15 DEF vars, loopVars, queues, history, promiseVars, callbackLists, TypeOK
  <2> QED BY <2>2, <2>3, <2>4, <2>5, <2>6, <2>7, <2>8, <2>9, <2>10, <2>11, <2>13, <2>14,
             <2>15 DEF Next, Propagate
<1> QED BY <1>1, <1>2, PTL DEF Spec

-----------------------------------------------------------------------------
(* The wake-up discipline of the loop holds with promises for tasks: their  *)
(* frames are not activations of Run().                                     *)

\* Pushing or replacing a frame that is no activation of Run().
LEMMA PushRuns ==
  ASSUME NEW s \in Seq(Frame), NEW f \in Frame, f \notin RunFrame
  PROVE  /\ HasRun(Push(f, s)) <=> HasRun(s)
         /\ AtMostOneRun(s) => AtMostOneRun(Push(f, s))
BY PushOther DEF HasRun, AtMostOneRun

LEMMA PopRuns ==
  ASSUME NEW s \in Seq(Frame), s # <<>>, Head(s) \notin RunFrame
  PROVE  /\ Tail(s) \in Seq(Frame)
         /\ HasRun(Tail(s)) <=> HasRun(s)
         /\ AtMostOneRun(s) => AtMostOneRun(Tail(s))
BY PopOther DEF HasRun, AtMostOneRun

\* A settling call returns to a stack with the same activations of Run().
LEMMA WakeSettle ==
  ASSUME WakeInv, NEW p \in Promise, NEW outcome, NEW v, NEW s \in Seq(Frame),
         HasRun(s) <=> HasRun(stack), AtMostOneRun(stack) => AtMostOneRun(s),
         TrySettle(p, outcome, v, s), UNCHANGED <<loopState, queues, history>>
  PROVE  WakeInv'
<1>1. Settling(p, 1) \in Frame /\ Settling(p, 1) \notin RunFrame
  BY PromiseFrames
<1>2. HasRun(stack') <=> HasRun(s)
  BY <1>1, PushRuns DEF TrySettle, Settle
<1>3. AtMostOneRun(s) => AtMostOneRun(stack')
  BY <1>1, PushRuns DEF TrySettle, Settle
<1> QED BY <1>2, <1>3, SameRunsStep

LEMMA WakeSettlingEnqueues ==
  ASSUME TypeOK, WakeInv, SettlingEnqueues PROVE WakeInv'
<1> DEFINE f == Settling(Top.task, Top.next + 1)
<1>0. stack \in Seq(Frame) /\ stack # <<>> /\ Top = Head(stack) /\ Top \in Frame
      /\ Top.fn = "Settling" /\ loopState \in {"Stopped", "Running"}
  BY DEF TypeOK, SettlingEnqueues, Running, Top
<1>1. Top \notin RunFrame
  BY <1>0, PromiseFrames
<1>2. f \in Frame /\ f \notin RunFrame
  <2>1. Top.task \in Promise /\ Top.next + 1 \in Nat \ {0}
    BY <1>0, SettlingTypes
  <2> QED BY <2>1, PromiseFrames
<1>3. /\ Tail(stack) \in Seq(Frame)
      /\ HasRun(Tail(stack)) <=> HasRun(stack)
      /\ AtMostOneRun(stack) => AtMostOneRun(Tail(stack))
  BY <1>0, <1>1, PopRuns
<1>4. /\ HasRun(Push(f, Tail(stack))) <=> HasRun(stack)
      /\ AtMostOneRun(stack) => AtMostOneRun(Push(f, Tail(stack)))
  BY <1>2, <1>3, PushRuns
<1>5. Push(f, Tail(stack)) \in Seq(Frame) /\ Run("top") \in Frame
  BY <1>2, <1>3, PushLemma, PromiseFrames, FrameTypes
<1>6. WakeIfStopped(Push(f, Tail(stack))) /\ UNCHANGED history
  BY DEF SettlingEnqueues, EnqueueMicroTask
<1> QED BY <1>0, <1>4, <1>5, <1>6, WakeStep

LEMMA WakeDerive ==
  ASSUME TypeOK, WakeInv, NEW p \in Promise, NEW q \in Promise, Then(p, q) \/ Catch(p, q)
  PROVE  WakeInv'
<1>0. stack \in Seq(Frame) /\ loopState \in {"Stopped", "Running"}
  BY DEF TypeOK
<1>1. UNCHANGED history
  BY DEF Then, Catch
<1>2. CASE EnqueueMicroTask(q, Push(Creating(q), stack))
  <2>1. Creating(q) \in Frame /\ Creating(q) \notin RunFrame /\ Run("top") \in Frame
    BY PromiseFrames, FrameTypes
  <2>2. /\ Push(Creating(q), stack) \in Seq(Frame)
        /\ HasRun(Push(Creating(q), stack)) <=> HasRun(stack)
        /\ AtMostOneRun(stack) => AtMostOneRun(Push(Creating(q), stack))
    BY <1>0, <2>1, PushRuns, PushLemma
  <2> QED BY <1>0, <1>1, <1>2, <2>1, <2>2, WakeStep DEF EnqueueMicroTask
<1>3. CASE UNCHANGED <<loopState, queues, stack>>
  BY <1>1, <1>3, SameRunsStep
<1> QED BY <1>2, <1>3 DEF Then, ThenExecutor, Catch, CatchExecutor

\* The loop's state is honest, a stopped loop has nothing to do, and Run() is
\* not nested, while nobody calls Stop(), whatever promises do.
THEOREM PromiseWakeDiscipline == Spec => []WakeInv
<1>1. Init => WakeInv
  BY WakeInvInit DEF Init
<1>2. TypeOK /\ WakeInv /\ [Next]_vars => WakeInv'
  <2> SUFFICES ASSUME TypeOK, WakeInv, [Next]_vars PROVE WakeInv'
    OBVIOUS
  <2>0. /\ stack \in Seq(Frame) /\ loopState \in {"Stopped", "Running"}
        /\ microTaskQueue \in Seq(MicroTask) /\ macroTaskQueue \in Seq(MacroTask)
    BY DEF TypeOK, Promise
  <2>1. ASSUME stack # <<>>, Head(stack) \notin RunFrame, stack' = Tail(stack),
               UNCHANGED <<loopState, queues, history>>
        PROVE  WakeInv'
    BY <2>0, <2>1, PopCodeStep
  <2>2. CASE RunMicroTask \/ RunMacroTask \/ RunIdle \/ RunStopped
    BY <2>0, <2>2, PromiseFrames, WakeRun
  <2>3. CASE HostRun \/ ModuleReturns \/ Stop \/ Throw \/ Propagate
    BY <2>0, <2>3, WakeHostRun, WakeModuleReturns, WakeStopThrow, WakeUnwind DEF Propagate
  <2>4. CASE CodeEnqueuesTask
    BY <2>0, <2>4, WakeStep, PromiseFrames, FrameTypes DEF CodeEnqueuesTask, EnqueueTask
  <2>5. CASE SettlingEnqueues
    BY <2>5, WakeSettlingEnqueues
  <2>6. CASE SettlingDone \/ NativeReturns
    <3>1. stack # <<>> /\ Head(stack) \in Frame /\ Head(stack).fn # "Run"
      BY <2>0, <2>6 DEF SettlingDone, NativeReturns, Running
    <3> QED BY <2>1, <2>6, <3>1, PromiseFrames DEF SettlingDone, NativeReturns
  <2>7. ASSUME NEW t \in Task, InCode(t), stack' = Tail(stack),
               UNCHANGED <<loopState, queues, history>>
        PROVE  WakeInv'
    <3>1. stack # <<>> /\ Head(stack) \notin RunFrame
      BY <2>7, FrameTypes DEF InCode
    <3> QED BY <2>1, <2>7, <3>1
  <2>8. CASE \/ \E t \in MacroTask : TaskDone(t)
             \/ \E q \in Promise : ExecutorReturns(q)
    BY <2>7, <2>8 DEF TaskDone, ExecutorReturns, Task, Promise
  <2>9. ASSUME NEW q \in Promise, NewPromise(q) PROVE WakeInv'
    <3>1. /\ HasRun(stack') <=> HasRun(stack)
          /\ AtMostOneRun(stack) => AtMostOneRun(stack')
      BY <2>0, <2>9, PushRuns, PromiseFrames DEF NewPromise
    <3> QED BY <2>9, <3>1, SameRunsStep DEF NewPromise
  <2>10. ASSUME NEW q \in Promise, CatchException(q) PROVE WakeInv'
    <3>1. stack # <<>> /\ Head(stack) \notin RunFrame
      BY <2>10, PromiseFrames DEF CatchException, InTry, Top
    <3> QED BY <2>0, <2>10, <3>1, PopRuns, WakeSettle DEF CatchException
  <2>11. ASSUME NEW p \in Promise, NEW q \in Promise, Then(p, q) \/ Catch(p, q)
         PROVE  WakeInv'
    BY <2>11, WakeDerive
  <2>12. ASSUME NEW q \in Promise, NEW v \in Value, HandlerReturns(q, v) PROVE WakeInv'
    <3>1. stack # <<>> /\ Head(stack) \notin RunFrame
      BY <2>12, PromiseFrames DEF HandlerReturns, InCode
    <3>2. Callback(q) \in Frame /\ Callback(q) \notin RunFrame
      BY PromiseFrames
    <3>3. /\ Push(Callback(q), Tail(stack)) \in Seq(Frame)
          /\ HasRun(Push(Callback(q), Tail(stack))) <=> HasRun(stack)
          /\ AtMostOneRun(stack) => AtMostOneRun(Push(Callback(q), Tail(stack)))
      BY <2>0, <3>1, <3>2, PopRuns, PushRuns, PushLemma
    <3> QED BY <2>12, <3>3, WakeSettle DEF HandlerReturns
  <2>13. CASE \E q \in Promise, v \in Value :
                PromiseResolve(q, v) \/ PromiseReject(q, v) \/ ReadFile(q, v)
    BY <2>13, SameRunsStep
       DEF PromiseResolve, PromiseReject, ReadFile, MakeSettled, loopVars
  <2>14. ASSUME NEW p \in Promise, NEW v \in Value,
                CallSettler(p, "FULFILLED", v) \/ CallSettler(p, "REJECTED", v)
         PROVE  WakeInv'
    BY <2>0, <2>14, WakeSettle DEF CallSettler, TrySettle
  <2>15. CASE UNCHANGED vars
    BY <2>15, SameRunsStep DEF vars, loopVars
  <2> QED BY <2>2, <2>3, <2>4, <2>5, <2>6, <2>8, <2>9, <2>10, <2>11, <2>12, <2>13, <2>14,
             <2>15 DEF Next
<1> QED BY <1>1, <1>2, TypeCorrect, PTL DEF Spec

-----------------------------------------------------------------------------
(* Sequences.                                                               *)

LEMMA AppendOnce ==
  ASSUME NEW S, NEW q \in Seq(S), NEW t \in S, IsInjective(q), ~Contains(q, t)
  PROVE  IsInjective(Append(q, t))
<1>1. /\ Append(q, t) \in Seq(S)
      /\ DOMAIN Append(q, t) = 1..Len(q) + 1 /\ DOMAIN q = 1..Len(q)
      /\ Append(q, t)[Len(q) + 1] = t /\ Len(q) \in Nat
      /\ \A i \in 1..Len(q) : Append(q, t)[i] = q[i]
  OBVIOUS
<1>2. \A i \in 1..Len(q) : q[i] # t
  BY DEF Contains
<1>3. ASSUME NEW a \in 1..Len(q) + 1, NEW b \in 1..Len(q) + 1,
             Append(q, t)[a] = Append(q, t)[b]
      PROVE  a = b
  <2>1. CASE a \in 1..Len(q) /\ b \in 1..Len(q)
    BY <1>1, <1>3, <2>1 DEF IsInjective
  <2>2. CASE a = Len(q) + 1 \/ b = Len(q) + 1
    BY <1>1, <1>2, <1>3, <2>2
  <2> QED BY <1>1, <2>1, <2>2
<1>4. \A a, b \in DOMAIN Append(q, t) : Append(q, t)[a] = Append(q, t)[b] => a = b
  BY <1>1, <1>3
<1> QED BY <1>4 DEF IsInjective

LEMMA TailOnce ==
  ASSUME NEW S, NEW q \in Seq(S), q # <<>>, IsInjective(q)
  PROVE  IsInjective(Tail(q)) /\ ~Contains(Tail(q), Head(q))
<1>1. /\ Tail(q) \in Seq(S) /\ Head(q) = q[1]
      /\ Len(q) \in Nat \ {0} /\ Len(Tail(q)) = Len(q) - 1
      /\ DOMAIN Tail(q) = 1..Len(q) - 1 /\ DOMAIN q = 1..Len(q)
      /\ \A i \in 1..Len(q) - 1 : Tail(q)[i] = q[i + 1]
  OBVIOUS
<1>2. \A i \in 1..Len(q) - 1 : i + 1 \in 1..Len(q) /\ i + 1 # 1 /\ 1 \in 1..Len(q)
  BY <1>1
<1>3. IsInjective(Tail(q))
  <2> SUFFICES ASSUME NEW a \in 1..Len(q) - 1, NEW b \in 1..Len(q) - 1,
                      Tail(q)[a] = Tail(q)[b]
               PROVE  a = b
    BY <1>1 DEF IsInjective
  <2>1. a + 1 = b + 1
    BY <1>1, <1>2 DEF IsInjective
  <2> QED BY <2>1
<1>4. ~Contains(Tail(q), Head(q))
  <2> SUFFICES ASSUME NEW i \in 1..Len(q) - 1, Tail(q)[i] = q[1] PROVE FALSE
    BY <1>1 DEF Contains
  <2> QED BY <1>1, <1>2 DEF IsInjective
<1> QED BY <1>3, <1>4

\* Every element of s is in X.
All(s, X) == \A i \in 1..Len(s) : s[i] \in X

LEMMA PushAll ==
  ASSUME NEW S, NEW X, NEW s \in Seq(S), NEW f \in S, f \in X, All(s, X)
  PROVE  All(Push(f, s), X)
<1>0. /\ Len(s) \in Nat /\ Len(Push(f, s)) = Len(s) + 1
      /\ Push(f, s)[1] = f
      /\ \A i \in 2..Len(s) + 1 : Push(f, s)[i] = s[i - 1]
  BY DEF Push
<1> SUFFICES ASSUME NEW i \in 1..Len(s) + 1 PROVE Push(f, s)[i] \in X
  BY <1>0 DEF All
<1>1. CASE i = 1
  BY <1>0, <1>1
<1>2. CASE i \in 2..Len(s) + 1
  <2>1. i - 1 \in 1..Len(s)
    BY <1>0, <1>2
  <2> QED BY <1>0, <1>2, <2>1 DEF All
<1> QED BY <1>0, <1>1, <1>2

LEMMA TailAll ==
  ASSUME NEW S, NEW X, NEW s \in Seq(S), s # <<>>, All(s, X)
  PROVE  All(Tail(s), X) /\ Head(s) \in X
<1>0. /\ Len(s) \in Nat \ {0} /\ Len(Tail(s)) = Len(s) - 1 /\ Head(s) = s[1]
      /\ \A i \in 1..Len(s) - 1 : Tail(s)[i] = s[i + 1]
  BY TailLemma
<1>1. \A i \in 1..Len(s) - 1 : i + 1 \in 1..Len(s)
  BY <1>0
<1> QED BY <1>0, <1>1 DEF All

-----------------------------------------------------------------------------
(* The parts of the invariant in terms of frames on the stack.              *)

GoodFrame == {f \in Frame : FrameOK(f)}

SettlingOf(p) == {f \in Frame : f.fn = "Settling" /\ f.task = p}

LEMMA StackIs ==
  ASSUME TypeOK PROVE StackOK <=> All(stack, GoodFrame)
BY DEF TypeOK, StackOK, All, GoodFrame

LEMMA StackNext ==
  ASSUME TypeOK', All(stack', GoodFrame') PROVE StackOK'
BY DEF TypeOK, StackOK, All, GoodFrame

LEMMA SettlingIs ==
  ASSUME TypeOK PROVE SettlingOK <=> \A p \in Promise : AtMostOne(stack, SettlingOf(p))
<1>0. \A i \in 1..Len(stack) : stack[i] \in Frame
  BY DEF TypeOK
<1>1. \A i \in 1..Len(stack) : stack[i].fn = "Settling" => stack[i].task \in Promise
  BY <1>0, SettlingTypes
<1> QED BY <1>0, <1>1 DEF SettlingOK, AtMostOne, SettlingOf

LEMMA SettlingNext ==
  ASSUME TypeOK', \A p \in Promise : AtMostOne(stack', SettlingOf(p)) PROVE SettlingOK'
<1>0. \A i \in 1..Len(stack') : stack'[i] \in Frame
  BY DEF TypeOK
<1>1. \A i \in 1..Len(stack') : stack'[i].fn = "Settling" => stack'[i].task \in Promise
  BY <1>0, SettlingTypes
<1> QED BY <1>0, <1>1 DEF SettlingOK, AtMostOne, SettlingOf

-----------------------------------------------------------------------------
(* What is known of a promise only grows.                                   *)

Mono ==
  \A q \in Promise :
    /\ origin[q] # "none" => origin'[q] = origin[q] /\ src'[q] = src[q]
    /\ pstate[q] # "PENDING" =>
         /\ pstate'[q] = pstate[q] /\ value'[q] = value[q]
         /\ Callbacks(q)' = Callbacks(q)
    /\ Contains(started, q) => Contains(started', q)

LEMMA ApplicableStays ==
  ASSUME TypeOK, OriginOK, Mono, NEW q \in Promise, Applicable(q) PROVE Applicable(q)'
<1>1. origin[q] \in Derived /\ origin[q] # "none" /\ src[q] \in Promise
  BY DEF Applicable, OriginOK, Derived
<1>2. origin'[q] = origin[q] /\ src'[q] = src[q]
  BY <1>1 DEF Mono
<1>3. pstate[src[q]] # "PENDING"
  BY DEF Applicable, Awaited
<1>4. pstate'[src[q]] = pstate[src[q]]
  BY <1>1, <1>3 DEF Mono
<1> QED BY <1>1, <1>2, <1>4 DEF Applicable, Awaited

LEMMA CallbackTypes ==
  ASSUME TypeOK, NEW f \in Frame, f.fn = "Settling"
  PROVE  /\ Callbacks(f.task) \in Seq(Promise)
         /\ \A j \in f.next..Len(Callbacks(f.task)) :
              j \in 1..Len(Callbacks(f.task)) /\ Callbacks(f.task)[j] \in Promise
<1>1. f.task \in Promise /\ f.next \in Nat \ {0}
  BY SettlingTypes
<1>2. Callbacks(f.task) \in Seq(Promise)
  BY <1>1 DEF TypeOK, Callbacks
<1> QED BY <1>1, <1>2

\* The callbacks still to be visited by f are not released by this step.
Spares(f) ==
  f.fn = "Settling" =>
    \A j \in f.next..Len(Callbacks(f.task)), q \in Promise :
      q = Callbacks(f.task)[j] /\ Released(q)' => Released(q)

LEMMA FrameStays ==
  ASSUME TypeOK, OriginOK, Mono, NEW f \in GoodFrame, Spares(f) PROVE f \in GoodFrame'
<1>0. f \in Frame /\ FrameOK(f)
  BY DEF GoodFrame
<1>1. CASE f.fn = "Settling"
  <2>1. f.task \in Promise
    BY <1>0, <1>1, SettlingTypes
  <2>2. origin'[f.task] # "none" /\ pstate'[f.task] # "PENDING"
    BY <1>0, <1>1, <2>1 DEF FrameOK, Mono
  <2>3. Callbacks(f.task)' = Callbacks(f.task)
    BY <1>0, <1>1, <2>1 DEF FrameOK, Mono
  <2>4. \A j \in f.next..Len(Callbacks(f.task)) : \E q \in Promise :
          q = Callbacks(f.task)[j] /\ ~Released(q)'
    BY <1>0, <1>1, CallbackTypes DEF FrameOK, Unreleased, Spares
  <2>5. Unreleased(f.task, f.next)'
    BY <2>3, <2>4 DEF Unreleased, Released
  <2> QED BY <1>0, <1>1, <2>2, <2>5 DEF FrameOK, GoodFrame
<1>2. CASE f.fn # "Settling"
  <2>1. f.fn \in {"Callback", "Creating"} => f.task \in Promise
    BY <1>0 DEF Frame, NativeFrame, SettlingFrame, LoopFrame, RunFrame, Code, Run
  <2>2. f.fn = "Callback" => pstate'[f.task] # "PENDING"
    BY <1>0, <2>1 DEF FrameOK, Mono
  <2>3. f.fn = "Creating" => Applicable(f.task)'
    BY <1>0, <2>1, ApplicableStays DEF FrameOK
  <2>4. f.fn = "Code" /\ f.task \in Promise =>
          \/ origin'[f.task] = "executor"
          \/ Applicable(f.task)' /\ Contains(started', f.task)
    BY <1>0, ApplicableStays DEF FrameOK, Mono
  <2> QED BY <1>0, <1>2, <2>2, <2>3, <2>4 DEF FrameOK, GoodFrame
<1> QED BY <1>1, <1>2

LEMMA QuietMono ==
  ASSUME UNCHANGED promiseVars,
         \A q \in Promise : Contains(started, q) => Contains(started', q)
  PROVE  Mono
BY DEF Mono, promiseVars, callbackLists, Callbacks

\* Frames of the loop, of the module and of the host's tasks say nothing about
\* promises.
LEMMA LoopGood ==
  /\ \A f \in RunFrame : f \in GoodFrame /\ f \in GoodFrame'
  /\ \A c \in MacroTask \cup {Module} : Code(c) \in GoodFrame /\ Code(c) \in GoodFrame'
<1>1. \A f \in RunFrame : f \in Frame /\ f.fn = "Run"
  BY PromiseFrames
<1>2. \A c \in MacroTask \cup {Module} :
        Code(c) \in Frame /\ Code(c).fn = "Code" /\ Code(c).task \notin Promise
  BY PromiseFrames, FrameTypes, TasksAreDistinct DEF Code, Task, Promise
<1> QED BY <1>1, <1>2 DEF GoodFrame, FrameOK

\* Without a new release every activation keeps what it relies on.
LEMMA FramesStay ==
  ASSUME TypeOK, OriginOK, Mono, \A q \in Promise : Released(q)' => Released(q)
  PROVE  GoodFrame \subseteq GoodFrame'
<1> SUFFICES ASSUME NEW f \in GoodFrame PROVE f \in GoodFrame'
  OBVIOUS
<1>1. f \in Frame
  BY DEF GoodFrame
<1>2. Spares(f)
  BY <1>1, CallbackTypes DEF Spares
<1> QED BY <1>2, FrameStays

LEMMA ListsStay ==
  ASSUME TypeOK, ListsOK, Mono, UNCHANGED callbackLists PROVE ListsOK'
<1>1. \A q \in Promise :
        origin[q] \in {"then", "catch"} => origin'[q] = origin[q] /\ src'[q] = src[q]
  BY DEF Mono
<1> QED BY <1>1 DEF ListsOK, callbackLists

LEMMA ReleasedStay ==
  ASSUME TypeOK, OriginOK, ReleasedOK, Mono,
         \A q \in Promise : Released(q)' => Released(q) \/ Applicable(q)'
  PROVE  ReleasedOK'
<1> SUFFICES ASSUME NEW q \in Promise, Released(q)' PROVE Applicable(q)'
  BY DEF ReleasedOK
<1>1. CASE Released(q)
  BY <1>1, ApplicableStays DEF ReleasedOK
<1> QED BY <1>1

\* A step that only moves on the stack, from good frames to good frames.
LEMMA QuietStep ==
  ASSUME TypeOK, TypeOK', PromiseInv, OnceOK',
         UNCHANGED <<promiseVars, microTaskQueue, started>>,
         All(stack', GoodFrame), \A p \in Promise : AtMostOne(stack', SettlingOf(p))
  PROVE  PromiseInv'
<1>0. OriginOK /\ ListsOK /\ ReleasedOK
  BY DEF PromiseInv
<1>1. Mono /\ (\A q \in Promise : Released(q)' => Released(q))
  BY QuietMono DEF Released
<1>2. OriginOK'
  BY <1>0 DEF OriginOK, promiseVars
<1>3. ListsOK' /\ ReleasedOK'
  BY <1>0, <1>1, ListsStay, ReleasedStay DEF promiseVars
<1>4. All(stack', GoodFrame')
  BY <1>0, <1>1, FramesStay DEF All
<1>5. StackOK' /\ SettlingOK'
  BY <1>4, StackNext, SettlingNext
<1> QED BY <1>2, <1>3, <1>5 DEF PromiseInv

LEMMA OnceStay ==
  ASSUME OnceOK, UNCHANGED <<queues, started>> PROVE OnceOK'
BY DEF OnceOK, queues

\* The top frame is popped.
LEMMA PopStep ==
  ASSUME TypeOK, TypeOK', PromiseInv, stack # <<>>, stack' = Tail(stack),
         UNCHANGED <<promiseVars, queues, started>>
  PROVE  PromiseInv'
<1>0. stack \in Seq(Frame) /\ StackOK /\ SettlingOK /\ OnceOK
  BY DEF TypeOK, PromiseInv
<1>1. All(stack', GoodFrame)
  BY <1>0, StackIs, TailAll
<1>2. \A p \in Promise : AtMostOne(stack', SettlingOf(p))
  BY <1>0, SettlingIs, PopOther
<1> QED BY <1>0, <1>1, <1>2, OnceStay, QuietStep DEF queues

\* A good frame that is no settling is pushed on s.
LEMMA PushGood ==
  ASSUME NEW s \in Seq(Frame), NEW X, All(s, X),
         \A p \in Promise : AtMostOne(s, SettlingOf(p)),
         NEW f \in Frame, f \in X, f.fn # "Settling"
  PROVE  /\ Push(f, s) \in Seq(Frame)
         /\ All(Push(f, s), X)
         /\ \A p \in Promise : AtMostOne(Push(f, s), SettlingOf(p))
<1>1. \A p \in Promise : f \notin SettlingOf(p)
  BY DEF SettlingOf
<1>2. ASSUME NEW p \in Promise PROVE AtMostOne(Push(f, s), SettlingOf(p))
  BY <1>1, PushOther
<1> QED BY <1>2, PushAll, PushLemma

-----------------------------------------------------------------------------
(* The steps of the loop and of the host.                                   *)

LEMMA HostSteps ==
  ASSUME TypeOK, TypeOK', PromiseInv, UNCHANGED promiseVars,
         HostRun \/ ModuleReturns \/ Stop \/ Throw
  PROVE  PromiseInv'
<1>0. stack \in Seq(Frame) /\ StackOK /\ SettlingOK /\ OnceOK
  BY DEF TypeOK, PromiseInv
<1>1. UNCHANGED <<queues, started>>
  BY DEF HostRun, ModuleReturns, Stop, Throw
<1>2. CASE Stop \/ Throw
  <2>1. stack' = stack
    BY <1>2 DEF Stop, Throw
  <2>2. All(stack', GoodFrame) /\ \A p \in Promise : AtMostOne(stack', SettlingOf(p))
    BY <1>0, <2>1, StackIs, SettlingIs
  <2> QED BY <1>0, <1>1, <2>2, OnceStay, QuietStep DEF queues
<1>3. CASE HostRun \/ ModuleReturns
  <2>1. PICK f \in {Code(Module), Run("top")} : stack' = <<f>>
    BY <1>3 DEF HostRun, ModuleReturns
  <2>2. f \in GoodFrame /\ f.fn # "Settling"
    BY LoopGood, FrameTypes
  <2>3. All(stack', GoodFrame) /\ \A p \in Promise : AtMostOne(stack', SettlingOf(p))
    BY <2>1, <2>2 DEF All, AtMostOne, SettlingOf
  <2> QED BY <1>0, <1>1, <2>3, OnceStay, QuietStep DEF queues
<1> QED BY <1>2, <1>3

LEMMA EnqueuesTaskStep ==
  ASSUME TypeOK, TypeOK', PromiseInv, UNCHANGED promiseVars, CodeEnqueuesTask
  PROVE  PromiseInv'
<1>0. stack \in Seq(Frame) /\ StackOK /\ SettlingOK /\ OnceOK
      /\ macroTaskQueue \in Seq(MacroTask)
  BY DEF TypeOK, PromiseInv
<1>1. PICK t \in MacroTask : Unused(t) /\ EnqueueTask(t, stack)
  BY DEF CodeEnqueuesTask
<1>2. UNCHANGED <<microTaskQueue, started>>
  BY <1>1 DEF CodeEnqueuesTask, EnqueueTask
<1>3. OnceOK'
  <2>1. macroTaskQueue' = Append(macroTaskQueue, t) /\ IsInjective(macroTaskQueue')
    BY <1>0, <1>1, AppendOnce DEF OnceOK, EnqueueTask, Unused
  <2>2. \A u \in Task : Contains(macroTaskQueue', u) <=> Contains(macroTaskQueue, u) \/ u = t
    BY <1>0, <2>1, AppendQueue
  <2> QED BY <1>0, <1>1, <1>2, <2>1, <2>2 DEF OnceOK, Unused
<1>4. All(stack, GoodFrame) /\ \A p \in Promise : AtMostOne(stack, SettlingOf(p))
  BY <1>0, StackIs, SettlingIs
<1>5. All(stack', GoodFrame) /\ \A p \in Promise : AtMostOne(stack', SettlingOf(p))
  <2>1. CASE stack' = stack
    BY <1>4, <2>1
  <2>2. CASE stack' = Push(Run("top"), stack)
    <3>1. Run("top") \in Frame /\ Run("top") \in GoodFrame /\ Run("top").fn # "Settling"
      BY LoopGood, FrameTypes, PromiseFrames
    <3> QED BY <1>0, <1>4, <2>2, <3>1, PushGood
  <2> QED BY <1>1, <2>1, <2>2 DEF EnqueueTask, WakeIfStopped
<1> QED BY <1>2, <1>3, <1>5, QuietStep

\* The code of a task starts on top of the activation of Run() that invokes it.
LEMMA InvokeFrames ==
  ASSUME stack \in Seq(Frame), stack # <<>>, NEW r \in RunFrame, NEW X,
         RunFrame \subseteq X, All(Tail(stack), X),
         \A p \in Promise : AtMostOne(stack, SettlingOf(p)),
         NEW f \in Frame, f \in X, f.fn # "Settling"
  PROVE  /\ All(Push(f, Push(r, Tail(stack))), X)
         /\ \A p \in Promise : AtMostOne(Push(f, Push(r, Tail(stack))), SettlingOf(p))
<1>1. Tail(stack) \in Seq(Frame) /\ r \in Frame /\ r \in X /\ r.fn # "Settling"
  BY PromiseFrames
<1>2. \A p \in Promise : AtMostOne(Tail(stack), SettlingOf(p))
  BY PopOther
<1>3. /\ Push(r, Tail(stack)) \in Seq(Frame) /\ All(Push(r, Tail(stack)), X)
      /\ \A p \in Promise : AtMostOne(Push(r, Tail(stack)), SettlingOf(p))
  BY <1>1, <1>2, PushGood
<1> QED BY <1>3, PushGood

LEMMA RunMicroTaskStep ==
  ASSUME TypeOK, TypeOK', PromiseInv, UNCHANGED promiseVars, RunMicroTask
  PROVE  PromiseInv'
<1>0. /\ stack \in Seq(Frame) /\ stack # <<>>
      /\ microTaskQueue \in Seq(Promise) /\ microTaskQueue # <<>>
      /\ macroTaskQueue \in Seq(MacroTask) /\ started \in Seq(Task)
      /\ OriginOK /\ ListsOK /\ StackOK /\ ReleasedOK /\ SettlingOK /\ OnceOK
  BY DEF TypeOK, PromiseInv, RunMicroTask, Running
<1>1. PICK t \in Promise :
      /\ t = Head(microTaskQueue) /\ t \in Task /\ Contains(microTaskQueue, t)
      /\ microTaskQueue' = Tail(microTaskQueue) /\ macroTaskQueue' = macroTaskQueue
      /\ started' = Append(started, t)
      /\ stack' = Push(Code(t), Push(Run("drain"), Tail(stack)))
  BY <1>0, TailQueue DEF RunMicroTask, Task, Promise
<1>2. \A u : Contains(started', u) <=> Contains(started, u) \/ u = t
  BY <1>0, <1>1, AppendQueue
<1>3. \A u : Contains(microTaskQueue', u) => Contains(microTaskQueue, u)
  BY <1>0, <1>1, TailQueue
<1>4. IsInjective(microTaskQueue') /\ ~Contains(microTaskQueue', t)
  BY <1>0, <1>1, TailOnce DEF OnceOK
<1>5. ~Contains(macroTaskQueue, t) /\ ~Contains(started, t)
  <2>1. \A i \in 1..Len(macroTaskQueue) : macroTaskQueue[i] # t
    BY <1>0, <1>1, TasksAreDistinct DEF Promise
  <2>2. Contains(started, t) => ~Contains(microTaskQueue, t)
    BY <1>0, <1>1 DEF OnceOK
  <2> QED BY <1>1, <2>1, <2>2 DEF Contains
<1>6. OnceOK'
  <2>1. IsInjective(started')
    BY <1>0, <1>1, <1>5, AppendOnce DEF OnceOK
  <2>2. ASSUME NEW u \in Task, Contains(started', u)
        PROVE  ~Contains(microTaskQueue', u) /\ ~Contains(macroTaskQueue', u)
    <3>1. CASE u = t
      BY <1>1, <1>4, <1>5, <3>1
    <3>2. CASE Contains(started, u)
      <4>1. ~Contains(microTaskQueue, u) /\ ~Contains(macroTaskQueue, u)
        BY <1>0, <3>2 DEF OnceOK
      <4>2. Contains(microTaskQueue', u) => Contains(microTaskQueue, u)
        BY <1>3
      <4>3. macroTaskQueue' = macroTaskQueue
        BY <1>1
      <4> QED BY <4>1, <4>2, <4>3
    <3> QED BY <1>2, <2>2, <3>1, <3>2
  <2>3. IsInjective(macroTaskQueue')
    BY <1>0, <1>1 DEF OnceOK
  <2> QED BY <1>4, <2>1, <2>2, <2>3 DEF OnceOK
<1>7. Mono /\ (\A q \in Promise : Released(q)' => Released(q))
  <2>1. Mono
    BY <1>2, QuietMono
  <2>2. ASSUME NEW q \in Promise, Released(q)' PROVE Released(q)
    <3>1. CASE Contains(microTaskQueue', q)
      <4>1. Contains(microTaskQueue, q)
        BY <1>3, <3>1
      <4> QED BY <4>1 DEF Released
    <3>2. CASE Contains(started', q)
      <4>1. Contains(started, q) \/ q = t
        BY <1>2, <3>2
      <4>2. q = t => Contains(microTaskQueue, q)
        BY <1>1
      <4> QED BY <4>1, <4>2 DEF Released
    <3> QED BY <2>2, <3>1, <3>2 DEF Released
  <2> QED BY <2>1, <2>2
<1>8. OriginOK' /\ ListsOK' /\ ReleasedOK'
  BY <1>0, <1>7, ListsStay, ReleasedStay DEF OriginOK, promiseVars
<1>9. Code(t) \in GoodFrame'
  <2>0. Applicable(t)
    BY <1>0, <1>1 DEF ReleasedOK, Released
  <2>1. Applicable(t)'
    BY <1>0, <1>1, <1>7, <2>0, ApplicableStays
  <2>2. Contains(started', t)
    BY <1>2
  <2>3. Code(t) \in Frame /\ Code(t).fn = "Code" /\ Code(t).task = t
    BY <1>1, PromiseFrames DEF Code
  <2>4. FrameOK(Code(t))'
    BY <2>1, <2>2, <2>3 DEF FrameOK
  <2> QED BY <2>3, <2>4 DEF GoodFrame
<1>10. All(Tail(stack), GoodFrame')
  <2>1. All(Tail(stack), GoodFrame)
    BY <1>0, StackIs, TailAll
  <2> QED BY <1>0, <1>7, <2>1, FramesStay DEF All
<1>11. /\ All(stack', GoodFrame')
       /\ \A p \in Promise : AtMostOne(stack', SettlingOf(p))
  <2>1. RunFrame \subseteq GoodFrame' /\ Run("drain") \in RunFrame
    BY LoopGood, FrameTypes
  <2>2. Code(t) \in Frame /\ Code(t).fn # "Settling"
    BY <1>1, PromiseFrames, FrameTypes
  <2>3. \A p \in Promise : AtMostOne(stack, SettlingOf(p))
    BY <1>0, SettlingIs
  <2> QED BY <1>0, <1>1, <1>9, <1>10, <2>1, <2>2, <2>3, InvokeFrames
<1> QED BY <1>6, <1>8, <1>11, StackNext, SettlingNext DEF PromiseInv

LEMMA RunMacroTaskStep ==
  ASSUME TypeOK, TypeOK', PromiseInv, UNCHANGED promiseVars, RunMacroTask
  PROVE  PromiseInv'
<1>0. /\ stack \in Seq(Frame) /\ stack # <<>>
      /\ macroTaskQueue \in Seq(MacroTask) /\ macroTaskQueue # <<>>
      /\ microTaskQueue \in Seq(Promise) /\ started \in Seq(Task)
      /\ OriginOK /\ ListsOK /\ StackOK /\ ReleasedOK /\ SettlingOK /\ OnceOK
  BY DEF TypeOK, PromiseInv, RunMacroTask, Running
<1>1. PICK t \in MacroTask :
      /\ t = Head(macroTaskQueue) /\ t \in Task /\ Contains(macroTaskQueue, t)
      /\ macroTaskQueue' = Tail(macroTaskQueue) /\ microTaskQueue' = microTaskQueue
      /\ started' = Append(started, t)
      /\ stack' = Push(Code(t), Push(Run("top"), Tail(stack)))
  BY <1>0, TailQueue DEF RunMacroTask, Task
<1>2. \A u : Contains(started', u) <=> Contains(started, u) \/ u = t
  BY <1>0, <1>1, AppendQueue
<1>3. \A u : Contains(macroTaskQueue', u) => Contains(macroTaskQueue, u)
  BY <1>0, <1>1, TailQueue
<1>4. IsInjective(macroTaskQueue') /\ ~Contains(macroTaskQueue', t)
  BY <1>0, <1>1, TailOnce DEF OnceOK
<1>5. ~Contains(microTaskQueue, t) /\ ~Contains(started, t)
  <2>1. \A i \in 1..Len(microTaskQueue) : microTaskQueue[i] # t
    BY <1>0, <1>1, TasksAreDistinct DEF Promise
  <2>2. Contains(started, t) => ~Contains(macroTaskQueue, t)
    BY <1>0, <1>1 DEF OnceOK
  <2> QED BY <1>1, <2>1, <2>2 DEF Contains
<1>6. OnceOK'
  <2>1. IsInjective(started')
    BY <1>0, <1>1, <1>5, AppendOnce DEF OnceOK
  <2>2. ASSUME NEW u \in Task, Contains(started', u)
        PROVE  ~Contains(microTaskQueue', u) /\ ~Contains(macroTaskQueue', u)
    <3>1. CASE u = t
      BY <1>1, <1>4, <1>5, <3>1
    <3>2. CASE Contains(started, u)
      <4>1. ~Contains(microTaskQueue, u) /\ ~Contains(macroTaskQueue, u)
        BY <1>0, <3>2 DEF OnceOK
      <4>2. Contains(macroTaskQueue', u) => Contains(macroTaskQueue, u)
        BY <1>3
      <4>3. microTaskQueue' = microTaskQueue
        BY <1>1
      <4> QED BY <4>1, <4>2, <4>3
    <3> QED BY <1>2, <2>2, <3>1, <3>2
  <2>3. IsInjective(microTaskQueue')
    BY <1>0, <1>1 DEF OnceOK
  <2> QED BY <1>4, <2>1, <2>2, <2>3 DEF OnceOK
<1>7. Mono /\ (\A q \in Promise : Released(q)' => Released(q))
  <2>1. \A q \in Promise : q # t
    BY <1>1, TasksAreDistinct DEF Promise
  <2> QED BY <1>1, <1>2, <2>1, QuietMono DEF Released
<1>8. OriginOK' /\ ListsOK' /\ ReleasedOK'
  BY <1>0, <1>7, ListsStay, ReleasedStay DEF OriginOK, promiseVars
<1>10. All(Tail(stack), GoodFrame')
  <2>1. All(Tail(stack), GoodFrame)
    BY <1>0, StackIs, TailAll
  <2> QED BY <1>0, <1>7, <2>1, FramesStay DEF All
<1>11. /\ All(stack', GoodFrame')
       /\ \A p \in Promise : AtMostOne(stack', SettlingOf(p))
  <2>1. RunFrame \subseteq GoodFrame' /\ Run("top") \in RunFrame /\ Code(t) \in GoodFrame'
    BY <1>1, LoopGood, FrameTypes
  <2>2. Code(t) \in Frame /\ Code(t).fn # "Settling"
    BY <1>1, PromiseFrames, FrameTypes
  <2>3. \A p \in Promise : AtMostOne(stack, SettlingOf(p))
    BY <1>0, SettlingIs
  <2> QED BY <1>0, <1>1, <1>10, <2>1, <2>2, <2>3, InvokeFrames
<1> QED BY <1>6, <1>8, <1>11, StackNext, SettlingNext DEF PromiseInv

-----------------------------------------------------------------------------
(* Making promises.                                                         *)

\* A new promise has no callbacks registered and is in no list.
LEMMA NewIsUnknown ==
  ASSUME PromiseInv, NEW q \in Promise, origin[q] = "none"
  PROVE  /\ pstate[q] = "PENDING" /\ ~Released(q)
         /\ \A p \in Promise : /\ ~Contains(onFulfilledCallbacks[p], q)
                               /\ ~Contains(onRejectedCallbacks[p], q)
<1>1. ~Applicable(q)
  BY DEF Applicable, Derived
<1> QED BY <1>1 DEF PromiseInv, OriginOK, ReleasedOK, ListsOK

LEMMA MakeKeeps ==
  ASSUME TypeOK, NEW q \in Promise, NEW how, NEW from, Make(q, how, from)
  PROVE  /\ origin'[q] = how /\ src'[q] = from
         /\ \A r \in Promise : r # q => origin'[r] = origin[r] /\ src'[r] = src[r]
         /\ \A r \in Promise : origin[r] # "none" => origin'[r] = origin[r] /\ src'[r] = src[r]
BY DEF TypeOK, Make

LEMMA NewPromiseStep ==
  ASSUME TypeOK, TypeOK', PromiseInv, NEW q \in Promise, NewPromise(q)
  PROVE  PromiseInv'
<1>0. /\ stack \in Seq(Frame)
      /\ OriginOK /\ ListsOK /\ StackOK /\ ReleasedOK /\ SettlingOK /\ OnceOK
  BY DEF TypeOK, PromiseInv
<1>1. /\ Make(q, "executor", None) /\ stack' = Push(Code(q), stack)
      /\ UNCHANGED <<queues, started, pstate, value, callbackLists>>
  BY DEF NewPromise
<1>2. Mono
  BY <1>1, MakeKeeps DEF Mono, Callbacks, callbackLists
<1>3. \A r \in Promise : Released(r)' => Released(r)
  BY <1>1 DEF Released, queues
<1>4. OriginOK'
  <2>1. ASSUME NEW r \in Promise
        PROVE  /\ origin'[r] = "none" => pstate'[r] = "PENDING"
               /\ origin'[r] \in Derived => src'[r] \in Promise
    <3>1. CASE r = q
      BY <1>1, <3>1, MakeKeeps DEF Derived
    <3>2. CASE r # q
      BY <1>0, <1>1, <3>2, MakeKeeps DEF OriginOK
    <3> QED BY <3>1, <3>2
  <2> QED BY <2>1 DEF OriginOK
<1>5. ListsOK' /\ ReleasedOK' /\ OnceOK'
  BY <1>0, <1>1, <1>2, <1>3, ListsStay, ReleasedStay, OnceStay
<1>6. Code(q) \in Frame /\ Code(q) \in GoodFrame' /\ Code(q).fn # "Settling"
  <2>1. Code(q) \in Frame /\ Code(q).fn = "Code" /\ Code(q).task = q
    BY PromiseFrames DEF Code
  <2>2. origin'[q] = "executor"
    BY <1>1, MakeKeeps
  <2> QED BY <2>1, <2>2 DEF GoodFrame, FrameOK
<1>7. All(stack, GoodFrame') /\ \A p \in Promise : AtMostOne(stack, SettlingOf(p))
  BY <1>0, <1>2, <1>3, FramesStay, StackIs, SettlingIs DEF All
<1>8. All(stack', GoodFrame') /\ \A p \in Promise : AtMostOne(stack', SettlingOf(p))
  BY <1>0, <1>1, <1>6, <1>7, PushGood
<1> QED BY <1>4, <1>5, <1>8, StackNext, SettlingNext DEF PromiseInv

\* A promise is made settled: promise.resolve, promise.reject, readFile, and
\* `then` on a rejected promise.
LEMMA MadeSettledStep ==
  ASSUME TypeOK, TypeOK', PromiseInv, NEW q \in Promise, NEW how, how # "none", NEW from,
         NEW outcome, NEW v, Make(q, how, from), how \in Derived => from \in Promise,
         pstate' = [pstate EXCEPT ![q] = outcome], value' = [value EXCEPT ![q] = v],
         UNCHANGED <<stack, queues, started, callbackLists>>
  PROVE  PromiseInv'
<1>0. /\ stack \in Seq(Frame)
      /\ OriginOK /\ ListsOK /\ StackOK /\ ReleasedOK /\ SettlingOK /\ OnceOK
  BY DEF TypeOK, PromiseInv
<1>1. pstate[q] = "PENDING"
  BY NewIsUnknown DEF Make
<1>2. \A r \in Promise : r # q => pstate'[r] = pstate[r] /\ value'[r] = value[r]
  BY DEF TypeOK
<1>3. Mono
  <2>1. ASSUME NEW r \in Promise, pstate[r] # "PENDING"
        PROVE  /\ pstate'[r] = pstate[r] /\ value'[r] = value[r]
               /\ Callbacks(r)' = Callbacks(r)
    BY <1>1, <1>2, <2>1 DEF Callbacks, callbackLists
  <2> QED BY <2>1, MakeKeeps DEF Mono
<1>4. \A r \in Promise : Released(r)' => Released(r)
  BY DEF Released, queues
<1>5. OriginOK'
  <2>1. ASSUME NEW r \in Promise
        PROVE  /\ origin'[r] = "none" => pstate'[r] = "PENDING"
               /\ origin'[r] \in Derived => src'[r] \in Promise
    <3>1. CASE r = q
      BY <3>1, MakeKeeps
    <3>2. CASE r # q
      BY <1>0, <1>2, <3>2, MakeKeeps DEF OriginOK
    <3> QED BY <3>1, <3>2
  <2> QED BY <2>1 DEF OriginOK
<1>6. ListsOK' /\ ReleasedOK' /\ OnceOK'
  BY <1>0, <1>3, <1>4, ListsStay, ReleasedStay, OnceStay
<1>7. All(stack', GoodFrame') /\ \A p \in Promise : AtMostOne(stack', SettlingOf(p))
  BY <1>0, <1>3, <1>4, FramesStay, StackIs, SettlingIs DEF All
<1> QED BY <1>5, <1>6, <1>7, StackNext, SettlingNext DEF PromiseInv

\* `then` or `catch` on a promise that has settled as awaited: the callback is
\* enqueued at once.
LEMMA DeriveEnqueues ==
  ASSUME TypeOK, TypeOK', PromiseInv, NEW p \in Promise, NEW q \in Promise,
         NEW how \in Derived, Make(q, how, p),
         pstate[p] = (IF how = "then" THEN "FULFILLED" ELSE "REJECTED"),
         EnqueueMicroTask(q, Push(Creating(q), stack)),
         UNCHANGED <<started, pstate, value, callbackLists>>
  PROVE  PromiseInv'
<1>0. /\ stack \in Seq(Frame) /\ microTaskQueue \in Seq(Promise)
      /\ OriginOK /\ ListsOK /\ StackOK /\ ReleasedOK /\ SettlingOK /\ OnceOK
  BY DEF TypeOK, PromiseInv
<1>1. /\ ~Released(q)
      /\ \A r \in Promise : /\ ~Contains(onFulfilledCallbacks[r], q)
                            /\ ~Contains(onRejectedCallbacks[r], q)
  BY NewIsUnknown DEF Make
<1>2. Mono
  BY MakeKeeps DEF Mono, Callbacks, callbackLists
<1>3. /\ microTaskQueue' = Append(microTaskQueue, q) /\ macroTaskQueue' = macroTaskQueue
      /\ \A u : Contains(microTaskQueue', u) <=> Contains(microTaskQueue, u) \/ u = q
  BY <1>0, AppendQueue DEF EnqueueMicroTask
<1>4. Applicable(q)'
  <2>1. origin'[q] = how /\ src'[q] = p
    BY MakeKeeps
  <2> QED BY <2>1 DEF Applicable, Awaited, Derived
<1>5. \A r \in Promise : Released(r)' => Released(r) \/ r = q
  BY <1>3 DEF Released
<1>6. OriginOK'
  <2>1. ASSUME NEW r \in Promise
        PROVE  /\ origin'[r] = "none" => pstate'[r] = "PENDING"
               /\ origin'[r] \in Derived => src'[r] \in Promise
    <3>1. CASE r = q
      BY <3>1, MakeKeeps DEF Derived
    <3>2. CASE r # q
      <4>1. origin'[r] = origin[r] /\ src'[r] = src[r] /\ pstate'[r] = pstate[r]
        BY <3>2, MakeKeeps
      <4> QED BY <1>0, <4>1 DEF OriginOK
    <3> QED BY <3>1, <3>2
  <2> QED BY <2>1 DEF OriginOK
<1>7. ListsOK' /\ ReleasedOK'
  BY <1>0, <1>2, <1>4, <1>5, ListsStay, ReleasedStay
<1>8. OnceOK'
  <2>1. ~Contains(microTaskQueue, q) /\ ~Contains(started, q)
    BY <1>1 DEF Released
  <2>2. IsInjective(microTaskQueue')
    BY <1>0, <1>3, <2>1, AppendOnce DEF OnceOK
  <2>3. \A u : Contains(microTaskQueue', u) => Contains(microTaskQueue, u) \/ u = q
    BY <1>3
  <2> QED BY <1>0, <1>3, <2>1, <2>2, <2>3 DEF OnceOK
<1>9. GoodFrame \subseteq GoodFrame'
  <2> SUFFICES ASSUME NEW f \in GoodFrame PROVE f \in GoodFrame'
    OBVIOUS
  <2>1. Spares(f)
    <3> SUFFICES ASSUME f.fn = "Settling",
                        NEW j \in f.next..Len(Callbacks(f.task)), NEW r \in Promise,
                        r = Callbacks(f.task)[j], Released(r)'
                 PROVE  Released(r)
      BY DEF Spares
    <3>1. f \in Frame /\ f.task \in Promise /\ j \in 1..Len(Callbacks(f.task))
      BY CallbackTypes, SettlingTypes DEF GoodFrame
    <3>2. ~Contains(Callbacks(f.task), q)
      BY <1>1, <3>1 DEF Callbacks
    <3>3. r # q
      BY <3>1, <3>2 DEF Contains
    <3> QED BY <1>5, <3>3
  <2> QED BY <1>0, <1>2, <2>1, FrameStays
<1>10. /\ Push(Creating(q), stack) \in Seq(Frame)
       /\ All(Push(Creating(q), stack), GoodFrame')
       /\ \A r \in Promise : AtMostOne(Push(Creating(q), stack), SettlingOf(r))
  <2>1. Creating(q) \in Frame /\ Creating(q).fn = "Creating" /\ Creating(q).task = q
    BY PromiseFrames DEF Creating
  <2>2. Creating(q) \in GoodFrame'
    BY <1>4, <2>1 DEF GoodFrame, FrameOK
  <2>3. All(stack, GoodFrame') /\ \A r \in Promise : AtMostOne(stack, SettlingOf(r))
    BY <1>0, <1>9, StackIs, SettlingIs DEF All
  <2> QED BY <1>0, <2>1, <2>2, <2>3, PushGood
<1>11. All(stack', GoodFrame') /\ \A r \in Promise : AtMostOne(stack', SettlingOf(r))
  <2>1. CASE stack' = Push(Creating(q), stack)
    BY <1>10, <2>1
  <2>2. CASE stack' = Push(Run("top"), Push(Creating(q), stack))
    <3>1. Run("top") \in Frame /\ Run("top") \in GoodFrame' /\ Run("top").fn # "Settling"
      BY LoopGood, FrameTypes, PromiseFrames
    <3> QED BY <1>10, <2>2, <3>1, PushGood
  <2> QED BY <2>1, <2>2 DEF EnqueueMicroTask, WakeIfStopped
<1> QED BY <1>6, <1>7, <1>8, <1>11, StackNext, SettlingNext DEF PromiseInv

\* `then` on a pending promise, or `catch` on one that is not rejected: the
\* callback is appended to a list that nobody is visiting.
LEMMA DeriveRegisters ==
  ASSUME TypeOK, TypeOK', PromiseInv, NEW p \in Promise, NEW q \in Promise,
         NEW how \in Derived, Make(q, how, p),
         \/ /\ how = "then" /\ pstate[p] = "PENDING"
            /\ onFulfilledCallbacks' = [onFulfilledCallbacks EXCEPT ![p] = Append(@, q)]
            /\ UNCHANGED onRejectedCallbacks
         \/ /\ how = "catch" /\ pstate[p] # "REJECTED"
            /\ onRejectedCallbacks' = [onRejectedCallbacks EXCEPT ![p] = Append(@, q)]
            /\ UNCHANGED onFulfilledCallbacks,
         UNCHANGED <<stack, queues, started, pstate, value>>
  PROVE  PromiseInv'
<1>0. /\ stack \in Seq(Frame)
      /\ OriginOK /\ ListsOK /\ StackOK /\ ReleasedOK /\ SettlingOK /\ OnceOK
      /\ onFulfilledCallbacks \in [Promise -> Seq(Promise)]
      /\ onRejectedCallbacks \in [Promise -> Seq(Promise)]
      /\ pstate \in [Promise -> {"PENDING", "FULFILLED", "REJECTED"}]
  BY DEF TypeOK, PromiseInv
<1>1. \A r \in Promise : /\ ~Contains(onFulfilledCallbacks[r], q)
                         /\ ~Contains(onRejectedCallbacks[r], q)
  BY NewIsUnknown DEF Make
<1>2. Mono
  <2>1. ASSUME NEW r \in Promise, pstate[r] # "PENDING" PROVE Callbacks(r)' = Callbacks(r)
    <3>1. CASE r = p
      BY <1>0, <2>1, <3>1 DEF Callbacks
    <3>2. CASE r # p
      BY <1>0, <3>2 DEF Callbacks
    <3> QED BY <3>1, <3>2
  <2> QED BY <2>1, MakeKeeps DEF Mono
<1>3. \A r \in Promise : Released(r)' => Released(r)
  BY DEF Released, queues
<1>4. OriginOK'
  <2>1. ASSUME NEW r \in Promise
        PROVE  /\ origin'[r] = "none" => pstate'[r] = "PENDING"
               /\ origin'[r] \in Derived => src'[r] \in Promise
    <3>1. CASE r = q
      BY <3>1, MakeKeeps DEF Derived
    <3>2. CASE r # q
      <4>1. origin'[r] = origin[r] /\ src'[r] = src[r] /\ pstate'[r] = pstate[r]
        BY <3>2, MakeKeeps
      <4> QED BY <1>0, <4>1 DEF OriginOK
    <3> QED BY <3>1, <3>2
  <2> QED BY <2>1 DEF OriginOK
<1>5. ListsOK'
  <2> SUFFICES ASSUME NEW r \in Promise
               PROVE  /\ IsInjective(onFulfilledCallbacks'[r])
                      /\ IsInjective(onRejectedCallbacks'[r])
                      /\ \A u \in Promise :
                           /\ Contains(onFulfilledCallbacks'[r], u)
                                => origin'[u] = "then" /\ src'[u] = r
                           /\ Contains(onRejectedCallbacks'[r], u)
                                => origin'[u] = "catch" /\ src'[u] = r
    BY DEF ListsOK
  <2>1. \A u \in Promise :
          /\ Contains(onFulfilledCallbacks[r], u) => origin'[u] = "then" /\ src'[u] = r
          /\ Contains(onRejectedCallbacks[r], u) => origin'[u] = "catch" /\ src'[u] = r
    BY <1>0, MakeKeeps DEF ListsOK
  <2>2. IsInjective(onFulfilledCallbacks[r]) /\ IsInjective(onRejectedCallbacks[r])
    BY <1>0 DEF ListsOK
  <2>3. CASE r # p
    <3>1. /\ onFulfilledCallbacks'[r] = onFulfilledCallbacks[r]
          /\ onRejectedCallbacks'[r] = onRejectedCallbacks[r]
      BY <1>0, <2>3
    <3> QED BY <2>1, <2>2, <3>1
  <2>4. CASE r = p /\ how = "then"
    <3>1. /\ onFulfilledCallbacks'[r] = Append(onFulfilledCallbacks[r], q)
          /\ onRejectedCallbacks'[r] = onRejectedCallbacks[r]
      BY <1>0, <2>4
    <3>2. \A u \in Promise : Contains(onFulfilledCallbacks'[r], u)
                               => Contains(onFulfilledCallbacks[r], u) \/ u = q
      BY <1>0, <3>1, AppendQueue
    <3>3. IsInjective(onFulfilledCallbacks'[r])
      BY <1>0, <1>1, <2>2, <3>1, AppendOnce
    <3>4. origin'[q] = "then" /\ src'[q] = r
      BY <2>4, MakeKeeps
    <3> QED BY <2>1, <2>2, <3>1, <3>2, <3>3, <3>4
  <2>5. CASE r = p /\ how = "catch"
    <3>1. /\ onRejectedCallbacks'[r] = Append(onRejectedCallbacks[r], q)
          /\ onFulfilledCallbacks'[r] = onFulfilledCallbacks[r]
      BY <1>0, <2>5
    <3>2. \A u \in Promise : Contains(onRejectedCallbacks'[r], u)
                               => Contains(onRejectedCallbacks[r], u) \/ u = q
      BY <1>0, <3>1, AppendQueue
    <3>3. IsInjective(onRejectedCallbacks'[r])
      BY <1>0, <1>1, <2>2, <3>1, AppendOnce
    <3>4. origin'[q] = "catch" /\ src'[q] = r
      BY <2>5, MakeKeeps
    <3> QED BY <2>1, <2>2, <3>1, <3>2, <3>3, <3>4
  <2> QED BY <2>3, <2>4, <2>5 DEF Derived
<1>6. ReleasedOK' /\ OnceOK'
  BY <1>0, <1>2, <1>3, ReleasedStay, OnceStay
<1>7. All(stack', GoodFrame') /\ \A r \in Promise : AtMostOne(stack', SettlingOf(r))
  BY <1>0, <1>2, <1>3, FramesStay, StackIs, SettlingIs DEF All
<1> QED BY <1>4, <1>5, <1>6, <1>7, StackNext, SettlingNext DEF PromiseInv

LEMMA DeriveStep ==
  ASSUME TypeOK, TypeOK', PromiseInv, NEW p \in Promise, NEW q \in Promise,
         Then(p, q) \/ Catch(p, q)
  PROVE  PromiseInv'
<1>0. "then" \in Derived /\ "catch" \in Derived
  BY DEF Derived
<1>1. CASE Then(p, q)
  <2>1. Make(q, "then", p) /\ UNCHANGED started
    BY <1>1 DEF Then
  <2>2. CASE pstate[p] = "FULFILLED"
    BY <1>0, <1>1, <2>1, <2>2, DeriveEnqueues DEF Then, ThenExecutor
  <2>3. CASE pstate[p] = "REJECTED"
    BY <1>1, <2>1, <2>3, MadeSettledStep DEF Then, ThenExecutor
  <2>4. CASE pstate[p] = "PENDING"
    BY <1>0, <1>1, <2>1, <2>4, DeriveRegisters DEF Then, ThenExecutor
  <2> QED BY <1>1, <2>2, <2>3, <2>4 DEF Then, ThenExecutor
<1>2. CASE Catch(p, q)
  <2>1. Make(q, "catch", p) /\ UNCHANGED <<started, pstate, value>>
    BY <1>2 DEF Catch
  <2>2. CASE pstate[p] = "REJECTED"
    BY <1>0, <1>2, <2>1, <2>2, DeriveEnqueues DEF Catch, CatchExecutor
  <2>3. CASE pstate[p] # "REJECTED"
    BY <1>0, <1>2, <2>1, <2>3, DeriveRegisters DEF Catch, CatchExecutor
  <2> QED BY <2>2, <2>3
<1> QED BY <1>1, <1>2

-----------------------------------------------------------------------------
(* Settling.                                                                *)

\* While p is pending nobody visits its callbacks, and none of them has been
\* released.
LEMMA PendingIsUntouched ==
  ASSUME TypeOK, PromiseInv, NEW p \in Promise, pstate[p] = "PENDING"
  PROVE  /\ \A f \in GoodFrame : f \notin SettlingOf(p)
         /\ \A r \in Promise : /\ Contains(onFulfilledCallbacks[p], r) => ~Released(r)
                               /\ Contains(onRejectedCallbacks[p], r) => ~Released(r)
<1>1. \A f \in GoodFrame : f \notin SettlingOf(p)
  BY DEF GoodFrame, FrameOK, SettlingOf
<1>2. ASSUME NEW r \in Promise, Released(r) PROVE src[r] # p
  BY <1>2 DEF PromiseInv, ReleasedOK, Applicable, Awaited
<1>3. \A r \in Promise :
        Contains(onFulfilledCallbacks[p], r) \/ Contains(onRejectedCallbacks[p], r)
          => src[r] = p
  BY DEF PromiseInv, ListsOK
<1> QED BY <1>1, <1>2, <1>3

\* The call returns to s, which is the stack t of good frames, or t with the
\* callback of p on top.
LEMMA SettleStep ==
  ASSUME TypeOK, TypeOK', PromiseInv, NEW p \in Promise, origin[p] # "none" \/ ~Pending(p),
         NEW outcome \in {"FULFILLED", "REJECTED"}, NEW v,
         NEW t \in Seq(Frame), All(t, GoodFrame),
         \A r \in Promise : AtMostOne(t, SettlingOf(r)),
         NEW s, s = t \/ s = Push(Callback(p), t),
         TrySettle(p, outcome, v, s), UNCHANGED <<queues, started>>
  PROVE  PromiseInv'
<1>0. /\ OriginOK /\ ListsOK /\ StackOK /\ ReleasedOK /\ SettlingOK /\ OnceOK
      /\ onFulfilledCallbacks \in [Promise -> Seq(Promise)]
      /\ onRejectedCallbacks \in [Promise -> Seq(Promise)]
  BY DEF TypeOK, PromiseInv
<1>1. Callback(p) \in Frame /\ Callback(p).fn = "Callback" /\ Callback(p).task = p
  BY PromiseFrames DEF Callback
<1>2. CASE ~Pending(p)
  <2>1. Callback(p) \in GoodFrame
    BY <1>1, <1>2 DEF GoodFrame, FrameOK, Pending
  <2>2. All(s, GoodFrame) /\ \A r \in Promise : AtMostOne(s, SettlingOf(r))
    BY <1>1, <2>1, PushGood
  <2>3. stack' = s /\ UNCHANGED promiseVars
    BY <1>2 DEF TrySettle
  <2> QED BY <1>0, <2>2, <2>3, OnceStay, QuietStep DEF queues
<1>3. CASE Pending(p)
  <2>1. /\ pstate' = [pstate EXCEPT ![p] = outcome] /\ value' = [value EXCEPT ![p] = v]
        /\ stack' = Push(Settling(p, 1), s) /\ UNCHANGED <<origin, src, callbackLists>>
    BY <1>3 DEF TrySettle, Settle
  <2>2. /\ pstate'[p] = outcome /\ outcome # "PENDING"
        /\ \A r \in Promise : r # p => pstate'[r] = pstate[r] /\ value'[r] = value[r]
    BY <2>1 DEF TypeOK
  <2>3. Mono
    <3>1. ASSUME NEW r \in Promise, pstate[r] # "PENDING"
          PROVE  /\ pstate'[r] = pstate[r] /\ value'[r] = value[r]
                 /\ Callbacks(r)' = Callbacks(r)
      BY <1>3, <2>1, <2>2, <3>1 DEF Pending, Callbacks, callbackLists
    <3> QED BY <2>1, <3>1 DEF Mono
  <2>4. \A r \in Promise : Released(r)' <=> Released(r)
    BY DEF Released, queues
  <2>5. OriginOK'
    BY <1>0, <1>3, <2>1, <2>2 DEF OriginOK, Pending
  <2>6. ListsOK' /\ ReleasedOK' /\ OnceOK'
    BY <1>0, <2>1, <2>3, <2>4, ListsStay, ReleasedStay, OnceStay
  <2>7. All(t, GoodFrame')
    BY <1>0, <2>3, <2>4, FramesStay DEF All
  <2>8. Callback(p) \in GoodFrame'
    BY <1>1, <2>2 DEF GoodFrame, FrameOK
  <2>9. /\ s \in Seq(Frame) /\ All(s, GoodFrame')
        /\ \A r \in Promise : AtMostOne(s, SettlingOf(r))
    BY <1>1, <2>7, <2>8, PushGood
  <2>10. Settling(p, 1) \in Frame /\ Settling(p, 1).fn = "Settling"
         /\ Settling(p, 1).task = p /\ Settling(p, 1).next = 1
    BY PromiseFrames DEF Settling
  <2>11. Settling(p, 1) \in GoodFrame'
    <3>1. Callbacks(p)' \in {onFulfilledCallbacks[p], onRejectedCallbacks[p]}
      BY <2>1 DEF Callbacks, callbackLists
    <3>2. ASSUME NEW L \in {onFulfilledCallbacks[p], onRejectedCallbacks[p]},
                 NEW j \in 1..Len(L)
          PROVE  L[j] \in Promise /\ ~Released(L[j])
      <4>1. L \in Seq(Promise) /\ L[j] \in Promise
        BY <1>0
      <4>2. Contains(L, L[j])
        BY DEF Contains
      <4> QED BY <1>3, <4>1, <4>2, PendingIsUntouched DEF Pending
    <3>3. Unreleased(p, 1)'
      BY <2>4, <3>1, <3>2 DEF Unreleased, Released
    <3>4. origin'[p] # "none" /\ pstate'[p] # "PENDING"
      BY <1>3, <2>1, <2>2
    <3> QED BY <2>10, <3>3, <3>4 DEF GoodFrame, FrameOK
  <2>12. All(stack', GoodFrame')
    BY <2>1, <2>9, <2>10, <2>11, PushAll
  <2>13. ASSUME NEW r \in Promise PROVE AtMostOne(stack', SettlingOf(r))
    <3>1. CASE r = p
      <4>1. Settling(p, 1) \in SettlingOf(p)
        BY <2>10 DEF SettlingOf
      <4>2. ~Has(t, SettlingOf(p))
        BY <1>3, PendingIsUntouched DEF All, Has, Pending
      <4>3. Callback(p) \notin SettlingOf(p)
        BY <1>1 DEF SettlingOf
      <4>4. ~Has(s, SettlingOf(p))
        BY <1>1, <4>2, <4>3, PushOther
      <4> QED BY <2>1, <2>9, <2>10, <3>1, <4>1, <4>4, PushIn
    <3>2. CASE r # p
      <4>1. Settling(p, 1) \notin SettlingOf(r)
        BY <2>10, <3>2 DEF SettlingOf
      <4> QED BY <2>1, <2>9, <2>10, <4>1, PushOther
    <3> QED BY <3>1, <3>2
  <2> QED BY <2>5, <2>6, <2>12, <2>13, StackNext, SettlingNext DEF PromiseInv
<1> QED BY <1>2, <1>3

\* ForEach enqueues the callback it is at: one that nobody released before, and
\* that no other ForEach is going to visit.
LEMMA SettlingEnqueuesStep ==
  ASSUME TypeOK, TypeOK', PromiseInv, SettlingEnqueues PROVE PromiseInv'
<1>0. /\ stack \in Seq(Frame) /\ stack # <<>> /\ microTaskQueue \in Seq(Promise)
      /\ OriginOK /\ ListsOK /\ StackOK /\ ReleasedOK /\ SettlingOK /\ OnceOK
      /\ onFulfilledCallbacks \in [Promise -> Seq(Promise)]
      /\ onRejectedCallbacks \in [Promise -> Seq(Promise)]
      /\ pstate \in [Promise -> {"PENDING", "FULFILLED", "REJECTED"}]
  BY DEF TypeOK, PromiseInv, SettlingEnqueues, Running
<1>1. PICK top \in Frame : top = Head(stack) /\ top \in GoodFrame /\ top.fn = "Settling"
  <2>1. All(stack, GoodFrame)
    BY <1>0, StackIs
  <2>2. Head(stack) \in GoodFrame
    BY <1>0, <2>1, TailAll
  <2> QED BY <2>2 DEF SettlingEnqueues, Running, GoodFrame
<1>2. PICK p \in Promise, n \in Nat \ {0} : top.task = p /\ top.next = n
  BY <1>1, SettlingTypes
<1>3. /\ pstate[p] # "PENDING" /\ Unreleased(p, n)
  BY <1>1, <1>2 DEF GoodFrame, FrameOK
<1>4. Callbacks(p) \in Seq(Promise) /\ n \in 1..Len(Callbacks(p))
  BY <1>0, <1>1, <1>2 DEF Callbacks, SettlingEnqueues, HasCallback, Top
<1>5. PICK q \in Promise : q = Callbacks(p)[n]
  BY <1>4
<1>6. /\ EnqueueMicroTask(q, Push(Settling(p, n + 1), Tail(stack)))
      /\ UNCHANGED <<started, promiseVars>>
  BY <1>1, <1>2, <1>5 DEF SettlingEnqueues, Top
<1>7. ~Released(q)
  BY <1>3, <1>4, <1>5 DEF Unreleased
<1>8. Applicable(q) /\ src[q] = p
  <2>1. Contains(Callbacks(p), q)
    BY <1>4, <1>5 DEF Contains
  <2>2. CASE pstate[p] = "FULFILLED"
    BY <1>0, <2>1, <2>2 DEF ListsOK, Callbacks, Applicable, Awaited, Derived
  <2>3. CASE pstate[p] = "REJECTED"
    BY <1>0, <2>1, <2>3 DEF ListsOK, Callbacks, Applicable, Awaited, Derived
  <2> QED BY <1>0, <1>3, <2>2, <2>3
<1>9. /\ microTaskQueue' = Append(microTaskQueue, q) /\ macroTaskQueue' = macroTaskQueue
      /\ \A u : Contains(microTaskQueue', u) <=> Contains(microTaskQueue, u) \/ u = q
  BY <1>0, <1>6, AppendQueue DEF EnqueueMicroTask
<1>10. Mono /\ \A r \in Promise : Released(r)' => Released(r) \/ r = q
  BY <1>6, <1>9, QuietMono DEF Released
<1>11. OriginOK' /\ ListsOK'
  BY <1>0, <1>6, <1>10, ListsStay DEF OriginOK, promiseVars
<1>12. ReleasedOK'
  BY <1>0, <1>8, <1>10, ApplicableStays, ReleasedStay
<1>13. OnceOK'
  <2>1. ~Contains(microTaskQueue, q) /\ ~Contains(started, q)
    BY <1>7 DEF Released
  <2>2. IsInjective(microTaskQueue')
    BY <1>0, <1>9, <2>1, AppendOnce DEF OnceOK
  <2>3. \A u : Contains(microTaskQueue', u) => Contains(microTaskQueue, u) \/ u = q
    BY <1>9
  <2> QED BY <1>0, <1>6, <1>9, <2>1, <2>2, <2>3 DEF OnceOK
<1>14. ASSUME NEW f \in GoodFrame, f \notin SettlingOf(p) PROVE f \in GoodFrame'
  <2>1. Spares(f)
    <3> SUFFICES ASSUME f.fn = "Settling",
                        NEW j \in f.next..Len(Callbacks(f.task)), NEW r \in Promise,
                        r = Callbacks(f.task)[j], Released(r)'
                 PROVE  Released(r)
      BY DEF Spares
    <3>1. /\ f \in Frame /\ f.task \in Promise /\ j \in 1..Len(Callbacks(f.task))
          /\ f.task # p
      BY <1>14, CallbackTypes, SettlingTypes DEF GoodFrame, SettlingOf
    <3>2. Contains(Callbacks(f.task), r)
      BY <3>1 DEF Contains
    <3>3. src[r] = f.task
      <4>1. \/ Contains(onFulfilledCallbacks[f.task], r)
            \/ Contains(onRejectedCallbacks[f.task], r)
        BY <3>2 DEF Callbacks
      <4> QED BY <1>0, <3>1, <4>1 DEF ListsOK
    <3> QED BY <1>8, <1>10, <3>1, <3>3
  <2> QED BY <1>0, <1>10, <1>14, <2>1, FrameStays
<1>15. top \in SettlingOf(p) /\ ~Has(Tail(stack), SettlingOf(p))
  <2>1. top \in SettlingOf(p)
    BY <1>1, <1>2 DEF SettlingOf
  <2> QED BY <1>0, <1>1, <2>1, SettlingIs, PopIn
<1>16. /\ Tail(stack) \in Seq(Frame) /\ All(Tail(stack), GoodFrame')
       /\ \A r \in Promise : AtMostOne(Tail(stack), SettlingOf(r))
  <2>1. All(Tail(stack), GoodFrame)
    BY <1>0, StackIs, TailAll
  <2>2. All(Tail(stack), GoodFrame')
    BY <1>14, <1>15, <2>1 DEF All, Has
  <2>3. \A r \in Promise : AtMostOne(Tail(stack), SettlingOf(r))
    BY <1>0, SettlingIs, PopOther
  <2> QED BY <1>0, <2>2, <2>3
<1>17. /\ Settling(p, n + 1) \in Frame /\ Settling(p, n + 1).fn = "Settling"
       /\ Settling(p, n + 1).task = p /\ Settling(p, n + 1).next = n + 1
  BY PromiseFrames DEF Settling
<1>18. Settling(p, n + 1) \in GoodFrame'
  <2>1. Callbacks(p)' = Callbacks(p)
    BY <1>3, <1>10 DEF Mono
  <2>2. IsInjective(Callbacks(p))
    BY <1>0 DEF ListsOK, Callbacks
  <2>3. ASSUME NEW j \in n + 1..Len(Callbacks(p))
        PROVE  /\ Callbacks(p)[j] \in Promise /\ Callbacks(p)[j] # q
               /\ ~Released(Callbacks(p)[j])
    <3>1. j \in 1..Len(Callbacks(p)) /\ j \in n..Len(Callbacks(p)) /\ j # n
      BY <1>4
    <3>2. Callbacks(p)[j] \in Promise /\ ~Released(Callbacks(p)[j])
      BY <1>3, <1>4, <3>1 DEF Unreleased
    <3>3. Callbacks(p)[j] # Callbacks(p)[n]
      BY <1>4, <2>2, <3>1 DEF IsInjective
    <3> QED BY <1>5, <3>2, <3>3
  <2>4. Unreleased(p, n + 1)'
    <3>1. \A j \in n + 1..Len(Callbacks(p)) : \E r \in Promise :
            r = Callbacks(p)[j] /\ ~Released(r)'
      BY <1>10, <2>3
    <3> QED BY <2>1, <3>1 DEF Unreleased, Released
  <2>5. origin'[p] # "none" /\ pstate'[p] # "PENDING"
    BY <1>1, <1>2, <1>10 DEF GoodFrame, FrameOK, Mono
  <2> QED BY <1>17, <2>4, <2>5 DEF GoodFrame, FrameOK
<1>19. /\ Push(Settling(p, n + 1), Tail(stack)) \in Seq(Frame)
       /\ All(Push(Settling(p, n + 1), Tail(stack)), GoodFrame')
       /\ \A r \in Promise : AtMostOne(Push(Settling(p, n + 1), Tail(stack)), SettlingOf(r))
  <2>1. ASSUME NEW r \in Promise
        PROVE  AtMostOne(Push(Settling(p, n + 1), Tail(stack)), SettlingOf(r))
    <3>1. CASE r = p
      <4>1. Settling(p, n + 1) \in SettlingOf(p)
        BY <1>17 DEF SettlingOf
      <4> QED BY <1>15, <1>16, <1>17, <3>1, <4>1, PushIn
    <3>2. CASE r # p
      <4>1. Settling(p, n + 1) \notin SettlingOf(r)
        BY <1>17, <3>2 DEF SettlingOf
      <4> QED BY <1>16, <1>17, <4>1, PushOther
    <3> QED BY <3>1, <3>2
  <2> QED BY <1>16, <1>17, <1>18, <2>1, PushAll, PushLemma
<1>20. All(stack', GoodFrame') /\ \A r \in Promise : AtMostOne(stack', SettlingOf(r))
  <2>1. CASE stack' = Push(Settling(p, n + 1), Tail(stack))
    BY <1>19, <2>1
  <2>2. CASE stack' = Push(Run("top"), Push(Settling(p, n + 1), Tail(stack)))
    <3>1. Run("top") \in Frame /\ Run("top") \in GoodFrame' /\ Run("top").fn # "Settling"
      BY LoopGood, FrameTypes, PromiseFrames
    <3> QED BY <1>19, <2>2, <3>1, PushGood
  <2> QED BY <1>6, <2>1, <2>2 DEF EnqueueMicroTask, WakeIfStopped
<1> QED BY <1>11, <1>12, <1>13, <1>20, StackNext, SettlingNext DEF PromiseInv

-----------------------------------------------------------------------------
(* The theorems.                                                            *)

LEMMA PromiseInvInit == Init => PromiseInv
<1> SUFFICES ASSUME Init PROVE PromiseInv
  OBVIOUS
<1>1. \A t : ~Contains(microTaskQueue, t) /\ ~Contains(macroTaskQueue, t) /\ ~Contains(started, t)
  BY DEF Init, LoopInit, Contains
<1>2. \A p \in Promise : /\ onFulfilledCallbacks[p] = <<>> /\ onRejectedCallbacks[p] = <<>>
                        /\ pstate[p] = "PENDING" /\ origin[p] = "none"
  BY DEF Init
<1>3. IsInjective(<<>>) /\ \A t : ~Contains(<<>>, t)
  BY DEF IsInjective, Contains
<1>4. stack = <<>> /\ microTaskQueue = <<>> /\ macroTaskQueue = <<>> /\ started = <<>>
  BY DEF Init, LoopInit
<1> QED BY <1>1, <1>2, <1>3, <1>4
        DEF PromiseInv, OriginOK, Derived, ListsOK, StackOK, ReleasedOK, Released, SettlingOK, OnceOK

\* PromiseInv is inductive.
LEMMA PromiseInvStep ==
  ASSUME TypeOK, TypeOK', PromiseInv, [Next]_vars PROVE PromiseInv'
<1>0. /\ stack \in Seq(Frame) /\ StackOK /\ SettlingOK
      /\ All(stack, GoodFrame) /\ \A p \in Promise : AtMostOne(stack, SettlingOf(p))
  BY StackIs, SettlingIs DEF TypeOK, PromiseInv
<1>1. ASSUME stack # <<>>
      PROVE  /\ Head(stack) \in GoodFrame /\ Tail(stack) \in Seq(Frame)
             /\ All(Tail(stack), GoodFrame)
             /\ \A p \in Promise : AtMostOne(Tail(stack), SettlingOf(p))
  <2>1. Head(stack) \in GoodFrame /\ All(Tail(stack), GoodFrame)
    BY <1>0, <1>1, TailAll
  <2>2. \A p \in Promise : AtMostOne(Tail(stack), SettlingOf(p))
    BY <1>0, <1>1, PopOther
  <2>3. Tail(stack) \in Seq(Frame)
    BY <1>0, <1>1
  <2> QED BY <2>1, <2>2, <2>3
<1>2. CASE /\ HostRun \/ ModuleReturns \/ Stop \/ Throw
           /\ UNCHANGED promiseVars
  BY <1>2, HostSteps
<1>3. CASE CodeEnqueuesTask /\ UNCHANGED promiseVars
  BY <1>3, EnqueuesTaskStep
<1>4. CASE (RunMicroTask \/ RunMacroTask) /\ UNCHANGED promiseVars
  BY <1>4, RunMicroTaskStep, RunMacroTaskStep
<1>5. CASE (RunIdle \/ RunStopped \/ Propagate) /\ UNCHANGED promiseVars
  BY <1>5, PopStep DEF RunIdle, RunStopped, Running, Propagate, Unwind, queues
<1>6. CASE SettlingDone \/ NativeReturns
  BY <1>6, PopStep DEF SettlingDone, NativeReturns, Running
<1>7. CASE \E t \in MacroTask : TaskDone(t)
  BY <1>7, PopStep DEF TaskDone, InCode
<1>8. CASE \E q \in Promise : ExecutorReturns(q)
  BY <1>8, PopStep DEF ExecutorReturns, InCode
<1>9. CASE SettlingEnqueues
  BY <1>9, SettlingEnqueuesStep
<1>10. CASE \E q \in Promise : NewPromise(q)
  BY <1>10, NewPromiseStep
<1>11. CASE \E p, q \in Promise : Then(p, q) \/ Catch(p, q)
  BY <1>11, DeriveStep
<1>12. CASE \E q \in Promise, v \in Value :
              PromiseResolve(q, v) \/ PromiseReject(q, v) \/ ReadFile(q, v)
  BY <1>12, MadeSettledStep
     DEF PromiseResolve, PromiseReject, ReadFile, MakeSettled, loopVars, Derived
<1>13. ASSUME NEW p \in Promise, NEW v \in Value,
              CallSettler(p, "FULFILLED", v) \/ CallSettler(p, "REJECTED", v)
       PROVE  PromiseInv'
  BY <1>0, <1>13, SettleStep DEF CallSettler, TrySettle
<1>14. ASSUME NEW q \in Promise, NEW v \in Value, HandlerReturns(q, v) PROVE PromiseInv'
  <2>1. stack # <<>> /\ origin[q] # "none"
    BY <1>14 DEF HandlerReturns, InCode, Derived
  <2> QED BY <1>1, <1>14, <2>1, SettleStep DEF HandlerReturns
<1>15. ASSUME NEW q \in Promise, CatchException(q) PROVE PromiseInv'
  <2>1. stack # <<>> /\ Head(stack) \in {Code(q), Callback(q), Creating(q)}
    BY <1>15 DEF CatchException, InTry, Top
  <2>2. FrameOK(Head(stack))
    BY <1>1, <2>1 DEF GoodFrame
  <2>3. origin[q] # "none" \/ ~Pending(q)
    <3>1. CASE Head(stack) = Code(q)
      BY <2>2, <3>1 DEF FrameOK, Code, Applicable, Derived
    <3>2. CASE Head(stack) = Callback(q)
      BY <2>2, <3>2 DEF FrameOK, Callback, Pending
    <3>3. CASE Head(stack) = Creating(q)
      BY <2>2, <3>3 DEF FrameOK, Creating, Applicable, Derived
    <3> QED BY <2>1, <3>1, <3>2, <3>3
  <2> QED BY <1>1, <1>15, <2>1, <2>3, SettleStep DEF CatchException
<1>16. CASE UNCHANGED vars
  BY <1>0, <1>16, OnceStay, QuietStep DEF vars, loopVars, queues, PromiseInv
<1> QED BY <1>2, <1>3, <1>4, <1>5, <1>6, <1>7, <1>8, <1>9, <1>10, <1>11, <1>12, <1>13,
           <1>14, <1>15, <1>16 DEF Next, Propagate

\* The invariant behind the properties of promises holds for every number of
\* promises, tasks, values and runs.
THEOREM PromiseInvariant == Spec => []PromiseInv
<1>1. TypeOK /\ TypeOK' /\ PromiseInv /\ [Next]_vars => PromiseInv'
  BY PromiseInvStep
<1> QED BY <1>1, PromiseInvInit, TypeCorrect, PTL DEF Spec

\* No task, and so no handler, is ever invoked twice, however runs of the loop
\* nest and wherever an exception cuts them off.
THEOREM NoTaskTwiceHolds == Spec => []NoTaskTwice
<1>1. PromiseInv => NoTaskTwice
  BY DEF PromiseInv, OnceOK, NoTaskTwice
<1> QED BY <1>1, PromiseInvariant, PTL

\* A handler that runs was registered for the outcome its source has.
THEOREM HandlersMatch == Spec => []HandlerMatchesOutcome
<1>1. PromiseInv => HandlerMatchesOutcome
  BY DEF PromiseInv, ReleasedOK, Released, HandlerMatchesOutcome
<1> QED BY <1>1, PromiseInvariant, PTL

-----------------------------------------------------------------------------
(* The contract.                                                            *)

\* Steps of the loop, of the host and of the stack that start no handler.
LEMMA ContractStutter ==
  ASSUME UNCHANGED <<promiseVars, started>>
  PROVE  UNCHANGED Contract!cvars
BY DEF Contract!cvars, promiseVars

LEMMA ContractRunMicroTask ==
  ASSUME TypeOK, PromiseInv, RunMicroTask, UNCHANGED promiseVars
  PROVE  Contract!Next
<1>0. /\ microTaskQueue \in Seq(Promise) /\ microTaskQueue # <<>>
      /\ started \in Seq(Task)
  BY DEF TypeOK, RunMicroTask
<1>1. PICK t \in Promise :
        /\ t = Head(microTaskQueue) /\ t \in Task /\ Contains(microTaskQueue, t)
        /\ started' = Append(started, t)
  BY <1>0, TailQueue DEF RunMicroTask, Task, Promise
<1>2. \A u : Contains(started', u) <=> Contains(started, u) \/ u = t
  BY <1>0, <1>1, AppendQueue
<1>3. Applicable(t)
  BY <1>1 DEF PromiseInv, ReleasedOK, Released
<1>4. ~Contains(started, t)
  BY <1>1 DEF PromiseInv, OnceOK
<1>5. Contract!StartHandler(t)
  <2>1. Contract!Applicable(t)
    BY <1>3 DEF Contract!Applicable, Contract!Awaited, Contract!Derived,
                Applicable, Awaited, Derived
  <2>2. {q \in Promise : Contains(started', q)} = {q \in Promise : Contains(started, q)} \cup {t}
    BY <1>2
  <2>3. t \notin {q \in Promise : Contains(started, q)}
    BY <1>4
  <2> QED BY <2>1, <2>2, <2>3 DEF Contract!StartHandler, promiseVars
<1> QED BY <1>5 DEF Contract!Next

LEMMA ContractRunMacroTask ==
  ASSUME TypeOK, RunMacroTask, UNCHANGED promiseVars
  PROVE  UNCHANGED Contract!cvars
<1>0. /\ macroTaskQueue \in Seq(MacroTask) /\ macroTaskQueue # <<>>
      /\ started \in Seq(Task)
  BY DEF TypeOK, RunMacroTask
<1>1. PICK t \in MacroTask : t \in Task /\ started' = Append(started, t)
  BY <1>0 DEF RunMacroTask, Task
<1>2. \A u : Contains(started', u) <=> Contains(started, u) \/ u = t
  BY <1>0, <1>1, AppendQueue
<1>3. t \notin Promise
  BY TasksAreDistinct DEF Promise
<1>4. {q \in Promise : Contains(started', q)} = {q \in Promise : Contains(started, q)}
  BY <1>2, <1>3
<1> QED BY <1>4 DEF Contract!cvars, promiseVars

\* Making a promise.
LEMMA ContractMakes ==
  ASSUME TypeOK, PromiseInv, NEW q \in Promise,
         \/ NewPromise(q)
         \/ \E v \in Value : PromiseResolve(q, v) \/ PromiseReject(q, v) \/ ReadFile(q, v)
         \/ \E p \in Promise : Then(p, q) \/ Catch(p, q)
  PROVE  Contract!Next
<1> USE DEF Contract!Make, Make
<1>0. pstate[q] = "PENDING"
  BY NewIsUnknown DEF NewPromise, PromiseResolve, PromiseReject, ReadFile, MakeSettled,
                      Then, Catch
<1>1. CASE NewPromise(q)
  <2>1. Contract!MakePending(q)
    BY <1>1 DEF NewPromise, Contract!MakePending
  <2> QED BY <2>1 DEF Contract!Next
<1>2. ASSUME NEW how \in {"resolve", "reject", "readFile"},
             NEW outcome \in {"FULFILLED", "REJECTED"}, NEW v \in Value \cup {Error},
             MakeSettled(q, how, outcome, v)
      PROVE  Contract!Next
  <2>1. Contract!MakeSettled(q, outcome, v)
    BY <1>0, <1>2 DEF MakeSettled, loopVars, Contract!MakeSettled, Contract!Become
  <2> QED BY <2>1 DEF Contract!Next
<1>3. CASE \E v \in Value : PromiseResolve(q, v) \/ PromiseReject(q, v) \/ ReadFile(q, v)
  BY <1>2, <1>3 DEF PromiseResolve, PromiseReject, ReadFile
<1>4. ASSUME NEW p \in Promise, Then(p, q) PROVE Contract!Next
  <2>1. /\ origin[p] # "none" /\ Make(q, "then", p) /\ UNCHANGED started
    BY <1>4 DEF Then, Visible
  <2>2. CASE pstate[p] = "REJECTED"
    <3>1. Contract!Forward(p, q)
      BY <1>0, <1>4, <2>1, <2>2
         DEF Then, ThenExecutor, Contract!Forward, Contract!Become
    <3> QED BY <3>1 DEF Contract!Next
  <2>3. CASE pstate[p] # "REJECTED"
    <3>1. Contract!Derive(p, q, "then")
      BY <1>4, <2>1, <2>3 DEF Then, ThenExecutor, Contract!Derive
    <3> QED BY <3>1 DEF Contract!Next
  <2> QED BY <2>2, <2>3
<1>5. ASSUME NEW p \in Promise, Catch(p, q) PROVE Contract!Next
  <2>1. Contract!Derive(p, q, "catch")
    BY <1>5 DEF Catch, Visible, Contract!Derive
  <2> QED BY <2>1 DEF Contract!Next
<1> QED BY <1>1, <1>3, <1>4, <1>5

\* Settling a promise: a no-op when it is settled already.
LEMMA ContractSettles ==
  ASSUME TypeOK, PromiseInv, NEW p \in Promise,
         \/ \E v \in Value :
              CallSettler(p, "FULFILLED", v) \/ CallSettler(p, "REJECTED", v)
              \/ HandlerReturns(p, v)
         \/ CatchException(p)
  PROVE  Contract!Next \/ UNCHANGED Contract!cvars
<1>0. UNCHANGED started
  BY DEF CallSettler, HandlerReturns, CatchException
<1>1. ASSUME NEW outcome \in {"FULFILLED", "REJECTED"}, NEW v \in Value,
             CallSettler(p, outcome, v)
      PROVE  Contract!Next
  <2>1. Contract!Settle(p, outcome, v)
    BY <1>0, <1>1 DEF CallSettler, Settle, Pending, Contract!Settle, Contract!Become
  <2> QED BY <2>1 DEF Contract!Next
<1>2. ASSUME NEW f, f = Head(stack), stack # <<>> PROVE FrameOK(f)
  <2>1. stack \in Seq(Frame) /\ 1 \in 1..Len(stack) /\ Head(stack) = stack[1]
    BY <1>2, TailLemma DEF TypeOK
  <2> QED BY <1>2, <2>1 DEF PromiseInv, StackOK
<1>3. ASSUME InCode(p) \/ (stack # <<>> /\ Head(stack) = Code(p)), origin[p] # "executor"
      PROVE  Contains(started, p) /\ origin[p] \in Derived
  <2>1. FrameOK(Code(p))
    BY <1>2, <1>3 DEF InCode
  <2> QED BY <1>3, <2>1 DEF FrameOK, Code, Applicable
<1>4. ASSUME NEW v \in Value, HandlerReturns(p, v)
      PROVE  Contract!Next \/ UNCHANGED Contract!cvars
  <2>1. InCode(p) /\ origin[p] \in Derived
    BY <1>4 DEF HandlerReturns
  <2>2. Contains(started, p)
    BY <1>3, <2>1 DEF Derived
  <2>3. CASE Pending(p)
    <3>1. Contract!HandlerReturns(p, v)
      BY <1>0, <1>4, <2>1, <2>2, <2>3
         DEF HandlerReturns, TrySettle, Settle, Pending, Derived,
             Contract!HandlerReturns, Contract!Become, Contract!Derived
    <3> QED BY <3>1 DEF Contract!Next
  <2>4. CASE ~Pending(p)
    BY <1>0, <1>4, <2>4, ContractStutter DEF HandlerReturns, TrySettle
  <2> QED BY <2>3, <2>4
<1>5. CASE CatchException(p)
  <2>1. stack # <<>> /\ Head(stack) \in {Code(p), Callback(p), Creating(p)}
    BY <1>5 DEF CatchException, InTry, Top
  <2>2. CASE ~Pending(p)
    BY <1>0, <1>5, <2>2, ContractStutter DEF CatchException, TrySettle
  <2>3. CASE Pending(p)
    <3>0. /\ pstate[p] = "PENDING" /\ pstate' = [pstate EXCEPT ![p] = "REJECTED"]
          /\ value' = [value EXCEPT ![p] = Error] /\ UNCHANGED <<origin, src>>
      BY <1>5, <2>3 DEF CatchException, TrySettle, Settle, Pending
    <3>1. Head(stack) # Callback(p)
      BY <1>2, <2>1, <3>0 DEF FrameOK, Callback
    <3>2. CASE origin[p] = "executor"
      <4>1. Contract!Settle(p, "REJECTED", Error)
        BY <1>0, <3>0, <3>2 DEF Contract!Settle, Contract!Become
      <4> QED BY <4>1 DEF Contract!Next
    <3>3. CASE origin[p] # "executor"
      <4>1. CASE Contains(started, p)
        <5>1. origin[p] \in Derived
          BY <3>3, <4>1 DEF PromiseInv, ReleasedOK, Released, Applicable
        <5>2. Contract!HandlerThrows(p)
          BY <1>0, <3>0, <4>1, <5>1
             DEF Contract!HandlerThrows, Contract!Become, Contract!Derived, Derived
        <5> QED BY <5>2 DEF Contract!Next
      <4>2. CASE ~Contains(started, p)
        <5>1. Head(stack) = Creating(p)
          BY <1>3, <2>1, <3>1, <3>3, <4>2
        <5>2. Applicable(p)
          BY <1>2, <2>1, <5>1 DEF FrameOK, Creating
        <5>3. Contract!Abandon(p)
          BY <1>0, <3>0, <4>2, <5>2
             DEF Contract!Abandon, Contract!Applicable, Contract!Awaited, Contract!Become,
                 Contract!Derived, Applicable, Awaited, Derived
        <5> QED BY <5>3 DEF Contract!Next
      <4> QED BY <4>1, <4>2
    <3> QED BY <3>2, <3>3
  <2> QED BY <2>2, <2>3
<1> QED BY <1>1, <1>4, <1>5

LEMMA ContractStep ==
  ASSUME TypeOK, PromiseInv, [Next]_vars
  PROVE  Contract!Next \/ UNCHANGED Contract!cvars
<1>1. CASE RunMicroTask /\ UNCHANGED promiseVars
  BY <1>1, ContractRunMicroTask
<1>2. CASE RunMacroTask /\ UNCHANGED promiseVars
  BY <1>2, ContractRunMacroTask
<1>3. CASE \/ /\ \/ HostRun \/ ModuleReturns \/ RunIdle \/ RunStopped
                 \/ CodeEnqueuesTask \/ Stop \/ Throw
              /\ UNCHANGED promiseVars
           \/ SettlingEnqueues \/ SettlingDone \/ NativeReturns \/ Propagate
           \/ \E t \in MacroTask : TaskDone(t)
           \/ \E q \in Promise : ExecutorReturns(q)
  BY <1>3, ContractStutter
     DEF HostRun, ModuleReturns, RunIdle, RunStopped, CodeEnqueuesTask, Stop, Throw,
         SettlingEnqueues, SettlingDone, NativeReturns, Propagate, Unwind, TaskDone,
         ExecutorReturns
<1>4. CASE \/ \E q \in Promise : NewPromise(q)
           \/ \E q \in Promise, v \in Value :
                PromiseResolve(q, v) \/ PromiseReject(q, v) \/ ReadFile(q, v)
           \/ \E p, q \in Promise : Then(p, q) \/ Catch(p, q)
  BY <1>4, ContractMakes
<1>5. CASE \/ \E q \in Promise : CatchException(q)
           \/ \E q \in Promise, v \in Value :
                CallSettler(q, "FULFILLED", v) \/ CallSettler(q, "REJECTED", v)
                \/ HandlerReturns(q, v)
  BY <1>5, ContractSettles
<1>6. CASE UNCHANGED vars
  BY <1>6, ContractStutter DEF vars, loopVars
<1> QED BY <1>1, <1>2, <1>3, <1>4, <1>5, <1>6 DEF Next

\* The event loop, its queues, the callback lists and the nested runs implement
\* the contract of promises, for every number of promises, values and tasks.
THEOREM PromisesKeepContract == Spec => ImplementsContract
<1>1. Init => Contract!Init
  <2> SUFFICES ASSUME Init PROVE Contract!Init
    OBVIOUS
  <2>1. \A q : ~Contains(started, q)
    BY DEF Init, LoopInit, Contains
  <2> QED BY <2>1 DEF Init, Contract!Init
<1>2. TypeOK /\ PromiseInv /\ [Next]_vars => [Contract!Next]_(Contract!cvars)
  BY ContractStep
<1> QED BY <1>1, <1>2, TypeCorrect, PromiseInvariant, PTL
        DEF Spec, ImplementsContract, Contract!Spec

Frozen ==
  \A p \in Promise : pstate[p] # "PENDING" => pstate'[p] = pstate[p] /\ value'[p] = value[p]

LEMMA ContractFreezes ==
  ASSUME TypeOK, Contract!Next \/ UNCHANGED Contract!cvars PROVE Frozen
<1>1. ASSUME NEW q, NEW o, NEW v, Contract!Become(q, o, v) PROVE Frozen
  BY <1>1 DEF Contract!Become, Frozen, TypeOK
<1>2. ASSUME UNCHANGED <<pstate, value>> PROVE Frozen
  BY <1>2 DEF Frozen
<1> QED BY <1>1, <1>2
        DEF Contract!Next, Contract!cvars, Contract!MakePending, Contract!StartHandler,
            Contract!HandlerThrows, Contract!Abandon, Contract!HandlerReturns,
            Contract!Forward, Contract!Derive, Contract!MakeSettled, Contract!Settle

\* A settled promise keeps its state and its value for ever, whoever calls its
\* resolve and reject, however often, from whatever depth of nested runs.
THEOREM SettledForGoodHolds == Spec => SettledForGood
<1>1. TypeOK /\ PromiseInv /\ [Next]_vars => [Frozen]_vars
  BY ContractStep, ContractFreezes
<1>2. [][Frozen]_vars <=> SettledForGood
  BY PTL DEF SettledForGood, Frozen
<1> QED BY <1>1, <1>2, TypeCorrect, PromiseInvariant, PTL DEF Spec

-----------------------------------------------------------------------------
(* Delivery.                                                                *)

LEMMA EmptyLemma == ASSUME NEW S, NEW s \in Seq(S) PROVE s = <<>> <=> Len(s) = 0
OBVIOUS

-----------------------------------------------------------------------------
(* What is on the stack: the module's code at the bottom, and above a       *)
(* ForEach an activation of Run().                                          *)

Bottom(s, f) == \A i \in 1..Len(s) : s[i] = f => i = Len(s)
Guarded(s)   == \A i \in 1..Len(s) - 1 : s[i + 1].fn = "Settling" => s[i] \in RunFrame
Linked(s)    == Bottom(s, Code(Module)) /\ Guarded(s)

CallsInv == ModuleAtBottom /\ ForEachCallsRun

LEMMA CallsInvIs ==
  CallsInv <=>
    /\ Linked(stack)
    /\ exc /\ ~escaped /\ stack # <<>> => Head(stack).fn # "Settling"
BY DEF CallsInv, ModuleAtBottom, ForEachCallsRun, Linked, Bottom, Guarded

LEMMA CallsInvNext ==
  ASSUME Linked(stack'), exc' /\ ~escaped' /\ stack' # <<>> => Head(stack').fn # "Settling"
  PROVE  CallsInv'
BY DEF CallsInv, ModuleAtBottom, ForEachCallsRun, Linked, Bottom, Guarded

\* A frame is pushed on a stack whose top is no ForEach, or it is a Run().
LEMMA PushLinked ==
  ASSUME NEW s \in Seq(Frame), NEW f \in Frame, Linked(s),
         s = <<>> \/ Head(s).fn # "Settling" \/ f \in RunFrame,
         s = <<>> \/ f # Code(Module)
  PROVE  Linked(Push(f, s))
<1>0. /\ Len(s) \in Nat /\ Len(Push(f, s)) = Len(s) + 1
      /\ Push(f, s)[1] = f /\ (s # <<>> => Head(s) = s[1])
      /\ s = <<>> <=> Len(s) = 0
      /\ \A i \in 2..Len(s) + 1 : Push(f, s)[i] = s[i - 1]
  BY PushLemma, TailLemma
<1>1. ASSUME NEW i \in 1..Len(s) + 1, Push(f, s)[i] = Code(Module) PROVE i = Len(s) + 1
  <2>1. CASE i = 1
    BY <1>0, <1>1, <2>1
  <2>2. CASE i # 1
    <3>1. i - 1 \in 1..Len(s) /\ s[i - 1] = Code(Module)
      BY <1>0, <1>1, <2>2
    <3> QED BY <1>0, <3>1 DEF Linked, Bottom
  <2> QED BY <2>1, <2>2
<1>2. ASSUME NEW i \in 1..Len(s), Push(f, s)[i + 1].fn = "Settling"
      PROVE  Push(f, s)[i] \in RunFrame
  <2>0. s[i].fn = "Settling"
    BY <1>0, <1>2
  <2>1. CASE i = 1
    BY <1>0, <2>0, <2>1
  <2>2. CASE i # 1
    <3>1. i - 1 \in 1..Len(s) - 1 /\ Push(f, s)[i] = s[i - 1] /\ (i - 1) + 1 = i
      BY <1>0, <2>2
    <3> QED BY <2>0, <3>1 DEF Linked, Guarded
  <2> QED BY <2>1, <2>2
<1> QED BY <1>0, <1>1, <1>2 DEF Linked, Bottom, Guarded

LEMMA PushOn ==
  ASSUME NEW s \in Seq(Frame), NEW f \in Frame, Linked(s),
         s = <<>> \/ Head(s).fn # "Settling" \/ f \in RunFrame,
         s = <<>> \/ f # Code(Module)
  PROVE  /\ Push(f, s) \in Seq(Frame) /\ Linked(Push(f, s))
         /\ Push(f, s) # <<>> /\ Head(Push(f, s)) = f
<1>1. Linked(Push(f, s))
  BY PushLinked
<1>2. Push(f, s) \in Seq(Frame) /\ Push(f, s) # <<>> /\ Head(Push(f, s)) = f
  BY PushLemma
<1> QED BY <1>1, <1>2

LEMMA TailLinked ==
  ASSUME NEW s \in Seq(Frame), s # <<>>, Linked(s)
  PROVE  /\ Tail(s) \in Seq(Frame) /\ Linked(Tail(s))
         /\ Tail(s) # <<>> /\ Head(Tail(s)).fn = "Settling" => Head(s) \in RunFrame
         /\ Head(s) = Code(Module) => Tail(s) = <<>>
<1>0. /\ Len(s) \in Nat \ {0} /\ Tail(s) \in Seq(Frame) /\ Len(Tail(s)) = Len(s) - 1
      /\ Head(s) = s[1]
      /\ \A i \in 1..Len(s) - 1 : Tail(s)[i] = s[i + 1]
  BY TailLemma
<1>1. Linked(Tail(s))
  <2>1. ASSUME NEW i \in 1..Len(s) - 1, Tail(s)[i] = Code(Module) PROVE i = Len(s) - 1
    <3>1. i + 1 \in 1..Len(s) /\ s[i + 1] = Code(Module)
      BY <1>0, <2>1
    <3>2. i + 1 = Len(s)
      BY <3>1 DEF Linked, Bottom
    <3>3. i \in Int /\ Len(s) \in Int
      BY <1>0
    <3> QED BY <3>2, <3>3
  <2>2. ASSUME NEW i \in 1..Len(s) - 2, Tail(s)[i + 1].fn = "Settling"
        PROVE  Tail(s)[i] \in RunFrame
    <3>1. /\ i + 1 \in 1..Len(s) - 1 /\ s[(i + 1) + 1].fn = "Settling"
          /\ Tail(s)[i] = s[i + 1]
      BY <1>0, <2>2
    <3> QED BY <3>1 DEF Linked, Guarded
  <2>3. Len(Tail(s)) - 1 = Len(s) - 2
    BY <1>0
  <2> QED BY <1>0, <2>1, <2>2, <2>3 DEF Linked, Bottom, Guarded
<1>2. ASSUME Tail(s) # <<>>, Head(Tail(s)).fn = "Settling" PROVE Head(s) \in RunFrame
  <2>1. Len(s) \in Nat /\ Len(s) > 1
    BY <1>0, <1>2
  <2>2. Head(Tail(s)) = s[1 + 1] /\ 1 \in 1..Len(s) - 1
    BY <1>0, <1>2, <2>1
  <2> QED BY <1>0, <1>2, <2>2 DEF Linked, Guarded
<1>3. ASSUME Head(s) = Code(Module) PROVE Tail(s) = <<>>
  <2>1. 1 \in 1..Len(s) /\ s[1] = Code(Module)
    BY <1>0, <1>3
  <2>2. Len(s) = 1
    BY <2>1 DEF Linked, Bottom
  <2>3. Len(Tail(s)) = 0 /\ Tail(s) \in Seq(Frame)
    BY <1>0, <2>2
  <2> QED BY <2>3, EmptyLemma
<1> QED BY <1>0, <1>1, <1>2, <1>3

\* Popping a frame, below which a ForEach is the top only if it was a Run().
LEMMA PopCalls ==
  ASSUME TypeOK, Linked(stack), stack # <<>>, stack' = Tail(stack),
         ~exc' \/ escaped' \/ Head(stack) \notin RunFrame
  PROVE  CallsInv'
<1>1. stack \in Seq(Frame)
  BY DEF TypeOK
<1> QED BY <1>1, TailLinked, CallsInvNext

\* CallsInv is inductive.
LEMMA CallsStep ==
  ASSUME TypeOK, CallsInv, [Next]_vars PROVE CallsInv'
<1>0. /\ stack \in Seq(Frame) /\ Linked(stack)
      /\ exc /\ ~escaped /\ stack # <<>> => Head(stack).fn # "Settling"
  BY CallsInvIs DEF TypeOK
<1>1. ASSUME stack # <<>>
      PROVE  /\ Tail(stack) \in Seq(Frame) /\ Linked(Tail(stack)) /\ Head(stack) \in Frame
             /\ Tail(stack) # <<>> /\ Head(Tail(stack)).fn = "Settling"
                  => Head(stack) \in RunFrame
  BY <1>0, <1>1, TailLinked, TailLemma
<1>2. /\ Run("top") \in Frame /\ Run("drain") \in Frame /\ Code(Module) \in Frame
      /\ Run("top") \in RunFrame /\ Run("drain") \in RunFrame
      /\ Run("top").fn = "Run" /\ Run("drain").fn = "Run"
      /\ Run("top") # Code(Module) /\ Run("drain") # Code(Module)
      /\ Code(Module).fn = "Code"
      /\ \A t \in Task : Code(t) \in Frame /\ Code(t) # Code(Module)
      /\ \A q \in Promise : Creating(q) # Code(Module) /\ Callback(q) # Code(Module)
      /\ \A q \in Promise : \A n : Settling(q, n) # Code(Module)
  BY PromiseFrames, FrameTypes, TasksAreDistinct
     DEF Run, Code, Creating, Callback, Settling, Task
\* A frame on top of what is below the top.
<1>3. ASSUME NEW f \in Frame, stack # <<>>, Head(stack) \notin RunFrame \/ f \in RunFrame,
             f # Code(Module)
      PROVE  Push(f, Tail(stack)) \in Seq(Frame) /\ Linked(Push(f, Tail(stack)))
             /\ Head(Push(f, Tail(stack))) = f
  BY <1>1, <1>3, PushOn
<1>4. CASE HostRun \/ ModuleReturns
  <2>1. PICK f \in {Code(Module), Run("top")} :
          stack' = Push(f, <<>>) /\ f \in Frame /\ f.fn # "Settling"
    BY <1>2, <1>4 DEF HostRun, ModuleReturns, Push
  <2>2. Linked(<<>>) /\ <<>> \in Seq(Frame)
    BY DEF Linked, Bottom, Guarded
  <2>3. Linked(Push(f, <<>>)) /\ Head(Push(f, <<>>)) = f
    BY <2>1, <2>2, PushOn
  <2> QED BY <2>1, <2>3, CallsInvNext
<1>5. CASE Stop \/ Throw \/ UNCHANGED vars
  <2>1. stack' = stack /\ escaped' = escaped
    BY <1>5 DEF Stop, Throw, history, vars, loopVars
  <2>2. Throw => Head(stack).fn # "Settling"
    BY DEF Throw, Running
  <2>3. ~Throw => exc' = exc
    BY <1>5 DEF Stop, vars, loopVars
  <2> QED BY <1>0, <2>1, <2>2, <2>3, CallsInvNext
<1>6. CASE RunMicroTask \/ RunMacroTask
  <2>1. stack # <<>> /\ Head(stack) \in RunFrame /\ exc' = FALSE
    BY <1>0, <1>1, <1>6, PromiseFrames DEF RunMicroTask, RunMacroTask, Running
  <2>2. PICK t \in Task, r \in {Run("top"), Run("drain")} :
          stack' = Push(Code(t), Push(r, Tail(stack)))
    BY <1>6 DEF RunMicroTask, RunMacroTask, TypeOK, Task, Promise
  <2>3. /\ Push(r, Tail(stack)) \in Seq(Frame) /\ Linked(Push(r, Tail(stack)))
        /\ Head(Push(r, Tail(stack))) = r /\ r.fn # "Settling"
    BY <1>2, <1>3, <2>1
  <2>4. Linked(stack')
    BY <1>2, <2>2, <2>3, PushLinked
  <2> QED BY <2>1, <2>4, CallsInvNext
<1>7. CASE \/ RunIdle \/ RunStopped \/ SettlingDone \/ NativeReturns \/ Propagate
           \/ (\E t \in MacroTask : TaskDone(t)) \/ (\E q \in Promise : ExecutorReturns(q))
  <2>1. stack # <<>> /\ stack' = Tail(stack)
    BY <1>7 DEF RunIdle, RunStopped, SettlingDone, NativeReturns, Propagate, Unwind,
                TaskDone, ExecutorReturns, Running, InCode
  <2>2. exc' = FALSE \/ escaped' \/ Head(stack) \notin RunFrame
    BY <1>7 DEF RunIdle, RunStopped, SettlingDone, NativeReturns, Propagate, Unwind,
                TaskDone, ExecutorReturns, Running, InCode, TypeOK
  <2> QED BY <1>0, <2>1, <2>2, PopCalls
\* Something that user code does, or an enqueue: Run() may be entered.
<1>8. ASSUME NEW s \in Seq(Frame), Linked(s), s # <<>>, exc' = FALSE,
             stack' = s \/ stack' = Push(Run("top"), s)
      PROVE  CallsInv'
  BY <1>2, <1>8, PushLinked, CallsInvNext
<1>9. CASE \/ CodeEnqueuesTask
           \/ \E q \in Promise, v \in Value :
                PromiseResolve(q, v) \/ PromiseReject(q, v) \/ ReadFile(q, v)
  <2>1. stack # <<>> /\ exc' = FALSE /\ (stack' = stack \/ stack' = Push(Run("top"), stack))
    BY <1>9 DEF CodeEnqueuesTask, EnqueueTask, WakeIfStopped, PromiseResolve, PromiseReject,
                ReadFile, MakeSettled, loopVars, Running, TypeOK
  <2> QED BY <1>0, <1>8, <2>1
<1>10. ASSUME NEW q \in Promise, NewPromise(q) PROVE CallsInv'
  <2>1. /\ stack # <<>> /\ exc' = FALSE /\ Head(stack).fn = "Code"
        /\ stack' = Push(Code(q), stack)
    BY <1>10 DEF NewPromise, Running, TypeOK
  <2>2. Push(Code(q), stack) # <<>> /\ Push(Code(q), stack) \in Seq(Frame)
        /\ Linked(Push(Code(q), stack))
    <3>1. Code(q) \in Frame /\ Code(q) # Code(Module)
      BY <1>2 DEF Task, Promise
    <3>2. Head(stack).fn # "Settling"
      BY <2>1
    <3> QED BY <1>0, <3>1, <3>2, PushOn
  <2> QED BY <1>8, <2>1, <2>2
<1>11. ASSUME NEW p \in Promise, NEW q \in Promise, Then(p, q) \/ Catch(p, q)
       PROVE  CallsInv'
  <2>1. stack # <<>> /\ exc' = FALSE /\ Head(stack).fn = "Code"
    BY <1>11 DEF Then, Catch, Running, TypeOK
  <2>2. \/ stack' = stack
        \/ stack' = Push(Creating(q), stack)
        \/ stack' = Push(Run("top"), Push(Creating(q), stack))
    BY <1>11 DEF Then, ThenExecutor, Catch, CatchExecutor, EnqueueMicroTask, WakeIfStopped
  <2>3. Push(Creating(q), stack) # <<>> /\ Push(Creating(q), stack) \in Seq(Frame)
        /\ Linked(Push(Creating(q), stack))
    <3>1. Creating(q) \in Frame /\ Creating(q) # Code(Module)
      BY <1>2, PromiseFrames
    <3>2. Head(stack).fn # "Settling"
      BY <2>1
    <3> QED BY <1>0, <3>1, <3>2, PushOn
  <2> QED BY <1>0, <1>8, <2>1, <2>2, <2>3
<1>12. CASE SettlingEnqueues
  <2>1. /\ stack # <<>> /\ exc' = FALSE /\ Head(stack).fn = "Settling"
        /\ Head(stack) \in Frame /\ Top = Head(stack)
    BY <1>1, <1>12 DEF SettlingEnqueues, Running, TypeOK, Top
  <2>2. Settling(Top.task, Top.next + 1) \in Frame
        /\ Settling(Top.task, Top.next + 1) # Code(Module)
    <3>1. Top.task \in Promise /\ Top.next + 1 \in Nat \ {0}
      BY <2>1, SettlingTypes
    <3> QED BY <1>2, <3>1, PromiseFrames
  <2>3. Head(stack) \notin RunFrame
    BY <2>1, PromiseFrames
  <2>4. /\ Push(Settling(Top.task, Top.next + 1), Tail(stack)) \in Seq(Frame)
        /\ Linked(Push(Settling(Top.task, Top.next + 1), Tail(stack)))
        /\ Push(Settling(Top.task, Top.next + 1), Tail(stack)) # <<>>
    <3>1. Tail(stack) \in Seq(Frame)
      BY <1>1, <2>1
    <3>2. Push(Settling(Top.task, Top.next + 1), Tail(stack)) # <<>>
      BY <2>2, <3>1, PushLemma
    <3> QED BY <1>3, <2>1, <2>2, <2>3, <3>2
  <2> QED BY <1>8, <1>12, <2>1, <2>4 DEF SettlingEnqueues, EnqueueMicroTask, WakeIfStopped
\* A promise is settled, by a call that returns to s.
<1>13. ASSUME NEW p \in Promise, NEW outcome, NEW v, NEW s \in Seq(Frame), Linked(s),
              s # <<>> => Head(s).fn # "Settling", exc' = FALSE, TrySettle(p, outcome, v, s)
       PROVE  CallsInv'
  <2>1. stack' = s \/ stack' = Push(Settling(p, 1), s)
    BY <1>13 DEF TrySettle, Settle
  <2>2. Settling(p, 1) \in Frame /\ Settling(p, 1) # Code(Module)
    BY <1>2, PromiseFrames
  <2> QED BY <1>13, <2>1, <2>2, PushLinked, CallsInvNext
<1>14. ASSUME NEW p \in Promise, NEW v \in Value,
              CallSettler(p, "FULFILLED", v) \/ CallSettler(p, "REJECTED", v)
       PROVE  CallsInv'
  <2>1. stack # <<>> /\ exc' = FALSE /\ Head(stack).fn = "Code"
    BY <1>14 DEF CallSettler, Running, TypeOK
  <2> QED BY <1>0, <1>13, <1>14, <2>1 DEF CallSettler, TrySettle
<1>15. ASSUME NEW q \in Promise, NEW v \in Value, HandlerReturns(q, v) PROVE CallsInv'
  <2>1. stack # <<>> /\ exc' = FALSE /\ Head(stack) = Code(q)
    BY <1>15 DEF HandlerReturns, InCode, TypeOK
  <2>2. Head(stack) \notin RunFrame
    BY <2>1, PromiseFrames
  <2>3. Callback(q) \in Frame /\ Callback(q) # Code(Module) /\ Callback(q).fn = "Callback"
    BY <1>2, PromiseFrames DEF Callback
  <2>4. /\ Push(Callback(q), Tail(stack)) \in Seq(Frame)
        /\ Linked(Push(Callback(q), Tail(stack)))
        /\ Head(Push(Callback(q), Tail(stack))) = Callback(q)
    BY <1>3, <2>1, <2>2, <2>3
  <2> QED BY <1>13, <1>15, <2>1, <2>3, <2>4 DEF HandlerReturns
<1>16. ASSUME NEW q \in Promise, CatchException(q) PROVE CallsInv'
  <2>1. stack # <<>> /\ exc' = FALSE /\ Head(stack) \notin RunFrame
    BY <1>16, PromiseFrames DEF CatchException, InTry, Top
  <2> QED BY <1>1, <1>13, <1>16, <2>1 DEF CatchException
<1> QED BY <1>4, <1>5, <1>6, <1>7, <1>9, <1>10, <1>11, <1>12, <1>14, <1>15, <1>16 DEF Next

-----------------------------------------------------------------------------
(* Which activations a step ends, and which it begins.                      *)

Frames(s) == {s[i] : i \in 1..Len(s)}

LEMMA FramesPush ==
  ASSUME NEW s \in Seq(Frame), NEW f \in Frame
  PROVE  Push(f, s) \in Seq(Frame) /\ Frames(Push(f, s)) = {f} \cup Frames(s)
<1>0. /\ Len(s) \in Nat /\ Len(Push(f, s)) = Len(s) + 1
      /\ Push(f, s)[1] = f
      /\ \A i \in 1..Len(s) : Push(f, s)[i + 1] = s[i]
      /\ \A i \in 2..Len(s) + 1 : Push(f, s)[i] = s[i - 1]
      /\ Push(f, s) \in Seq(Frame)
  BY DEF Push
<1>1. ASSUME NEW i \in 1..Len(s) + 1 PROVE Push(f, s)[i] \in {f} \cup Frames(s)
  <2>1. CASE i = 1
    BY <1>0, <2>1
  <2>2. CASE i # 1
    <3>1. i - 1 \in 1..Len(s) /\ Push(f, s)[i] = s[i - 1]
      BY <1>0, <2>2
    <3> QED BY <3>1 DEF Frames
  <2> QED BY <2>1, <2>2
<1>2. 1 \in 1..Len(s) + 1 /\ \A i \in 1..Len(s) : i + 1 \in 1..Len(s) + 1
  BY <1>0
<1>3. /\ f \in Frames(Push(f, s))
      /\ \A i \in 1..Len(s) : s[i] \in Frames(Push(f, s))
  BY <1>0, <1>2 DEF Frames
<1>4. Frames(Push(f, s)) \subseteq {f} \cup Frames(s)
  BY <1>0, <1>1 DEF Frames
<1> QED BY <1>0, <1>3, <1>4 DEF Frames

LEMMA FramesTail ==
  ASSUME NEW s \in Seq(Frame), s # <<>>
  PROVE  Frames(s) = {Head(s)} \cup Frames(Tail(s))
<1>0. /\ Len(s) \in Nat \ {0} /\ Len(Tail(s)) = Len(s) - 1 /\ Head(s) = s[1]
      /\ \A i \in 1..Len(s) - 1 : Tail(s)[i] = s[i + 1]
      /\ \A i \in 2..Len(s) : Tail(s)[i - 1] = s[i]
  BY TailLemma
<1>1. ASSUME NEW i \in 1..Len(s) PROVE s[i] \in {Head(s)} \cup Frames(Tail(s))
  <2>1. CASE i = 1
    BY <1>0, <2>1
  <2>2. CASE i # 1
    <3>1. i - 1 \in 1..Len(s) - 1 /\ Tail(s)[i - 1] = s[i]
      BY <1>0, <2>2
    <3> QED BY <1>0, <3>1 DEF Frames
  <2> QED BY <2>1, <2>2
<1>2. 1 \in 1..Len(s) /\ \A i \in 1..Len(s) - 1 : i + 1 \in 1..Len(s)
  BY <1>0
<1> QED BY <1>0, <1>1, <1>2 DEF Frames

\* What a step that takes the top off may be.
EndsTop ==
  \/ Head(stack).fn = "Run" \/ Head(stack) = Code(Module)
  \/ SettlingDone \/ SettlingEnqueues \/ NativeReturns \/ Propagate
  \/ \E t \in MacroTask : TaskDone(t)
  \/ \E q \in Promise : \/ ExecutorReturns(q) \/ CatchException(q)
                        \/ \E v \in Value : HandlerReturns(q, v)

LEMMA SettleFrames ==
  ASSUME TypeOK, NEW p \in Promise, NEW outcome, NEW v, NEW s \in Seq(Frame),
         TrySettle(p, outcome, v, s)
  PROVE  /\ Frames(s) \subseteq Frames(stack')
         /\ Frames(stack') \subseteq Frames(s) \cup {Settling(p, 1)}
<1>1. Settling(p, 1) \in Frame
  BY PromiseFrames
<1> QED BY <1>1, FramesPush DEF TrySettle, Settle

\* An enqueue by code that goes on with the stack s.
LEMMA WakeFrames ==
  ASSUME NEW s \in Seq(Frame), WakeIfStopped(s)
  PROVE  Frames(s) \subseteq Frames(stack') /\ Frames(stack') \subseteq Frames(s) \cup RunFrame
BY FramesPush, FrameTypes, PromiseFrames DEF WakeIfStopped

\* A step ends at most the activation on the top, and the calls of ForEach that
\* it begins or moves are those of a settled promise.
LEMMA StackStep ==
  ASSUME TypeOK, CallsInv, [Next]_vars
  PROVE  /\ \/ Frames(stack) \subseteq Frames(stack')
            \/ stack # <<>> /\ Frames(Tail(stack)) \subseteq Frames(stack') /\ EndsTop
         /\ \A f \in Frames(stack') : f.fn = "Settling" =>
              \/ f \in Frames(stack)
              \/ f.next = 1
              \/ SettlingEnqueues /\ f = Settling(Top.task, Top.next + 1)
<1> DEFINE Ends == \/ Frames(stack) \subseteq Frames(stack')
                   \/ stack # <<>> /\ Frames(Tail(stack)) \subseteq Frames(stack') /\ EndsTop
           Begins == \A f \in Frames(stack') : f.fn = "Settling" =>
                       \/ f \in Frames(stack)
                       \/ f.next = 1
                       \/ SettlingEnqueues /\ f = Settling(Top.task, Top.next + 1)
<1> SUFFICES Ends /\ Begins
  OBVIOUS
<1>0. stack \in Seq(Frame) /\ Linked(stack) /\ <<>> \in Seq(Frame) /\ Frames(<<>>) = {}
  BY CallsInvIs DEF TypeOK, Frames
<1>1. ASSUME stack # <<>>
      PROVE  /\ Tail(stack) \in Seq(Frame) /\ Head(stack) \in Frame
             /\ Frames(stack) = {Head(stack)} \cup Frames(Tail(stack))
  BY <1>0, <1>1, FramesTail, TailLemma
<1>2. /\ \A f \in RunFrame : f \in Frame /\ f.fn # "Settling"
      /\ Code(Module) \in Frame /\ Code(Module).fn # "Settling"
      /\ \A t \in Task : Code(t) \in Frame /\ Code(t).fn # "Settling"
      /\ \A q \in Promise : /\ Creating(q).fn # "Settling" /\ Callback(q).fn # "Settling"
                            /\ Creating(q) \in Frame /\ Callback(q) \in Frame
      /\ \A q \in Promise : \A n : Settling(q, n).next = n
  BY PromiseFrames, FrameTypes DEF Creating, Callback, Settling, Task
<1>3. CASE HostRun
  <2>1. stack = <<>> /\ stack' = Push(Code(Module), <<>>)
    BY <1>3 DEF HostRun, Push
  <2>2. Frames(stack') = {Code(Module)}
    <3>1. Frames(Push(Code(Module), <<>>)) = {Code(Module)} \cup Frames(<<>>)
      BY <1>0, <1>2, FramesPush
    <3> QED BY <1>0, <2>1, <3>1
  <2>3. Code(Module).fn # "Settling" /\ Frames(stack) = {}
    BY <1>0, <1>2, <2>1
  <2> QED BY <2>2, <2>3
<1>4. CASE ModuleReturns
  <2>1. stack # <<>> /\ Head(stack) = Code(Module) /\ stack' = Push(Run("top"), <<>>)
    BY <1>4 DEF ModuleReturns, InCode, Push
  <2>2. Tail(stack) = <<>>
    BY <1>0, <2>1, TailLinked
  <2>3. Run("top") \in RunFrame /\ Run("top") \in Frame
    BY <1>2, FrameTypes
  <2>4. Frames(stack') = {Run("top")}
    BY <1>0, <2>1, <2>3, FramesPush
  <2> QED BY <1>0, <1>2, <2>1, <2>2, <2>3, <2>4 DEF EndsTop
<1>5. CASE stack' = stack
  BY <1>5
<1>6. CASE RunMicroTask \/ RunMacroTask
  <2>1. stack # <<>> /\ Head(stack).fn = "Run"
    BY <1>6 DEF RunMicroTask, RunMacroTask, Running
  <2>2. PICK t \in Task, r \in {Run("top"), Run("drain")} :
          stack' = Push(Code(t), Push(r, Tail(stack)))
    BY <1>6 DEF RunMicroTask, RunMacroTask, TypeOK, Task, Promise
  <2>3. /\ Push(r, Tail(stack)) \in Seq(Frame) /\ r \in RunFrame
        /\ Frames(Push(r, Tail(stack))) = {r} \cup Frames(Tail(stack))
    BY <1>1, <1>2, <2>1, FramesPush, FrameTypes
  <2>4. Frames(stack') = {Code(t), r} \cup Frames(Tail(stack))
    <3>1. Code(t) \in Frame
      BY <1>2
    <3>2. Frames(stack') = {Code(t)} \cup Frames(Push(r, Tail(stack)))
      BY <2>2, <2>3, <3>1, FramesPush
    <3> QED BY <2>3, <3>2
  <2> QED BY <1>1, <1>2, <2>1, <2>3, <2>4 DEF EndsTop
<1>7. CASE \/ RunIdle \/ RunStopped \/ SettlingDone \/ NativeReturns \/ Propagate
           \/ (\E t \in MacroTask : TaskDone(t)) \/ (\E q \in Promise : ExecutorReturns(q))
  <2>1. stack # <<>> /\ stack' = Tail(stack)
    BY <1>7 DEF RunIdle, RunStopped, SettlingDone, NativeReturns, Propagate, Unwind,
                TaskDone, ExecutorReturns, Running, InCode
  <2>2. EndsTop
    BY <1>7 DEF EndsTop, RunIdle, RunStopped, Running
  <2> QED BY <1>1, <2>1, <2>2
<1>8. CASE CodeEnqueuesTask
  BY <1>0, <1>2, <1>8, WakeFrames DEF CodeEnqueuesTask, EnqueueTask
<1>9. ASSUME NEW q \in Promise, NewPromise(q) PROVE Ends /\ Begins
  <2>1. Frames(stack') = {Code(q)} \cup Frames(stack) /\ Code(q).fn # "Settling"
    BY <1>0, <1>2, <1>9, FramesPush DEF NewPromise, Task, Promise
  <2> QED BY <2>1
<1>10. ASSUME NEW p \in Promise, NEW q \in Promise, Then(p, q) \/ Catch(p, q)
       PROVE  Ends /\ Begins
  <2>1. CASE EnqueueMicroTask(q, Push(Creating(q), stack))
    <3>1. /\ Push(Creating(q), stack) \in Seq(Frame)
          /\ Frames(Push(Creating(q), stack)) = {Creating(q)} \cup Frames(stack)
      BY <1>0, <1>2, FramesPush
    <3> QED BY <1>2, <2>1, <3>1, WakeFrames DEF EnqueueMicroTask
  <2> QED BY <1>5, <1>10, <2>1 DEF Then, ThenExecutor, Catch, CatchExecutor
<1>11. CASE SettlingEnqueues
  <2> DEFINE f == Settling(Top.task, Top.next + 1)
  <2>1. /\ stack # <<>> /\ Top = Head(stack) /\ Top.fn = "Settling"
    BY <1>11 DEF SettlingEnqueues, Running, Top
  <2>2. f \in Frame
    <3>1. Top.task \in Promise /\ Top.next + 1 \in Nat \ {0}
      BY <1>1, <2>1, SettlingTypes
    <3> QED BY <3>1, PromiseFrames
  <2>3. Push(f, Tail(stack)) \in Seq(Frame)
        /\ Frames(Push(f, Tail(stack))) = {f} \cup Frames(Tail(stack))
    BY <1>1, <2>1, <2>2, FramesPush
  <2>4. WakeIfStopped(Push(f, Tail(stack)))
    BY <1>11 DEF SettlingEnqueues, EnqueueMicroTask
  <2>5. Frames(Push(f, Tail(stack))) \subseteq Frames(stack')
        /\ Frames(stack') \subseteq Frames(Push(f, Tail(stack))) \cup RunFrame
    BY <2>3, <2>4, WakeFrames
  <2> QED BY <1>1, <1>2, <1>11, <2>1, <2>3, <2>5 DEF EndsTop
<1>12. ASSUME NEW p \in Promise, NEW v \in Value,
              CallSettler(p, "FULFILLED", v) \/ CallSettler(p, "REJECTED", v)
       PROVE  Ends /\ Begins
  BY <1>0, <1>2, <1>12, SettleFrames DEF CallSettler, TrySettle
<1>13. ASSUME NEW q \in Promise, NEW v \in Value, HandlerReturns(q, v) PROVE Ends /\ Begins
  <2>1. stack # <<>>
    BY <1>13 DEF HandlerReturns, InCode
  <2>2. /\ Push(Callback(q), Tail(stack)) \in Seq(Frame)
        /\ Frames(Push(Callback(q), Tail(stack))) = {Callback(q)} \cup Frames(Tail(stack))
    BY <1>1, <1>2, <2>1, FramesPush
  <2> QED BY <1>1, <1>2, <1>13, <2>1, <2>2, SettleFrames DEF HandlerReturns, EndsTop
<1>14. ASSUME NEW q \in Promise, CatchException(q) PROVE Ends /\ Begins
  <2>1. stack # <<>>
    BY <1>14 DEF CatchException, InTry
  <2>2. TrySettle(q, "REJECTED", Error, Tail(stack)) /\ EndsTop
    BY <1>14 DEF CatchException, EndsTop
  <2>3. /\ Frames(Tail(stack)) \subseteq Frames(stack')
        /\ Frames(stack') \subseteq Frames(Tail(stack)) \cup {Settling(q, 1)}
    BY <1>1, <2>1, <2>2, SettleFrames
  <2> QED BY <1>1, <1>2, <2>1, <2>2, <2>3
<1> QED BY <1>3, <1>4, <1>5, <1>6, <1>7, <1>8, <1>9, <1>10, <1>11, <1>12, <1>13, <1>14
        DEF Next, Stop, Throw, PromiseResolve, PromiseReject, ReadFile, MakeSettled, loopVars, vars

-----------------------------------------------------------------------------
(* What a step does to the queue of microtasks and to the started tasks.    *)

Invokes(t) ==
  /\ microTaskQueue # <<>> /\ t = Head(microTaskQueue)
  /\ microTaskQueue' = Tail(microTaskQueue) /\ started' = Append(started, t)
  /\ Code(t) \in Frames(stack')
  /\ UNCHANGED promiseVars

InvokesHost(t) ==
  started' = Append(started, t) /\ UNCHANGED <<microTaskQueue, promiseVars>>

\* q is a promise that is being made, or the callback that a ForEach is at.
Enqueues(q) ==
  /\ started' = started /\ microTaskQueue' = Append(microTaskQueue, q)
  /\ UNCHANGED <<pstate, callbackLists>>
  /\ \/ origin[q] = "none"
     \/ SettlingEnqueues /\ q = Callbacks(Top.task)[Top.next]

LEMMA QueueStep ==
  ASSUME TypeOK, [Next]_vars
  PROVE  \/ UNCHANGED <<microTaskQueue, started>>
         \/ \E t \in Promise : Invokes(t)
         \/ \E t \in MacroTask : InvokesHost(t)
         \/ \E q \in Promise : Enqueues(q)
<1>0. stack \in Seq(Frame)
  BY DEF TypeOK
<1>1. CASE RunMicroTask /\ UNCHANGED promiseVars
  <2>1. stack # <<>> /\ Tail(stack) \in Seq(Frame) /\ microTaskQueue # <<>>
    BY <1>0, <1>1, TailLemma DEF RunMicroTask, Running
  <2>2. PICK t \in Promise : t = Head(microTaskQueue)
    BY <2>1 DEF TypeOK
  <2>3. Code(t) \in Frame /\ Run("drain") \in Frame
    BY PromiseFrames, FrameTypes
  <2>4. Push(Run("drain"), Tail(stack)) \in Seq(Frame)
    BY <2>1, <2>3, FramesPush
  <2>5. Code(t) \in Frames(stack')
    BY <1>1, <2>2, <2>3, <2>4, FramesPush DEF RunMicroTask
  <2>6. Invokes(t)
    BY <1>1, <2>2, <2>5 DEF RunMicroTask, Invokes
  <2> QED BY <2>6
<1>2. CASE RunMacroTask /\ UNCHANGED promiseVars
  <2>1. PICK t \in MacroTask : t = Head(macroTaskQueue)
    BY <1>2 DEF RunMacroTask, TypeOK
  <2>2. InvokesHost(t)
    BY <1>2, <2>1 DEF RunMacroTask, InvokesHost
  <2> QED BY <2>2
<1>3. CASE SettlingEnqueues
  <2>1. Head(stack) \in Frame /\ Top = Head(stack) /\ Top.fn = "Settling"
    BY <1>0, <1>3, TailLemma DEF SettlingEnqueues, Running, Top
  <2>2. Callbacks(Top.task)[Top.next] \in Promise
    <3>1. Top.next \in Nat \ {0} /\ Callbacks(Top.task) \in Seq(Promise)
      BY <2>1, SettlingTypes, CallbackTypes
    <3> QED BY <1>3, <3>1 DEF SettlingEnqueues, HasCallback
  <2>3. Enqueues(Callbacks(Top.task)[Top.next])
    BY <1>3 DEF SettlingEnqueues, EnqueueMicroTask, Enqueues, promiseVars
  <2> QED BY <2>2, <2>3
<1>4. ASSUME NEW p \in Promise, NEW q \in Promise, Then(p, q) \/ Catch(p, q)
      PROVE  Enqueues(q) \/ UNCHANGED <<microTaskQueue, started>>
  <2>1. origin[q] = "none" /\ started' = started
    BY <1>4 DEF Then, Catch, Make
  <2>2. CASE Then(p, q)
    BY <2>1, <2>2 DEF Then, ThenExecutor, EnqueueMicroTask, Enqueues, queues
  <2>3. CASE Catch(p, q)
    BY <2>1, <2>3 DEF Catch, CatchExecutor, EnqueueMicroTask, Enqueues, queues
  <2> QED BY <1>4, <2>2, <2>3
<1>5. CASE \/ HostRun \/ ModuleReturns \/ RunIdle \/ RunStopped \/ CodeEnqueuesTask
           \/ Stop \/ Throw \/ SettlingDone \/ NativeReturns \/ Propagate
           \/ (\E t \in MacroTask : TaskDone(t)) \/ UNCHANGED vars
  BY <1>5 DEF HostRun, ModuleReturns, RunIdle, RunStopped, CodeEnqueuesTask, EnqueueTask,
              Stop, Throw, SettlingDone, NativeReturns, Propagate, Unwind, TaskDone,
              queues, vars, loopVars
<1>6. CASE \/ \E q \in Promise : NewPromise(q) \/ ExecutorReturns(q) \/ CatchException(q)
           \/ \E q \in Promise, v \in Value :
                \/ PromiseResolve(q, v) \/ PromiseReject(q, v) \/ ReadFile(q, v)
                \/ HandlerReturns(q, v)
                \/ CallSettler(q, "FULFILLED", v) \/ CallSettler(q, "REJECTED", v)
  BY <1>6 DEF NewPromise, ExecutorReturns, CatchException, PromiseResolve, PromiseReject,
              ReadFile, MakeSettled, HandlerReturns, CallSettler, queues, loopVars
<1> QED BY <1>1, <1>2, <1>3, <1>4, <1>5, <1>6 DEF Next, Propagate

LEMMA StartedGrows ==
  ASSUME TypeOK, [Next]_vars
  PROVE  /\ \A u : Contains(started, u) => Contains(started', u)
         /\ \A u : Released(u) => Released(u)'
<1>1. ASSUME NEW t \in Task, started' = Append(started, t)
      PROVE  \A u : Contains(started', u) <=> Contains(started, u) \/ u = t
  BY <1>1, AppendQueue DEF TypeOK
<1>2. CASE UNCHANGED <<microTaskQueue, started>>
  BY <1>2 DEF Released
<1>3. ASSUME NEW t \in Promise, Invokes(t)
      PROVE  /\ \A u : Contains(started, u) => Contains(started', u)
             /\ \A u : Released(u) => Released(u)'
  <2>1. \A u : Contains(microTaskQueue, u) => u = t \/ Contains(microTaskQueue', u)
    BY <1>3, TailQueue DEF Invokes, TypeOK
  <2>2. \A u : Contains(started', u) <=> Contains(started, u) \/ u = t
    BY <1>1, <1>3 DEF Invokes, Task, Promise
  <2> QED BY <2>1, <2>2 DEF Released
<1>4. ASSUME NEW t \in MacroTask, InvokesHost(t)
      PROVE  /\ \A u : Contains(started, u) => Contains(started', u)
             /\ \A u : Released(u) => Released(u)'
  BY <1>1, <1>4 DEF InvokesHost, Task, Released
<1>5. ASSUME NEW p \in Promise, Enqueues(p)
      PROVE  /\ \A u : Contains(started, u) => Contains(started', u)
             /\ \A u : Released(u) => Released(u)'
  <2>1. \A u : Contains(microTaskQueue', u) <=> Contains(microTaskQueue, u) \/ u = p
    BY <1>5, AppendQueue DEF Enqueues, TypeOK
  <2> QED BY <1>5, <2>1 DEF Enqueues, Released
<1> QED BY <1>2, <1>3, <1>4, <1>5, QueueStep

\* What is known of a promise only grows, in every step.
LEMMA EveryStepMono ==
  ASSUME TypeOK, PromiseInv, [Next]_vars PROVE Mono
<1>1. Frozen
  BY ContractStep, ContractFreezes
<1>2. ASSUME NEW q \in Promise, origin[q] # "none"
      PROVE  origin'[q] = origin[q] /\ src'[q] = src[q]
  <2>1. \/ UNCHANGED <<origin, src>>
        \/ \E p \in Promise : \E how, from : Make(p, how, from)
    BY DEF Next, HostRun, RunMicroTask, SettlingEnqueues, SettlingDone, NativeReturns, Propagate,
           TaskDone, NewPromise, ExecutorReturns, CatchException, TrySettle, Settle, Then, Catch,
           PromiseResolve, PromiseReject, ReadFile, MakeSettled, HandlerReturns, CallSettler,
           promiseVars, vars
  <2> QED BY <1>2, <2>1, MakeKeeps
<1>3. ASSUME NEW q \in Promise, pstate[q] # "PENDING" PROVE Callbacks(q)' = Callbacks(q)
  <2>1. pstate'[q] = pstate[q]
    BY <1>1, <1>3 DEF Frozen
  <2>2. \/ UNCHANGED callbackLists
        \/ \E p, u \in Promise : Then(p, u) \/ Catch(p, u)
    BY DEF Next, HostRun, RunMicroTask, SettlingEnqueues, SettlingDone, NativeReturns, Propagate,
           TaskDone, NewPromise, ExecutorReturns, CatchException, TrySettle, Settle,
           PromiseResolve, PromiseReject, ReadFile, MakeSettled, HandlerReturns, CallSettler,
           promiseVars, vars
  <2>3. CASE UNCHANGED callbackLists
    BY <2>1, <2>3 DEF Callbacks, callbackLists
  <2>4. ASSUME NEW p \in Promise, NEW u \in Promise, Then(p, u) \/ Catch(p, u)
        PROVE  Callbacks(q)' = Callbacks(q)
    <3>1. /\ pstate[q] = "FULFILLED" => onFulfilledCallbacks'[q] = onFulfilledCallbacks[q]
          /\ pstate[q] = "REJECTED" => onRejectedCallbacks'[q] = onRejectedCallbacks[q]
      BY <1>3, <2>4 DEF Then, ThenExecutor, Catch, CatchExecutor, TypeOK, callbackLists
    <3> QED BY <1>3, <2>1, <3>1 DEF Callbacks, TypeOK
  <2> QED BY <2>2, <2>3, <2>4
<1> QED BY <1>1, <1>2, <1>3, StartedGrows DEF Mono, Frozen

-----------------------------------------------------------------------------
(* Callbacks wait where their promise will look for them.                   *)

LEMMA ListsGrow ==
  ASSUME TypeOK, [Next]_vars, NEW p \in Promise, NEW u
  PROVE  /\ Contains(onFulfilledCallbacks[p], u) => Contains(onFulfilledCallbacks'[p], u)
         /\ Contains(onRejectedCallbacks[p], u) => Contains(onRejectedCallbacks'[p], u)
<1>1. \/ UNCHANGED callbackLists
      \/ \E r, q \in Promise : Then(r, q) \/ Catch(r, q)
  BY DEF Next, HostRun, RunMicroTask, SettlingEnqueues, SettlingDone, NativeReturns, Propagate,
         TaskDone, NewPromise, ExecutorReturns, CatchException, TrySettle, Settle,
         PromiseResolve, PromiseReject, ReadFile, MakeSettled, HandlerReturns, CallSettler,
         promiseVars, vars
<1>2. CASE UNCHANGED callbackLists
  BY <1>2 DEF callbackLists
<1>3. ASSUME NEW r \in Promise, NEW q \in Promise, Then(r, q) \/ Catch(r, q)
      PROVE  /\ Contains(onFulfilledCallbacks[p], u) => Contains(onFulfilledCallbacks'[p], u)
             /\ Contains(onRejectedCallbacks[p], u) => Contains(onRejectedCallbacks'[p], u)
  <2>1. /\ onFulfilledCallbacks'[p] \in
             {onFulfilledCallbacks[p], Append(onFulfilledCallbacks[p], q)}
        /\ onRejectedCallbacks'[p] \in
             {onRejectedCallbacks[p], Append(onRejectedCallbacks[p], q)}
    BY <1>3 DEF Then, ThenExecutor, Catch, CatchExecutor, TypeOK, callbackLists
  <2>2. /\ onFulfilledCallbacks[p] \in Seq(Promise) /\ onRejectedCallbacks[p] \in Seq(Promise)
    BY DEF TypeOK
  <2>3. /\ Contains(onFulfilledCallbacks[p], u) =>
             Contains(Append(onFulfilledCallbacks[p], q), u)
        /\ Contains(onRejectedCallbacks[p], u) =>
             Contains(Append(onRejectedCallbacks[p], q), u)
    BY <2>2, AppendQueue
  <2> QED BY <2>1, <2>3
<1> QED BY <1>1, <1>2, <1>3

\* A promise is derived from one that user code has, by `then` or `catch`.
LEMMA DerivedBy ==
  ASSUME TypeOK, [Next]_vars, NEW q \in Promise, origin[q] = "none", origin'[q] \in Derived
  PROVE  \E p \in Promise :
           /\ origin[p] # "none" /\ origin'[p] # "none" /\ src'[q] = p /\ p # q
           /\ origin'[q] = "then" => Then(p, q)
           /\ origin'[q] = "catch" => Catch(p, q)
<1>1. ASSUME NEW p \in Promise, NEW r \in Promise, Then(p, r) \/ Catch(p, r)
      PROVE  \E p_1 \in Promise :
               /\ origin[p_1] # "none" /\ origin'[p_1] # "none" /\ src'[q] = p_1 /\ p_1 # q
               /\ origin'[q] = "then" => Then(p_1, q)
               /\ origin'[q] = "catch" => Catch(p_1, q)
  <2>1. origin[p] # "none" /\ p # q
    BY <1>1 DEF Then, Catch, Visible
  <2>2. PICK how \in Derived : /\ Make(r, how, p)
                               /\ how = "then" => Then(p, r)
                               /\ how = "catch" => Catch(p, r)
    BY <1>1 DEF Then, Catch, Derived
  <2>3. r = q /\ origin'[q] = how /\ src'[q] = p /\ origin'[p] = origin[p]
    BY <2>1, <2>2, MakeKeeps DEF Derived
  <2> QED BY <2>1, <2>2, <2>3
<1>2. ASSUME NEW r \in Promise, NEW how, NEW from, Make(r, how, from), how \notin Derived
      PROVE  FALSE
  <2>1. r = q
    BY <1>2, MakeKeeps DEF Derived
  <2> QED BY <1>2, <2>1, MakeKeeps
<1>3. ASSUME origin' = origin PROVE FALSE
  BY <1>3 DEF Derived
<1>4. \/ origin' = origin
      \/ \E p, r \in Promise : Then(p, r) \/ Catch(p, r)
      \/ \E r \in Promise : \E how, from : Make(r, how, from) /\ how \notin Derived
  BY DEF Next, HostRun, RunMicroTask, SettlingEnqueues, SettlingDone, NativeReturns, Propagate,
         TaskDone, NewPromise, ExecutorReturns, CatchException, TrySettle, Settle,
         PromiseResolve, PromiseReject, ReadFile, MakeSettled, HandlerReturns, CallSettler,
         promiseVars, vars, Derived
<1> QED BY <1>1, <1>2, <1>3, <1>4

LEMMA RegisteredStep ==
  ASSUME TypeOK, PromiseInv, Registered, [Next]_vars PROVE Registered'
<1> SUFFICES ASSUME NEW q \in Promise
             PROVE  /\ origin'[q] \in Derived => origin'[src'[q]] # "none"
                    /\ origin'[q] = "then" /\ pstate'[src'[q]] = "PENDING" =>
                         Contains(onFulfilledCallbacks'[src'[q]], q)
                    /\ origin'[q] = "catch" /\ pstate'[src'[q]] = "PENDING" =>
                         Contains(onRejectedCallbacks'[src'[q]], q)
  BY DEF Registered
<1>0. Mono
  BY EveryStepMono
<1>1. CASE origin[q] \in Derived
  <2>1. origin[q] # "none" /\ src[q] \in Promise /\ origin[src[q]] # "none"
    BY <1>1 DEF PromiseInv, OriginOK, Registered, Derived
  <2>2. origin'[q] = origin[q] /\ src'[q] = src[q] /\ origin'[src[q]] = origin[src[q]]
    BY <1>0, <2>1 DEF Mono
  <2>3. pstate'[src[q]] = "PENDING" => pstate[src[q]] = "PENDING"
    BY <1>0, <2>1 DEF Mono
  <2> QED BY <2>1, <2>2, <2>3, ListsGrow DEF Registered
<1>2. CASE origin[q] = "none" /\ origin'[q] \in Derived
  <2>1. PICK p \in Promise :
          /\ origin[p] # "none" /\ origin'[p] # "none" /\ src'[q] = p /\ p # q
          /\ origin'[q] = "then" => Then(p, q)
          /\ origin'[q] = "catch" => Catch(p, q)
    BY <1>2, DerivedBy
  <2>2. CASE origin'[q] = "then" /\ pstate'[p] = "PENDING"
    <3>1. Then(p, q)
      BY <2>1, <2>2
    <3>2. pstate[p] = "PENDING"
      BY <1>0, <2>2 DEF Mono
    <3>3. onFulfilledCallbacks'[p] = Append(onFulfilledCallbacks[p], q)
      BY <3>1, <3>2 DEF Then, ThenExecutor, TypeOK
    <3>4. Contains(onFulfilledCallbacks'[p], q)
      BY <3>3, AppendQueue DEF TypeOK
    <3> QED BY <2>1, <2>2, <3>4
  <2>3. CASE origin'[q] = "catch" /\ pstate'[p] = "PENDING"
    <3>1. Catch(p, q)
      BY <2>1, <2>3
    <3>2. pstate[p] = "PENDING"
      BY <1>0, <2>3 DEF Mono
    <3>3. onRejectedCallbacks'[p] = Append(onRejectedCallbacks[p], q)
      BY <3>1, <3>2 DEF Catch, CatchExecutor, TypeOK
    <3>4. Contains(onRejectedCallbacks'[p], q)
      BY <3>3, AppendQueue DEF TypeOK
    <3> QED BY <2>1, <2>3, <3>4
  <2> QED BY <2>1, <2>2, <2>3
<1>3. CASE origin[q] \notin Derived \cup {"none"}
  BY <1>0, <1>3 DEF Mono, Derived
<1> QED BY <1>1, <1>2, <1>3 DEF Derived

-----------------------------------------------------------------------------
(* A handler that has ended has settled its promise.                        *)

LEMMA HandlerSettlesIs ==
  HandlerSettles <=>
    \A q \in Promise : Contains(started, q) /\ pstate[q] = "PENDING" => Code(q) \in Frames(stack)
BY DEF HandlerSettles, Frames

LEMMA HandlerSettlesStep ==
  ASSUME TypeOK, PromiseInv, CallsInv, HandlerSettles, [Next]_vars PROVE HandlerSettles'
<1> SUFFICES ASSUME NEW q \in Promise, Contains(started', q), pstate'[q] = "PENDING"
             PROVE  Code(q) \in Frames(stack')
  BY DEF HandlerSettles, Frames
<1>0. pstate[q] = "PENDING" /\ stack \in Seq(Frame)
  BY EveryStepMono DEF Mono, TypeOK
<1>1. CASE ~Contains(started, q)
  <2>1. ASSUME NEW t \in Task, started' = Append(started, t) PROVE q = t
    BY <1>1, <2>1, AppendQueue DEF TypeOK
  <2>2. ~\E t \in MacroTask : InvokesHost(t)
    BY <2>1, TasksAreDistinct DEF InvokesHost, Task, Promise
  <2>3. PICK t \in Promise : Invokes(t)
    BY <1>1, <2>2, QueueStep DEF Enqueues
  <2>4. q = t
    BY <2>1, <2>3 DEF Invokes, Task, Promise
  <2> QED BY <2>3, <2>4 DEF Invokes
<1>2. CASE Contains(started, q)
  <2>1. Code(q) \in Frames(stack)
    BY <1>0, <1>2, HandlerSettlesIs
  <2>2. ASSUME stack # <<>>, Head(stack) = Code(q), EndsTop PROVE FALSE
    <3>1. Head(stack).fn = "Code" /\ Head(stack).task = q /\ q # Module /\ q \notin MacroTask
          /\ \A c : Head(stack) = Code(c) => c = q
      BY <2>2, TasksAreDistinct DEF Code, Promise
    <3>2. ~Propagate
      BY <2>2 DEF Propagate, Unwind, InTry, Top
    <3>3. ~(SettlingDone \/ SettlingEnqueues \/ NativeReturns)
      BY <3>1 DEF SettlingDone, SettlingEnqueues, NativeReturns, Running
    <3>4. ~\E t \in MacroTask : TaskDone(t)
      BY <3>1 DEF TaskDone, InCode
    <3>5. origin[q] # "executor"
      BY <1>2 DEF PromiseInv, ReleasedOK, Released, Applicable, Derived
    <3>6. ~\E r \in Promise : ExecutorReturns(r)
      BY <3>1, <3>5 DEF ExecutorReturns, InCode
    <3>7. ASSUME NEW outcome \in {"FULFILLED", "REJECTED"}, NEW v, NEW s,
                 TrySettle(q, outcome, v, s)
          PROVE  FALSE
      BY <1>0, <3>7 DEF TrySettle, Settle, Pending, TypeOK
    <3>8. ASSUME NEW r \in Promise, CatchException(r) PROVE FALSE
      <4>1. r = q
        BY <3>1, <3>8 DEF CatchException, InTry, Top, Callback, Creating
      <4> QED BY <3>7, <3>8, <4>1 DEF CatchException
    <3>9. ASSUME NEW r \in Promise, NEW v \in Value, HandlerReturns(r, v) PROVE FALSE
      <4>1. r = q
        BY <3>1, <3>9 DEF HandlerReturns, InCode
      <4> QED BY <3>7, <3>9, <4>1 DEF HandlerReturns
    <3>10. Head(stack).fn # "Run" /\ Head(stack) # Code(Module)
      BY <3>1
    <3> QED BY <2>2, <3>2, <3>3, <3>4, <3>6, <3>8, <3>9, <3>10 DEF EndsTop
  <2>3. stack # <<>> => Frames(stack) = {Head(stack)} \cup Frames(Tail(stack))
    BY <1>0, FramesTail
  <2> QED BY <2>1, <2>2, <2>3, StackStep
<1> QED BY <1>1, <1>2

-----------------------------------------------------------------------------
(* No callback is lost.                                                     *)

OwedBy(f, q) ==
  /\ f.fn = "Settling" /\ f.task = src[q]
  /\ \E j \in f.next..Len(Callbacks(src[q])) : Callbacks(src[q])[j] = q

LEMMA OwedIs == ASSUME NEW q, Owed(q) PROVE \E f \in Frames(stack) : OwedBy(f, q)
BY DEF Owed, OwedBy, Frames

LEMMA OwedNext ==
  ASSUME NEW q, NEW f \in Frames(stack'), OwedBy(f, q)' PROVE Owed(q)'
BY DEF Owed, OwedBy, Frames

\* A promise that user code has is settled by resolve or reject, which then
\* visit its callbacks from the first one on.
LEMMA SettleStarts ==
  ASSUME TypeOK, CallsInv, [Next]_vars, NEW p \in Promise, origin[p] # "none",
         pstate[p] = "PENDING", pstate'[p] # "PENDING"
  PROVE  Settling(p, 1) \in Frames(stack') /\ UNCHANGED callbackLists
<1>0. stack \in Seq(Frame)
  BY DEF TypeOK
<1>1. ASSUME NEW r \in Promise, NEW outcome, NEW v, NEW s \in Seq(Frame),
             TrySettle(r, outcome, v, s)
      PROVE  Settling(p, 1) \in Frames(stack') /\ UNCHANGED callbackLists
  <2>1. Settle(r, outcome, v, s) /\ r = p
    BY <1>1 DEF TrySettle, Settle, TypeOK, promiseVars
  <2>2. Settling(p, 1) \in Frame
    BY PromiseFrames
  <2> QED BY <1>1, <2>1, <2>2, FramesPush DEF Settle
<1>2. ASSUME NEW r \in Promise, NEW v \in Value,
             CallSettler(r, "FULFILLED", v) \/ CallSettler(r, "REJECTED", v)
      PROVE  Settling(p, 1) \in Frames(stack') /\ UNCHANGED callbackLists
  BY <1>0, <1>1, <1>2 DEF CallSettler, TrySettle
<1>3. ASSUME NEW r \in Promise, NEW v \in Value, HandlerReturns(r, v)
      PROVE  Settling(p, 1) \in Frames(stack') /\ UNCHANGED callbackLists
  <2>1. Push(Callback(r), Tail(stack)) \in Seq(Frame)
    <3>1. stack # <<>> /\ Tail(stack) \in Seq(Frame) /\ Callback(r) \in Frame
      BY <1>0, <1>3, PromiseFrames, TailLemma DEF HandlerReturns, InCode
    <3> QED BY <3>1, FramesPush
  <2> QED BY <1>1, <1>3, <2>1 DEF HandlerReturns
<1>4. ASSUME NEW r \in Promise, CatchException(r)
      PROVE  Settling(p, 1) \in Frames(stack') /\ UNCHANGED callbackLists
  <2>1. Tail(stack) \in Seq(Frame)
    BY <1>0, <1>4, TailLemma DEF CatchException, InTry
  <2> QED BY <1>1, <1>4, <2>1 DEF CatchException
<1>5. ASSUME \/ UNCHANGED pstate
             \/ \E r \in Promise : \E outcome :
                  origin[r] = "none" /\ pstate' = [pstate EXCEPT ![r] = outcome]
      PROVE  FALSE
  BY <1>5 DEF TypeOK
<1>6. CASE \/ \E r, q \in Promise : Then(r, q) \/ Catch(r, q)
           \/ \E q \in Promise, v \in Value :
                PromiseResolve(q, v) \/ PromiseReject(q, v) \/ ReadFile(q, v)
  BY <1>5, <1>6 DEF Then, ThenExecutor, Catch, PromiseResolve, PromiseReject, ReadFile,
                    MakeSettled, Make
<1>7. CASE UNCHANGED pstate
  BY <1>5, <1>7
<1> QED BY <1>2, <1>3, <1>4, <1>6, <1>7
        DEF Next, HostRun, RunMicroTask, SettlingEnqueues, SettlingDone, NativeReturns,
            Propagate, TaskDone, NewPromise, ExecutorReturns, promiseVars, vars

\* The ForEach that owes q its place in the queue goes on, or enqueues it now.
LEMMA OwedStays ==
  ASSUME TypeOK, CallsInv, Mono, [Next]_vars, ~escaped,
         NEW q \in Promise, src[q] \in Promise, origin[q] # "none",
         pstate[src[q]] # "PENDING", NEW f \in Frames(stack), OwedBy(f, q)
  PROVE  Released(q)' \/ Owed(q)'
<1>0. /\ stack \in Seq(Frame) /\ f \in Frame /\ f.fn = "Settling" /\ f.task = src[q]
      /\ f.next \in Nat \ {0} /\ f.task \in Promise
  BY SettlingTypes DEF TypeOK, Frames, OwedBy
<1>p. PICK p \in Promise : p = src[q]
  OBVIOUS
<1>1. PICK j \in f.next..Len(Callbacks(p)) : Callbacks(p)[j] = q
  BY <1>p DEF OwedBy
<1>2. src'[q] = p /\ Callbacks(p)' = Callbacks(p)
  BY <1>p DEF Mono
<1>3. ASSUME NEW g, g.fn = "Settling", g.task = p, NEW k \in g.next..Len(Callbacks(p)),
             Callbacks(p)[k] = q
      PROVE  OwedBy(g, q)'
  BY <1>2, <1>3 DEF OwedBy, Callbacks
<1>4. CASE f \in Frames(stack')
  <2>1. OwedBy(f, q)'
    BY <1>0, <1>p, <1>1, <1>3
  <2> QED BY <1>4, <2>1, OwedNext
<1>5. CASE f \notin Frames(stack')
  <2>1. stack # <<>> /\ f = Head(stack) /\ EndsTop
    <3>1. stack # <<>> => Frames(stack) = {Head(stack)} \cup Frames(Tail(stack))
      BY <1>0, FramesTail
    <3> QED BY <1>5, <3>1, StackStep
  <2>2. Top = f /\ f.task = p /\ HasCallback(p, f.next) /\ Len(Callbacks(p)) \in Nat
    <3>1. Callbacks(f.task) \in Seq(Promise)
      BY <1>0, CallbackTypes
    <3> QED BY <1>0, <1>p, <1>1, <2>1, <3>1 DEF Top, HasCallback
  <2>3. SettlingEnqueues
    <3>1. ~SettlingDone
      BY <2>2 DEF SettlingDone
    <3>2. ~Propagate
      BY <1>0, <2>1, CallsInvIs DEF Propagate, Unwind
    <3>3. Head(stack).fn # "Run" /\ Head(stack) # Code(Module) /\ ~NativeReturns
      BY <1>0, <2>1 DEF Code, NativeReturns, Running
    <3>4. \A c : Head(stack) \notin {Code(c), Callback(c), Creating(c)}
      BY <1>0, <2>1 DEF Code, Callback, Creating
    <3>5. ~\E t \in MacroTask : TaskDone(t)
      BY <3>4 DEF TaskDone, InCode
    <3>6. ~\E r \in Promise : \/ ExecutorReturns(r) \/ CatchException(r)
                              \/ \E v \in Value : HandlerReturns(r, v)
      BY <3>4 DEF ExecutorReturns, CatchException, HandlerReturns, InCode, InTry, Top
    <3> QED BY <2>1, <3>1, <3>2, <3>3, <3>5, <3>6 DEF EndsTop
  <2>4. CASE j = f.next
    <3>1. microTaskQueue' = Append(microTaskQueue, q)
      BY <1>1, <2>2, <2>3, <2>4 DEF SettlingEnqueues, EnqueueMicroTask
    <3>2. Contains(microTaskQueue', q)
      BY <3>1, AppendQueue DEF TypeOK
    <3> QED BY <3>2 DEF Released
  <2>5. CASE j # f.next
    <3>1. PICK g \in Frame : g = Settling(p, f.next + 1)
      BY <1>0, PromiseFrames
    <3>2. /\ Push(g, Tail(stack)) \in Seq(Frame) /\ g \in Frames(Push(g, Tail(stack)))
      <4>1. Tail(stack) \in Seq(Frame)
        BY <1>0, <2>1, TailLemma
      <4> QED BY <4>1, FramesPush
    <3>3. WakeIfStopped(Push(g, Tail(stack)))
      BY <2>2, <2>3, <3>1 DEF SettlingEnqueues, EnqueueMicroTask
    <3>4. g \in Frames(stack')
      BY <3>2, <3>3, WakeFrames
    <3>5. g.fn = "Settling" /\ g.task = p /\ g.next = f.next + 1
      BY <3>1 DEF Settling
    <3>6. j \in f.next + 1..Len(Callbacks(p))
      BY <1>0, <1>1, <2>2, <2>5
    <3>7. OwedBy(g, q)'
      BY <1>1, <1>3, <3>5, <3>6
    <3> QED BY <3>4, <3>7, OwedNext
  <2> QED BY <2>4, <2>5
<1> QED BY <1>4, <1>5

LEMMA NoHandlerLostStep ==
  ASSUME TypeOK, PromiseInv, CallsInv, Registered, NoHandlerLost, [Next]_vars
  PROVE  NoHandlerLost'
<1> SUFFICES ASSUME ~escaped', NEW q \in Promise, Applicable(q)'
             PROVE  Released(q)' \/ Owed(q)'
  BY DEF NoHandlerLost, Released
<1>0. Mono
  BY EveryStepMono
<1>1. ~escaped
  BY DEF Next, HostRun, ModuleReturns, RunMicroTask, RunMacroTask, RunIdle, RunStopped,
         CodeEnqueuesTask, Stop, Throw, SettlingEnqueues, SettlingDone, NativeReturns,
         Propagate, Unwind, TaskDone, NewPromise, ExecutorReturns, CatchException, Then, Catch,
         PromiseResolve, PromiseReject, ReadFile, MakeSettled, HandlerReturns, CallSettler,
         history, loopVars, vars
<1>2. CASE Released(q)
  BY <1>2, StartedGrows
<1>3. CASE Applicable(q) /\ ~Released(q)
  <2>1. Owed(q)
    BY <1>1, <1>3 DEF NoHandlerLost, Released
  <2>2. origin[q] # "none" /\ src[q] \in Promise /\ pstate[src[q]] # "PENDING"
    BY <1>3 DEF Applicable, Awaited, Derived, PromiseInv, OriginOK
  <2> QED BY <1>0, <1>1, <2>1, <2>2, OwedIs, OwedStays
<1>4. CASE ~Applicable(q) /\ origin[q] = "none"
  <2>1. PICK p \in Promise : /\ src'[q] = p /\ p # q
                             /\ origin'[q] = "then" => Then(p, q)
                             /\ origin'[q] = "catch" => Catch(p, q)
    BY <1>4, DerivedBy DEF Applicable
  <2>2. microTaskQueue' = Append(microTaskQueue, q)
    <3>1. CASE origin'[q] = "then"
      <4>1. Then(p, q) /\ pstate'[p] = "FULFILLED"
        BY <2>1, <3>1 DEF Applicable, Awaited
      <4>2. pstate[p] = "FULFILLED"
        BY <2>1, <4>1 DEF Then, ThenExecutor, TypeOK
      <4> QED BY <4>1, <4>2 DEF Then, ThenExecutor, EnqueueMicroTask
    <3>2. CASE origin'[q] = "catch"
      <4>1. Catch(p, q) /\ pstate'[p] = "REJECTED"
        BY <2>1, <3>2 DEF Applicable, Awaited
      <4> QED BY <4>1 DEF Catch, CatchExecutor, EnqueueMicroTask
    <3> QED BY <3>1, <3>2 DEF Applicable, Derived
  <2>3. Contains(microTaskQueue', q)
    BY <2>2, AppendQueue DEF TypeOK
  <2> QED BY <2>3 DEF Released
<1>5. CASE ~Applicable(q) /\ origin[q] # "none"
  <2>1. origin'[q] = origin[q] /\ src'[q] = src[q] /\ origin[q] \in Derived
    BY <1>0, <1>5 DEF Mono, Applicable
  <2>2. PICK p \in Promise : p = src[q] /\ origin[p] # "none"
    BY <2>1 DEF PromiseInv, OriginOK, Registered
  <2>3. pstate'[p] = Awaited(q) /\ pstate'[p] # "PENDING" /\ pstate[p] # Awaited(q)
    BY <1>5, <2>1, <2>2 DEF Applicable, Awaited
  <2>4. pstate[p] = "PENDING"
    BY <1>0, <2>2, <2>3 DEF Mono
  <2>5. Settling(p, 1) \in Frames(stack') /\ UNCHANGED callbackLists
    BY <2>2, <2>3, <2>4, SettleStarts
  <2>6. Contains(Callbacks(p)', q)
    <3>1. CASE origin[q] = "then"
      BY <2>2, <2>3, <2>4, <2>5, <3>1 DEF Registered, Callbacks, Awaited, callbackLists
    <3>2. CASE origin[q] = "catch"
      BY <2>2, <2>3, <2>4, <2>5, <3>2 DEF Registered, Callbacks, Awaited, callbackLists
    <3> QED BY <2>1, <3>1, <3>2 DEF Derived
  <2>7. OwedBy(Settling(p, 1), q)'
    <3>1. \E j \in 1..Len(Callbacks(p)') : Callbacks(p)'[j] = q
      BY <2>6 DEF Contains
    <3>2. Callbacks(src[q])' = Callbacks(p)'
      BY <2>1, <2>2 DEF Callbacks
    <3> QED BY <2>1, <2>2, <3>1, <3>2 DEF OwedBy, Settling
  <2> QED BY <2>5, <2>7, OwedNext
<1> QED BY <1>2, <1>3, <1>4, <1>5

-----------------------------------------------------------------------------
(* No callback overtakes another of the same promise.                       *)

\* v waits in the queue, and has run, only behind u.
QueuedBehind(u, v) ==
  \A b \in 1..Len(microTaskQueue) : microTaskQueue[b] = v =>
    Contains(started, u) \/ \E a \in 1..b - 1 : microTaskQueue[a] = u

StartedBehind(u, v) ==
  \A b \in 1..Len(started) : started[b] = v => \E a \in 1..b - 1 : started[a] = u

Behind(u, v) == QueuedBehind(u, v) /\ StartedBehind(u, v)

LEMMA UnreleasedBehind == ASSUME NEW u, NEW v, ~Released(v) PROVE Behind(u, v)
BY DEF Released, Contains, Behind, QueuedBehind, StartedBehind

LEMMA UnreleasedBehindNext == ASSUME NEW u, NEW v, ~Released(v)' PROVE Behind(u, v)'
BY DEF Released, Contains, Behind, QueuedBehind, StartedBehind

LEMMA OrderIs ==
  QueuedInOrder /\ HandlersInOrder <=>
    \A p \in Promise : \A i, j \in 1..Len(Callbacks(p)) :
      i < j => Behind(Callbacks(p)[i], Callbacks(p)[j])
<1>1. QueuedInOrder <=>
        \A p \in Promise : \A i, j \in 1..Len(Callbacks(p)) :
          i < j => QueuedBehind(Callbacks(p)[i], Callbacks(p)[j])
  BY DEF QueuedInOrder, QueuedBehind
<1>2. HandlersInOrder <=>
        \A p \in Promise : \A i, j \in 1..Len(Callbacks(p)) :
          i < j => StartedBehind(Callbacks(p)[i], Callbacks(p)[j])
  BY DEF HandlersInOrder, StartedBehind
<1> QED BY <1>1, <1>2 DEF Behind

LEMMA OrderNext ==
  ASSUME \A p \in Promise : \A i, j \in 1..Len(Callbacks(p)') :
           i < j => \A u, v : u = Callbacks(p)'[i] /\ v = Callbacks(p)'[j] => Behind(u, v)'
  PROVE  (QueuedInOrder /\ HandlersInOrder)'
<1>1. ASSUME NEW p \in Promise, NEW i \in 1..Len(Callbacks(p)'),
             NEW j \in 1..Len(Callbacks(p)'), i < j
      PROVE  QueuedBehind(Callbacks(p)[i], Callbacks(p)[j])'
             /\ StartedBehind(Callbacks(p)[i], Callbacks(p)[j])'
  <2>1. PICK u, v : u = Callbacks(p)'[i] /\ v = Callbacks(p)'[j]
    OBVIOUS
  <2>2. QueuedBehind(u, v)' /\ StartedBehind(u, v)'
    BY <1>1, <2>1 DEF Behind
  <2> QED BY <2>1, <2>2 DEF QueuedBehind, StartedBehind
<1>2. QueuedInOrder'
  BY <1>1 DEF QueuedInOrder, QueuedBehind
<1>3. HandlersInOrder'
  BY <1>1 DEF HandlersInOrder, StartedBehind
<1> QED BY <1>2, <1>3

\* v is appended to the started tasks: u is among them by then.
LEMMA StartBehind ==
  ASSUME TypeOK, NEW t \in Task, started' = Append(started, t), NEW u, NEW v,
         StartedBehind(u, v), t = v => Contains(started, u)
  PROVE  StartedBehind(u, v)'
<1>0. /\ Len(started) \in Nat /\ Len(started') = Len(started) + 1
      /\ started'[Len(started) + 1] = t
      /\ \A i \in 1..Len(started) : started'[i] = started[i]
  BY DEF TypeOK
<1>1. ASSUME NEW b \in 1..Len(started) + 1, started'[b] = v
      PROVE  \E a \in 1..b - 1 : started'[a] = u
  <2>1. CASE b = Len(started) + 1
    <3>1. PICK a \in 1..Len(started) : started[a] = u
      BY <1>0, <1>1, <2>1 DEF Contains
    <3> QED BY <1>0, <2>1, <3>1
  <2>2. CASE b # Len(started) + 1
    <3>1. b \in 1..Len(started) /\ started[b] = v
      BY <1>0, <1>1, <2>2
    <3>2. PICK a \in 1..b - 1 : started[a] = u
      BY <3>1 DEF StartedBehind
    <3> QED BY <1>0, <3>1, <3>2
  <2> QED BY <2>1, <2>2
<1> QED BY <1>0, <1>1 DEF StartedBehind

\* The order of two callbacks is kept by the queue, if it is kept on the way in.
LEMMA BehindStays ==
  ASSUME TypeOK, [Next]_vars, NEW u, NEW v \in Promise, Behind(u, v),
         Enqueues(v) => Released(u)
  PROVE  Behind(u, v)'
<1>0. /\ microTaskQueue \in Seq(Promise) /\ Len(microTaskQueue) \in Nat
      /\ QueuedBehind(u, v) /\ StartedBehind(u, v)
      /\ Contains(started, u) => Contains(started', u)
  BY StartedGrows DEF TypeOK, Behind
<1>1. CASE UNCHANGED <<microTaskQueue, started>>
  BY <1>0, <1>1 DEF Behind, QueuedBehind, StartedBehind
<1>2. ASSUME NEW t \in MacroTask, InvokesHost(t) PROVE Behind(u, v)'
  <2>1. t \in Task /\ t # v
    BY TasksAreDistinct DEF Task, Promise
  <2>2. StartedBehind(u, v)'
    BY <1>0, <1>2, <2>1, StartBehind DEF InvokesHost
  <2> QED BY <1>0, <1>2, <2>2 DEF InvokesHost, Behind, QueuedBehind
<1>3. ASSUME NEW t \in Promise, Invokes(t) PROVE Behind(u, v)'
  <2>0. /\ microTaskQueue # <<>> /\ t = microTaskQueue[1] /\ Len(microTaskQueue) >= 1
        /\ microTaskQueue' = Tail(microTaskQueue) /\ started' = Append(started, t)
        /\ Len(microTaskQueue') = Len(microTaskQueue) - 1
        /\ \A i \in 1..Len(microTaskQueue) - 1 : microTaskQueue'[i] = microTaskQueue[i + 1]
    BY <1>0, <1>3, TailLemma DEF Invokes
  <2>1. ASSUME t = v PROVE Contains(started, u)
    <3>1. 1 \in 1..Len(microTaskQueue) /\ microTaskQueue[1] = v /\ 1..1 - 1 = {}
      BY <1>0, <2>0, <2>1
    <3> QED BY <1>0, <3>1 DEF QueuedBehind
  <2>2. StartedBehind(u, v)'
    BY <1>0, <2>0, <2>1, StartBehind DEF Task, Promise
  <2>3. ASSUME NEW b \in 1..Len(microTaskQueue) - 1, microTaskQueue'[b] = v,
               ~Contains(started', u)
        PROVE  \E a \in 1..b - 1 : microTaskQueue'[a] = u
    <3>1. b + 1 \in 1..Len(microTaskQueue) /\ microTaskQueue[b + 1] = v
      BY <1>0, <2>0, <2>3
    <3>2. PICK a \in 1..(b + 1) - 1 : microTaskQueue[a] = u
      BY <1>0, <2>3, <3>1 DEF QueuedBehind
    <3>3. Contains(started', t)
      <4>1. started \in Seq(Task) /\ t \in Task
        BY DEF TypeOK, Task, Promise
      <4> QED BY <2>0, <4>1, AppendQueue
    <3>4. a # 1
      BY <2>0, <2>3, <3>2, <3>3
    <3>5. a - 1 \in 1..b - 1 /\ a - 1 \in 1..Len(microTaskQueue) - 1 /\ (a - 1) + 1 = a
      BY <1>0, <3>1, <3>2, <3>4
    <3>6. microTaskQueue'[a - 1] = u
      BY <2>0, <3>2, <3>5
    <3> QED BY <3>5, <3>6
  <2>4. QueuedBehind(u, v)'
    BY <2>0, <2>3 DEF QueuedBehind
  <2> QED BY <2>2, <2>4 DEF Behind
<1>4. ASSUME NEW q \in Promise, Enqueues(q) PROVE Behind(u, v)'
  <2>0. /\ started' = started /\ Len(microTaskQueue') = Len(microTaskQueue) + 1
        /\ microTaskQueue'[Len(microTaskQueue) + 1] = q
        /\ \A i \in 1..Len(microTaskQueue) : microTaskQueue'[i] = microTaskQueue[i]
    BY <1>0, <1>4 DEF Enqueues
  <2>1. ASSUME NEW b \in 1..Len(microTaskQueue) + 1, microTaskQueue'[b] = v,
               ~Contains(started, u)
        PROVE  \E a \in 1..b - 1 : microTaskQueue'[a] = u
    <3>1. CASE b = Len(microTaskQueue) + 1
      <4>1. Released(u)
        BY <1>4, <2>0, <2>1, <3>1
      <4>2. PICK a \in 1..Len(microTaskQueue) : microTaskQueue[a] = u
        BY <2>1, <4>1 DEF Released, Contains
      <4> QED BY <1>0, <2>0, <3>1, <4>2
    <3>2. CASE b # Len(microTaskQueue) + 1
      <4>1. b \in 1..Len(microTaskQueue) /\ microTaskQueue[b] = v
        BY <1>0, <2>0, <2>1, <3>2
      <4>2. PICK a \in 1..b - 1 : microTaskQueue[a] = u
        BY <1>0, <2>1, <4>1 DEF QueuedBehind
      <4> QED BY <1>0, <2>0, <4>1, <4>2
    <3> QED BY <3>1, <3>2
  <2> QED BY <1>0, <2>0, <2>1 DEF Behind, QueuedBehind, StartedBehind
<1> QED BY <1>1, <1>2, <1>3, <1>4, QueueStep

\* ForEach has released what it is past.
LEMMA VisitedReleasedStep ==
  ASSUME TypeOK, PromiseInv, CallsInv, VisitedReleased, [Next]_vars PROVE VisitedReleased'
<1>1. ASSUME NEW f \in Frames(stack), f.fn = "Settling"
      PROVE  /\ Callbacks(f.task)' = Callbacks(f.task)
             /\ \A j \in 1..f.next - 1 : \A u : u = Callbacks(f.task)[j] => Released(u)'
  <2>1. f \in Frame /\ f.task \in Promise /\ pstate[f.task] # "PENDING"
    BY <1>1, SettlingTypes DEF TypeOK, Frames, PromiseInv, StackOK, FrameOK
  <2>2. Callbacks(f.task)' = Callbacks(f.task)
    BY <2>1, EveryStepMono DEF Mono
  <2>3. \A j \in 1..f.next - 1 : Released(Callbacks(f.task)[j])
    BY <1>1 DEF VisitedReleased, Frames
  <2> QED BY <2>2, <2>3, StartedGrows
<1>2. ASSUME NEW f \in Frames(stack'), f.fn = "Settling", NEW j \in 1..f.next - 1,
             NEW u, u = Callbacks(f.task)'[j]
      PROVE  Released(u)'
  <2>1. CASE f \in Frames(stack)
    BY <1>1, <1>2, <2>1
  <2>2. CASE f.next = 1
    BY <1>2, <2>2
  <2>3. CASE SettlingEnqueues /\ f = Settling(Top.task, Top.next + 1)
    <3>1. stack \in Seq(Frame) /\ stack # <<>> /\ Top = Head(stack) /\ Top.fn = "Settling"
      BY <2>3 DEF TypeOK, SettlingEnqueues, Running, Top
    <3>2. Top \in Frames(stack) /\ Top.next \in Nat
      BY <3>1, FramesTail, SettlingTypes DEF Frames
    <3>3. f.task = Top.task /\ f.next = Top.next + 1
      BY <2>3 DEF Settling
    <3>4. u = Callbacks(Top.task)[j]
      BY <1>1, <1>2, <3>1, <3>2, <3>3
    <3>5. CASE j = Top.next
      <4>1. microTaskQueue' = Append(microTaskQueue, u)
        BY <2>3, <3>4, <3>5 DEF SettlingEnqueues, EnqueueMicroTask
      <4>2. u \in Promise
        BY <2>3, <3>1, <3>2, <3>4, <3>5, CallbackTypes DEF SettlingEnqueues, HasCallback, TypeOK
      <4>3. Contains(microTaskQueue', u)
        BY <4>1, <4>2, AppendQueue DEF TypeOK
      <4> QED BY <4>3 DEF Released
    <3>6. CASE j # Top.next
      <4>1. j \in 1..Top.next - 1
        BY <1>2, <3>2, <3>3, <3>6
      <4> QED BY <1>1, <3>1, <3>2, <3>4, <4>1
    <3> QED BY <3>5, <3>6
  <2> QED BY <1>2, <2>1, <2>2, <2>3, StackStep
<1> QED BY <1>2 DEF VisitedReleased, Frames

LEMMA OrderStep ==
  ASSUME TypeOK, TypeOK', PromiseInv, PromiseInv', CallsInv, VisitedReleased,
         QueuedInOrder, HandlersInOrder, [Next]_vars
  PROVE  (QueuedInOrder /\ HandlersInOrder)'
<1>0. Mono
  BY EveryStepMono
<1> SUFFICES ASSUME NEW p \in Promise, NEW i \in 1..Len(Callbacks(p)'),
                    NEW j \in 1..Len(Callbacks(p)'), i < j,
                    NEW u, u = Callbacks(p)'[i], NEW v, v = Callbacks(p)'[j]
             PROVE  Behind(u, v)'
  BY OrderNext
<1>1. CASE pstate[p] # "PENDING"
  <2>1. Callbacks(p)' = Callbacks(p) /\ Callbacks(p) \in Seq(Promise)
    BY <1>0, <1>1 DEF Mono, TypeOK, Callbacks
  <2>2. v \in Promise /\ u \in Promise /\ Behind(u, v)
    BY <2>1, OrderIs
  <2>3. origin[v] \in Derived /\ src[v] = p /\ IsInjective(Callbacks(p))
    <3>1. Contains(Callbacks(p), v)
      BY <2>1 DEF Contains
    <3> QED BY <2>2, <3>1 DEF PromiseInv, ListsOK, Callbacks, Derived
  <2>4. ASSUME Enqueues(v) PROVE Released(u)
    <3>1. SettlingEnqueues /\ v = Callbacks(Top.task)[Top.next]
      BY <2>3, <2>4 DEF Enqueues, Derived
    <3>2. /\ Top = stack[1] /\ Top \in Frame /\ 1 \in 1..Len(stack) /\ Top.fn = "Settling"
          /\ Top.task \in Promise /\ Top.next \in Nat \ {0}
      <4>1. stack \in Seq(Frame) /\ stack # <<>> /\ Top = Head(stack) /\ Top.fn = "Settling"
        BY <3>1 DEF TypeOK, SettlingEnqueues, Running, Top
      <4>2. Top = stack[1] /\ Top \in Frame /\ 1 \in 1..Len(stack)
        BY <4>1, TailLemma
      <4> QED BY <4>1, <4>2, SettlingTypes
    <3>3. Callbacks(Top.task) \in Seq(Promise) /\ Top.next \in 1..Len(Callbacks(Top.task))
      BY <3>1, <3>2, CallbackTypes DEF SettlingEnqueues, HasCallback
    <3>4. Contains(Callbacks(Top.task), v)
      BY <3>1, <3>3 DEF Contains
    <3>5. Top.task = p
      BY <2>2, <2>3, <3>2, <3>4 DEF PromiseInv, ListsOK, Callbacks
    <3>6. Top.next = j
      BY <2>1, <2>3, <3>1, <3>3, <3>5 DEF IsInjective
    <3>7. i \in 1..Top.next - 1
      BY <2>1, <3>2, <3>6
    <3>8. Released(Callbacks(p)[i])
      BY <3>2, <3>5, <3>7 DEF VisitedReleased
    <3> QED BY <2>1, <3>8
  <2> QED BY <2>2, <2>4, BehindStays
<1>2. CASE pstate[p] = "PENDING"
  <2>1. v \in Promise /\ origin'[v] \in Derived /\ src'[v] = p
    <3>1. onFulfilledCallbacks'[p] \in Seq(Promise) /\ onRejectedCallbacks'[p] \in Seq(Promise)
      BY DEF TypeOK
    <3>2. CASE Callbacks(p)' = onFulfilledCallbacks'[p]
      <4>1. v \in Promise /\ Contains(onFulfilledCallbacks'[p], v)
        BY <3>1, <3>2 DEF Contains
      <4> QED BY <4>1 DEF PromiseInv, ListsOK, Derived
    <3>3. CASE Callbacks(p)' = onRejectedCallbacks'[p]
      <4>1. v \in Promise /\ Contains(onRejectedCallbacks'[p], v)
        BY <3>1, <3>3 DEF Contains
      <4> QED BY <4>1 DEF PromiseInv, ListsOK, Derived
    <3> QED BY <3>2, <3>3 DEF Callbacks
  <2>2. CASE pstate'[p] = "PENDING"
    <3>1. ~Applicable(v)'
      BY <2>1, <2>2 DEF Applicable, Awaited
    <3>2. ~Released(v)'
      BY <2>1, <3>1 DEF PromiseInv, ReleasedOK
    <3> QED BY <3>2, UnreleasedBehindNext
  <2>3. CASE pstate'[p] # "PENDING"
    <3>1. UNCHANGED <<microTaskQueue, started>>
      BY <1>2, <2>3, QueueStep DEF Invokes, InvokesHost, Enqueues, promiseVars
    <3>2. ~Released(v)
      <4>1. ASSUME Applicable(v) PROVE FALSE
        <5>1. origin[v] # "none" /\ pstate[src[v]] # "PENDING"
          BY <4>1 DEF Applicable, Derived, Awaited
        <5>2. src[v] = p
          BY <1>0, <2>1, <5>1 DEF Mono
        <5> QED BY <1>2, <5>1, <5>2
      <4> QED BY <2>1, <4>1 DEF PromiseInv, ReleasedOK
    <3>3. ~Released(v)'
      BY <3>1, <3>2 DEF Released
    <3> QED BY <3>3, UnreleasedBehindNext
  <2> QED BY <2>2, <2>3
<1> QED BY <1>1, <1>2

-----------------------------------------------------------------------------
(* The theorems.                                                            *)

\* DeliveryInv without PromiseInv, which has been shown to hold.
MoreInv ==
  /\ CallsInv /\ Registered /\ VisitedReleased /\ QueuedInOrder
  /\ HandlerSettles /\ NoHandlerLost /\ HandlersInOrder

LEMMA MoreInvInit == Init => MoreInv
<1> SUFFICES ASSUME Init PROVE MoreInv
  OBVIOUS
<1>1. /\ stack = <<>> /\ started = <<>> /\ microTaskQueue = <<>>
      /\ \A u : ~Contains(started, u)
      /\ \A p \in Promise : origin[p] = "none" /\ Callbacks(p) = <<>>
  BY DEF Init, LoopInit, Contains, Callbacks
<1>2. CallsInv /\ Registered
  BY <1>1 DEF CallsInv, ModuleAtBottom, ForEachCallsRun, Registered, Derived
<1>3. VisitedReleased /\ HandlerSettles /\ NoHandlerLost
  BY <1>1 DEF VisitedReleased, HandlerSettles, NoHandlerLost, Applicable, Derived
<1>4. QueuedInOrder /\ HandlersInOrder
  BY <1>1 DEF QueuedInOrder, HandlersInOrder
<1> QED BY <1>2, <1>3, <1>4 DEF MoreInv

LEMMA MoreInvStep ==
  ASSUME TypeOK, TypeOK', PromiseInv, PromiseInv', MoreInv, [Next]_vars PROVE MoreInv'
<1>1. CallsInv' /\ Registered' /\ HandlerSettles'
  BY CallsStep, RegisteredStep, HandlerSettlesStep DEF MoreInv
<1>2. NoHandlerLost'
  BY NoHandlerLostStep DEF MoreInv
<1>3. VisitedReleased'
  BY VisitedReleasedStep DEF MoreInv
<1>4. (QueuedInOrder /\ HandlersInOrder)'
  BY OrderStep DEF MoreInv
<1> QED BY <1>1, <1>2, <1>3, <1>4 DEF MoreInv

\* The strengthened invariant: besides PromiseInv, what relates the callback
\* lists, the ForEach calls on the stack, the queue and the started handlers.
THEOREM DeliveryInvariant == Spec => []DeliveryInv
<1>1. TypeOK /\ TypeOK' /\ PromiseInv /\ PromiseInv' /\ MoreInv /\ [Next]_vars => MoreInv'
  BY MoreInvStep
<1>2. PromiseInv /\ MoreInv => DeliveryInv
  BY DEF MoreInv, CallsInv, DeliveryInv
<1> QED BY <1>1, <1>2, MoreInvInit, TypeCorrect, PromiseInvariant, PTL DEF Spec

\* Unless an exception tears down a run of the loop, no callback registered on a
\* promise that settles as awaited is lost, however ForEach and runs of the loop
\* nest.
THEOREM NoHandlerIsLost == Spec => []NoHandlerLost
<1>1. DeliveryInv => NoHandlerLost
  BY DEF DeliveryInv
<1> QED BY <1>1, DeliveryInvariant, PTL

\* A handler that is no longer on the stack has settled its promise.
THEOREM EndedHandlersSettle == Spec => []HandlerSettles
<1>1. DeliveryInv => HandlerSettles
  BY DEF DeliveryInv
<1> QED BY <1>1, DeliveryInvariant, PTL

\* Callbacks of one promise never overtake each other.
THEOREM HandlersKeepOrder == Spec => []HandlersInOrder
<1>1. DeliveryInv => HandlersInOrder
  BY DEF DeliveryInv
<1> QED BY <1>1, DeliveryInvariant, PTL

\* A program that ends in peace has left pending only the derived promises
\* whose handler awaits the other outcome.
THEOREM PendingIsExplained == Spec => []PendingExplained
<1>1. WakeInv /\ DeliveryInv /\ TypeOK => PendingExplained
  <2> SUFFICES ASSUME WakeInv, DeliveryInv, TypeOK, stack = <<>>, ~escaped, ~stopCalled,
                      NEW q \in Promise, pstate[q] = "PENDING", Applicable(q)
               PROVE  FALSE
    BY DEF PendingExplained
  <2>1. Len(stack) = 0
    OBVIOUS
  <2>2. loopState = "Stopped"
    BY <2>1 DEF WakeInv, LoopStateHonest, RunOnStack, TypeOK
  <2>3. ~Contains(microTaskQueue, q)
    BY <2>2 DEF WakeInv, NothingStranded, Idle, Contains
  <2>4. ~Owed(q)
    BY <2>1 DEF Owed
  <2>5. Contains(started, q)
    BY <2>3, <2>4 DEF DeliveryInv, NoHandlerLost
  <2> QED BY <2>1, <2>5 DEF DeliveryInv, HandlerSettles
<1> QED BY <1>1, DeliveryInvariant, PromiseWakeDiscipline, TypeCorrect, PTL
=============================================================================
