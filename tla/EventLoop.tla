------------------------------ MODULE EventLoop ------------------------------
(***************************************************************************)
(* The event loop of the interpreter (Runtime/EventLoop.cpp) together with *)
(* the host's entry point VirtualMachine::Run, which evaluates the module  *)
(* code and then runs the loop.                                            *)
(*                                                                         *)
(* The program has one thread, so nothing runs in parallel.  What makes    *)
(* the loop hard is nesting: enqueueing a task while the loop is Stopped   *)
(* calls Run() inside the enqueue, so tasks execute in the middle of the   *)
(* code that enqueued them, and an exception thrown by a task unwinds      *)
(* through Run() without resetting `state`.  The C++ call stack is         *)
(* therefore part of the state: `stack`, its top first.                    *)
(*                                                                         *)
(* The code a task executes is opaque here: it may enqueue further tasks,  *)
(* call Stop(), return or throw.  Module Promise gives tasks a meaning.    *)
(***************************************************************************)
EXTENDS Naturals, Sequences, SequencesExt

CONSTANTS
  MicroTask,  \* the callables that may be enqueued as microtasks
  MacroTask,  \* the callables that may be enqueued as (macro) tasks
  Module,     \* the module code, the first code VirtualMachine::Run evaluates
  MaxRuns     \* bound: how often the host calls VirtualMachine::Run

ASSUME TasksAreDistinct ==
  /\ MicroTask \cap MacroTask = {}
  /\ Module \notin MicroTask \cup MacroTask

ASSUME MaxRunsAssumption == MaxRuns \in Nat

VARIABLES
  loopState,        \* EventLoop::state (Waiting is declared and never used)
  microTaskQueue,   \* EventLoop::microTaskQueue
  macroTaskQueue,   \* EventLoop::macroTaskQueue
  stack,            \* the C++ call stack, top first
  exc,              \* an exception is propagating
  runs,             \* calls of VirtualMachine::Run so far
  started,          \* history: the tasks invoked so far, in order
  stopCalled,       \* history: Stop() has been called
  escaped           \* history: an exception has left some activation of Run()

queues   == <<microTaskQueue, macroTaskQueue>>
history  == <<stopCalled, escaped>>
loopVars == <<loopState, queues, stack, exc, runs, started, history>>

Task == MicroTask \cup MacroTask

(***************************************************************************)
(* Activations on the stack: the code of the module or of a task, and the  *)
(* activations of Run().  `at` is where a Run is in its cycle: at the top  *)
(* of the outer loop, where it looks at `state`, or past that test, where  *)
(* it drains the microtasks.                                               *)
(***************************************************************************)
Code(c) == [fn |-> "Code", task |-> c]
Run(at) == [fn |-> "Run", at |-> at]

RunFrame  == {Run("top"), Run("drain")}
LoopFrame == {Code(c) : c \in Task \cup {Module}} \cup RunFrame

Push(f, s) == <<f>> \o s

Running(fn)    == ~exc /\ stack # <<>> /\ Head(stack).fn = fn
InCode(c)      == ~exc /\ stack # <<>> /\ Head(stack) = Code(c)
RunOnStack     == \E i \in 1..Len(stack) : stack[i] \in RunFrame
\* A faulty variant: Idle() looks at one of the two queues.
IdleIgnoresTasks == microTaskQueue = <<>>

Idle           == microTaskQueue = <<>> /\ macroTaskQueue = <<>>
Crashed        == exc /\ stack = <<>>

\* One activation of the code of t: a task object is enqueued at most once.
Unused(t) ==
  /\ ~Contains(microTaskQueue, t) /\ ~Contains(macroTaskQueue, t)
  /\ ~Contains(started, t)

LoopInit ==
  /\ loopState = "Stopped"
  /\ microTaskQueue = <<>>
  /\ macroTaskQueue = <<>>
  /\ stack = <<>>
  /\ exc = FALSE
  /\ runs = 0
  /\ started = <<>>
  /\ stopCalled = FALSE
  /\ escaped = FALSE

-----------------------------------------------------------------------------
(* Enqueueing.  `s` is the call stack of the enqueuing code as it will be   *)
(* when the enqueue returns.                                                *)

\* A faulty variant: the loop is not woken, as if needRestart stayed false.
WakeNever(s) == stack' = s /\ UNCHANGED loopState

\* A faulty variant: Run() is entered although the loop is already running.
WakeAlways(s) == stack' = Push(Run("top"), s) /\ loopState' = "Running"

\* Run() is entered inside the enqueue when the loop is stopped.
WakeIfStopped(s) ==
  IF loopState = "Stopped"
    THEN stack' = Push(Run("top"), s) /\ loopState' = "Running"
    ELSE stack' = s /\ UNCHANGED loopState

\* A faulty variant: the microtask jumps the queue.
EnqueueMicroTaskFirst(t, s) ==
  /\ microTaskQueue' = <<t>> \o microTaskQueue
  /\ WakeIfStopped(s)
  /\ UNCHANGED macroTaskQueue

EnqueueMicroTask(t, s) ==
  /\ microTaskQueue' = Append(microTaskQueue, t)
  /\ WakeIfStopped(s)
  /\ UNCHANGED macroTaskQueue

EnqueueTask(t, s) ==
  /\ macroTaskQueue' = Append(macroTaskQueue, t)
  /\ WakeIfStopped(s)
  /\ UNCHANGED microTaskQueue

-----------------------------------------------------------------------------
(* Run().  The test of `state` happens at the top of the outer loop only:   *)
(* past it, Stop() has no effect until the next round.                      *)

PastTest == Head(stack).at = "drain" \/ loopState # "Stopped"

\* A faulty variant: the task is invoked before it is popped from its queue.
InvokeBeforePopMicro ==
  /\ Running("Run") /\ PastTest
  /\ microTaskQueue # <<>>
  /\ stack' = Push(Code(Head(microTaskQueue)), Push(Run("drain"), Tail(stack)))
  /\ started' = Append(started, Head(microTaskQueue))
  /\ UNCHANGED <<loopState, queues, exc, runs, history>>

\* Lines 26-30: pop a microtask, then invoke it.
RunMicroTask ==
  /\ Running("Run") /\ PastTest
  /\ microTaskQueue # <<>>
  /\ microTaskQueue' = Tail(microTaskQueue)
  /\ stack' = Push(Code(Head(microTaskQueue)), Push(Run("drain"), Tail(stack)))
  /\ started' = Append(started, Head(microTaskQueue))
  /\ UNCHANGED <<loopState, macroTaskQueue, exc, runs, history>>

\* Lines 33-38: with no microtask left, pop one macrotask and invoke it; then
\* `continue`, back to the top.
RunMacroTask ==
  /\ Running("Run") /\ PastTest
  /\ microTaskQueue = <<>> /\ macroTaskQueue # <<>>
  /\ macroTaskQueue' = Tail(macroTaskQueue)
  /\ stack' = Push(Code(Head(macroTaskQueue)), Push(Run("top"), Tail(stack)))
  /\ started' = Append(started, Head(macroTaskQueue))
  /\ UNCHANGED <<loopState, microTaskQueue, exc, runs, history>>

\* Faulty variants: `state` is left Running when the queues are empty, or set
\* to the Waiting that the header declares.
StayRunning == loopState
WaitWhenIdle == "Waiting"

\* Lines 40-45: idle, so the loop stops and Run() returns to its caller.
StateWhenIdle == "Stopped"

RunIdle ==
  /\ Running("Run") /\ PastTest
  /\ Idle
  /\ loopState' = StateWhenIdle
  /\ stack' = Tail(stack)
  /\ UNCHANGED <<queues, exc, runs, started, history>>

\* Lines 21-23 and 45: somebody stopped the loop, so Run() returns.
RunStopped ==
  /\ Running("Run") /\ ~PastTest
  /\ stack' = Tail(stack)
  /\ UNCHANGED <<loopState, queues, exc, runs, started, history>>

-----------------------------------------------------------------------------
(* What code on the top of the stack may do, whoever it belongs to.         *)

\* Stop() is reachable from native code only (a task of the embedding host).
Stop ==
  /\ Running("Code")
  /\ loopState # "Stopped"
  /\ loopState' = "Stopped"
  /\ stopCalled' = TRUE
  /\ UNCHANGED <<queues, stack, exc, runs, started, escaped>>

\* The code throws: a std::exception starts to propagate.
Throw ==
  /\ Running("Code")
  /\ exc' = TRUE
  /\ UNCHANGED <<loopState, queues, stack, runs, started, history>>

\* The exception leaves the activation on the top of the stack.  Run() has no
\* handler: `state` stays as it is and the queues keep their tasks.
Unwind ==
  /\ exc /\ stack # <<>>
  /\ stack' = Tail(stack)
  /\ escaped' = (escaped \/ Head(stack) \in RunFrame)
  /\ UNCHANGED <<loopState, queues, exc, runs, started, stopCalled>>

\* The host calls VirtualMachine::Run on a module.  It may do so again, after
\* the last run ended or crashed: the EventLoop is a singleton that survives.
HostRun ==
  /\ stack = <<>> /\ runs < MaxRuns
  /\ runs' = runs + 1
  /\ exc' = FALSE
  /\ stack' = <<Code(Module)>>
  /\ UNCHANGED <<loopState, queues, started, history>>

\* VirtualMachine::Run, line 45: the module code returned, the loop is run.
ModuleReturns ==
  /\ InCode(Module)
  /\ stack' = <<Run("top")>>
  /\ loopState' = "Running"
  /\ UNCHANGED <<queues, exc, runs, started, history>>

-----------------------------------------------------------------------------
(* The loop on its own, with opaque tasks.                                  *)

CodeEnqueuesMicroTask ==
  /\ Running("Code")
  /\ \E t \in MicroTask : Unused(t) /\ EnqueueMicroTask(t, stack)
  /\ UNCHANGED <<exc, runs, started, history>>

CodeEnqueuesTask ==
  /\ Running("Code")
  /\ \E t \in MacroTask : Unused(t) /\ EnqueueTask(t, stack)
  /\ UNCHANGED <<exc, runs, started, history>>

TaskReturns ==
  /\ \E t \in Task : InCode(t)
  /\ stack' = Tail(stack)
  /\ UNCHANGED <<loopState, queues, exc, runs, started, history>>

\* Native code that called something throwing may catch (CreatePyPromise does).
CodeCatches ==
  /\ exc /\ stack # <<>> /\ Head(stack).fn = "Code"
  /\ exc' = FALSE
  /\ UNCHANGED <<loopState, queues, stack, runs, started, history>>

LoopNext ==
  \/ HostRun \/ ModuleReturns
  \/ CodeEnqueuesMicroTask \/ CodeEnqueuesTask
  \/ Stop \/ Throw \/ CodeCatches \/ Unwind \/ TaskReturns
  \/ RunMicroTask \/ RunMacroTask \/ RunIdle \/ RunStopped

LoopSpec == LoopInit /\ [][LoopNext]_loopVars

\* One thread that keeps executing, and code that does not throw and catch for
\* ever without returning.
LoopFairSpec ==
  LoopSpec /\ WF_loopVars(LoopNext) /\ SF_loopVars(TaskReturns \/ ModuleReturns)

-----------------------------------------------------------------------------
LoopTypeOK ==
  /\ loopState \in {"Stopped", "Running"}
  /\ microTaskQueue \in Seq(MicroTask)
  /\ macroTaskQueue \in Seq(MacroTask)
  /\ stack \in Seq(LoopFrame)
  /\ exc \in BOOLEAN
  /\ runs \in 0..MaxRuns
  /\ started \in Seq(Task)
  /\ stopCalled \in BOOLEAN
  /\ escaped \in BOOLEAN

\* `state` tells the truth, as every wake-up decision in EnqueueMicroTask and
\* EnqueueTask assumes: unless Stop() was called, the loop is Running when an
\* activation of Run() exists, and, unless an exception has left Run(), only then.
LoopStateHonest ==
  ~stopCalled =>
    /\ RunOnStack => loopState = "Running"
    /\ loopState = "Running" /\ ~escaped => RunOnStack

\* No lost wake-up: as long as nobody calls Stop(), a stopped loop has nothing
\* to do, so the code that runs next cannot leave a task behind.
NothingStranded ==
  loopState = "Stopped" /\ ~stopCalled => Idle

\* Enqueueing nests Run() only as a result of Stop(): otherwise at most one
\* activation of Run() exists, and no task runs in the middle of another.
RunsOnce ==
  ~stopCalled =>
    \A i, j \in 1..Len(stack) :
      stack[i] \in RunFrame /\ stack[j] \in RunFrame => i = j

\* However Run() nests and wherever an exception cuts it off, a task that was
\* enqueued once is invoked at most once.
NoTaskTwice ==
  IsInjective(started)

\* Every task enqueued while the loop lives is invoked, unless the program
\* crashes or somebody stops the loop.
QueuedTasksRun ==
  \A t \in Task :
    Contains(microTaskQueue, t) \/ Contains(macroTaskQueue, t)
      ~> Contains(started, t) \/ Crashed \/ stopCalled
=============================================================================
