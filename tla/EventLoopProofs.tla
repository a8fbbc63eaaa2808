--------------------------- MODULE EventLoopProofs ---------------------------
(***************************************************************************)
(* Proofs about the event loop on its own (module EventLoop).              *)
(***************************************************************************)
EXTENDS EventLoop, TLAPS

-----------------------------------------------------------------------------
(* Sequences: what pushing, popping and appending do to positions.          *)

\* Pushing f puts it at position 1 and moves every other element down by one.
LEMMA PushLemma ==
  ASSUME NEW S, NEW s \in Seq(S), NEW f \in S
  PROVE  /\ Len(s) \in Nat
         /\ Push(f, s) \in Seq(S)
         /\ Len(Push(f, s)) = Len(s) + 1
         /\ Push(f, s)[1] = f
         /\ Head(Push(f, s)) = f
         /\ Push(f, s) # <<>>
         /\ \A i \in 1..Len(s) : Push(f, s)[i + 1] = s[i]
         /\ \A i \in 2..Len(s) + 1 : Push(f, s)[i] = s[i - 1]
BY DEF Push

\* Popping moves every element but the first up by one.
LEMMA TailLemma ==
  ASSUME NEW S, NEW s \in Seq(S), s # <<>>
  PROVE  /\ Tail(s) \in Seq(S)
         /\ Len(Tail(s)) = Len(s) - 1
         /\ Len(s) \in Nat \ {0}
         /\ Head(s) = s[1] /\ Head(s) \in S
         /\ \A i \in 1..Len(s) - 1 : Tail(s)[i] = s[i + 1]
         /\ \A i \in 2..Len(s) : Tail(s)[i - 1] = s[i]
OBVIOUS

\* Membership in a queue after an append and after taking the head.
LEMMA AppendQueue ==
  ASSUME NEW S, NEW q \in Seq(S), NEW t \in S, NEW u
  PROVE  /\ Append(q, t) \in Seq(S)
         /\ Contains(Append(q, t), u) <=> Contains(q, u) \/ u = t
<1>1. /\ Append(q, t) \in Seq(S)
      /\ Len(Append(q, t)) = Len(q) + 1
      /\ Append(q, t)[Len(q) + 1] = t
      /\ \A i \in 1..Len(q) : Append(q, t)[i] = q[i]
  OBVIOUS
<1>2. ASSUME Contains(q, u) PROVE Contains(Append(q, t), u)
  BY <1>1, <1>2 DEF Contains
<1>3. ASSUME u = t PROVE Contains(Append(q, t), u)
  BY <1>1, <1>3 DEF Contains
<1>4. ASSUME Contains(Append(q, t), u) PROVE Contains(q, u) \/ u = t
  BY <1>1, <1>4 DEF Contains
<1> QED BY <1>1, <1>2, <1>3, <1>4

LEMMA TailQueue ==
  ASSUME NEW S, NEW q \in Seq(S), q # <<>>, NEW u
  PROVE  /\ Tail(q) \in Seq(S) /\ Head(q) \in S
         /\ Contains(q, Head(q))
         /\ Contains(Tail(q), u) => Contains(q, u)
         /\ Contains(q, u) => u = Head(q) \/ Contains(Tail(q), u)
<1>1. /\ Tail(q) \in Seq(S) /\ Head(q) \in S /\ Head(q) = q[1]
      /\ Len(q) \in Nat \ {0} /\ Len(Tail(q)) = Len(q) - 1
      /\ \A i \in 1..Len(q) - 1 : Tail(q)[i] = q[i + 1]
      /\ \A i \in 2..Len(q) : Tail(q)[i - 1] = q[i]
  OBVIOUS
<1>2. Contains(q, Head(q))
  BY <1>1 DEF Contains
<1>3. ASSUME Contains(Tail(q), u) PROVE Contains(q, u)
  <2>1. PICK i \in 1..Len(Tail(q)) : Tail(q)[i] = u
    BY <1>3 DEF Contains
  <2>2. i + 1 \in 1..Len(q) /\ q[i + 1] = u
    BY <1>1, <2>1
  <2> QED BY <2>2 DEF Contains
<1>4. ASSUME Contains(q, u), u # Head(q) PROVE Contains(Tail(q), u)
  <2>1. PICK i \in 1..Len(q) : q[i] = u
    BY <1>4 DEF Contains
  <2>2. i - 1 \in 1..Len(Tail(q)) /\ Tail(q)[i - 1] = u
    BY <1>1, <1>4, <2>1
  <2> QED BY <2>2 DEF Contains
<1> QED BY <1>1, <1>2, <1>3, <1>4

-----------------------------------------------------------------------------
(* Activations of a kind on a stack: those in a set X of frames.            *)

Has(s, X) == \E i \in 1..Len(s) : s[i] \in X

AtMostOne(s, X) ==
  \A i, j \in 1..Len(s) : s[i] \in X /\ s[j] \in X => i = j

LEMMA PushIn ==
  ASSUME NEW S, NEW X, NEW s \in Seq(S), NEW f \in S, f \in X
  PROVE  /\ Has(Push(f, s), X)
         /\ ~Has(s, X) => AtMostOne(Push(f, s), X)
<1>0. /\ Len(s) \in Nat /\ Len(Push(f, s)) = Len(s) + 1
      /\ Push(f, s)[1] = f
      /\ \A i \in 1..Len(s) : Push(f, s)[i + 1] = s[i]
      /\ \A i \in 2..Len(s) + 1 : Push(f, s)[i] = s[i - 1]
  BY DEF Push
<1>1. Has(Push(f, s), X)
  BY <1>0 DEF Has
<1>2. ASSUME ~Has(s, X) PROVE AtMostOne(Push(f, s), X)
  <2>1. ASSUME NEW i \in 1..Len(Push(f, s)), Push(f, s)[i] \in X
        PROVE  i = 1
    <3>1. CASE i # 1
      <4>1. i - 1 \in 1..Len(s) /\ s[i - 1] \in X
        BY <1>0, <2>1, <3>1
      <4> QED BY <4>1, <1>2 DEF Has
    <3> QED BY <3>1
  <2> QED BY <2>1 DEF AtMostOne
<1> QED BY <1>1, <1>2

LEMMA PushOther ==
  ASSUME NEW S, NEW X, NEW s \in Seq(S), NEW f \in S, f \notin X
  PROVE  /\ Has(Push(f, s), X) <=> Has(s, X)
         /\ AtMostOne(s, X) => AtMostOne(Push(f, s), X)
<1>0. /\ Len(s) \in Nat /\ Len(Push(f, s)) = Len(s) + 1
      /\ Push(f, s)[1] = f
      /\ \A i \in 1..Len(s) : Push(f, s)[i + 1] = s[i]
      /\ \A i \in 2..Len(s) + 1 : Push(f, s)[i] = s[i - 1]
  BY DEF Push
<1>1. ASSUME NEW i \in 1..Len(Push(f, s)), Push(f, s)[i] \in X
      PROVE  i - 1 \in 1..Len(s) /\ s[i - 1] \in X
  <2>1. i # 1
    BY <1>0, <1>1
  <2> QED BY <1>0, <1>1, <2>1
<1>2. ASSUME NEW i \in 1..Len(s), s[i] \in X
      PROVE  i + 1 \in 1..Len(Push(f, s)) /\ Push(f, s)[i + 1] \in X
  BY <1>0, <1>2
<1>3. Has(Push(f, s), X) <=> Has(s, X)
  BY <1>1, <1>2 DEF Has
<1>4. ASSUME AtMostOne(s, X) PROVE AtMostOne(Push(f, s), X)
  <2> SUFFICES ASSUME NEW i \in 1..Len(Push(f, s)), NEW j \in 1..Len(Push(f, s)),
                      Push(f, s)[i] \in X, Push(f, s)[j] \in X
               PROVE  i = j
    BY DEF AtMostOne
  <2>1. i - 1 = j - 1
    BY <1>1, <1>4 DEF AtMostOne
  <2> QED BY <2>1, <1>0
<1> QED BY <1>3, <1>4

LEMMA PopIn ==
  ASSUME NEW S, NEW X, NEW s \in Seq(S), s # <<>>, Head(s) \in X, AtMostOne(s, X)
  PROVE  ~Has(Tail(s), X)
<1>0. /\ Len(s) \in Nat \ {0} /\ Len(Tail(s)) = Len(s) - 1
      /\ Head(s) = s[1]
      /\ \A i \in 1..Len(s) - 1 : Tail(s)[i] = s[i + 1]
      /\ \A i \in 2..Len(s) : Tail(s)[i - 1] = s[i]
  BY TailLemma
<1>1. ASSUME NEW i \in 1..Len(Tail(s)), Tail(s)[i] \in X PROVE FALSE
  <2>1. i + 1 \in 1..Len(s) /\ s[i + 1] \in X /\ 1 \in 1..Len(s)
    BY <1>0, <1>1
  <2> QED BY <2>1, <1>0 DEF AtMostOne
<1> QED BY <1>1 DEF Has

LEMMA PopOther ==
  ASSUME NEW S, NEW X, NEW s \in Seq(S), s # <<>>
  PROVE  /\ Has(Tail(s), X) => Has(s, X)
         /\ Head(s) \notin X /\ Has(s, X) => Has(Tail(s), X)
         /\ AtMostOne(s, X) => AtMostOne(Tail(s), X)
<1>0. /\ Len(s) \in Nat \ {0} /\ Len(Tail(s)) = Len(s) - 1
      /\ Head(s) = s[1]
      /\ \A i \in 1..Len(s) - 1 : Tail(s)[i] = s[i + 1]
      /\ \A i \in 2..Len(s) : Tail(s)[i - 1] = s[i]
  BY TailLemma
<1>1. ASSUME NEW i \in 1..Len(Tail(s)), Tail(s)[i] \in X
      PROVE  i + 1 \in 1..Len(s) /\ s[i + 1] \in X
  BY <1>0, <1>1
<1>2. ASSUME NEW i \in 1..Len(s), s[i] \in X, Head(s) \notin X
      PROVE  i - 1 \in 1..Len(Tail(s)) /\ Tail(s)[i - 1] \in X
  <2>1. i # 1
    BY <1>0, <1>2
  <2> QED BY <1>0, <1>2, <2>1
<1>3. Has(Tail(s), X) => Has(s, X)
  BY <1>1 DEF Has
<1>4. Head(s) \notin X /\ Has(s, X) => Has(Tail(s), X)
  BY <1>2 DEF Has
<1>5. ASSUME AtMostOne(s, X) PROVE AtMostOne(Tail(s), X)
  <2> SUFFICES ASSUME NEW i \in 1..Len(Tail(s)), NEW j \in 1..Len(Tail(s)),
                      Tail(s)[i] \in X, Tail(s)[j] \in X
               PROVE  i = j
    BY DEF AtMostOne
  <2>1. i + 1 = j + 1
    BY <1>1, <1>5 DEF AtMostOne
  <2> QED BY <2>1, <1>0
<1> QED BY <1>3, <1>4, <1>5

-----------------------------------------------------------------------------
(* Type correctness.                                                        *)

LEMMA FrameTypes ==
  /\ \A c \in Task \cup {Module} :
       Code(c) \in LoopFrame /\ Code(c) \notin RunFrame /\ Code(c).fn = "Code"
  /\ RunFrame \subseteq LoopFrame
  /\ Run("top") \in RunFrame /\ Run("drain") \in RunFrame
  /\ \A f \in LoopFrame : f \in RunFrame <=> f.fn = "Run"
BY DEF LoopFrame, RunFrame, Code, Run

\* The types of the loop's state, on a stack of frames in S: module Promise adds
\* frames of its own.
TypedLoop(S) ==
  /\ loopState \in {"Stopped", "Running"}
  /\ microTaskQueue \in Seq(MicroTask) /\ macroTaskQueue \in Seq(MacroTask)
  /\ stack \in Seq(S)
  /\ exc \in BOOLEAN /\ runs \in 0..MaxRuns
  /\ started \in Seq(Task)
  /\ stopCalled \in BOOLEAN /\ escaped \in BOOLEAN

LEMMA TypedInit == ASSUME NEW S, LoopInit PROVE TypedLoop(S)
<1>1. 0 \in 0..MaxRuns
  BY MaxRunsAssumption
<1>2. /\ <<>> \in Seq(MicroTask) /\ <<>> \in Seq(MacroTask)
      /\ <<>> \in Seq(S) /\ <<>> \in Seq(Task)
  OBVIOUS
<1> QED BY <1>1, <1>2 DEF LoopInit, TypedLoop

LEMMA TypedEnqueue ==
  ASSUME NEW S, RunFrame \subseteq S, TypedLoop(S), NEW s \in Seq(S),
         \/ \E t \in MicroTask : EnqueueMicroTask(t, s)
         \/ \E t \in MacroTask : EnqueueTask(t, s),
         UNCHANGED <<exc, runs, started, history>>
  PROVE  TypedLoop(S)'
<1>1. Push(Run("top"), s) \in Seq(S)
  BY PushLemma, FrameTypes
<1>2. \A t \in MicroTask : Append(microTaskQueue, t) \in Seq(MicroTask)
  BY DEF TypedLoop
<1>3. \A t \in MacroTask : Append(macroTaskQueue, t) \in Seq(MacroTask)
  BY DEF TypedLoop
<1> QED BY <1>1, <1>2, <1>3
        DEF TypedLoop, EnqueueMicroTask, EnqueueTask, WakeIfStopped, history

\* A frame is popped.
LEMMA TypedPop ==
  ASSUME NEW S, TypedLoop(S), stack # <<>>, stack' = Tail(stack),
         exc' \in BOOLEAN, escaped' \in BOOLEAN,
         UNCHANGED <<loopState, queues, runs, started, stopCalled>>
  PROVE  TypedLoop(S)'
<1>1. Tail(stack) \in Seq(S)
  BY DEF TypedLoop
<1> QED BY <1>1 DEF TypedLoop, queues

LEMMA TypedRun ==
  ASSUME NEW S, LoopFrame \subseteq S, TypedLoop(S),
         RunMicroTask \/ RunMacroTask \/ RunIdle \/ RunStopped
  PROVE  TypedLoop(S)'
<1>0. stack # <<>> /\ Tail(stack) \in Seq(S)
  BY DEF RunMicroTask, RunMacroTask, RunIdle, RunStopped, Running, TypedLoop
<1>1. CASE RunMicroTask
  <2> DEFINE t == Head(microTaskQueue)
  <2>1. t \in MicroTask /\ t \in Task /\ Tail(microTaskQueue) \in Seq(MicroTask)
    BY <1>1 DEF RunMicroTask, TypedLoop, Task
  <2>2. Push(Run("drain"), Tail(stack)) \in Seq(S)
    BY <1>0, PushLemma, FrameTypes
  <2>3. Push(Code(t), Push(Run("drain"), Tail(stack))) \in Seq(S)
    BY <2>1, <2>2, PushLemma, FrameTypes
  <2>4. Append(started, t) \in Seq(Task)
    BY <2>1 DEF TypedLoop
  <2> QED BY <1>1, <2>1, <2>3, <2>4 DEF RunMicroTask, TypedLoop, history
<1>2. CASE RunMacroTask
  <2> DEFINE t == Head(macroTaskQueue)
  <2>1. t \in MacroTask /\ t \in Task /\ Tail(macroTaskQueue) \in Seq(MacroTask)
    BY <1>2 DEF RunMacroTask, TypedLoop, Task
  <2>2. Push(Run("top"), Tail(stack)) \in Seq(S)
    BY <1>0, PushLemma, FrameTypes
  <2>3. Push(Code(t), Push(Run("top"), Tail(stack))) \in Seq(S)
    BY <2>1, <2>2, PushLemma, FrameTypes
  <2>4. Append(started, t) \in Seq(Task)
    BY <2>1 DEF TypedLoop
  <2> QED BY <1>2, <2>1, <2>3, <2>4 DEF RunMacroTask, TypedLoop, history
<1>3. CASE RunIdle
  BY <1>0, <1>3 DEF RunIdle, StateWhenIdle, TypedLoop, queues, history
<1>4. CASE RunStopped
  BY <1>0, <1>4 DEF RunStopped, TypedLoop, queues, history
<1> QED BY <1>1, <1>2, <1>3, <1>4

\* The steps that modules EventLoop and Promise share.
LEMMA TypedShared ==
  ASSUME NEW S, LoopFrame \subseteq S, TypedLoop(S),
         HostRun \/ ModuleReturns \/ CodeEnqueuesTask \/ Stop \/ Throw \/ Unwind
  PROVE  TypedLoop(S)'
<1>1. CASE HostRun
  <2>1. <<Code(Module)>> \in Seq(S)
    BY FrameTypes
  <2>2. runs' \in 0..MaxRuns
    BY <1>1, MaxRunsAssumption DEF HostRun, TypedLoop
  <2> QED BY <1>1, <2>1, <2>2 DEF HostRun, TypedLoop, queues, history
<1>2. CASE ModuleReturns
  <2>1. <<Run("top")>> \in Seq(S)
    BY FrameTypes
  <2> QED BY <1>2, <2>1 DEF ModuleReturns, TypedLoop, queues, history
<1>3. CASE CodeEnqueuesTask
  <2>1. RunFrame \subseteq S /\ stack \in Seq(S)
    BY FrameTypes DEF TypedLoop
  <2> QED BY <1>3, <2>1, TypedEnqueue DEF CodeEnqueuesTask
<1>4. CASE Stop
  BY <1>4 DEF Stop, TypedLoop, queues
<1>5. CASE Throw
  BY <1>5 DEF Throw, TypedLoop, queues, history
<1>6. CASE Unwind
  <2>1. escaped' \in BOOLEAN /\ exc' \in BOOLEAN
    BY <1>6 DEF Unwind, TypedLoop
  <2> QED BY <1>6, <2>1, TypedPop DEF Unwind, queues
<1> QED BY <1>1, <1>2, <1>3, <1>4, <1>5, <1>6

\* Every value of the loop's state has its type, for all sets of tasks and
\* however many runs the host starts.
THEOREM LoopTypeCorrect == LoopSpec => []LoopTypeOK
<1>0. LoopTypeOK <=> TypedLoop(LoopFrame)
  BY DEF LoopTypeOK, TypedLoop
<1>1. LoopInit => LoopTypeOK
  BY <1>0, TypedInit
<1>2. TypedLoop(LoopFrame) /\ [LoopNext]_loopVars => TypedLoop(LoopFrame)'
  <2> SUFFICES ASSUME TypedLoop(LoopFrame), [LoopNext]_loopVars
               PROVE  TypedLoop(LoopFrame)'
    OBVIOUS
  <2>0. RunFrame \subseteq LoopFrame /\ stack \in Seq(LoopFrame)
    BY FrameTypes DEF TypedLoop
  <2>1. CASE HostRun \/ ModuleReturns \/ CodeEnqueuesTask \/ Stop \/ Throw \/ Unwind
    BY <2>1, TypedShared
  <2>2. CASE CodeEnqueuesMicroTask
    BY <2>0, <2>2, TypedEnqueue DEF CodeEnqueuesMicroTask
  <2>3. CASE CodeCatches
    BY <2>3 DEF CodeCatches, TypedLoop, queues, history
  <2>4. CASE TaskReturns
    <3>1. stack # <<>> /\ exc' \in BOOLEAN /\ escaped' \in BOOLEAN
      BY <2>4 DEF TaskReturns, InCode, TypedLoop, history
    <3> QED BY <2>4, <3>1, TypedPop DEF TaskReturns, history
  <2>5. CASE RunMicroTask \/ RunMacroTask \/ RunIdle \/ RunStopped
    BY <2>5, TypedRun
  <2>6. CASE UNCHANGED loopVars
    BY <2>6 DEF loopVars, queues, history, TypedLoop
  <2> QED BY <2>1, <2>2, <2>3, <2>4, <2>5, <2>6 DEF LoopNext
<1>3. LoopTypeOK /\ [LoopNext]_loopVars => LoopTypeOK'
  BY <1>2 DEF LoopTypeOK, TypedLoop
<1> QED BY <1>1, <1>3, PTL DEF LoopSpec

-----------------------------------------------------------------------------
(* The wake-up discipline.  None of LoopStateHonest, NothingStranded and    *)
(* RunsOnce is inductive alone: a stopped loop has empty queues because     *)
(* only the outermost Run() sets Stopped, there is only one because a       *)
(* running loop is not entered again, and that is decided by `state`.       *)

WakeInv == LoopStateHonest /\ NothingStranded /\ RunsOnce

HasRun(s)       == Has(s, RunFrame)
AtMostOneRun(s) == AtMostOne(s, RunFrame)

LEMMA WakeInvInit == LoopInit => WakeInv
BY DEF LoopInit, WakeInv, LoopStateHonest, NothingStranded, RunsOnce, RunOnStack, Idle

LEMMA WakeInvIs ==
  WakeInv <=>
    (~stopCalled =>
       /\ AtMostOneRun(stack)
       /\ HasRun(stack) => loopState = "Running"
       /\ loopState = "Stopped" => microTaskQueue = <<>> /\ macroTaskQueue = <<>>
       /\ loopState = "Running" /\ ~escaped => HasRun(stack))
BY DEF WakeInv, LoopStateHonest, NothingStranded, RunsOnce, RunOnStack, HasRun, Has,
       AtMostOneRun, AtMostOne, Idle

\* Entering Run() from an enqueue, or not, keeps the discipline.
LEMMA WakeStep ==
  ASSUME NEW S, NEW s \in Seq(S), Run("top") \in S, WakeInv,
         loopState \in {"Stopped", "Running"},
         HasRun(s) <=> HasRun(stack), AtMostOneRun(stack) => AtMostOneRun(s),
         WakeIfStopped(s), UNCHANGED history
  PROVE  WakeInv'
<1>0. SUFFICES ASSUME ~stopCalled PROVE WakeInv'
  BY DEF WakeInv, LoopStateHonest, NothingStranded, RunsOnce, history
<1> USE DEF HasRun, AtMostOneRun
<1>1. CASE loopState = "Stopped"
  <2>1. ~HasRun(s)
    BY <1>0, <1>1, WakeInvIs
  <2>2. Run("top") \in RunFrame
    BY DEF RunFrame
  <2>3. AtMostOneRun(stack') /\ HasRun(stack') /\ loopState' = "Running"
    BY <1>1, <2>1, <2>2, PushIn DEF WakeIfStopped
  <2> QED BY <2>3 DEF WakeInv, LoopStateHonest, NothingStranded, RunsOnce, RunOnStack,
                      Has, AtMostOne
<1>2. CASE loopState # "Stopped"
  <2>1. stack' = s /\ loopState' = "Running" /\ loopState = "Running"
    BY <1>2 DEF WakeIfStopped
  <2>2. UNCHANGED <<stopCalled, escaped>>
    BY DEF history
  <2>3. AtMostOneRun(stack') /\ (HasRun(stack') <=> HasRun(stack))
    BY <1>0, <2>1, WakeInvIs
  <2> QED BY <1>0, <2>1, <2>2, <2>3, WakeInvIs
          DEF WakeInv, LoopStateHonest, NothingStranded, RunsOnce, RunOnStack, Has, AtMostOne
<1> QED BY <1>1, <1>2

\* A stack with the same activations of Run(), and nothing else changed.
LEMMA SameRunsStep ==
  ASSUME WakeInv, HasRun(stack') <=> HasRun(stack),
         AtMostOneRun(stack) => AtMostOneRun(stack'),
         UNCHANGED <<loopState, queues, history>>
  PROVE  WakeInv'
BY WakeInvIs
   DEF WakeInv, LoopStateHonest, NothingStranded, RunsOnce, RunOnStack, HasRun,
       AtMostOneRun, Has, AtMostOne, Idle, queues, history

\* Popping a frame that is no activation of Run().
LEMMA PopCodeStep ==
  ASSUME NEW S, stack \in Seq(S), stack # <<>>, Head(stack) \notin RunFrame, WakeInv,
         stack' = Tail(stack), UNCHANGED <<loopState, queues, history>>
  PROVE  WakeInv'
<1>1. HasRun(stack') <=> HasRun(stack)
  BY PopOther DEF HasRun
<1>2. AtMostOneRun(stack) => AtMostOneRun(stack')
  BY PopOther DEF AtMostOneRun
<1> QED BY <1>1, <1>2, SameRunsStep

\* A task starts on top of the activation of Run() that invokes it.
LEMMA InvokeStep ==
  ASSUME NEW S, stack \in Seq(S), stack # <<>>, Head(stack) \in RunFrame, WakeInv,
         NEW r \in S, r \in RunFrame, NEW c \in S, c \notin RunFrame,
         stack' = Push(c, Push(r, Tail(stack))), UNCHANGED <<loopState, history>>
  PROVE  WakeInv'
<1>0. SUFFICES ASSUME ~stopCalled PROVE WakeInv'
  BY DEF WakeInv, LoopStateHonest, NothingStranded, RunsOnce, history
<1> USE DEF HasRun, AtMostOneRun
<1>1. Tail(stack) \in Seq(S) /\ ~HasRun(Tail(stack))
  BY <1>0, PopIn, WakeInvIs
<1>2. /\ Push(r, Tail(stack)) \in Seq(S)
      /\ HasRun(Push(r, Tail(stack))) /\ AtMostOneRun(Push(r, Tail(stack)))
  BY <1>1, PushIn, PushLemma
<1>3. HasRun(stack') /\ AtMostOneRun(stack')
  BY <1>2, PushOther
<1>4. loopState' = "Running"
  <2>1. 1 \in 1..Len(stack) /\ stack[1] \in RunFrame
    BY TailLemma
  <2>2. HasRun(stack)
    BY <2>1 DEF Has
  <2> QED BY <1>0, <2>2, WakeInvIs
<1> QED BY <1>3, <1>4
    DEF WakeInv, LoopStateHonest, NothingStranded, RunsOnce, RunOnStack, Has, AtMostOne

\* The steps of the loop and of the host on a stack that may hold further kinds
\* of frames: they keep the discipline whoever the tasks are.
LEMMA WakeHostRun ==
  ASSUME WakeInv, HostRun PROVE WakeInv'
<1>1. ~HasRun(stack) /\ ~HasRun(stack') /\ AtMostOneRun(stack')
  BY DEF HostRun, HasRun, AtMostOneRun, Has, AtMostOne, Code, RunFrame, Run
<1>2. UNCHANGED <<loopState, queues, history>>
  BY DEF HostRun
<1> QED BY <1>1, <1>2, SameRunsStep

LEMMA WakeModuleReturns ==
  ASSUME ModuleReturns PROVE WakeInv'
<1>1. HasRun(stack') /\ AtMostOneRun(stack') /\ loopState' = "Running"
  BY DEF ModuleReturns, HasRun, AtMostOneRun, Has, AtMostOne, Run, RunFrame
<1> QED BY <1>1
        DEF WakeInv, LoopStateHonest, NothingStranded, RunsOnce, RunOnStack,
            HasRun, AtMostOneRun, Has, AtMostOne

LEMMA WakeStopThrow ==
  ASSUME WakeInv, Stop \/ Throw PROVE WakeInv'
<1>1. CASE Stop
  BY <1>1 DEF Stop, WakeInv, LoopStateHonest, NothingStranded, RunsOnce
<1>2. CASE Throw
  BY <1>2, SameRunsStep DEF Throw
<1> QED BY <1>1, <1>2

LEMMA WakeUnwind ==
  ASSUME NEW S, stack \in Seq(S), WakeInv, Unwind PROVE WakeInv'
<1>1. /\ HasRun(stack') => HasRun(stack)
      /\ Head(stack) \notin RunFrame /\ HasRun(stack) => HasRun(stack')
      /\ AtMostOneRun(stack) => AtMostOneRun(stack')
  BY PopOther DEF Unwind, HasRun, AtMostOneRun
<1> QED BY <1>1, WakeInvIs
        DEF Unwind, WakeInv, LoopStateHonest, NothingStranded, RunsOnce, RunOnStack,
            HasRun, AtMostOneRun, Has, AtMostOne, Idle, queues

LEMMA WakeRun ==
  ASSUME NEW S, stack \in Seq(S), LoopFrame \subseteq S, WakeInv,
         \A f \in S : f \in RunFrame <=> f.fn = "Run",
         microTaskQueue \in Seq(MicroTask), macroTaskQueue \in Seq(MacroTask),
         RunMicroTask \/ RunMacroTask \/ RunIdle \/ RunStopped
  PROVE  WakeInv'
<1>0. stack # <<>> /\ Head(stack) \in RunFrame
  BY DEF RunMicroTask, RunMacroTask, RunIdle, RunStopped, Running
<1>1. CASE RunMicroTask
  <2>1. Head(microTaskQueue) \in Task
    BY <1>1 DEF RunMicroTask, Task
  <2> QED BY <1>0, <1>1, <2>1, FrameTypes, InvokeStep DEF RunMicroTask
<1>2. CASE RunMacroTask
  <2>1. Head(macroTaskQueue) \in Task
    BY <1>2 DEF RunMacroTask, Task
  <2> QED BY <1>0, <1>2, <2>1, FrameTypes, InvokeStep DEF RunMacroTask
<1>3. CASE RunIdle
  <2>1. ~stopCalled => ~HasRun(stack') /\ AtMostOneRun(stack')
    BY <1>0, <1>3, PopIn, PopOther, WakeInvIs DEF RunIdle, HasRun, AtMostOneRun
  <2> QED BY <1>3, <2>1
          DEF RunIdle, StateWhenIdle, WakeInv, LoopStateHonest, NothingStranded, RunsOnce,
              RunOnStack, HasRun, AtMostOneRun, Has, AtMostOne, Idle, queues, history
<1>4. CASE RunStopped
  <2>1. 1 \in 1..Len(stack) /\ stack[1] \in RunFrame
    BY <1>0, TailLemma
  <2>2. loopState = "Stopped" /\ HasRun(stack)
    BY <1>4, <2>1 DEF RunStopped, PastTest, HasRun, Has
  <2>3. stopCalled
    BY <2>2, WakeInvIs
  <2> QED BY <1>4, <2>3
          DEF RunStopped, WakeInv, LoopStateHonest, NothingStranded, RunsOnce, history
<1> QED BY <1>1, <1>2, <1>3, <1>4

\* The wake-up discipline, for all sets of tasks: the loop's state is honest, a
\* stopped loop has nothing to do, and Run() is not nested, while nobody calls
\* Stop().
THEOREM WakeDiscipline == LoopSpec => []WakeInv
<1>1. LoopTypeOK /\ WakeInv /\ [LoopNext]_loopVars => WakeInv'
  <2> SUFFICES ASSUME LoopTypeOK, WakeInv, [LoopNext]_loopVars PROVE WakeInv'
    OBVIOUS
  <2>0. /\ stack \in Seq(LoopFrame)
        /\ microTaskQueue \in Seq(MicroTask) /\ macroTaskQueue \in Seq(MacroTask)
    BY DEF LoopTypeOK
  <2>1. CASE HostRun
    BY <2>1, WakeHostRun
  <2>2. CASE ModuleReturns
    BY <2>2, WakeModuleReturns
  <2>3. CASE CodeEnqueuesMicroTask
    BY <2>0, <2>3, WakeStep, FrameTypes
       DEF CodeEnqueuesMicroTask, EnqueueMicroTask, LoopTypeOK
  <2>4. CASE CodeEnqueuesTask
    BY <2>0, <2>4, WakeStep, FrameTypes
       DEF CodeEnqueuesTask, EnqueueTask, LoopTypeOK
  <2>5. CASE Stop \/ Throw
    BY <2>5, WakeStopThrow
  <2>6. CASE CodeCatches
    BY <2>6, SameRunsStep DEF CodeCatches
  <2>7. CASE Unwind
    BY <2>0, <2>7, WakeUnwind
  <2>8. CASE TaskReturns
    <3>1. stack # <<>> /\ Head(stack) \notin RunFrame
      BY <2>8, FrameTypes DEF TaskReturns, InCode
    <3> QED BY <2>0, <2>8, <3>1, PopCodeStep DEF TaskReturns
  <2>9. CASE RunMicroTask \/ RunMacroTask \/ RunIdle \/ RunStopped
    BY <2>0, <2>9, FrameTypes, WakeRun
  <2>10. CASE UNCHANGED loopVars
    BY <2>10, SameRunsStep DEF loopVars
  <2> QED BY <2>1, <2>2, <2>3, <2>4, <2>5, <2>6, <2>7, <2>8, <2>9, <2>10 DEF LoopNext
<1> QED BY <1>1, WakeInvInit, LoopTypeCorrect, PTL DEF LoopSpec

\* The state says Running if and only if a Run() is on the stack.
THEOREM StateIsHonest == LoopSpec => []LoopStateHonest
<1> WakeInv => LoopStateHonest
  BY DEF WakeInv
<1> QED BY WakeDiscipline, PTL

\* No task is left in a loop that nobody runs.
THEOREM NoTaskIsStranded == LoopSpec => []NothingStranded
<1> WakeInv => NothingStranded
  BY DEF WakeInv
<1> QED BY WakeDiscipline, PTL

\* Run() is not entered while it runs.
THEOREM RunIsNotNested == LoopSpec => []RunsOnce
<1> WakeInv => RunsOnce
  BY DEF WakeInv
<1> QED BY WakeDiscipline, PTL
=============================================================================
