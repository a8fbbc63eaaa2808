------------------------------ MODULE CallFrames ------------------------------
(***************************************************************************)
(* Which frame VirtualMachine::frame points to.                            *)
(*                                                                         *)
(* The evaluator is a recursive C++ function: the frame being evaluated is *)
(* the innermost activation of PyFrame::Eval on the C++ stack.  Beside it  *)
(* the virtual machine keeps a pointer of its own, moved by hand: forward  *)
(* when a frame is created, back to `caller` when one returns, and to and  *)
(* fro when a generator is resumed.  Exceptions unwind the C++ stack and   *)
(* leave the pointer alone.  This module runs the two side by side.        *)
(*                                                                         *)
(* What user code computes is opaque: it may call functions and native     *)
(* code, make and resume generators, yield, return and throw.              *)
(***************************************************************************)
EXTENDS Naturals, Sequences

CONSTANTS
  Frame,      \* the frames that may be created
  NoFrame,    \* nullptr
  MaxDepth    \* bound: activations on the C++ stack

ASSUME FrameAssumption == NoFrame \notin Frame /\ MaxDepth \in Nat

VARIABLES
  vmFrame,    \* VirtualMachine::frame
  caller,     \* PyFrame::caller
  kind,       \* what a frame is used for; "exhausted" is PyGenerator::isExhausted
  cstack,     \* the C++ stack, top first
  exc,        \* an exception is propagating
  dead,       \* the process has dereferenced a null frame
  caught,     \* history: an exception was caught since the module was entered
  leaked      \* history: an exception has left a generator since then

vars == <<vmFrame, caller, kind, cstack, exc, dead, caught, leaked>>

Kind == {"unused", "function", "generator", "exhausted"}

(***************************************************************************)
(* Activations: Eval called by EvalAndDestroy or BuildClass; Eval called   *)
(* by PyGenerator::Send, which remembers the frame it found; native code   *)
(* that calls back into the evaluator, with a try block around the call or *)
(* without one.                                                            *)
(***************************************************************************)
Eval(f)         == [fn |-> "Eval", frame |-> f]
Resume(g, last) == [fn |-> "Resume", frame |-> g, last |-> last]
Native(try)     == [fn |-> "Native", catches |-> try]

Activation ==
  {Eval(f) : f \in Frame} \cup
  {Resume(g, last) : g \in Frame, last \in Frame \cup {NoFrame}} \cup
  {Native(try) : try \in BOOLEAN}

Push(a, s) == <<a>> \o s

Evaluates(a) == a.fn \in {"Eval", "Resume"}

Alive    == ~exc /\ ~dead /\ cstack # <<>>
Top      == Head(cstack)
InUser   == Alive /\ Evaluates(Top)
InNative == Alive /\ Top.fn = "Native"
HasRoom  == Len(cstack) < MaxDepth

Init ==
  /\ vmFrame = NoFrame
  /\ caller = [f \in Frame |-> NoFrame]
  /\ kind = [f \in Frame |-> "unused"]
  /\ cstack = <<>>
  /\ exc = FALSE /\ dead = FALSE
  /\ caught = FALSE /\ leaked = FALSE

-----------------------------------------------------------------------------
(* Calls and returns.                                                       *)

\* A faulty variant: a function's frame gets no caller, as a module's does.
Orphan == NoFrame

\* CreateFrameWithPyFunction: the caller is the frame the machine points to.
CallerOfNew == vmFrame

NewFrame(f, use, from) ==
  /\ kind[f] = "unused"
  /\ kind' = [kind EXCEPT ![f] = use]
  /\ caller' = [caller EXCEPT ![f] = from]

\* VirtualMachine::Run.  The frame of a crashed run is overwritten.
EnterModule(f) ==
  /\ cstack = <<>> /\ ~dead
  /\ NewFrame(f, "function", NoFrame)
  /\ vmFrame' = f
  /\ cstack' = <<Eval(f)>>
  /\ exc' = FALSE /\ caught' = FALSE /\ leaked' = FALSE
  /\ UNCHANGED dead

\* A faulty variant: UserFunction evaluates a generator function like any other.
CallAnyFunction(f) ==
  /\ InUser \/ InNative
  /\ HasRoom
  /\ \E use \in {"function", "generator"} : NewFrame(f, use, CallerOfNew)
  /\ vmFrame' = f
  /\ cstack' = Push(Eval(f), cstack)
  /\ UNCHANGED <<exc, dead, caught, leaked>>

\* UserFunction, and BuildClass with the function of a class body.
CallFunction(f) ==
  /\ InUser \/ InNative
  /\ HasRoom
  /\ NewFrame(f, "function", CallerOfNew)
  /\ vmFrame' = f
  /\ cstack' = Push(Eval(f), cstack)
  /\ UNCHANGED <<exc, dead, caught, leaked>>

\* UserFunction on a generator function: the frame is made, the pointer moves
\* to it and back to its caller.
CallGeneratorFunction(f) ==
  /\ InUser \/ InNative
  /\ NewFrame(f, "generator", CallerOfNew)
  /\ UNCHANGED <<vmFrame, cstack, exc, dead, caught, leaked>>

\* BackToParentFrame: from the frame the machine points to, whichever returns.
BackToParentFrame == vmFrame' = caller[vmFrame]

\* A call that returns.  After the module's frame the loop is run, as native code.
Return ==
  /\ Alive /\ Top.fn = "Eval"
  /\ vmFrame # NoFrame
  /\ BackToParentFrame
  /\ cstack' = IF Len(cstack) = 1 THEN <<Native(FALSE)>> ELSE Tail(cstack)
  /\ UNCHANGED <<caller, kind, exc, dead, caught, leaked>>

\* Line 112 dereferences the frame before it looks at it.
ReturnToNowhere ==
  /\ Alive /\ Top.fn = "Eval"
  /\ vmFrame = NoFrame
  /\ dead' = TRUE
  /\ UNCHANGED <<vmFrame, caller, kind, cstack, exc, caught, leaked>>

-----------------------------------------------------------------------------
(* Generators.  Nothing keeps a body from resuming its own generator.       *)

\* Send: the frame of g is evaluated again, and made the machine's.
ResumeGenerator(g) ==
  /\ InUser \/ InNative
  /\ HasRoom
  /\ kind[g] = "generator"
  /\ vmFrame' = g
  /\ cstack' = Push(Resume(g, vmFrame), cstack)
  /\ UNCHANGED <<caller, kind, exc, dead, caught, leaked>>

\* A faulty variant: the frame found is not put back.
KeepFrame(last) == vmFrame

\* Line 37: what the pointer is set to when the body has yielded or returned.
FrameAfterResume(last) == last

Yield ==
  /\ Alive /\ Top.fn = "Resume"
  /\ vmFrame' = FrameAfterResume(Top.last)
  /\ cstack' = Tail(cstack)
  /\ UNCHANGED <<caller, kind, exc, dead, caught, leaked>>

GeneratorReturns ==
  /\ Alive /\ Top.fn = "Resume"
  /\ vmFrame' = FrameAfterResume(Top.last)
  /\ cstack' = Tail(cstack)
  /\ kind' = [kind EXCEPT ![Top.frame] = "exhausted"]
  /\ UNCHANGED <<caller, exc, dead, caught, leaked>>

-----------------------------------------------------------------------------
(* Native code, and exceptions.                                             *)

\* User code calls something native that calls back: a constructor, the
\* enqueue that runs the event loop; with a try block, the promise's
\* constructor.  The event loop invokes callbacks, which have one too.
EnterNative(try) ==
  /\ InUser \/ (Alive /\ cstack = <<Native(FALSE)>>)
  /\ HasRoom
  /\ cstack' = Push(Native(try), cstack)
  /\ UNCHANGED <<vmFrame, caller, kind, exc, dead, caught, leaked>>

NativeReturns ==
  /\ InNative
  /\ cstack' = Tail(cstack)
  /\ UNCHANGED <<vmFrame, caller, kind, exc, dead, caught, leaked>>

Throw ==
  /\ Alive
  /\ exc' = TRUE
  /\ UNCHANGED <<vmFrame, caller, kind, cstack, dead, caught, leaked>>

Catches(a) == a.fn = "Native" /\ a.catches

\* An exception leaves an activation: EvalAndDestroy does not go back to the
\* caller, and Send does not put back the frame it found.
Unwind ==
  /\ exc /\ cstack # <<>> /\ ~Catches(Top)
  /\ cstack' = Tail(cstack)
  /\ leaked' = (leaked \/ Top.fn = "Resume")
  /\ UNCHANGED <<vmFrame, caller, kind, exc, dead, caught>>

\* A native try block catches it.  The native code goes on: it calls `reject`,
\* which may run the event loop, outside the try block.
Catch ==
  /\ exc /\ cstack # <<>> /\ Catches(Top)
  /\ exc' = FALSE /\ caught' = TRUE
  /\ cstack' = Push(Native(FALSE), Tail(cstack))
  /\ UNCHANGED <<vmFrame, caller, kind, dead, leaked>>

Next ==
  \/ \E f \in Frame :
       \/ EnterModule(f) \/ CallFunction(f)
       \/ CallGeneratorFunction(f) \/ ResumeGenerator(f)
  \/ \E try \in BOOLEAN : EnterNative(try)
  \/ Return \/ ReturnToNowhere \/ Yield \/ GeneratorReturns
  \/ NativeReturns \/ Throw \/ Unwind \/ Catch

Spec == Init /\ [][Next]_vars

-----------------------------------------------------------------------------
\* What is on the stack fits what its frame is used for.
Fits(a) ==
  /\ a.fn = "Eval" => kind[a.frame] = "function"
  /\ a.fn = "Resume" => kind[a.frame] \in {"generator", "exhausted"}

\* Types, and: functions are evaluated where they are called, generators only
\* where they are resumed.
TypeOK ==
  /\ vmFrame \in Frame \cup {NoFrame}
  /\ caller \in [Frame -> Frame \cup {NoFrame}]
  /\ kind \in [Frame -> Kind]
  /\ cstack \in Seq(Activation)
  /\ exc \in BOOLEAN /\ dead \in BOOLEAN
  /\ caught \in BOOLEAN /\ leaked \in BOOLEAN
  /\ \A i \in 1..Len(cstack) : Fits(cstack[i])

\* The frame that is evaluated by the activations from position k of `s` on: of
\* the innermost one that evaluates a frame; none if they are all native.
Evaluated(s, k, f) ==
  IF \E i \in k..Len(s) : Evaluates(s[i])
    THEN \E i \in k..Len(s) :
           /\ Evaluates(s[i]) /\ s[i].frame = f
           /\ \A j \in k..i - 1 : ~Evaluates(s[j])
    ELSE f = NoFrame

\* Unless an exception was caught, the machine points to the frame that is
\* being evaluated: through calls, class bodies, generators resumed far from
\* where they were made or from their own body, and in the event loop.
FrameIsEvaluated ==
  ~exc /\ ~caught => Evaluated(cstack, 1, vmFrame)

\* What the machine will point to when activation a is done, with callers c.
Link(c, a) == IF a.fn = "Eval" THEN c[a.frame] ELSE a.last

Chained(s, c) ==
  \A i \in 1..Len(s) :
    Evaluates(s[i]) => Evaluated(s, i + 1, Link(c, s[i]))

\* Every activation goes back to the frame evaluated below it, also while an
\* exception propagates, until one is caught.
Linked == ~caught => Chained(cstack, caller)

\* Exceptions caught outside generators are harmless to returning: as long as
\* none has left a generator, whatever returns finds a frame to go back from.
ReturnFindsFrame ==
  ~leaked /\ Alive /\ Top.fn = "Eval" => vmFrame # NoFrame

\* BackToParentFrame insists that there is a frame ("Cannot destroy non-frame
\* object", VirtualMachine.cpp:112-114): nothing else may ever return.
NeverNowhere == ~dead
=============================================================================
