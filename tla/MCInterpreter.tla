---------------------------- MODULE MCInterpreter ----------------------------
(***************************************************************************)
(* What a compiled and evaluated program does, against what it means.      *)
(* Module Meaning's machine runs a program first, then the evaluator does. *)
(***************************************************************************)
EXTENDS Compiler, Interpreter, CodeFile, Suite

CONSTANT Expected    \* of each program: "agrees", "refused", "if bound" or "sound"

Language == INSTANCE Meaning

VARIABLE meaning     \* the machine of module Meaning, or only what became of it

IsExpected(what) == Expected[program.id] = what

MCInit ==
  /\ Init
  /\ meaning = IF status = "running" THEN Language!Start(Programs[program.id])
               ELSE [status |-> "none", out |-> <<>>]

ReferenceStep ==
  /\ meaning.status = "running"
  /\ meaning' = LET m == Language!OneStep(meaning)
                IN IF m.status = "running" THEN m ELSE [status |-> m.status, out |-> m.out]
  /\ UNCHANGED vars

EvaluatorStep == meaning.status # "running" /\ Next /\ UNCHANGED meaning

\* Weak fairness of the next step, which there is as long as the program runs (or else
\* TLC finds the deadlock): infinitely often it does not run, or something happens.
Fairness == []<>(status # "running") \/ []<><<TRUE>>_<<vars, meaning>>

MCSpec ==
  MCInit /\ [][ReferenceStep \/ EvaluatorStep]_<<vars, meaning>> /\ Fairness

------------------------------------------------------------------------------

GoodFile == [p \in DOMAIN Programs |->
               Compilations[p].error = "" => ReadsBack(Compilations[p].codes)]

PrintsAsMeant ==
  /\ IsPrefix(out, meaning.out)
  /\ status \in {"done", "raised"} => status = meaning.status /\ out = meaning.out

\* IR/ and PyFrame::Eval together: a program prints what it means to print, in that
\* order, and ends as it means to, by its end or by an exception; the compiler
\* refuses those programs that it should.
OutputAgrees ==
  /\ IsExpected("agrees") => status # "rejected"
  /\ IsExpected("refused") => status = "rejected"
  /\ \/ IsExpected("agrees") /\ meaning.status # "running"
     \/ IsExpected("if bound") /\ meaning.status = "done"
     => PrintsAsMeant

\* The comment above Function::Range: a range is the generator that is written there,
\* so that a loop over it runs as often as that generator yields.
RangesAsCommented == meaning.status # "running" => PrintsAsMeant

\* INode.h's two passes: emit finds every constant and name that it asks for in the
\* registers visit has filled, whatever the order in which a name is bound and used.
PassesAgree == Compilations[program.id].error \notin {"not registered", "unresolved"}

\* A code object written to a file and read back is the same code object.
RoundTrip == GoodFile[program.id]

\* Eval's loop: in a program that ends, no compiled loop goes on for ever, and no
\* instruction is left without a next step.
Finishes == meaning.status \in {"done", "raised"} ~> status \in {"done", "raised"}
=============================================================================
