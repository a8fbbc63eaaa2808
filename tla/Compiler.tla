------------------------------ MODULE Compiler ------------------------------
(***************************************************************************)
(* What the compiler makes of the programs that are checked, and the flows *)
(* of its codes, for the constants of module Interpreter.  TLC evaluates a *)
(* constant definition once, and what a constant stands for at every use:  *)
(* hence two names for each.                                               *)
(***************************************************************************)
EXTENDS Codegen, Verifier

CONSTANT Programs    \* a sequence of modules' bodies

Compiled == [p \in DOMAIN Programs |-> Compile(Programs[p])]
FlowsOf  == [p \in DOMAIN Compiled |->
               [c \in DOMAIN Compiled[p].codes |-> Flow(Compiled[p].codes[c])]]

CompiledPrograms == Compiled
ProgramFlows     == FlowsOf
=============================================================================
