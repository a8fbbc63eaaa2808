---- MODULE ByteCode ----
(* What the evaluator relies on and nobody checks before it runs: that a code   *)
(* object's jumps stay inside it, that its operands are positions in its pools, *)
(* and that however an instruction is reached, the operand stack has the same   *)
(* depth there and enough on it.  PyFrame::Eval would otherwise pop from an     *)
(* empty stack, or run off the end and return None.                             *)
(*                                                                              *)
(* A code's flow is the set of <<pc, depth>> it can be at; module Verifier      *)
(* finds it, and Verified says what has to be true of it.                       *)
EXTENDS Values

(* The names the virtual machine knows without being told.                      *)
Builtins == {"print", "next", "iter", "range", "len", "__name__"}

UnaryOps  == {"UNARY_POSITIVE", "UNARY_NEGATIVE", "UNARY_INVERT", "UNARY_NOT"}
BinaryOps ==
  {"BINARY_ADD", "BINARY_SUBTRACT", "BINARY_MULTIPLY", "BINARY_MATRIX_MULTIPLY",
   "BINARY_SUBSCR", "BINARY_FLOOR_DIVIDE", "BINARY_TRUE_DIVIDE", "BINARY_MODULO",
   "BINARY_AND", "BINARY_OR", "BINARY_XOR", "BINARY_LSHIFT", "BINARY_RSHIFT",
   "BINARY_POWER", "COMPARE_OP"}

(* How many operands an instruction takes, how many it leaves.                  *)
Pops(inst) ==
  LET op == inst[1] IN
  CASE op \in {"LOAD_CONST", "LOAD_NAME", "LOAD_FAST", "NOP", "JUMP_ABSOLUTE",
               "JUMP_FORWARD"} -> 0
    [] op \in UnaryOps \cup
              {"STORE_NAME", "STORE_FAST", "POP_JUMP_IF_FALSE", "POP_TOP", "LOAD_ATTR",
               "GET_ITER", "FOR_ITER", "RETURN_VALUE", "YIELD_VALUE"} -> 1
    [] op \in BinaryOps \cup {"MAKE_FUNCTION", "STORE_ATTR"} -> 2
    [] op \in {"BUILD_SLICE", "STORE_SUBSCR"} -> 3
    [] op = "CALL_FUNCTION" -> inst[2] + 1
    [] op = "BUILD_LIST" -> inst[2]
    [] op = "BUILD_MAP" -> 2 * inst[2]

Pushes(inst) ==
  IF inst[1] \in {"STORE_NAME", "STORE_FAST", "STORE_ATTR", "STORE_SUBSCR", "POP_TOP",
                  "NOP", "JUMP_ABSOLUTE", "JUMP_FORWARD", "POP_JUMP_IF_FALSE"}
  THEN 0 ELSE 1

(* Where control goes from pc at depth d, and with what depth.                  *)
Successors(inst, pc, d) ==
  LET rest == d - Pops(inst) IN
  CASE inst[1] = "RETURN_VALUE" -> {}
    [] inst[1] = "JUMP_ABSOLUTE" -> {<<inst[2], d>>}
    [] inst[1] = "JUMP_FORWARD" -> {<<pc + inst[2], d>>}
    [] inst[1] = "POP_JUMP_IF_FALSE" -> {<<pc + 1, rest>>, <<pc + inst[2], rest>>}
    [] inst[1] = "FOR_ITER" -> {<<pc + 1, rest + 2>>, <<pc + inst[2], rest>>}
    [] OTHER -> {<<pc + 1, rest + Pushes(inst)>>}

(* A body begins with an empty stack, a generator's with what was sent first.   *)
Entry(code) == <<0, IF code.isGenerator THEN 1 ELSE 0>>

Inside(code, at) == at[1] \in 0..Len(code.insts) - 1 /\ at[2] \in Nat

PoolSize(code, op) ==
  CASE op = "LOAD_CONST" -> Len(code.consts)
    [] op \in {"LOAD_FAST", "STORE_FAST"} -> code.nLocals
    [] op \in {"LOAD_NAME", "STORE_NAME", "LOAD_ATTR", "STORE_ATTR"} -> Len(code.names)

Indexes == {"LOAD_CONST", "LOAD_FAST", "STORE_FAST", "LOAD_NAME", "STORE_NAME",
            "LOAD_ATTR", "STORE_ATTR"}
Counts  == {"CALL_FUNCTION", "BUILD_LIST", "BUILD_MAP"}

(* An instruction finds its operands, is gone on from inside the flow only, and *)
(* has an operand of its kind; only a generator yields.                         *)
VerifiedAt(code, flow, at) ==
  LET inst == code.insts[at[1] + 1] IN
  /\ at[2] >= Pops(inst)
  /\ Successors(inst, at[1], at[2]) \subseteq flow
  /\ inst[1] \in Indexes => inst[2] \in 0..PoolSize(code, inst[1]) - 1
  /\ inst[1] \in Counts => inst[2] \in Nat
  /\ inst[1] = "YIELD_VALUE" => code.isGenerator

(* The first conjuncts bound what the others look at.                           *)
Verified(code, flow) ==
  /\ Entry(code) \in flow
  /\ \A at \in flow : Inside(code, at) /\ VerifiedAt(code, flow, at)
  /\ \A a, b \in flow : a[1] = b[1] => a[2] = b[2]
  /\ code.nLocals \in Nat

(* Constants are literals or codes of the program.                              *)
Constants(codes, code) ==
  \A k \in 1..Len(code.consts) :
    /\ code.consts[k][1] \in {"none", "bool", "int", "str", "code"}
    /\ code.consts[k][1] = "code" => code.consts[k][2] \in DOMAIN codes

(* The module's code, the first, has no fast locals and does not yield.         *)
VerifiedProgram(codes, flows) ==
  /\ 1 \in DOMAIN codes /\ ~codes[1].isGenerator /\ codes[1].nLocals = 0
  /\ \A c \in DOMAIN codes : Verified(codes[c], flows[c]) /\ Constants(codes, codes[c])
====
