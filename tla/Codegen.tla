---- MODULE Codegen ----
(* The compiler behind the parser.  Generator.cpp builds a tree of nodes (IR/), *)
(* `visit` walks it and registers the constants and names of each code object,  *)
(* `emit` walks it again and appends instructions, whose operands are positions *)
(* in those registers and distances between instructions.  The two passes agree *)
(* only as long as they resolve every identifier alike, and the jumps are right *)
(* only as long as every length is taken at the right moment.                   *)
(*                                                                              *)
(* Operators for TLC: trees are recursive.  Code objects have the names of      *)
(* PyCode's members; positions in operands count from 0, as in the code.        *)
EXTENDS ByteCode

------------------------------------------------------------------------------
(* Nodes, as Generator.cpp creates them.                                        *)

Atom(v)               == [kind |-> "Atom", obj |-> v]
Identifier(x)         == [kind |-> "Identifier", name |-> x]
Unary(op, e)          == [kind |-> "Unary", oprt |-> op, operand |-> e]
Binary(op, l, r)      == [kind |-> "Binary", oprt |-> op, left |-> l, right |-> r]
FunctionCall(f, args) == [kind |-> "FunctionCall", func |-> f, args |-> args]
MemberAccess(o, m)    == [kind |-> "MemberAccess", obj |-> o, member |-> m]
List(es)              == [kind |-> "List", elements |-> es]
Map(ks, vs)           == [kind |-> "Map", keys |-> ks, values |-> vs]
Slice(es)             == [kind |-> "Slice", elements |-> es]
YieldExpr(e)          == [kind |-> "YieldExpr", content |-> e]

ExprStmt(e)           == [kind |-> "ExprStmt", content |-> e]
AssignStmt(t, s)      == [kind |-> "AssignStmt", target |-> t, source |-> s]
ReturnStmt(e)         == [kind |-> "ReturnStmt", content |-> e]
PassStmt              == [kind |-> "PassStmt"]
WhileStmt(c, body)    == [kind |-> "WhileStmt", condition |-> c, body |-> body]
ForStmt(t, iter, body) ==
  [kind |-> "ForStmt", target |-> t, iter |-> iter, body |-> body]
FuncDef(f, params, body) ==
  [kind |-> "FuncDef", name |-> f, parameters |-> params, body |-> body]

(* The first arm is the if, the others are its elifs.                           *)
Arm(c, block)         == [condition |-> c, block |-> block]
IfStmt(arms, else)    == [kind |-> "IfStmt", arms |-> arms, else |-> else]

(* `a op= b`: the target is built twice and assigned to.                        *)
AugAssign(op, t, s)   == AssignStmt(t, Binary(op, t, s))

(* Of `a < b < c`, only the first operator is looked at.                        *)
Comparison(exprs, ops) ==
  IF ops = <<>> THEN exprs[1] ELSE Binary(ops[1], exprs[1], exprs[2])

(* `a or b or c`, `a and b`: no jumps, an operator on both values.              *)
BoolTest(op, tests) ==
  FoldLeft(LAMBDA l, r : Binary(op, l, r), Head(tests), Tail(tests))

------------------------------------------------------------------------------
(* Code objects.  A compilation is its codes so far, the code list, and what it *)
(* has thrown.                                                                  *)

NewCode(name, scope) ==
  [name |-> name, scope |-> scope, consts |-> <<>>, names |-> <<>>,
   varNames |-> <<>>, nLocals |-> 0, isGenerator |-> FALSE, insts |-> <<>>]

CodeConst(c) == <<"code", c>>

Throw(st, what) == [st EXCEPT !.error = what]

(* CodeKlass::eq on two codes of the list.  It runs while pools are filled, when*)
(* no code has instructions, and on a lookup: the same code is found by its     *)
(* address, and of two other codes with the same pools the instructions differ, *)
(* in number or by an exception, so that the lookup throws either way.          *)
RECURSIVE SameConst(_, _, _)
SameCode(codes, i, j) ==
  LET a == codes[i]
      b == codes[j]
  IN i = j \/ /\ a.name = b.name /\ a.names = b.names /\ a.varNames = b.varNames
              /\ Len(a.consts) = Len(b.consts)
              /\ \A k \in DOMAIN a.consts : SameConst(codes, a.consts[k], b.consts[k])
              /\ a.nLocals = b.nLocals
              /\ a.insts = <<>> /\ b.insts = <<>>
SameConst(codes, v, w) ==
  /\ v[1] = w[1]
  /\ IF v[1] = "code" THEN SameCode(codes, v[2], w[2]) ELSE v[2] = w[2]

ConstAt(st, c, v) ==
  SelectInSeq(st.codes[c].consts, LAMBDA w : SameConst(st.codes, w, v))

Registered(seq, x) == IF Contains(seq, x) THEN seq ELSE Append(seq, x)

RegisterConst(st, c, v) ==
  IF ConstAt(st, c, v) # 0 THEN st
  ELSE [st EXCEPT !.codes[c].consts = Append(@, v)]
RegisterName(st, c, x)    == [st EXCEPT !.codes[c].names = Registered(@, x)]
RegisterVarName(st, c, x) == [st EXCEPT !.codes[c].varNames = Registered(@, x)]

(* Appending one instruction; with an operand that has to be in a pool.         *)
Append1(st, c, op, arg) == [st EXCEPT !.codes[c].insts = Append(@, <<op, arg>>)]

AppendAt(st, c, op, position) ==
  IF position = 0 THEN Throw(st, "not registered")
  ELSE Append1(st, c, op, position - 1)

PositionOf(seq, x) == SelectInSeq(seq, LAMBDA y : y = x)

LoadConst(st, c, v) == AppendAt(st, c, "LOAD_CONST", ConstAt(st, c, v))
WithName(st, c, op, x) == AppendAt(st, c, op, PositionOf(st.codes[c].names, x))
WithVarName(st, c, op, x) == AppendAt(st, c, op, PositionOf(st.codes[c].varNames, x))

Length(st, c) == Len(st.codes[c].insts)

(* Instructions()->SetItem(end - 1, ...): the instruction appended when the     *)
(* length became `end` gets its operand.                                        *)
Patch(st, c, end, arg) == [st EXCEPT !.codes[c].insts[end][2] = arg]

------------------------------------------------------------------------------
(* Identifiers.  Code 1 is the module's: the first of every definition's        *)
(* Parents().                                                                   *)

GetIdentifierRegistry(st, c, x) ==
  LET code == st.codes[c] IN
  CASE Contains(code.varNames, x)           -> "LOCAL_VARNAME"
    [] ~Contains(code.varNames, x)
       /\ Contains(code.names, x)           -> "LOCAL_NAME"
    [] ~Contains(code.varNames \o code.names, x)
       /\ Contains(st.codes[1].names, x)    -> "GLOBAL_NAME"
    [] ~Contains(code.varNames \o code.names \o st.codes[1].names, x)
       /\ x \in Builtins                    -> "BUILTIN"
    [] OTHER                                -> "UNREGISTERED"

(* At module level a name is known once it is in Names.                         *)
Registry(st, c, x) ==
  IF st.codes[c].scope = "LOCAL" THEN GetIdentifierRegistry(st, c, x)
  ELSE IF Contains(st.codes[c].names, x) THEN "GLOBAL_NAME"
  ELSE IF x \in Builtins THEN "BUILTIN" ELSE "UNREGISTERED"

VisitIdentifier(st, c, x, mode) ==
  LET r == Registry(st, c, x) IN
  CASE mode = "STORE" /\ r = "UNREGISTERED" ->
         IF st.codes[c].scope = "GLOBAL" THEN RegisterName(st, c, x)
         ELSE RegisterVarName(st, c, x)
    [] r = "GLOBAL_NAME" -> RegisterName(st, c, x)
    [] r = "LOCAL_VARNAME" -> RegisterVarName(st, c, x)
    [] r = "LOCAL_NAME" -> IF mode = "STORE" THEN RegisterVarName(st, c, x)
                           ELSE RegisterName(st, c, x)
    [] mode = "LOAD" /\ r = "BUILTIN" -> RegisterName(st, c, x)
    [] mode = "STORE" /\ r = "BUILTIN" -> Throw(st, "stores a builtin")
    [] mode = "LOAD" /\ r = "UNREGISTERED" -> Throw(st, "NameError")

(* The registry is asked again, with all pools filled.                          *)
EmitIdentifier(st, c, x, mode) ==
  LET r  == Registry(st, c, x)
      op == [LOAD  |-> IF r = "LOCAL_VARNAME" THEN "LOAD_FAST" ELSE "LOAD_NAME",
             STORE |-> IF r = "LOCAL_VARNAME" THEN "STORE_FAST" ELSE "STORE_NAME"][mode]
  IN IF st.codes[c].scope = "GLOBAL" THEN WithName(st, c, op, x)
     ELSE IF r = "UNREGISTERED" \/ (r = "BUILTIN" /\ mode = "STORE")
     THEN Throw(st, "unresolved")
     ELSE IF r = "LOCAL_VARNAME" THEN WithVarName(st, c, op, x)
     ELSE WithName(st, c, op, x)

------------------------------------------------------------------------------
(* The first pass, over node n that belongs to code c.  An exception ends it.   *)

RECURSIVE Visit(_, _, _), VisitAll(_, _, _)
VisitAll(nodes, c, st) ==
  IF nodes = <<>> \/ st.error # "" THEN st
  ELSE VisitAll(Tail(nodes), c, Visit(Head(nodes), c, st))

VisitBinary(n, c, st) == VisitAll(<<n.left, n.right>>, c, st)
VisitCall(n, c, st)   == VisitAll(<<n.func>> \o n.args, c, st)
VisitMember(n, c, st) == RegisterName(Visit(n.obj, c, st), c, n.member)
VisitMap(n, c, st)    == VisitAll(n.keys \o n.values, c, st)
VisitWhile(n, c, st)  == VisitAll(<<n.condition>> \o n.body, c, st)

(* A target is visited in store mode.                                           *)
VisitAssign(n, c, st) ==
  LET source == Visit(n.source, c, st) IN
  CASE n.target.kind = "Identifier" ->
         VisitIdentifier(source, c, n.target.name, "STORE")
    [] n.target.kind = "MemberAccess" -> VisitMember(n.target, c, source)
    [] n.target.kind = "Binary" ->
         IF n.target.oprt = "SUBSCR" THEN VisitBinary(n.target, c, source)
         ELSE Throw(source, "only support subscript operation")
    [] OTHER -> source

(* Mutant: the else block is forgotten.                                         *)
VisitIfWithoutElse(n, c, st) ==
  VisitAll(FlattenSeq([i \in DOMAIN n.arms |-> <<n.arms[i].condition>> \o n.arms[i].block]),
           c, st)

(* All conditions of elifs come before their blocks.                            *)
VisitIf(n, c, st) ==
  LET elifs == Tail(n.arms)
      then  == VisitAll(<<n.arms[1].condition>> \o n.arms[1].block, c, st)
      conds == VisitAll([i \in DOMAIN elifs |-> elifs[i].condition], c, then)
  IN VisitAll(FlattenSeq([i \in DOMAIN elifs |-> elifs[i].block]) \o n.else, c, conds)

VisitFor(n, c, st) ==
  LET iter == Visit(n.iter, c, st)
      target == IF n.target.kind # "Identifier" THEN Throw(iter, "unsupported target")
                ELSE IF st.codes[c].scope = "GLOBAL"
                THEN RegisterName(iter, c, n.target.name)
                ELSE RegisterVarName(iter, c, n.target.name)
  IN VisitAll(n.body, c, target)

Params(n) == FoldLeft(Registered, <<>>, n.parameters)

(* Parameters and the constant None come before anything in the body; the name  *)
(* is known to the parent, and so to the body, before the body is walked.       *)
VisitFuncDef(n, c, st) ==
  LET d == Len(st.codes) + 1
      new == [NewCode(n.name, "LOCAL") EXCEPT !.varNames = Params(n),
                                              !.consts = <<None>>]
      named == RegisterName([st EXCEPT !.codes = Append(@, new)], c, n.name)
      body == VisitAll(n.body, d, named)
  IN RegisterConst(RegisterConst(body, c, CodeConst(d)), c, Str(n.name))

Visit(n, c, st) ==
  CASE st.error # ""           -> st
    [] n.kind = "Atom"         -> RegisterConst(st, c, n.obj)
    [] n.kind = "Identifier"   -> VisitIdentifier(st, c, n.name, "LOAD")
    [] n.kind = "Unary"        -> Visit(n.operand, c, st)
    [] n.kind = "Binary"       -> VisitBinary(n, c, st)
    [] n.kind = "FunctionCall" -> VisitCall(n, c, st)
    [] n.kind = "MemberAccess" -> VisitMember(n, c, st)
    [] n.kind \in {"List", "Slice"} -> VisitAll(n.elements, c, st)
    [] n.kind = "Map"          -> VisitMap(n, c, st)
    [] n.kind \in {"YieldExpr", "ExprStmt", "ReturnStmt"} -> Visit(n.content, c, st)
    [] n.kind = "AssignStmt"   -> VisitAssign(n, c, st)
    [] n.kind = "PassStmt"     -> st
    [] n.kind = "WhileStmt"    -> VisitWhile(n, c, st)
    [] n.kind = "ForStmt"      -> VisitFor(n, c, st)
    [] n.kind = "IfStmt"       -> VisitIf(n, c, st)
    [] n.kind = "FuncDef"      -> VisitFuncDef(n, c, st)

VisitModule(body) ==
  LET st == [codes |-> <<NewCode("module", "GLOBAL")>>, defs |-> 1, error |-> ""]
  IN RegisterConst(VisitAll(body, 1, st), 1, None)

------------------------------------------------------------------------------
(* The second pass.  `defs` is the code index of the last definition entered:   *)
(* definitions are entered in the order of the first pass.                      *)

UnaryInst == [PLUS   |-> "UNARY_POSITIVE", MINUS |-> "UNARY_NEGATIVE",
              INVERT |-> "UNARY_INVERT",   NOT   |-> "UNARY_NOT"]

CompareOp == [EQ |-> "EQUAL", GE |-> "GREATER_THAN_EQUAL", LE |-> "LESS_THAN_EQUAL",
              NE |-> "NOT_EQUAL", LT |-> "LESS_THAN", GT |-> "GREATER_THAN",
              IS |-> "IS", IS_NOT |-> "IS_NOT", IN_OP |-> "IN", NOT_IN |-> "NOT_IN"]

BinaryInst ==
  [ADD |-> "BINARY_ADD", SUB |-> "BINARY_SUBTRACT", MUL |-> "BINARY_MULTIPLY",
   MATMUL |-> "BINARY_MATRIX_MULTIPLY", SUBSCR |-> "BINARY_SUBSCR",
   STORE_SUBSCR |-> "STORE_SUBSCR", FLOOR_DIV |-> "BINARY_FLOOR_DIVIDE",
   DIV |-> "BINARY_TRUE_DIVIDE", MOD |-> "BINARY_MODULO", AND |-> "BINARY_AND",
   OR |-> "BINARY_OR", XOR |-> "BINARY_XOR", LSHIFT |-> "BINARY_LSHIFT",
   RSHIFT |-> "BINARY_RSHIFT", POWER |-> "BINARY_POWER"]

RECURSIVE Emit(_, _, _), EmitAll(_, _, _)
EmitAll(nodes, c, st) ==
  IF nodes = <<>> \/ st.error # "" THEN st
  ELSE EmitAll(Tail(nodes), c, Emit(Head(nodes), c, st))

EmitUnary(n, c, st) == Append1(Emit(n.operand, c, st), c, UnaryInst[n.oprt], 0)

EmitBinary(n, oprt, c, st) ==
  LET operands == EmitAll(<<n.left, n.right>>, c, st)
  IN IF oprt \in DOMAIN CompareOp
     THEN Append1(operands, c, "COMPARE_OP", CompareOp[oprt])
     ELSE Append1(operands, c, BinaryInst[oprt], 0)

EmitCall(n, c, st) ==
  Append1(EmitAll(<<n.func>> \o n.args, c, st), c, "CALL_FUNCTION", Len(n.args))

EmitMember(n, op, c, st) == WithName(Emit(n.obj, c, st), c, op, n.member)

(* The last element first: BUILD_LIST pushes what it pops to the new list.      *)
EmitList(n, c, st) ==
  Append1(EmitAll(Reverse(n.elements), c, st), c, "BUILD_LIST", Len(n.elements))

EmitMap(n, c, st) ==
  LET pairs == [i \in DOMAIN n.keys |-> <<n.keys[i], n.values[i]>>]
  IN Append1(EmitAll(FlattenSeq(Reverse(pairs)), c, st), c, "BUILD_MAP", Len(n.keys))

EmitSlice(n, c, st) == Append1(EmitAll(n.elements, c, st), c, "BUILD_SLICE", 0)

EmitYield(n, c, st) ==
  LET content == Emit(n.content, c, st)
  IN Append1([content EXCEPT !.codes[c].isGenerator = TRUE], c, "YIELD_VALUE", 0)

(* Mutant: the value of an expression nobody uses stays on the stack.           *)
EmitExprStmtKeeping(n, c, st) == Emit(n.content, c, st)

EmitExprStmt(n, c, st)   == Append1(Emit(n.content, c, st), c, "POP_TOP", 0)
EmitReturnStmt(n, c, st) == Append1(Emit(n.content, c, st), c, "RETURN_VALUE", 0)
EmitPass(n, c, st)       == Append1(st, c, "NOP", 0)

EmitAssign(n, c, st) ==
  LET source == Emit(n.source, c, st) IN
  CASE n.target.kind = "Identifier" -> EmitIdentifier(source, c, n.target.name, "STORE")
    [] n.target.kind = "MemberAccess" -> EmitMember(n.target, "STORE_ATTR", c, source)
    [] n.target.kind = "Binary" -> EmitBinary(n.target, "STORE_SUBSCR", c, source)
    [] OTHER -> source

(* Mutant: the jump out of a loop counts as those do that begin behind the jump.*)
EmitWhileShort(n, c, st) ==
  LET condBegin == Length(st, c)
      jump == Append1(Emit(n.condition, c, st), c, "POP_JUMP_IF_FALSE", 0)
      back == Append1(EmitAll(n.body, c, jump), c, "JUMP_ABSOLUTE", condBegin)
  IN Patch(back, c, Length(jump, c), Length(back, c) - Length(jump, c))

EmitWhile(n, c, st) ==
  LET condBegin == Length(st, c)
      jump == Append1(Emit(n.condition, c, st), c, "POP_JUMP_IF_FALSE", 0)
      back == Append1(EmitAll(n.body, c, jump), c, "JUMP_ABSOLUTE", condBegin)
  IN Patch(back, c, Length(jump, c), Length(back, c) - Length(jump, c) + 1)

(* Mutant: a loop is left to a position, as the jump back goes to one.          *)
EmitForToPosition(n, c, st) ==
  LET start == Append1(Append1(Emit(n.iter, c, st), c, "GET_ITER", 0), c, "FOR_ITER", 0)
      target == IF st.codes[c].scope = "GLOBAL"
                THEN WithName(start, c, "STORE_NAME", n.target.name)
                ELSE WithVarName(start, c, "STORE_FAST", n.target.name)
      back == Append1(EmitAll(n.body, c, target), c, "JUMP_ABSOLUTE", Length(start, c) - 1)
  IN Patch(back, c, Length(start, c), Length(back, c))

EmitFor(n, c, st) ==
  LET iter == Append1(Emit(n.iter, c, st), c, "GET_ITER", 0)
      start == Append1(iter, c, "FOR_ITER", 0)
      target == IF st.codes[c].scope = "GLOBAL"
                THEN WithName(start, c, "STORE_NAME", n.target.name)
                ELSE WithVarName(start, c, "STORE_FAST", n.target.name)
      back == Append1(EmitAll(n.body, c, target), c, "JUMP_ABSOLUTE", Length(start, c) - 1)
  IN Patch(back, c, Length(start, c), Length(back, c) - Length(start, c) + 1)

(* An arm skips to the next one if its condition is false, and ends with a jump *)
(* to the end of the statement, which is filled in when that is known.          *)
EmitArm(arm, c, acc) ==
  LET jump == Append1(Emit(arm.condition, c, acc.st), c, "POP_JUMP_IF_FALSE", 0)
      done == Append1(EmitAll(arm.block, c, jump), c, "JUMP_FORWARD", 0)
  IN [st   |-> Patch(done, c, Length(jump, c), Length(done, c) - Length(jump, c) + 1),
      ends |-> Append(acc.ends, Length(done, c))]

EmitIf(n, c, st) ==
  LET arms == FoldLeft(LAMBDA acc, arm : EmitArm(arm, c, acc),
                       [st |-> st, ends |-> <<>>], n.arms)
      full == EmitAll(n.else, c, arms.st)
  IN FoldLeft(LAMBDA s, end : Patch(s, c, end, Length(full, c) - end + 1),
              full, arms.ends)

EmitFuncDef(n, c, st) ==
  LET d == st.defs + 1
      body == EmitAll(n.body, d, [st EXCEPT !.defs = d])
      nLocals == Max({Len(body.codes[d].varNames), Len(n.parameters)})
      none == LoadConst([body EXCEPT !.codes[d].nLocals = nLocals], d, None)
      self == Append1(none, d, "RETURN_VALUE", 0)
      code == LoadConst(self, c, CodeConst(d))
      made == Append1(LoadConst(code, c, Str(n.name)), c, "MAKE_FUNCTION", 0)
  IN WithName(made, c, "STORE_NAME", n.name)

Emit(n, c, st) ==
  CASE st.error # ""           -> st
    [] n.kind = "Atom"         -> LoadConst(st, c, n.obj)
    [] n.kind = "Identifier"   -> EmitIdentifier(st, c, n.name, "LOAD")
    [] n.kind = "Unary"        -> EmitUnary(n, c, st)
    [] n.kind = "Binary"       -> EmitBinary(n, n.oprt, c, st)
    [] n.kind = "FunctionCall" -> EmitCall(n, c, st)
    [] n.kind = "MemberAccess" -> EmitMember(n, "LOAD_ATTR", c, st)
    [] n.kind = "List"         -> EmitList(n, c, st)
    [] n.kind = "Map"          -> EmitMap(n, c, st)
    [] n.kind = "Slice"        -> EmitSlice(n, c, st)
    [] n.kind = "YieldExpr"    -> EmitYield(n, c, st)
    [] n.kind = "ExprStmt"     -> EmitExprStmt(n, c, st)
    [] n.kind = "AssignStmt"   -> EmitAssign(n, c, st)
    [] n.kind = "ReturnStmt"   -> EmitReturnStmt(n, c, st)
    [] n.kind = "PassStmt"     -> EmitPass(n, c, st)
    [] n.kind = "WhileStmt"    -> EmitWhile(n, c, st)
    [] n.kind = "ForStmt"      -> EmitFor(n, c, st)
    [] n.kind = "IfStmt"       -> EmitIf(n, c, st)
    [] n.kind = "FuncDef"      -> EmitFuncDef(n, c, st)

EmitModule(body, st) ==
  Append1(LoadConst(EmitAll(body, 1, st), 1, None), 1, "RETURN_VALUE", 0)

(* What the host makes of a program: its codes, the module's first.             *)
Compile(body) ==
  LET visited == VisitModule(body)
  IN IF visited.error # "" THEN visited ELSE EmitModule(body, visited)

====
