---- MODULE Meaning ----
(* What a program is supposed to do, without byte code: no constant pools, no   *)
(* name registers, no jumps.  An activation has the statements and expressions  *)
(* that are still to be done, as trees, and a statement leaves what it repeats  *)
(* in front of them; names are looked up by Python's rule, that a name assigned *)
(* anywhere in a function is local to it.  Three things are the language's own: *)
(* `and`, `or` and chained comparisons are operators, the elements of a display *)
(* are evaluated from the last to the first, and only an element from the       *)
(* beginning, not from the end, can be assigned to.                             *)
(*                                                                              *)
(* A machine is [acts, globals, heap, out, status], its activations innermost   *)
(* first, each [todo, vals, vars, own, gen]; `gen` is the generator it is a     *)
(* resumption of, or 0.                                                         *)
EXTENDS Codegen

Marker(what, data) == [kind |-> what, data |-> data]

(* Every name a block binds outside nested functions.                           *)
RECURSIVE Bound(_)
BoundBy(n) ==
  CASE n.kind = "AssignStmt" ->
         IF n.target.kind = "Identifier" THEN {n.target.name} ELSE {}
    [] n.kind = "ForStmt"   -> {n.target.name} \cup Bound(n.body)
    [] n.kind = "WhileStmt" -> Bound(n.body)
    [] n.kind = "IfStmt"    ->
         UNION {Bound(n.arms[i].block) : i \in DOMAIN n.arms} \cup Bound(n.else)
    [] n.kind = "FuncDef"   -> {n.name}
    [] OTHER -> {}
Bound(block) == UNION {BoundBy(block[i]) : i \in DOMAIN block}

(* Whether a block yields outside nested functions, however deep.               *)
Parts(n) ==
  CASE n.kind \in {"Atom", "Identifier", "PassStmt", "FuncDef"} -> <<>>
    [] n.kind = "Unary"  -> <<n.operand>>
    [] n.kind = "Binary" -> <<n.left, n.right>>
    [] n.kind = "FunctionCall" -> <<n.func>> \o n.args
    [] n.kind = "MemberAccess" -> <<n.obj>>
    [] n.kind \in {"List", "Slice"} -> n.elements
    [] n.kind = "Map" -> n.keys \o n.values
    [] n.kind \in {"YieldExpr", "ExprStmt", "ReturnStmt"} -> <<n.content>>
    [] n.kind = "AssignStmt" -> <<n.target, n.source>>
    [] n.kind = "WhileStmt"  -> <<n.condition>> \o n.body
    [] n.kind = "ForStmt"    -> <<n.iter>> \o n.body
    [] n.kind = "IfStmt" ->
         FlattenSeq([i \in DOMAIN n.arms |-> <<n.arms[i].condition>> \o n.arms[i].block])
           \o n.else

RECURSIVE Yields(_)
Yields(block) ==
  \E i \in DOMAIN block : block[i].kind = "YieldExpr" \/ Yields(Parts(block[i]))

------------------------------------------------------------------------------
Activation(todo, vars, own, gen) ==
  [todo |-> todo, vals |-> <<>>, vars |-> vars, own |-> own, gen |-> gen]

Fail(m) == [m EXCEPT !.status = "raised"]

(* The current activation's head task is replaced; its operands are on `vals`.  *)
Do(m, tasks)  == [m EXCEPT !.acts[1].todo = tasks \o Tail(@)]
Done(m)       == Do(m, <<>>)
Give(m, v)    == [Done(m) EXCEPT !.acts[1].vals = Append(@, v)]
Operands(m, n) == LET vs == m.acts[1].vals IN SubSeq(vs, Len(vs) - n + 1, Len(vs))
Drop(m, n)    == [m EXCEPT !.acts[1].vals = SubSeq(@, 1, Len(@) - n)]
Last1(m)      == Last(m.acts[1].vals)

AtModule(m) == Len(m.acts) = 1

Lookup(m, x) ==
  LET a == m.acts[1] IN
  CASE x \in DOMAIN a.vars -> Give(m, a.vars[x])
    [] x \notin DOMAIN a.vars /\ x \in a.own -> Fail(m)
    [] x \notin DOMAIN a.vars \cup a.own /\ x \in DOMAIN m.globals ->
         Give(m, m.globals[x])
    [] x \notin DOMAIN a.vars \cup a.own \cup DOMAIN m.globals /\ x \in Builtins ->
         Give(m, <<"builtin", x>>)
    [] OTHER -> Fail(m)

Bind(m, x, v) ==
  IF AtModule(m) THEN [m EXCEPT !.globals = x :> v @@ @]
  ELSE [m EXCEPT !.acts[1].vars = x :> v @@ @]

Allocate(m, obj) ==
  [Give(m, Ref(Len(m.heap) + 1)) EXCEPT !.heap = Append(@, obj)]

(* The next value of iterator h, or the value sent; a generator's activation    *)
(* gives it when it yields or returns.  A range is the generator of the comment *)
(* above Function::Range.                                                       *)
Advance(m, v, sent) ==
  LET h == v[2]
      obj == m.heap[h]
  IN
  CASE ~IsRef(v) -> Fail(m)
    [] IsRef(v) /\ obj.kind = "listiter" ->
         LET r == ListNext(m.heap, h) IN [Give(m, r.value) EXCEPT !.heap = r.heap]
    [] IsRef(v) /\ obj.kind = "range" ->
         IF IF obj.step > 0 THEN obj.start < obj.end ELSE obj.start > obj.end
         THEN [Give(m, Num(obj.start)) EXCEPT !.heap[h].start = @ + obj.step]
         ELSE [Give(m, IterDone) EXCEPT !.heap[h].exhausted = TRUE]
    [] IsRef(v) /\ obj.kind = "gen" /\ obj.exhausted -> Give(m, IterDone)
    [] IsRef(v) /\ obj.kind = "gen" /\ ~obj.exhausted ->
         LET a == obj.act
             resumed == [a EXCEPT !.vals = IF obj.begun THEN Append(@, sent) ELSE @]
         IN [Done(m) EXCEPT !.acts = <<resumed>> \o @, !.heap[h].begun = TRUE]
    [] OTHER -> Fail(m)

IsList(m, v) == IsRef(v) /\ m.heap[v[2]].kind = "list"

Call(m, f, args) ==
  LET Native(x) == f[1] = "builtin" /\ f[2] = x
  IN
  CASE f[1] = "func" ->
         LET n == f[2]
             a == Activation(n.body, [x \in Range(n.parameters) |->
                                        args[CHOOSE i \in DOMAIN args : n.parameters[i] = x]],
                             Bound(n.body) \cup Range(n.parameters), 0)
         IN IF Yields(n.body)
            THEN LET h == Len(m.heap) + 1
                 IN Allocate(m, [kind |-> "gen", act |-> [a EXCEPT !.gen = h],
                                 begun |-> FALSE, exhausted |-> FALSE])
            ELSE [Done(m) EXCEPT !.acts = <<a>> \o @]
    [] Native("print") ->
         [Give(m, None) EXCEPT !.out =
            IF args = <<>> THEN @
            ELSE Append(@, [i \in DOMAIN args |-> Shown(m.heap, args[i])])]
    [] f[1] = "builtin" /\ f[2] \in {"len", "next", "iter"} /\ Len(args) # 1 -> Fail(m)
    [] Native("len") -> Give(m, IF IsList(m, args[1]) THEN Num(Len(m.heap[args[1][2]].elems))
                                ELSE Term("len", args))
    [] Native("next") -> Advance(m, args[1], None)
    [] Native("iter") ->
         IF ~IsRef(args[1]) THEN Fail(m)
         ELSE IF m.heap[args[1][2]].kind = "list"
         THEN Allocate(m, ListIterator(args[1][2])) ELSE Give(m, args[1])
    [] Native("range") ->
         IF Len(args) = 3 /\ args[3] = Num(0) THEN Fail(m)
         ELSE Allocate(m, [kind |-> "range", exhausted |-> FALSE,
                           start |-> IF Len(args) \in {2, 3} THEN args[1][2] ELSE 0,
                           end |-> CASE Len(args) = 1 -> args[1][2]
                                     [] Len(args) \in {2, 3} -> args[2][2]
                                     [] OTHER -> 0,
                           step |-> IF Len(args) = 3 THEN args[3][2] ELSE 1])
    [] f[1] = "method" /\ f[3] = "send" /\ args # <<>> -> Advance(m, Ref(f[2]), args[1])
    [] f[1] = "method" /\ f[3] = "__next__" /\ args = <<>> -> Advance(m, Ref(f[2]), None)
    [] f[1] = "method" /\ f[3] = "append" /\ Len(args) = 1 ->
         [Give(m, None) EXCEPT !.heap[f[2]].elems = Append(@, args[1])]
    [] OTHER -> Fail(m)

(* The innermost activation is over, or suspended: the one below it gets v.     *)
Answer(m, v) == [m EXCEPT !.acts = [Tail(@) EXCEPT ![1].vals = Append(@, v)]]

Leave(m, v) ==
  LET g == m.acts[1].gen IN
  CASE AtModule(m) -> [m EXCEPT !.status = IF v = None THEN "done" ELSE "raised"]
    [] ~AtModule(m) /\ g = 0 -> Answer(m, v)
    [] ~AtModule(m) /\ g # 0 -> [Answer(m, IterDone) EXCEPT !.heap[g].exhausted = TRUE]

(* The generator keeps what is left of its activation.                          *)
Suspend(m, v) ==
  LET rest == Drop(Done(m), 1).acts[1]
  IN [Answer(m, v) EXCEPT !.heap[rest.gen].act = rest]

------------------------------------------------------------------------------
(* One task.  A node becomes its operands and a marker that takes their values. *)

Operator == [ADD |-> "add", SUB |-> "sub", MUL |-> "mul", MATMUL |-> "matmul",
             FLOOR_DIV |-> "floordiv", DIV |-> "truediv", MOD |-> "mod",
             AND |-> "_and_", OR |-> "_or_", XOR |-> "_xor_", LSHIFT |-> "lshift",
             RSHIFT |-> "rshift", POWER |-> "pow", EQ |-> "eq", NE |-> "ne",
             LT |-> "lt", LE |-> "le", GT |-> "gt", GE |-> "ge", IS |-> "is",
             IS_NOT |-> "is not", IN_OP |-> "in", NOT_IN |-> "not in",
             SUBSCR |-> "getitem",
             PLUS |-> "pos", MINUS |-> "neg", INVERT |-> "invert", NOT |-> "not"]

Unfold(m, n) ==
  CASE n.kind = "Atom" -> Give(m, n.obj)
    [] n.kind = "Identifier" -> Lookup(m, n.name)
    [] n.kind = "Unary" -> Do(m, <<n.operand, Marker("unary", n.oprt)>>)
    [] n.kind = "Binary" -> Do(m, <<n.left, n.right, Marker("binary", n.oprt)>>)
    [] n.kind = "FunctionCall" ->
         Do(m, <<n.func>> \o n.args \o <<Marker("call", Len(n.args))>>)
    [] n.kind = "MemberAccess" -> Do(m, <<n.obj, Marker("attribute", n.member)>>)
    [] n.kind = "List" ->
         Do(m, Reverse(n.elements) \o <<Marker("list", Len(n.elements))>>)
    [] n.kind = "Map" ->
         Do(m, FlattenSeq(Reverse([i \in DOMAIN n.keys |-> <<n.keys[i], n.values[i]>>]))
               \o <<Marker("map", 2 * Len(n.keys))>>)
    [] n.kind = "Slice" -> Do(m, n.elements \o <<Marker("slice", 3)>>)
    [] n.kind = "YieldExpr" -> Do(m, <<n.content, Marker("yield", 0)>>)
    [] n.kind = "ExprStmt" -> Do(m, <<n.content, Marker("drop", 0)>>)
    [] n.kind = "ReturnStmt" -> Do(m, <<n.content, Marker("return", 0)>>)
    [] n.kind = "PassStmt" -> Done(m)
    [] n.kind = "AssignStmt" ->
         IF n.target.kind = "Identifier"
         THEN Do(m, <<n.source, Marker("bind", n.target.name)>>)
         ELSE Do(m, <<n.source, n.target.left, n.target.right, Marker("setitem", 0)>>)
    [] n.kind = "WhileStmt" ->
         Do(m, <<n.condition, Marker("choose", [yes |-> n.body \o <<n>>, no |-> <<>>])>>)
    [] n.kind = "IfStmt" ->
         IF n.arms = <<>> THEN Do(m, n.else)
         ELSE Do(m, <<n.arms[1].condition,
                      Marker("choose", [yes |-> n.arms[1].block,
                                        no |-> <<IfStmt(Tail(n.arms), n.else)>>])>>)
    [] n.kind = "ForStmt" -> Do(m, <<n.iter, Marker("iterate", n)>>)
    [] n.kind = "FuncDef" -> Done(Bind(m, n.name, <<"func", n>>))

(* Markers: m is the machine without the operands, v the last of them.          *)
Item(m, obj, i, rest) ==
  IF ~IsList(m, obj) \/ ~IsInt(i) THEN Give(rest, Term("getitem", <<obj, i>>))
  ELSE LET elems == m.heap[obj[2]].elems
       IN IF i[2] \in -Len(elems)..Len(elems) - 1
          THEN Give(rest, elems[(i[2] % Len(elems)) + 1]) ELSE Fail(rest)

Methods(kind) ==
  CASE kind \in {"gen", "range"} -> {"send", "__next__"}
    [] kind = "list" -> {"append"}
    [] OTHER -> {}

Take(m, t) ==
  LET v == Last1(m)
      n == CASE t.kind \in {"binary"} -> 2
             [] t.kind \in {"call", "list", "map", "slice"} -> t.data
             [] t.kind = "setitem" -> 3
             [] OTHER -> 1
      ops == Operands(m, n)
      rest == Drop(m, n)
  IN CASE t.kind = "unary" -> Give(rest, Unary1(Operator[t.data], v))
       [] t.kind = "binary" ->
            IF t.data = "SUBSCR" THEN Item(m, ops[1], ops[2], rest)
            ELSE Give(rest, Binary2(Operator[t.data], ops[1], ops[2]))
       [] t.kind = "call" -> Call(Drop(rest, 1), Last1(rest), ops)
       [] t.kind = "attribute" ->
            LET kind == IF IsRef(v) THEN m.heap[v[2]].kind ELSE "other"
            IN IF t.data \in Methods(kind) THEN Give(rest, <<"method", v[2], t.data>>)
               ELSE IF t.data = "done" /\ kind \in {"gen", "range"}
               THEN Give(rest, Bool(m.heap[v[2]].exhausted)) ELSE Fail(m)
       [] t.kind = "list" -> Allocate(rest, ListObj(Reverse(ops)))
       [] t.kind \in {"map", "slice"} -> Give(rest, Term(t.kind, ops))
       [] t.kind = "drop" -> Done(rest)
       [] t.kind = "bind" -> Done(Bind(rest, t.data, v))
       [] t.kind = "setitem" ->
            IF ops[3][2] \notin 0..Len(m.heap[ops[2][2]].elems) - 1 THEN Fail(rest)
            ELSE [Done(rest) EXCEPT !.heap[ops[2][2]].elems[ops[3][2] + 1] = ops[1]]
       [] t.kind = "choose" -> Do(rest, IF IsTrue(v) THEN t.data.yes ELSE t.data.no)
       [] t.kind = "iterate" ->
            Call(Do(rest, <<Marker("called", 0), Marker("loop", t.data)>>),
                 <<"builtin", "iter">>, ops)
       [] t.kind = "loop" -> Advance(Do(m, <<Marker("called", 0), Marker("step", t.data)>>),
                                     v, None)
       [] t.kind = "step" ->
            IF v = IterDone THEN Drop(Done(rest), 1)
            ELSE Do(Bind(rest, t.data.target.name, v),
                    t.data.body \o <<Marker("loop", t.data)>>)
       [] t.kind = "yield" -> Suspend(m, v)
       [] t.kind = "return" -> Leave(m, v)

Markers == {"unary", "binary", "call", "attribute", "list", "map", "slice", "drop", "bind",
            "setitem", "choose", "iterate", "loop", "step", "yield", "return"}

OneStep(m) ==
  LET todo == m.acts[1].todo IN
  CASE todo = <<>> -> Leave(m, None)
    [] todo # <<>> /\ todo[1].kind \in Markers -> Take(m, todo[1])
    [] OTHER -> Unfold(m, todo[1])

(* A program's machine before its first step.                                   *)
Start(body) ==
  [acts |-> <<Activation(body, <<>>, {}, 0)>>, globals |-> "__name__" :> Str("__main__"),
   heap |-> <<>>, out |-> <<>>, status |-> "running"]
====
