-------------------------------- MODULE Suite --------------------------------
(***************************************************************************)
(* The programs the compiler and the evaluator are checked on: every       *)
(* control structure inside every other, at module level, in a function    *)
(* and in a generator, and small programs for what each other construct    *)
(* could get wrong.                                                        *)
(***************************************************************************)
EXTENDS Codegen

N(k)  == Atom(Num(k))
S(s)  == Atom(Str(s))
I(x)  == Identifier(x)
Let(x, e)   == AssignStmt(I(x), e)
Call(f, as) == FunctionCall(I(f), as)
Do(e)       == ExprStmt(e)
Say(as)   == Do(Call("print", as))
Add(l, r)   == Binary("ADD", l, r)
Is(x, k)    == Binary("EQ", I(x), N(k))
Item(x, e)  == Binary("SUBSCR", I(x), e)
Method(x, m, as) == FunctionCall(MemberAccess(I(x), m), as)

------------------------------------------------------------------------------
(* A loop runs its variable over 0, 1 and 2; a choice asks for the variable of  *)
(* the loop around it, so that each of its arms is taken.                       *)

Loops(v, block) ==
  <<<<Let(v, N(0)),
      WhileStmt(Binary("LT", I(v), N(3)), block \o <<AugAssign("ADD", I(v), N(1))>>)>>,
    <<ForStmt(I(v), List(<<N(0), N(1), N(2)>>), block)>>>>

Ifs(v, yes, no) ==
  <<<<IfStmt(<<Arm(Is(v, 0), yes)>>, <<>>)>>,
    <<IfStmt(<<Arm(Is(v, 0), yes)>>, no)>>,
    <<IfStmt(<<Arm(Is(v, 0), yes), Arm(Is(v, 1), no)>>, <<>>)>>,
    <<IfStmt(<<Arm(Is(v, 2), no), Arm(Is(v, 1), yes), Arm(Is(v, 0), <<PassStmt>>)>>,
             yes)>>>>

\* Each loop with what is inside it, given every block `inner` can be.
Blocks(v, inner) == FlattenSeq([k \in DOMAIN inner |-> Loops(v, inner[k])])

(* Two levels, and a choice between them or inside them.  Level j's block says  *)
(* who it is.                                                                   *)
Structures(leaf(_)) ==
  LET choice == Ifs("i", <<leaf(S("yes"))>>, <<leaf(S("no"))>>)
      nested == FlattenSeq([k \in 1..4 |->
                  Ifs("i", choice[k] \o <<leaf(I("i"))>>, choice[k])])
      loops  == Loops("j", <<IfStmt(<<Arm(Is("i", 1), <<leaf(Add(I("i"), I("j")))>>)>>,
                                    <<PassStmt>>)>>)
      inside == FlattenSeq([k \in 1..2 |-> Ifs("i", loops[k], <<leaf(S("no"))>>)])
  IN Blocks("i", nested \o loops \o inside)

AtModule(body)   == body \o <<Say(<<I("i")>>)>>
InFunction(body) ==
  <<FuncDef("f", <<>>, body \o <<ReturnStmt(I("i"))>>), Say(<<Call("f", <<>>)>>)>>
InGenerator(body) ==
  <<FuncDef("g", <<"n">>, body), Let("a", Call("g", <<N(5)>>)),
    ForStmt(I("y"), I("a"), <<Say(<<I("y")>>)>>),
    Say(<<MemberAccess(I("a"), "done")>>)>>

SayLeaf(e) == Say(<<e>>)
YieldLeaf(e) == Let("x", YieldExpr(e))

ControlFlow ==
  LET printing == Structures(SayLeaf)
      yielding == Structures(YieldLeaf)
  IN [k \in DOMAIN printing |-> AtModule(printing[k])]
     \o [k \in DOMAIN printing |-> InFunction(printing[k])]
     \o [k \in DOMAIN printing |-> InGenerator(yielding[k])]

------------------------------------------------------------------------------
(* Expressions.                                                                 *)

BinaryOperators == <<"ADD", "SUB", "MUL", "MATMUL", "FLOOR_DIV", "DIV", "MOD", "AND", "OR",
                     "XOR", "LSHIFT", "RSHIFT", "POWER">>
Comparisons == <<"EQ", "NE", "LT", "LE", "GT", "GE", "IS", "IS_NOT", "IN_OP", "NOT_IN">>
UnaryOperators == <<"PLUS", "MINUS", "INVERT", "NOT">>

\* Every operator, on operands that are and are not numbers.
Operators ==
  <<<<Let("a", S("a"))>>
    \o [k \in DOMAIN BinaryOperators |-> Say(<<Binary(BinaryOperators[k], I("a"), N(k))>>)],
    <<Let("a", S("a"))>>
    \o [k \in DOMAIN Comparisons |-> Say(<<Binary(Comparisons[k], N(k), I("a"))>>)],
    [k \in DOMAIN UnaryOperators |-> Say(<<Unary(UnaryOperators[k], S("b"))>>)]
    \o <<Say(<<Comparison(<<N(1), N(2), N(0)>>, <<"LT", "LT">>)>>),
         Say(<<BoolTest("OR", <<S("x"), S("y"), S("z")>>)>>),
         Say(<<Unary("MINUS", N(3)), Binary("SUB", N(7), N(2))>>)>>>>

\* Who is evaluated when: arguments, operands, lists, maps, slices, items.
Order ==
  <<FuncDef("f", <<"x">>, <<Say(<<I("x")>>), ReturnStmt(I("x"))>>),
    Say(<<Call("f", <<N(1)>>), Call("f", <<N(2)>>)>>),
    Say(<<Binary("SUB", Call("f", <<N(5)>>), Call("f", <<N(3)>>))>>),
    Let("l", List(<<Call("f", <<N(1)>>), Call("f", <<N(2)>>), Call("f", <<N(3)>>)>>)),
    Say(<<I("l")>>),
    Say(<<Map(<<Call("f", <<S("k")>>), Call("f", <<S("m")>>)>>,
                <<Call("f", <<N(1)>>), Call("f", <<N(2)>>)>>)>>),
    Say(<<Binary("SUBSCR", I("l"), Slice(<<Call("f", <<N(0)>>), Call("f", <<N(2)>>),
                                             Call("f", <<N(1)>>)>>))>>),
    AssignStmt(Binary("SUBSCR", I("l"), Call("f", <<N(0)>>)), Call("f", <<N(9)>>)),
    AugAssign("ADD", Binary("SUBSCR", I("l"), N(1)), N(10)),
    Say(<<I("l"), Binary("SUBSCR", I("l"), N(1)), Call("len", <<I("l")>>)>>),
    Say(<<List(<<>>), List(<<List(<<N(1)>>), N(0)>>)>>)>>

------------------------------------------------------------------------------
(* Functions and names.                                                         *)

\* A function calls itself; each activation has its own locals.
Recursion ==
  <<FuncDef("f", <<"n">>,
      <<IfStmt(<<Arm(Binary("LE", I("n"), N(0)), <<ReturnStmt(N(0))>>)>>, <<>>),
        Let("m", Call("f", <<Binary("SUB", I("n"), N(1))>>)),
        ReturnStmt(Add(I("n"), I("m")))>>),
    Say(<<Call("f", <<N(3)>>)>>)>>

\* Names of the module, of a function, and of both.
Names ==
  <<Let("a", N(1)), Let("b", N(2)),
    FuncDef("f", <<"a">>, <<Let("c", Add(I("a"), I("b"))), ReturnStmt(I("c"))>>),
    Say(<<Call("f", <<N(10)>>), I("a"), I("__name__")>>),
    FuncDef("g", <<>>, <<ForStmt(I("a"), List(<<N(7), N(8)>>), <<Say(<<I("a")>>)>>),
                         ReturnStmt(I("a"))>>),
    Say(<<Call("g", <<>>), I("a")>>),
    Let("b", N(3)),
    Say(<<Call("f", <<N(10)>>)>>)>>

\* Definitions inside a definition, and a function as a value.
Nested ==
  <<FuncDef("f", <<"x">>,
      <<FuncDef("h", <<"x">>, <<ReturnStmt(Add(I("x"), N(1)))>>),
        FuncDef("k", <<"y">>, <<Say(<<I("y")>>)>>),
        Do(Call("k", <<Call("h", <<I("x")>>)>>)),
        ReturnStmt(I("h"))>>),
    Let("r", Call("f", <<N(4)>>)),
    Say(<<Call("r", <<N(6)>>)>>),
    Say(<<FunctionCall(Call("f", <<N(1)>>), <<N(2)>>)>>)>>

\* Definitions with the same pools, and constants that several codes share.
Pools ==
  <<FuncDef("f", <<"x">>, <<ReturnStmt(Add(I("x"), N(1)))>>),
    FuncDef("g", <<"x">>, <<ReturnStmt(Add(I("x"), N(1)))>>),
    Say(<<Call("f", <<N(1)>>), Call("g", <<N(2)>>), S("f"), N(0), N(1),
            Atom(Bool(TRUE)), Atom(None), Unary("MINUS", N(1))>>)>>

\* Loops that return, lists that grow while they are iterated.
Leaving ==
  <<FuncDef("f", <<"l">>,
      <<ForStmt(I("x"), I("l"),
          <<WhileStmt(N(1), <<IfStmt(<<Arm(Is("x", 2), <<ReturnStmt(I("x"))>>)>>, <<>>),
                              Let("x", N(2))>>)>>)>>),
    Say(<<Call("f", <<List(<<N(1), N(5)>>)>>), Call("f", <<List(<<>>)>>)>>),
    Let("l", List(<<N(0)>>)),
    ForStmt(I("x"), I("l"),
      <<IfStmt(<<Arm(Binary("LT", I("x"), N(2)),
                     <<Do(Method("l", "append", <<Add(I("x"), N(1))>>))>>)>>, <<>>)>>),
    Say(<<I("l"), I("x")>>)>>

\* Elements counted from both ends, and calls that builtins and methods take.
Arguments ==
  <<Let("l", List(<<N(1), N(2), N(3)>>)), AssignStmt(Item("l", N(2)), N(7)),
    Say(<<Item("l", N(0)), Item("l", Unary("MINUS", N(1))), Item("l", Unary("MINUS", N(3))),
          Call("len", <<I("l")>>), I("l")>>),
    Say(<<>>), Say(<<Call("len", <<S("s")>>)>>),
    FuncDef("f", <<"x", "y">>, <<Say(<<I("x"), I("y")>>)>>), Do(Call("f", <<N(1), N(2)>>)),
    FuncDef("g", <<>>, <<Do(YieldExpr(N(1)))>>), Let("a", Call("g", <<>>)),
    Say(<<Method("a", "send", <<N(1), N(2)>>), Method("a", "__next__", <<>>)>>)>>

------------------------------------------------------------------------------
(* Generators and iterators.                                                    *)

\* What is sent comes out of the yield; then it is over for good.
Sending ==
  <<FuncDef("g", <<"n">>, <<Let("s", YieldExpr(I("n"))), Say(<<I("s")>>),
                            Let("s", YieldExpr(Add(I("s"), I("n"))))>>),
    Let("a", Call("g", <<N(5)>>)),
    Say(<<Method("a", "send", <<N(1)>>), MemberAccess(I("a"), "done")>>),
    Say(<<Method("a", "send", <<N(2)>>)>>),
    Say(<<Call("next", <<I("a")>>), MemberAccess(I("a"), "done")>>),
    Say(<<Method("a", "__next__", <<>>), Method("a", "send", <<N(3)>>)>>)>>

\* Two generators of one definition, and one that uses another.
Interleaved ==
  <<FuncDef("g", <<"n">>, <<WhileStmt(N(1), <<Do(YieldExpr(I("n"))),
                                             AugAssign("ADD", I("n"), N(1))>>)>>),
    Let("a", Call("g", <<N(0)>>)), Let("b", Call("g", <<N(10)>>)),
    Say(<<Call("next", <<I("a")>>), Call("next", <<I("b")>>), Call("next", <<I("a")>>)>>),
    FuncDef("h", <<"n">>,
      <<ForStmt(I("x"), Call("range", <<N(1), I("n")>>),
          <<Do(YieldExpr(Add(I("x"), Call("next", <<I("a")>>))))>>),
        ReturnStmt(N(7))>>),
    ForStmt(I("y"), Call("h", <<N(3)>>), <<Say(<<I("y"), Call("next", <<I("b")>>)>>)>>)>>

\* A yield inside an expression: operands wait on the frame's stack.
YieldInExpression ==
  <<FuncDef("g", <<>>, <<Say(<<Add(Add(N(1), YieldExpr(N(2))), YieldExpr(N(3)))>>),
                         Let("l", List(<<YieldExpr(N(4)), N(0)>>)), Say(<<I("l")>>)>>),
    Let("a", Call("g", <<>>)),
    Say(<<Call("next", <<I("a")>>)>>), Say(<<Method("a", "send", <<N(10)>>)>>),
    Say(<<Method("a", "send", <<N(20)>>)>>), Say(<<Method("a", "send", <<N(30)>>)>>)>>

Iterators ==
  <<Let("l", List(<<N(3), N(4)>>)), Let("i", Call("iter", <<I("l")>>)),
    Say(<<Call("next", <<I("i")>>)>>),
    Do(Method("l", "append", <<N(5)>>)),
    ForStmt(I("x"), I("i"), <<Say(<<I("x")>>)>>),
    ForStmt(I("x"), Call("iter", <<I("l")>>), <<Say(<<I("x")>>)>>),
    ForStmt(I("x"), Call("range", <<N(5), N(0), Unary("MINUS", N(2))>>), <<Say(<<I("x")>>)>>),
    ForStmt(I("x"), Call("range", <<N(0), N(5), N(2)>>), <<Say(<<I("x")>>)>>),
    Let("r", Call("range", <<N(1)>>)),
    Say(<<Call("next", <<I("r")>>), Call("next", <<I("r")>>)>>)>>

------------------------------------------------------------------------------
(* Programs that raise, and what they have done before.                         *)

\* No such element, and methods with too few or too many arguments.
Misused ==
  <<Do(Item("l", N(2))), Do(Item("l", Unary("MINUS", N(3)))),
    AssignStmt(Item("l", N(2)), N(0)), AssignStmt(Item("l", Unary("MINUS", N(1))), N(0)),
    Do(Method("l", "append", <<>>)), Do(Method("l", "append", <<N(1), N(2)>>)),
    Do(Method("a", "send", <<>>)), Do(Method("a", "__next__", <<N(1)>>))>>

Raising ==
  <<<<Say(<<N(1)>>), Do(Call("next", <<List(<<>>)>>))>>,
    <<Do(Call("len", <<>>))>>,
    <<Do(Call("iter", <<N(1)>>))>>,
    <<Do(FunctionCall(N(1), <<>>))>>,
    <<Do(Call("range", <<N(0), N(1), N(0)>>))>>,
    <<IfStmt(<<Arm(N(0), <<Let("a", N(1))>>)>>, <<>>), Say(<<S("x")>>), Say(<<I("a")>>)>>,
    <<FuncDef("f", <<>>, <<Say(<<N(1)>>), Do(FunctionCall(S("s"), <<>>))>>),
      Do(Call("f", <<>>)), Say(<<N(2)>>)>>,
    <<FuncDef("g", <<>>, <<Do(YieldExpr(N(1))), Do(Call("next", <<N(3)>>))>>),
      ForStmt(I("x"), Call("g", <<>>), <<Say(<<I("x")>>)>>)>>,
    <<Let("l", List(<<N(1)>>)), Do(MemberAccess(I("l"), "send"))>>,
    <<ReturnStmt(N(1))>>>>
  \o [k \in DOMAIN Misused |->
        <<Let("l", List(<<N(1), N(2)>>)), FuncDef("g", <<>>, <<Do(YieldExpr(N(1)))>>),
          Let("a", Call("g", <<>>)), Say(<<S("x")>>), Misused[k], Say(<<S("y")>>)>>]

Legal ==
  ControlFlow
  \o Operators
  \o <<Order, Recursion, Names, Nested, Pools, Leaving, Arguments, Sending, Interleaved,
       YieldInExpression, Iterators>>
  \o Raising

(* Programs the compiler refuses: names nobody has bound above, a variable of   *)
(* the function around a definition, a builtin or another target assigned to.   *)
Illegal ==
  <<<<Say(<<I("a")>>)>>,
    <<FuncDef("f", <<>>, <<ReturnStmt(I("a"))>>), Let("a", N(1))>>,
    <<FuncDef("f", <<"x">>, <<FuncDef("h", <<>>, <<ReturnStmt(I("x"))>>)>>)>>,
    <<Let("print", N(1))>>,
    <<AssignStmt(Binary("ADD", N(1), N(1)), N(1))>>,
    <<ForStmt(Binary("SUBSCR", List(<<N(1)>>), N(0)), List(<<>>), <<PassStmt>>)>>>>

------------------------------------------------------------------------------
(* What a name stands for: a function of two statements that bind or use `a`,   *)
(* with and without a parameter and a global of that name.                      *)

Uses ==
  <<Let("a", N(1)), Say(<<I("a")>>), ForStmt(I("a"), List(<<N(2)>>), <<PassStmt>>),
    FuncDef("h", <<>>, <<Say(<<I("a")>>)>>), IfStmt(<<Arm(N(0), <<Let("a", N(3))>>)>>, <<>>),
    AugAssign("ADD", I("a"), N(1))>>

Function(params, first, second) ==
  <<FuncDef("f", params, <<first, second, Say(<<I("a")>>)>>),
    Do(Call("f", [j \in DOMAIN params |-> N(5)]))>>

\* A function is not defined twice over.
UsesIn(global, params) ==
  FlattenSeq([j \in DOMAIN Uses |->
    LET others == SelectSeq(Uses, LAMBDA u : u # Uses[j] \/ u.kind # "FuncDef")
    IN [k \in DOMAIN others |-> global \o Function(params, Uses[j], others[k])]])

Scopes == UsesIn(<<>>, <<>>) \o UsesIn(<<Let("a", N(0))>>, <<>>)
          \o UsesIn(<<>>, <<"a">>) \o UsesIn(<<Let("a", N(0))>>, <<"a">>)

(* The same with a definition of `a` in the function: the name is then in both  *)
(* registers, and which of the two a use asks depends on the other uses.        *)
Shadowing ==
  LET a == FuncDef("a", <<>>, <<PassStmt>>)
  IN FlattenSeq([k \in DOMAIN Uses |->
       <<Function(<<>>, a, Uses[k]), Function(<<"a">>, Uses[k], a)>>])

(* Every program, with what is expected of it: that it does what it means; that *)
(* it is refused; that it does what it means if it is accepted and every name   *)
(* it reads is bound; or only that its code is sound.                           *)
AllPrograms == Legal \o Illegal \o Scopes \o Shadowing
AllExpected ==
  [p \in DOMAIN AllPrograms |->
     CASE p <= Len(Legal) -> "agrees"
       [] p \in Len(Legal) + 1..Len(Legal \o Illegal) -> "refused"
       [] p \in Len(Legal \o Illegal) + 1..Len(Legal \o Illegal \o Scopes) -> "if bound"
       [] OTHER -> "sound"]

------------------------------------------------------------------------------
(* Ranges nothing is in.  The second one is left by a return.                   *)
EmptyRanges ==
  <<<<Say(<<N(1)>>), ForStmt(I("x"), Call("range", <<N(0)>>), <<Say(<<I("x")>>)>>)>>,
    <<FuncDef("f", <<>>,
        <<ForStmt(I("x"), Call("range", <<N(2), N(1)>>),
            <<Say(<<I("x")>>), IfStmt(<<Arm(Is("x", 3), <<ReturnStmt(N(3))>>)>>, <<>>)>>)>>),
      Do(Call("f", <<>>))>>>>

EmptyExpected == <<"agrees", "agrees">>
=============================================================================
