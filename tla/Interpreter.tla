----------------------------- MODULE Interpreter -----------------------------
(***************************************************************************)
(* PyFrame::Eval: one action per group of opcodes, on the codes the        *)
(* compiler made of a program.  A frame is evaluated by the innermost      *)
(* activation of Eval; a call begins another activation, and the value it  *)
(* returns is delivered to the instruction that made the call, whose frame *)
(* has already lost its operands but still points at that instruction.     *)
(* A generator is a frame between two activations.                         *)
(*                                                                         *)
(* Which frame the virtual machine points to meanwhile is module           *)
(* CallFrames's subject.  Classes are left out, and so are the opcodes the *)
(* compiler never emits.                                                   *)
(***************************************************************************)
EXTENDS ByteCode

CONSTANTS
  Compilations,   \* what the compiler made of each program: its codes and its error
  Flows           \* of each program, the flow of each code

VARIABLES
  program,   \* the program that is run: its position in Compilations, and its codes
  status,    \* "running", "done", "raised", or "rejected" by the compiler
  frames,    \* every frame created, as records of PyFrame's members
  calls,     \* activations of Eval, innermost first: a frame, and the generator or 0
  globals,   \* the module's names
  heap,      \* lists, iterators and generators
  out        \* what was printed

vars == <<program, status, frames, calls, globals, heap, out>>

Codes == program.codes

NewFrame(c, fast) ==
  [code |-> c, pc |-> 0, stack |-> <<>>, fast |-> fast, locals |-> <<>>]

\* Eval of frame f, for the generator at h if one is resumed.
Activation(f, h) == [frame |-> f, gen |-> h]

Init ==
  /\ program \in {[id |-> p, codes |-> Compilations[p].codes] : p \in DOMAIN Compilations}
  /\ status = IF Compilations[program.id].error = "" THEN "running" ELSE "rejected"
  /\ frames = <<NewFrame(1, <<>>)>>
  /\ calls = <<Activation(1, 0)>>
  /\ globals = [x \in {"__name__"} |-> Str("__main__")]
  /\ heap = <<>>
  /\ out = <<>>

-----------------------------------------------------------------------------
(* The frame that is evaluated, its instruction and its operands.           *)

Top  == frames[calls[1].frame]
Code == Codes[Top.code]
Inst == Code.insts[Top.pc + 1]
At(ops) == status = "running" /\ Inst[1] \in ops

\* The operand that is k-th from the top, and the n topmost, lowest first.
Operand(k)  == Top.stack[Len(Top.stack) + 1 - k]
Operands(n) == SubSeq(Top.stack, Len(Top.stack) + 1 - n, Len(Top.stack))

Name == Code.names[Inst[2] + 1]

\* A frame after popping n operands and pushing values; and past its instruction.
Popped(frame, n, values) ==
  [frame EXCEPT !.stack = SubSeq(@, 1, Len(@) - n) \o values]
Passed(frame, n, values) == [Popped(frame, n, values) EXCEPT !.pc = @ + 1]

Replace(frame) == [frames EXCEPT ![calls[1].frame] = frame]
Pass(n, values) == frames' = Replace(Passed(Top, n, values))

Local == UNCHANGED <<program, status, calls, globals, heap, out>>
Raise == status' = "raised" /\ UNCHANGED <<program, frames, calls, globals, heap, out>>

-----------------------------------------------------------------------------
(* Instructions that stay inside the frame.                                 *)

EvalLoadConst ==
  At({"LOAD_CONST"}) /\ Pass(0, <<Code.consts[Inst[2] + 1]>>) /\ Local

EvalLoadFast ==
  At({"LOAD_FAST"}) /\ Pass(0, <<Top.fast[Inst[2] + 1]>>) /\ Local

EvalStoreFast ==
  /\ At({"STORE_FAST"})
  /\ frames' = Replace([Passed(Top, 1, <<>>) EXCEPT !.fast[Inst[2] + 1] = Operand(1)])
  /\ Local

\* The module's frame has the globals for locals.
Locals == IF Top.code = 1 THEN globals ELSE Top.locals

EvalLoadName ==
  /\ At({"LOAD_NAME"})
  /\ CASE Name \in DOMAIN Locals -> Pass(0, <<Locals[Name]>>) /\ Local
       [] Name \in DOMAIN globals \ DOMAIN Locals -> Pass(0, <<globals[Name]>>) /\ Local
       [] Name \in Builtins \ (DOMAIN globals \cup DOMAIN Locals) ->
            Pass(0, <<<<"builtin", Name>>>>) /\ Local
       [] OTHER -> Raise

Put(dict, x, v) == [y \in DOMAIN dict \cup {x} |-> IF y = x THEN v ELSE dict[y]]

EvalStoreName ==
  /\ At({"STORE_NAME"})
  /\ IF Top.code = 1
     THEN /\ globals' = Put(globals, Name, Operand(1))
          /\ Pass(1, <<>>)
     ELSE /\ frames' = Replace([Passed(Top, 1, <<>>) EXCEPT
                                  !.locals = Put(@, Name, Operand(1))])
          /\ UNCHANGED globals
  /\ UNCHANGED <<program, status, calls, heap, out>>

EvalPopTop == At({"POP_TOP"}) /\ Pass(1, <<>>) /\ Local
EvalNop    == At({"NOP"}) /\ Pass(0, <<>>) /\ Local

\* Which method of its operands an instruction calls.
BinaryMethod ==
  [BINARY_ADD |-> "add", BINARY_SUBTRACT |-> "sub", BINARY_MULTIPLY |-> "mul",
   BINARY_MATRIX_MULTIPLY |-> "matmul", BINARY_TRUE_DIVIDE |-> "truediv",
   BINARY_FLOOR_DIVIDE |-> "floordiv", BINARY_XOR |-> "_xor_", BINARY_AND |-> "_and_",
   BINARY_OR |-> "_or_", BINARY_POWER |-> "pow", BINARY_MODULO |-> "mod",
   BINARY_LSHIFT |-> "lshift", BINARY_RSHIFT |-> "rshift"]
CompareMethod ==
  [EQUAL |-> "eq", NOT_EQUAL |-> "ne", LESS_THAN |-> "lt", LESS_THAN_EQUAL |-> "le",
   GREATER_THAN |-> "gt", GREATER_THAN_EQUAL |-> "ge", NOT_IN |-> "not in", IS |-> "is",
   IS_NOT |-> "is not"] @@ "IN" :> "in"
UnaryMethod ==
  [UNARY_POSITIVE |-> "pos", UNARY_NEGATIVE |-> "neg", UNARY_NOT |-> "not",
   UNARY_INVERT |-> "invert"]

\* The right operand is popped first.
EvalBinary ==
  /\ At(DOMAIN BinaryMethod \cup {"COMPARE_OP"})
  /\ LET method == IF Inst[1] = "COMPARE_OP" THEN CompareMethod[Inst[2]]
                   ELSE BinaryMethod[Inst[1]]
     IN Pass(2, <<Binary2(method, Operand(2), Operand(1))>>)
  /\ Local

EvalUnary ==
  /\ At(DOMAIN UnaryMethod)
  /\ Pass(1, <<Unary1(UnaryMethod[Inst[1]], Operand(1))>>)
  /\ Local

IsList(v) == IsRef(v) /\ heap[v[2]].kind = "list"

\* ListKlass::getitem: an integer below zero counts from the list's end.
GetItem(list, i) ==
  LET elems == heap[list[2]].elems
      at == (IF i < 0 THEN Len(elems) + i ELSE i) + 1
  IN IF at \in DOMAIN elems THEN Pass(2, <<elems[at]>>) /\ Local ELSE Raise

\* Other subscripts make a new object.
EvalSubscr ==
  /\ At({"BINARY_SUBSCR"})
  /\ IF IsList(Operand(2)) /\ IsInt(Operand(1)) THEN GetItem(Operand(2), Operand(1)[2])
     ELSE Pass(2, <<Term("getitem", <<Operand(2), Operand(1)>>)>>) /\ Local

\* ListKlass::setitem: an integer below zero is no position.
SetItem(list, i, v) ==
  IF i + 1 \in DOMAIN heap[list[2]].elems
  THEN /\ heap' = [heap EXCEPT ![list[2]].elems[i + 1] = v]
       /\ Pass(3, <<>>)
       /\ UNCHANGED <<program, status, calls, globals, out>>
  ELSE Raise

\* Top first: the index, the list, the value.  Other targets are left out.
EvalStoreSubscr ==
  /\ At({"STORE_SUBSCR"})
  /\ IsList(Operand(2)) /\ IsInt(Operand(1))
  /\ SetItem(Operand(2), Operand(1)[2], Operand(3))

EvalMakeFunction ==
  /\ At({"MAKE_FUNCTION"})
  /\ IF Operand(1)[1] = "str" /\ Operand(2)[1] = "code"
     THEN Pass(2, <<<<"func", Operand(2)[2]>>>>) /\ Local
     ELSE Raise

EvalJump ==
  /\ At({"JUMP_ABSOLUTE", "JUMP_FORWARD"})
  /\ frames' = Replace([Top EXCEPT !.pc = IF Inst[1] = "JUMP_FORWARD" THEN @ + Inst[2]
                                          ELSE Inst[2]])
  /\ Local

EvalPopJumpIfFalse ==
  /\ At({"POP_JUMP_IF_FALSE"})
  /\ frames' = Replace([Popped(Top, 1, <<>>) EXCEPT
                          !.pc = @ + IF IsTrue(Operand(1)) THEN 1 ELSE Inst[2]])
  /\ Local

-----------------------------------------------------------------------------
(* Objects.                                                                 *)

\* Popping n operands for a new object.
Allocate(n, obj) ==
  /\ heap' = Append(heap, obj)
  /\ Pass(n, <<Ref(Len(heap) + 1)>>)
  /\ UNCHANGED <<program, status, calls, globals, out>>

\* Mutant: the elements in the order they were pushed in.
EvalBuildListAsPushed ==
  At({"BUILD_LIST"}) /\ Allocate(Inst[2], ListObj(Operands(Inst[2])))

\* What is popped first is the list's first element.
EvalBuildList ==
  At({"BUILD_LIST"}) /\ Allocate(Inst[2], ListObj(Reverse(Operands(Inst[2]))))

EvalBuildSlice ==
  At({"BUILD_SLICE"}) /\ Pass(3, <<Term("slice", Operands(3))>>) /\ Local

EvalBuildMap ==
  At({"BUILD_MAP"}) /\ Pass(2 * Inst[2], <<Term("map", Operands(2 * Inst[2]))>>) /\ Local

IsGenerator(v) == IsRef(v) /\ heap[v[2]].kind \in {"generator", "range"}
HasNext(v)     == IsGenerator(v) \/ (IsRef(v) /\ heap[v[2]].kind = "listiter")

\* A list makes an iterator; generators and iterators are their own.
Iterate(n, v) ==
  CASE IsList(v) -> Allocate(n, ListIterator(v[2]))
    [] HasNext(v) -> Pass(n, <<v>>) /\ Local
    [] OTHER -> Raise

EvalGetIter == At({"GET_ITER"}) /\ Iterate(1, Operand(1))

\* PyIife: `done` is answered by the access itself.
EvalLoadAttr ==
  /\ At({"LOAD_ATTR"})
  /\ LET v == Operand(1) IN
     CASE IsGenerator(v) /\ Name = "done" ->
            Pass(1, <<Bool(heap[v[2]].exhausted)>>) /\ Local
       [] \/ IsGenerator(v) /\ Name \in {"send", "__next__"}
          \/ IsList(v) /\ Name = "append" ->
            Pass(1, <<<<"method", v[2], Name>>>>) /\ Local
       [] OTHER -> Raise

-----------------------------------------------------------------------------
(* Calls.                                                                   *)

\* CreateFrameWithPyFunction: fast locals that got no argument are None.
CallFrame(c, args) ==
  NewFrame(c, args \o [i \in 1..Codes[c].nLocals - Len(args) |-> None])

\* A generator's frame is created and left alone.
CallGenerator(c, n) ==
  /\ heap' = Append(heap, [kind |-> "generator", frame |-> Len(frames) + 1,
                           exhausted |-> FALSE])
  /\ frames' = Append(Replace(Passed(Top, n + 1, <<Ref(Len(heap) + 1)>>)),
                      CallFrame(c, Operands(n)))
  /\ UNCHANGED <<program, status, calls, globals, out>>

\* Another function's frame is evaluated.
CallFunction(c, n) ==
  /\ frames' = Append(Replace(Popped(Top, n + 1, <<>>)), CallFrame(c, Operands(n)))
  /\ calls' = <<Activation(Len(frames) + 1, 0)>> \o calls
  /\ UNCHANGED <<program, status, globals, heap, out>>

CallUser ==
  /\ At({"CALL_FUNCTION"})
  /\ LET n == Inst[2]
         f == Operand(n + 1)
     IN /\ f[1] = "func"
        /\ IF Codes[f[2]].isGenerator THEN CallGenerator(f[2], n) ELSE CallFunction(f[2], n)

\* Mutant: a loop's iterator stays on the stack when the loop is left.
DeliveredKeepingIterator(frame, iter, v) ==
  LET inst == Codes[frame.code].insts[frame.pc + 1] IN
  CASE inst[1] = "CALL_FUNCTION" -> Passed(frame, 0, <<v>>)
    [] inst[1] = "FOR_ITER" /\ v # IterDone -> Passed(frame, 0, <<iter, v>>)
    [] inst[1] = "FOR_ITER" /\ v = IterDone ->
         [Popped(frame, 0, <<iter>>) EXCEPT !.pc = @ + inst[2]]

\* The instruction that asked for v gets it: a call's value is pushed, a loop's
\* iterator too if there is a value, and else the loop is left.  `frame` has lost
\* the instruction's operands.
Delivered(frame, iter, v) ==
  LET inst == Codes[frame.code].insts[frame.pc + 1] IN
  CASE inst[1] = "CALL_FUNCTION" -> Passed(frame, 0, <<v>>)
    [] inst[1] = "FOR_ITER" /\ v # IterDone -> Passed(frame, 0, <<iter, v>>)
    [] inst[1] = "FOR_ITER" /\ v = IterDone -> [frame EXCEPT !.pc = @ + inst[2]]

\* The same for what native code answers at once, changing the heap.
Answer(n, iter, v, newHeap) ==
  /\ frames' = Replace(Delivered(Popped(Top, n, <<>>), iter, v))
  /\ heap' = newHeap
  /\ UNCHANGED <<program, status, calls, globals, out>>

\* Range's generator.
Rises(r) == r.step > 0 /\ r.start < r.end
Falls(r) == ~Rises(r) /\ r.start > r.end
RangeAfter(r) ==
  LET next == r.start + r.step
  IN [r EXCEPT !.start = next,
               !.exhausted = IF Rises(r) THEN next >= r.end ELSE next <= r.end]

\* A generator's frame gets the value sent and is evaluated.
Resume(n, h, sent) ==
  /\ frames' = [Replace(Popped(Top, n, <<>>)) EXCEPT
                  ![heap[h].frame].stack = Append(@, sent)]
  /\ calls' = <<Activation(heap[h].frame, h)>> \o calls
  /\ UNCHANGED <<program, status, globals, heap, out>>

\* next() of v, or PyGenerator::Send, popping n operands.
Advance(n, v, sent) ==
  LET obj == heap[v[2]] IN
  CASE ~HasNext(v) -> Raise
    [] HasNext(v) /\ obj.kind = "listiter" ->
         LET r == ListNext(heap, v[2]) IN Answer(n, v, r.value, r.heap)
    [] IsGenerator(v) /\ obj.exhausted -> Answer(n, v, IterDone, heap)
    [] IsGenerator(v) /\ obj.kind = "range" /\ ~obj.exhausted ->
         IF Rises(obj) \/ Falls(obj)
         THEN Answer(n, v, Num(obj.start), [heap EXCEPT ![v[2]] = RangeAfter(obj)])
         ELSE Raise
    [] IsGenerator(v) /\ obj.kind = "generator" /\ ~obj.exhausted -> Resume(n, v[2], sent)

EvalForIter == At({"FOR_ITER"}) /\ Advance(1, Operand(1), None)

CallPrint(n, args) ==
  /\ out' = IF n = 0 THEN out ELSE Append(out, [i \in 1..n |-> Shown(heap, args[i])])
  /\ Pass(n + 1, <<None>>)
  /\ UNCHANGED <<program, status, calls, globals, heap>>

\* Of other objects, what their `len` makes of them.
CallLen(args) ==
  /\ Pass(2, <<IF IsList(args[1]) THEN Num(Len(heap[args[1][2]].elems))
               ELSE Term("len", args)>>)
  /\ Local

\* Without one, two or three arguments it begins and ends at 0.
CallRange(n, args) ==
  LET Arg(k) == args[k][2]
      step == IF n = 3 THEN Arg(3) ELSE 1
      range == [kind |-> "range", exhausted |-> FALSE,
                start |-> IF n \in {2, 3} THEN Arg(1) ELSE 0,
                end |-> IF n = 1 THEN Arg(1) ELSE IF n \in {2, 3} THEN Arg(2) ELSE 0,
                step |-> step]
  IN IF step = 0 THEN Raise ELSE Allocate(n + 1, range)

ListAppend(h, v) ==
  /\ heap' = [heap EXCEPT ![h].elems = Append(@, v)]
  /\ Pass(2, <<None>>)
  /\ UNCHANGED <<program, status, calls, globals, out>>

\* Builtins take one argument, or as many as there are.
CallBuiltin(x, n, args) ==
  CASE x = "print" -> CallPrint(n, args)
    [] x = "range" -> CallRange(n, args)
    [] x = "len" /\ n = 1 -> CallLen(args)
    [] x = "next" /\ n = 1 -> Advance(2, args[1], None)
    [] x = "iter" /\ n = 1 -> Iterate(2, args[1])
    [] OTHER -> Raise

\* Methods of the object at h.  `send` ignores what follows its value.
CallMethod(h, x, n, args) ==
  CASE x = "send" /\ n > 0 -> Advance(n + 1, Ref(h), args[1])
    [] x = "__next__" /\ n = 0 -> Advance(1, Ref(h), None)
    [] x = "append" /\ n = 1 -> ListAppend(h, args[1])
    [] OTHER -> Raise

CallNative ==
  /\ At({"CALL_FUNCTION"})
  /\ LET n == Inst[2]
         f == Operand(n + 1)
     IN CASE f[1] = "builtin" -> CallBuiltin(f[2], n, Operands(n))
          [] f[1] = "method" -> CallMethod(f[2], f[3], n, Operands(n))
          [] OTHER -> f[1] # "func" /\ Raise

\* Eval returns to the activation below, leaving `frame` behind and giving it v.
Return(frame, v, newHeap) ==
  /\ calls' = Tail(calls)
  /\ frames' = [Replace(frame) EXCEPT ![calls[2].frame] =
                  Delivered(@, Ref(calls[1].gen), v)]
  /\ heap' = newHeap
  /\ UNCHANGED <<program, status, globals, out>>

\* The module has to return None.  A generator that returns is exhausted, except
\* that a returned generator is taken for a yield, whose value Send then pops.
EvalReturnValue ==
  /\ At({"RETURN_VALUE"})
  /\ LET v == Operand(1)
         g == calls[1].gen
     IN CASE Len(calls) = 1 ->
               /\ status' = IF v = None THEN "done" ELSE "raised"
               /\ UNCHANGED <<program, frames, calls, globals, heap, out>>
          [] Len(calls) > 1 /\ g = 0 -> Return(Popped(Top, 1, <<>>), v, heap)
          [] Len(calls) > 1 /\ g # 0 /\ ~IsGenerator(v) ->
               Return(Popped(Top, 1, <<>>), IterDone, [heap EXCEPT ![g].exhausted = TRUE])
          [] Len(calls) > 1 /\ g # 0 /\ IsGenerator(v) ->
               IF Len(Top.stack) = 1 THEN Raise
               ELSE Return(Popped(Top, 2, <<>>), Operand(2), heap)

\* The yielded value is popped from the frame by Send, which Eval has moved on.
EvalYieldValue ==
  At({"YIELD_VALUE"}) /\ Return(Passed(Top, 1, <<>>), Operand(1), heap)

Ended == status # "running" /\ UNCHANGED vars

EvalOne ==
  \/ EvalLoadConst \/ EvalLoadFast \/ EvalStoreFast \/ EvalLoadName \/ EvalStoreName
  \/ EvalPopTop \/ EvalNop \/ EvalBinary \/ EvalUnary \/ EvalSubscr \/ EvalStoreSubscr
  \/ EvalMakeFunction \/ EvalJump \/ EvalPopJumpIfFalse
  \/ EvalBuildList \/ EvalBuildSlice \/ EvalBuildMap \/ EvalGetIter \/ EvalLoadAttr
  \/ CallUser \/ EvalForIter \/ CallNative \/ EvalReturnValue \/ EvalYieldValue

Next == EvalOne \/ Ended

\* The evaluator's loop goes on as long as the process does.
Spec == Init /\ [][Next]_vars /\ WF_vars(EvalOne)

-----------------------------------------------------------------------------
(* What was verified of a program, and that the evaluator keeps to it.      *)

GoodCode == [p \in DOMAIN Compilations |->
               VerifiedProgram(Compilations[p].codes, Flows[p])]

\* The emit functions of IR/: whatever path leads to an instruction, it finds its
\* operands on a stack of one depth, inside its code and its pools.
CodeVerified == status # "rejected" => GoodCode[program.id]

\* The two things the code relies on and does not look at: a generator is not
\* resumed from its own body, and its body does not return a generator.
OrdinaryGenerators ==
  status = "running" =>
    /\ \A j, k \in DOMAIN calls : calls[j].gen = calls[k].gen /\ calls[k].gen # 0 => j = k
    /\ ~(At({"RETURN_VALUE"}) /\ calls[1].gen # 0 /\ IsGenerator(Operand(1)))

\* PyFrame::Eval keeps to what was verified: at each instruction, and in each
\* generator that waits to be resumed, the stack has that depth.
DepthAsVerified ==
  status = "running" =>
    /\ <<Top.pc, Len(Top.stack)>> \in Flows[program.id][Top.code]
    /\ \A h \in DOMAIN heap :
         heap[h].kind = "generator" /\ ~heap[h].exhausted
           /\ (\A k \in DOMAIN calls : calls[k].gen # h) =>
         LET f == frames[heap[h].frame]
         IN <<f.pc, Len(f.stack) + 1>> \in Flows[program.id][f.code]
=============================================================================
