# Verification of the kaubo interpreter

kaubo (`src/engine`) is an interpreter for a Python-like language: an ANTLR
parser, a tree of IR nodes that emits byte code, a stack machine that evaluates
it, an object model with native containers, and an asynchronous part made of
promises, an event loop and an event bus. This directory holds TLA+ modules for
its core logic, TLC configurations that model-check them, and proofs that the
TLA+ proof system checks.

## The system

| Part | State it keeps | Operations | What makes it hard |
|---|---|---|---|
| Event loop (`Runtime/EventLoop`) | `state`, `microTaskQueue`, `macroTaskQueue`; a singleton | `Run`, `Stop`, `EnqueueTask`, `EnqueueMicroTask` | enqueueing into a stopped loop runs it *inside* the enqueue; exceptions unwind through `Run` and leave `state` as it is |
| Promises (`Object/Core/PyPromise`) | `state`, `value`, two callback lists per promise | the constructor, its resolve and reject, `then`, `catch`, `Promise.resolve`, `Promise.reject`, `readFile` | callbacks are stored, queued and run at different moments; resolve iterates a list while the loop may run; three native try blocks catch exceptions of whatever runs inside |
| Evaluator (`Runtime/VirtualMachine`, `Object/Runtime/PyFrame`) | `frame`, a chain of callers; per frame a program counter and an operand stack | call, return, throw, module entry | `frame` is a pointer kept by hand beside the C++ stack; exceptions do not restore it |
| Generators (`Object/Iterator/PyGenerator`) | a suspended frame, `isExhausted` | `Next`, `Send` | saves and restores `frame` without a guard; no re-entrancy check |
| `range`, `input` (`Function/BuiltinFunction`) | captured counters; subscriptions | native functions | empty ranges; `input` never unsubscribes |
| Event bus (`Tools/EventBus`) | `subscriptions`, `next_id` | `subscribe`, `unsubscribe`, `publish` | called from the stdin thread of the demo with no lock; publishes over a live vector |
| Lists (`Collections/List.h`, `Object/Container/PyList`, `Object/Iterator`) | `size`, `capacity`, `elements`; an iterator's position | about 30 operations, and 25 methods and operators of list objects | overlapping moves, growth, negative indices; loops over lists that change |
| Dictionaries (`Object/Container/PyDictionary`) | an unordered map | display, read, store, `clear`, iteration | reading inserts; keys are hashed by address and compared with `==`; iteration counts over a map that may be reordered |
| Slices (`Object/PySlice`) | start, stop, step | `BindLength` | overwrites the slice object with numbers for one list |
| Classes (`Object/Core/Klass`, `CoreHelper`) | attributes, method resolution order; per object its own attributes and methods | class statement, `getattr`, `setattr`, `repr`, operators, `type(o)` | attributes are copied when read and never refreshed; merging while erasing; two type objects per class |
| Code generation (`IR`, `Generation`) | instruction list | `Emit` per node | jump operands are counted by hand |
| Code files (`Object/Runtime/PyCode`, `Runtime/BinaryFileParser.h`) | bytes | serialise, parse | the two must be inverse |
| Integers (`Collections/Integer`) | digits, most significant first, and a sign, in base 10 and 2^16 | arithmetic, shifts, bits, comparison, conversions | carries, borrows, zeros in front, signs, numbers of different length |
| Matrices (`Collections/Matrix`, `Object/Matrix`) | rows, columns, a list of doubles | element-wise and matrix operations, positions and slices, about 15 functions | unsigned sizes and positions; checks that are left to the list below |
| Strings | bytes | pure functions | interning by hash |
| Host (`Binding`, `Demo`) | configuration | `compile`, `interpret`, `eventbus_*` | `interpret` may be called again after an exception |

The parts interact through singletons and callbacks. The host calls
`VirtualMachine::Run`, which evaluates the module code and then runs the event
loop. User code makes promises; promises put callbacks into the event loop's
microtask queue; the loop invokes them through the evaluator, which runs user
code, and so on, all on one C++ stack. The event bus connects `input()` to the
host: in the demo a second thread publishes the lines it reads, and a publication
resolves promises and runs the event loop on that thread.

## Modules

### `EventLoop` - `Runtime/EventLoop.cpp`, `VirtualMachine::Run`

There is one thread; what interleaves is the nesting of activations. `stack` is
the C++ call stack, top first: `Code(c)` is the code of a task or of the module,
`Run("top")` and `Run("drain")` an activation of `EventLoop::Run` before and past
its test of `state`. `exc` says that an exception is propagating; `Unwind` takes
one activation off the stack. `WakeIfStopped` is the end of both enqueue
functions: if `state` is `Stopped`, an activation of `Run` is pushed *above* the
code that enqueued. `RunMicroTask`, `RunMacroTask`, `RunIdle` and `RunStopped`
are the steps of `Run`; `HostRun` and `ModuleReturns` are the host's call of
`VirtualMachine::Run`, which may be repeated after a crash, because the loop is a
singleton. What tasks do is opaque: enqueue, stop, return, throw, catch. The
variables `started`, `stopCalled` and `escaped` are history for the properties.

### `Promise` - `Object/Core/PyPromise.cpp`, `ReadFile`, `ForEach`

Extends `EventLoop`. A promise derived by `then` or `catch` has exactly one
callback, so the promise's name stands for it: in its source's callback list, in
the microtask queue, and on the stack. Three more activations appear:
`Settling(p, i)`, the `ForEach` inside resolve or reject, about to visit callback
`i`; `Callback(q)`, the callback after the handler has returned, inside its try
block; `Creating(q)`, `CreatePyPromise` inside its try block after the native
executor of `then` or `catch` has enqueued. User code is opaque: it may do any
operation on promises it can see (`Visible`), return any value, or throw.
A callback is a fresh native function each time and is wrapped again by resolve;
the wrapper only passes the value on and is not modelled apart.

### `PromiseContract`

What a program may rely on: no queues, lists, loop or stack. Promises settle at
most once; a handler starts at most once, after its source settled as awaited; a
derived promise is settled only by its own handler, with two exceptions the code
makes: `then` on a rejected promise forwards the rejection at once (`Forward`),
and an exception of another task that arrives while the callback is being
enqueued rejects the new promise (`Abandon`). `Promise` implements it with
`ran` as the set of started handlers.

### `CallFrames` - `Runtime/VirtualMachine.cpp`, `PyFrame`, `PyGenerator`

The evaluator is a recursive C++ function, and beside the C++ stack the virtual
machine moves a pointer by hand: `vmFrame`. `cstack` holds the activations,
`Eval(f)`, `Resume(g, last)` (which remembers the frame it found) and
`Native(try)`; `caller` and `kind` are per frame. Actions are the module's entry,
calls, generator creation, resume, yield and return, native code with and without
a try block, throw, unwind and catch. What user code computes is opaque.

### `List`, `ListContract` - `Collections/List.h`

The growing array under every container. `elements` is the allocated array,
garbage behind `size` included; there is one action per operation, and arrays
are moved and copied as the standard algorithms do it, position by position.
The constant `Trivial` tells apart the element types that are moved by copying
bytes (characters, digits) and those with a move of their own (object pointers,
which are null when moved from): for an overlapping range the two give different
arrays. `astray` records an access outside the array. `ListContract` is the
finite sequence that users see, with `seq <- Elements`. Indices are small
numbers, so `start + length` never wraps as a 64-bit index could.

### `Values`, `Codegen`, `CodeFile`, `ByteCode`, `Compiler`, `Interpreter` - `IR`, `Object/Runtime`, `Runtime/BinaryFileParser.h`

From a tree of nodes to what is printed. `Codegen` has the nodes as
`Generator.cpp` builds them and both passes over them: `Visit...` registers names
and constants per code object, `Emit...` appends instructions and patches jumps
with the lengths the code takes, at the moments it takes them; a lookup that fails
is `error`, where the C++ throws. `CodeFile` writes a code object to a sequence of
tokens, each with its width, and reads it back by the reader's own list of opcodes
and literals; nested codes and the instructions (a list, written as bytes, written
as an object) as in the code. `Interpreter` is `PyFrame::Eval`, with one action per
group of opcodes. `calls` is the C++ stack of evaluations: a call pops its operands
and pushes an activation, and what it returns is `Delivered` to the instruction
below, whose frame still points at it; a generator is a frame that is between two
activations. `Values` has what objects are to control: integers, booleans, lists and
iterators are computed with; the result of any other operation is the term of the
method and its operands, so that a swapped operand or a wrong method shows.

Three modules stand on the other side. `Meaning` is a reference machine without
byte code: an activation has trees that are still to be done, names follow
Python's rule, `range` is the generator in the comment above `Function::Range`.
Where the language is deliberately its own, it follows the language: `and`, `or`
and chained comparisons are operators without jumps, and displays are
evaluated from their last element. `ByteCode` states the discipline of the operand
stack: `Verified` says of a code and its flow (the places control can be at, with
the depth of the stack there) that every instruction finds its operands, is gone on
from inside the flow, and has an index into its pool. `Verifier` finds the flow of
a code, over all paths. `Suite` holds the programs. `MCInterpreter` runs a program
in `Meaning` first, then in the evaluator.

`Interpreter` knows neither the compiler nor the verifier: the codes of the programs
and their flows are its constants `Compilations` and `Flows`, and `Compiler` is where
a run takes them from. So what is proved of the evaluator is proved of any codes, and
nothing recursive is in its way.

### `Input` - `Tools/EventBus`, `Binding/C_API`, `Input` of `BuiltinFunction`, `Demo/main.cpp`

Two threads, `main` and `reader`, each with its stack of activations, and no lock
between them. What they share is what `subscribe`, `publish`, the promise of an
`input()` and the event loop keep, cut down to what a line can touch. Every read
and every write of shared state is a step: `resolve` writes the promise's state,
then its value, then goes through the callbacks; `then` reads the state and stores
the callback in another step; `Run` tests, drains, finds nothing and writes its
state in four. (Races inside one of these, which are undefined behaviour, have no
other outcomes here than an order; a vector that moves or shrinks under `publish`
is `strayed`, with both its ends: the exception of an empty function, or the death
of the process.) `capacity` names the vector's buffer, because growth is what moves
it, and it grows by half or doubles, as standard libraries do. The identifier of
a subscription is computed modulo `IdLimit`. `main` interprets the module, returns,
sets the stop flag and joins; the reader tests the flag only before it blocks, so
one more line may be served after that, and the handlers then run on its thread.
The callback of `input()` does not unsubscribe, though the comment above it
says so (`BuiltinFunction.cpp:206`): every pending prompt gets the next line.

### `Slice`, `PyList` - `Object/PySlice`, `Object/Container/PyList`, `Object/Iterator`

`Slice` has the binding of a slice to a length, and next to it what Python selects.
`PyList` extends `List` with non-trivial elements by the methods and operators of
list objects, one slice object and one reversed iterator, which outlive calls.
A method that compares elements follows their pointers: with a null one among
them the program ends there, and the action is not enabled. `l.extend(l)`, whose
loop never ends, is not an action.

### `Classes` - `Object/Core/Klass`, `Object/Core/CoreHelper`

The merge of the bases' orders as the code does it, on a list of lists that loses
elements while an index goes through it; a failing merge fails the class statement.
One attribute `x` stands for all, and `last` remembers what an object showed of it.
A class has two type objects: the class statement leaves the later one, which
shares its attributes; `type(o)` is the earlier one, with a dictionary of its own.

### `Digits`, `Decimal`, `Integer` - `Collections/Integer`, `Object/Number`

Digit vectors and a sign. `Digits` is what both bases share, `Decimal` the
numbers of the text, `Integer` those of the language. `Radix`, `DigitBits` and the
width of a word are constants. A program computes with one integer; `val` is what
it should be and `off` why it is not. An operation is a set of results, empty when it
throws or does not end.

### `Dictionary` - `Object/Container/PyDictionary`, `Object/Iterator`

An unordered map from objects to objects, in some order that an insertion may
change, and the iterator that counts over it. `std::unordered_map` hashes the pointer
and compares with `operator==` of objects (`PyObject.cpp:69`): the same object is equal,
an object of another class is different, and for two objects of a class their `eq`
decides, which a program may define. `bucket` says which keys share a bucket, which
their addresses and the size of the map decide, so that growing changes it
(`Placement`); `Comparison` says what `==` may answer for a key that is sought and another
one that is there: equal, different, or that it raises. A look-up compares with
the entries of the bucket until one is not different (`ComparedWith`), so two equal
objects are one entry or two. `Displayed` are the pairs written in displays, which are
stored from the first to the last. `lastStored`, `later`, `missed`, `met` and
`disturbed` are history.

### `Matrix`, `PyMatrix` - `Collections/Matrix`, `Object/Matrix`

`Matrix` is the container over a list of numbers, with unsigned sizes
(`IndexLimit` is 2^64) and multiplication tile by tile; an operation is the set of
its results, empty when it throws, and what the list underneath would refuse is
refused (`Held`). `PyMatrix` is the object: operators, positions, slices and
functions. `array` is the array the calls so far amount to, by definitions that
know nothing of offsets; `aside` says why the matrix may be another one.
Elements are small integers: sums and products of doubles round, and a quotient is
only taken where it is exact.

## Runs

| Run | Instance | Shows |
|---|---|---|
| `EventLoop` | 2 microtasks, 2 macrotasks, 2 host runs, fairness | type invariant; `LoopStateHonest`, `NothingStranded`, `RunsOnce`; `QueuedTasksRun` |
| `Promise` | 4 promises, 1 value, 2 host runs | the inductive invariant `DeliveryInv`, `HandlerMatchesOutcome`, `NoTaskTwice`, `NoHandlerLost`, `HandlerSettles`, `PendingExplained`, `HandlersInOrder`, `SettledForGood` |
| `PromiseLive` | 3 promises, 1 macrotask, 1 value, fairness | `ImplementsContract`, `HandlerEventuallySettles` |
| `PromiseReject` | as `PromiseLive` | counterexample: `Promise.reject` fulfills, against `PyPromise.cpp:216` |
| `CallFrames` | 4 frames, 5 activations | `FrameIsEvaluated`, `Linked`, `ReturnFindsFrame` |
| `CallFramesNull` | as `CallFrames` | counterexample: a return from a null frame, against `VirtualMachine.cpp:112` |
| `List` | 2 elements, up to 5 positions, arguments of up to 2, trivial moves | type invariant; `InBounds`, `ObserversAgree`, `ImplementsContract` |
| `Input` | 3 prompts, 1 host callback, 2 lines, `IdLimit` 4 | `IdsUnique`, `StraysOnlyInCrowd`, `AnsweredByNextLine`, `AnswersHandled` |
| `Library` | six topics, each on its own: see below | `ArrayLossLeavesHole`, `SliceAsPython`, `SliceKeepsPositions`, `MroIsMerge`, `AttributesStick`, `IntegersExact`, `DictionaryKept`, `MatrixIsArray` |
| `ListReplace` | as `List`, 4 positions, moves that leave null | counterexample: elements behind a replaced range are lost, against `List.h:141` |
| `Interpreter` | the programs of `Suite`, with fairness | `OutputAgrees`, `PassesAgree`, `CodeVerified`, `RoundTrip`, `DepthAsVerified`, `Finishes` |
| `RangeEmpty` | two programs | counterexample: a loop over an empty range raises, against `BuiltinFunction.cpp:333` |

`Input`. The answers to the hazards are conditional, and the conditions are the
result. An answer is delivered to each `input()` by the first line after it, and
its handler is run, unless a line arrives while `main` still interprets (`overlap`);
`publish` stays inside its vector as long as, besides, no line finds two
subscribers that are not settled (`crowded`). Dropping either exception makes TLC
find the behaviour: a handler that asks again grows the vector under the
publication that called it; a callback stored after `resolve` has gone through the
callbacks is never run; a task queued between the loop's last test and its
`Stopped` is left behind. `IdsUnique` ends with the counter's first round.

`Library`. The topic is chosen in the first state; the parts share no state, and one
run for all of them is a matter of economy. *Array*: the operations of `List` on
object pointers: one that does not do what it does to a sequence leaves a null
pointer that every reader trips over. *List*: slices against Python's, before
and after use. *Classes*: four classes, every list of bases; the order is that of
the merge of the bases' orders wherever there is one. This is not all of C3: Python
also merges the list of the bases, so that `D(C, B, A)` with `C(A)` is D C A B here
and D C B A there; a merge that gets stuck is no error here, and with three
bases a class can be named twice in an order. With two classes, attributes: what an
object has once shown it keeps showing, whatever becomes of its classes.
*Integers*, *matrices*: equal to the mathematical object outside of the
cases named in `off` and `aside` and defined there by the operands. These are
where the code departs from it, and a computation ends with such a case:
division with a negative operand; a quotient whose digits start or end with zeros
(a remainder that ends with them); bit operations with a sign, or of numbers of
different length, which do not end; bits that cancel and leave zeros in front;
shifting a negative number to the right, or any number by a whole digit or more; a power
whose exponent has more than one digit; `~`; a negative number in hexadecimal; the
text of a negative number below the base; matrix slices with a step, or
that select nothing, or a position in front of the first row; written positions that
count from the end; rows of a second factor that are left over.
*Dictionary*: a loop sees every key once only if no entry comes or goes, which
reading a missing key makes one do (`disturbed`). Of keys that `==` takes for others,
`DictionaryKept` only says that a value stored is there under an equal key, or
overwritten under one; that it is found again depends on the buckets. A key that nothing
else is equal to (`Alone`) is there with its last value, even if it meets others.

Bounds. A task is enqueued at most once (`Unused`), so the sets of tasks bound
the queues; `MaxRuns` bounds the host's calls, and two are enough for a run that
starts from whatever a crash left. The interesting cases are nesting (one task
enqueues in a stopped loop, whose run invokes another one that enqueues), a
throw in the inner one, and Stop in either: two tasks of each kind reach all of them.
Three promises give a source with two callbacks, a chain of length three, and a
callback that derives from the promise being settled; order needs a fourth.
Four frames are a module, two functions
and a generator; five activations let the generator be resumed two calls away from
where it was made, inside native code that catches. A list of five grows twice from
`INIT_CAPACITY = 2` (2, 3, then as needed) and holds a splice with elements on both
sides; three positions are enough for a move onto itself. `INIT_CAPACITY` is 10 in
the code: what matters is that it is at least 2, because half of 1 is nothing.
The programs of `Suite` are the bound of `Interpreter`: loops of both kinds with
every form of choice in them and in a loop in them, three times over (module,
function, generator), each loop long enough to take every arm; every operator; every
order of two uses of a name, with and without a parameter and a global of that
name; and programs for calls, recursion, nested definitions, iterators, sending and
exceptions. Programs have no input, so each is one behaviour; what varies is the
program, over all combinations.
Three prompts are one being answered, one asked by its handler, and one asked
beside it; two lines, one that is delivered and one that finds what the first left;
an `IdLimit` of 4 lets the counter go round. In `Library`, lists have up to three
elements, with every position from two before the front to two behind the end, and
slices whose ends lie inside, outside and on either side; digits are of base 3 in
texts and of 2 bits in numbers, with four digits, so that every carry, borrow and
length meets every other (the digits' base appears in no property); a word is three
digits; matrices have up to three rows or columns with a tile of two, so that tiles
are cut, and calls come in pairs; `IndexLimit` is 64, far above every size. Three
keys of one class are two that are equal, for which `==` matters, and one that is
different from them or raises, which must keep its value next to them; they are all in one
bucket or all apart, and with two values it shows which of two stores was the last.
Symmetry is used for safety runs only. `CHECK_DEADLOCK FALSE`: the program ends
(`Interpreter` has a step for that, and an evaluator without a next step is a deadlock).

Fairness. The program is one thread, so `WF(Next)` says that it keeps executing.
`LoopFairSpec` adds strong fairness of returning: with opaque tasks, code that
throws and catches for ever would otherwise never return. In `Promise` a fixed
set of promises bounds what code can do, and weak fairness is enough. In `MCInterpreter` it is the same weak fairness, written as what it says (a running
program takes steps for ever), because TLC cannot evaluate `ENABLED` of these
actions. The liveness properties except crashed programs and stopped loops, which the code
really does not serve.

Findings. `PromiseReject`, `CallFramesNull`, `ListReplace` and `RangeEmpty` are
disagreements between the source and its own comments, names or tests;
`PROJECT.json` quotes the lines. Smaller ones, visible in the definitions, have no run:

* a stopped loop is woken by an enqueue (`WakeIfStopped`; `EventLoop.h:11` says it
  is not), and `Fill` fills a list up to its capacity (`List.h:195` says its size);
* a local that is not bound yet reads as `None`, because `fastLocals` is padded, and
  at module level as an exception: `Scopes` programs that read one are only expected
  to agree if the reference machine does not raise;
* a name that a function both defines with `def` and assigns is stored in `locals`
  and read from `fastLocals`, so that a use prints the older value (`Shadowing`,
  whose programs are only required to have sound code);
* a second definition with the same name and pools makes emit throw
  `IndexOfConst(): obj not found`, because by then the instructions of the two
  differ (`SameCode`);
* there is no enclosing scope: a name of a surrounding function, and a global
  bound further down, are refused by the compiler (`Illegal`);
* `done` of a range is true as soon as its last value has been delivered;
* a generator that returns a generator is taken for one that yields
  (`EvalReturnValue`);
* `pop(i)` looks at negative positions only (`ListPop`); `dict[k]` and `get` insert
  (`DictGetItem`);
* two objects that are equal are one key or two, depending on their addresses and the
  size of the dictionary, and a look-up raises if the `__eq__` of a key that happens to
  be in the bucket does (`ComparedWith`);
* a slice that selects nothing raises, and a used slice has a step, so that it is
  refused where elements are assigned (`SetSlice`).

## Proofs

The proofs are for every value of the constants. What they assume is named in the
modules and evaluated by the runs: sets of tasks, prompts and callbacks are disjoint,
`None`, `Error` and `Null` are not values, numbers and bounds are naturals
(`TasksAreDistinct`, `MaxRunsAssumption`, `PromiseAssumption`, `FrameAssumption`,
`InputAssumption`, `ListAssumption`, `NoneAssumption`, `PyListAssumption`,
`ClassesAssumption`, `DictionaryAssumption`, `MatrixAssumption`).

* `EventLoopProofs`: `LoopTypeCorrect`, and `WakeDiscipline`, the conjunction
  `WakeInv` of `LoopStateHonest`, `NothingStranded` and `RunsOnce`, and each of the three. Only together
  are they inductive: an enqueue keeps at most one activation of `Run` because a
  `Stopped` state means there is none, and this is preserved because `Run` goes
  back to `Stopped` only when nothing is left. The lemmas are stated for the
  operators that `Promise` uses too, with the set of frames as a parameter.
* `PromiseProofs`: `TypeCorrect`, and the same wake-up discipline for the loop as
  promises drive it.
* `PromiseProofs`: `PromiseInv` is inductive. Its parts: callback lists hold
  callbacks derived from their promise, once (`ListsOK`); each activation tells
  the truth about its promise, and the callbacks a `Settling` has not visited have
  not left their list (`StackOK`); only applicable callbacks leave it
  (`ReleasedOK`); one promise is settled by one `ForEach` (`SettlingOK`); nothing
  is queued or started twice (`OnceOK`). `SettlingOK` and `StackOK` are what makes
  `OnceOK` inductive: a nested run may settle other promises while a `ForEach`
  waits on the stack, but not this one. `NoTaskTwice` and
  `HandlerMatchesOutcome` follow.
* `PromiseProofs`, the contract: `Promise` implements `PromiseContract`, step
  by step from `PromiseInv`, and `SettledForGood` follows from what a step of the
  contract can do to one promise.
* `PromiseProofs`, delivery: `DeliveryInv` follows a callback from the list
  of its source (`Registered`: it is still in the list, or has been released) to the
  one `ForEach` that owes it when the source settles, to the queue, to its start. Its
  other parts: what a `ForEach` is past has been released, and what is released is in
  order in front of what is not. Two lemmas say what any step does to the stack
  (`StackStep`) and to the queue (`QueueStep`), and the parts follow from these two
  without going through the actions again. `NoHandlerIsLost`, `EndedHandlersSettle`,
  `HandlersKeepOrder` and, with the wake-up discipline, `PendingIsExplained` follow.
  `ForEachCallsRun` is what makes exceptions bearable: a `ForEach` calls nothing but
  `Run`, so an exception that ends one early has torn down a run of the loop before.
* `CallFramesProofs`: `TypeCorrect`, and `MachineFrame`: `FrameIsEvaluated`, from
  the invariant that the frame pointer is what is evaluated *and* every activation
  on the stack will go back to what is evaluated below it (`Linked`, which is
  `CallersAreLinked`).
* `CallFramesProofs`, `ReturnsFindFrames`: after an exception has been caught the frame
  pointer is not what is evaluated, but it is still far enough from the end of the
  chain of callers. `ChainInv` says how far: there are a rank of every frame, which
  falls along callers, and a need of every position of the stack, which is at most the
  rank of the frame that is current when the evaluation there goes on. Both are
  existential, because the length of a chain would be recursive; TLC evaluated the
  invariant with bounded ranks first. It holds until an exception has left a generator,
  which is where the counterexample of `CallFramesNull` starts.
* `ListProofs`: `ListInv` (`TypeOK` and `InBounds`) is inductive for both kinds of
  element types, with `ListAssumption` (`INIT_CAPACITY >= 2`: the step that fails
  without it is `Full => size + 1 <= GrownCapacity`). `ListIsSequence`: for trivial
  element types `List` implements `ListContract`. Each operation has a lemma that
  it does to `Elements` what the contract's operation of that name does; the
  splicing ones rest on `SpliceStep`, which says of the two arrays, position by
  position, when one sequence is the other with a stretch replaced.
* `ListProofs`, `LossIsVisible`: for the other element types the contract fails, and the
  theorem says how. A move is right unless it goes right into its own range, and then it
  leaves a null pointer at the first position it writes (`MoveLeavesHole`); so each
  lemma about an operation asks for a trivial type *or* for no null pointer afterwards.
  `LookingSeesTheSequence`: what `FindFirst`, slicing and adding read is the
  sequence; the search is the least position that has the element, which exists
  because positions are well-founded. `ArrayLossLeavesHole` of the run `Library` is the formula of
  `LossIsVisible` for the topic that has such lists.
* `InputProofs`: `IdsAreUnique`, from `InputAssumption` alone. The invariant ties
  the counter to the number of subscriptions made and bounds all ids by it, while
  it has not gone round; erasing keeps some of the subscriptions and none twice
  (`WithoutIsPart`).
* `InputProofs`, the other three theorems, rest on `TurnsInv`: one of the two threads
  interprets while the other reads a line or waits, unless `overlap` or a crash is
  recorded. For `NoAnswerIsLeft` it says at each position of each thread who owns
  an answer that has arrived. `PublishStaysInside` adds `StrayInv`: subscribers that
  have not settled come last in the vector, so one that erases itself was the last
  one to be called, and the publication ends, unless there are two. `NextLineAnswers`
  adds `LineInv`: the range of a publication, from where it is to the size it has read,
  is what separates the prompts asked before a line from those asked after it.
  All three invariants were checked with TLC on the bounds of `Input` before they
  were proved.
* `InterpreterProofs`: `DepthKept`, for `DepthAsVerified`, and `OperandsThere`: the
  evaluator, whatever the programs are, has at each instruction a stack of the depth
  the verification found, so that it never pops from an empty stack, nor indexes past
  its code, constants, names or fast locals (`PyFrame::Eval` tests none of this). The
  property speaks of the frame that is evaluated, and a call puts others under it;
  the invariant (`IInv`, by `StateOK`) therefore says of *every* frame at what depth it
  will go on: one that waits for a call to return has the depth less the operands of
  its `CALL_FUNCTION` or `FOR_ITER` (`Awaits`), a generator that waits to be resumed
  has it less what it will be sent. For this to survive a step, no two activations and
  no two generators may share a frame (`CallsOK`, `HeapOK`), and whatever is on a
  stack, in a name or in a list refers to an object there is, of the kind it says
  (`Good`). A step changes one frame, at most adds one, and adds to the heap, so most of the
  work is in lemmas about those three, one for each form, and the actions then
  follow from what the verification says of one instruction.
  Two hypotheses. `CodeVerified` is what the run `Interpreter` checks of the
  compiler on `Suite`; that it holds for all programs would need induction over trees.
  `OrdinaryGenerators` names what the code relies on and does not look at: a
  generator is not resumed from its own body, and does not return a generator. They
  are the two generator hazards without a property in `PROJECT.json`; without
  either the theorem is false, because a frame is then evaluated twice at once, or a
  generator that has returned is taken for one that yields and resumed past its end.
* `LibraryProofs`, slices: `SliceIsPythons`, about every slice and every length: the
  ends of a slice that selects something are where Python has them. `SlicesAsPython` and
  `SlicesKeepPositions` carry it to programs: a slice that has been used holds
  numbers that fit the list of its last use (`Fits`), binding establishes that for any
  list (`BoundFits`), and binding again to a longer one changes nothing
  (`FitsLonger`).
* `LibraryProofs`, `OrdersAreMerges`: for class hierarchies of any size and shape, the
  order of a class is the merge of its bases' orders wherever there is one
  (`MroIsMerge`). The merge of the code erases from the lists it counts over; the merge it
  is compared with looks at whole lists and an order that grows. Both take the same class
  in every round (`RoundTakes`), because as long as a list has a class but `object`, no
  list is empty and none is erased; when only `object` is left, it is taken as often as
  the code finds it, which adds no class (`EndingShaped`). Each is a function of the number
  of rounds, so `Induct` compares them round by round.
* `LibraryProofs`, `ObjectsStick`: in the same hierarchies, an object
  keeps showing what it has shown (`AttributesStick`). The invariant `InstanceSo`:
  what an object last showed is what it holds by itself (`Held`), so that nothing
  done to a class later reaches it. `FirstPlacesSay` is the lemma behind it: an
  order in which classes are named twice, as the code's may be, finds the same
  attribute as the order of their first places.
* `LibraryProofs`, `DictionaryIsKept`: for any keys, whatever `==` says of them and wherever
  they meet. `DictInv`: each key is there once, `entries` holds what the history says
  (`Kept`), and a loop that nothing disturbed has met the entries in front of its
  position and no others (`Met`). A store either changes the value of one entry, whose
  key is taken for its own (`AssignedKeeps`), so that what was there was stored under a key
  `==` may confuse with it; or it finds nothing, and then its key is not there
  (`NotFoundIsNew`) and every other pair stays, in whatever order (`GrownKeeps`), which
  also holds of a read that inserts. The first disturbs no loop, the second every one.
* `MatrixProofs`, `MatricesAreArrays`: for matrices of any size, any numbers, exponents,
  positions and slices, and any `TileSize`, a matrix is the array that its calls amount
  to (`MatrixIsArray`). `MatrixInv`: unless something is set aside, `array` holds
  exactly the array that the list contains row by row. `Agrees` is what is shown of each
  call: either it throws and there is no such array, or its one result is well
  formed and the one array is kept in it row by row. Most calls then are about one element, whose
  position is split into row and column (`RowsFit`, `RowAndColumn`). Products need that
  the tiles cover each position once (`VisitsOnce`: the tile of `i` starts at
  `i - i % TileSize` and at no other place). Powers need that products associate
  (`TimesAssociates`: two sums are exchanged), so that exponents of one array add up, and the
  invariant of the loop: what the result is a power of, and what is left of the exponent
  times what the square is a power of, come to the exponent. The model has as many
  rounds as the exponent says (`Rounds`), no fewer than it takes to use it up. The sums
  are recursive functions over numbers; `Recursion` and `Induct` of `LibraryProofs`, which
  rest on the least number at which a statement fails, do without the library's
  induction theorems.
  `MatrixAssumption` says that the matrices programs start from are well formed and small, and
  that a position is less than 2^64 - 1 (a larger integer throws where it is converted).
  One hypothesis is about behaviours, `[]Small(matrix)`: no offset in the matrix, nor in the two rows behind it, wraps. Every
  matrix that fits into memory is small; what this leaves out is `reshape` to
  sizes whose product is right modulo 2^64 only.

Model-checked only:

* liveness (`QueuedTasksRun`, `HandlerEventuallySettles`, `Finishes`), which is out of
  the prover's reach;
* `OutputAgrees`, `PassesAgree`, `CodeVerified`, `RoundTrip`: the
  compiler passes, the verifier and the files are recursive over trees, and what
  they compute for every program needs induction over data;
* `IntegersExact`: recursive digit by digit, and on `Bitwise`.

## Plan

1. `EventLoop`, `Promise`, `PromiseContract`, `CallFrames`, `List`: done, with their
   proofs.
2. Code generation, evaluation, generators, `range` and code files: done for programs
   without classes. To come: `ClassDef` and `LOAD_BUILD_CLASS` in the compiler.
3. The event bus, `input()` and the demo's threads: done.
4. The object model (list objects, slices, dictionaries, classes), integers and
   matrices: done, as far as the next section says.

Every safety invariant and action property of a module that is not recursive has a
theorem. What is left to prove: `Digits`, from which `IntegersExact` would follow, if
the recursion over digits and the bitwise operators were written as functions of numbers, as the sums
of `Matrix` are. `OutputAgrees`, `PassesAgree`, `CodeVerified` and `RoundTrip` stay
with TLC: they are about programs as trees.

## Not modelled

The ANTLR grammar and the generated parser; the lexer's indentation stack; strings,
formatting and terminals (data without control); configuration. Within modelled
parts: `List::Shuffle` (random); the values that user code computes, which are opaque in
the asynchronous modules; floats and their rounding; in `Interpreter`, big integers
(a digit, a number); opcodes the compiler never emits (`LOAD_GLOBAL`,
`STORE_GLOBAL`, `POP_JUMP_IF_TRUE`, and whatever would delete an entry of a
dictionary); operators that throw for their operands, which are terms in `Values`;
data races inside the steps of `Input`, and those of two evaluators at once; printing and
serialising lists, dictionaries and matrices; lists as positions; `items()`; the
attributes of built-in types; matrices without elements, random and trigonometric
functions, and members of `Matrix` that the language cannot reach.
