------------------------------ MODULE MCLibrary ------------------------------
(***************************************************************************)
(* The parts of the object library that share no state, in one run: `topic` *)
(* is chosen at the start, and only that part moves.                       *)
(***************************************************************************)
EXTENDS PyList, Classes, Integer, Dictionary, PyMatrix, TLC

VARIABLE
  topic     \* "array", "list", "classes", "integers", "dictionary" or "matrices"

libraryVars == <<pyListVars, classVars, integerVars, dictVars, matrixVars, topic>>

\* Sequences of up to two elements.
ShortLists == UNION {[1..n -> Value] : n \in 0..2}

\* Positions inside a list of MaxSize elements and outside it, on both sides.
Indices == {-MaxSize - 1, -MaxSize, -1, 0, 1, MaxSize, MaxSize + 1}

SliceObjects ==
  [start : {None} \cup {-4, -1, 1, 3}, stop : {None} \cup {-4, -2, 1, 4},
   step : {None} \cup {-1, 2}]

Operands == {0, 1, 2, 3, 4, 5, 7, 16, 21}

\* No two elements are the same, so that one in the wrong place is noticed.
Numbered(rows, cols) == [rows |-> rows, cols |-> cols, data |-> [k \in 1..rows * cols |-> k]]
SmallMatrices == {Numbered(r, c) : r \in 1..2, c \in 1..3} \cup {Numbered(3, 2)}

\* Positions of a matrix, on both sides of its ends.
Places == {-3, -1, 0, 1, 2, 3}

Exponents == {-2, 0, 1, 2, 3}

Spans ==
  [start : {None, 1}, stop : {None, -1}, step : {None}]
  \cup {[start |-> None, stop |-> None, step |-> -1], [start |-> 2, stop |-> 0, step |-> -1],
        [start |-> None, stop |-> None, step |-> 2]}

\* Three objects of a class that says two of them are equal, and of the third
\* that it is different or raises.
KeyComparison ==
  [pair \in Key \X Key |->
    IF pair[1] = pair[2] THEN {"equal"}
    ELSE IF "third" \in {pair[1], pair[2]} THEN {"different", "raised"}
    ELSE {"equal"}]

\* All keys apart, or all together.
Placements == {[k \in Key |-> k], [k \in Key |-> "third"]}

KeyPairs == {<<"twin", 1>>, <<"other", 2>>, <<"third", 1>>, <<"third", 2>>}

Symmetry == Permutations(Value)

Topics == {"array", "list", "classes", "integers", "dictionary", "matrices"}

LibraryInit ==
  /\ topic \in Topics
  /\ PyListInit /\ ClassInit /\ IntegerInit /\ DictInit /\ MatrixInit
  /\ topic \in {"array", "list"} \/ (size = 0 /\ capacity = 0)
  /\ topic = "integers" \/ integer = Zero
  /\ topic = "dictionary" \/ bucket = [k \in Key |-> k]
  /\ topic = "matrices" \/ matrix = Numbered(1, 1)

ArraySteps ==
  /\ topic = "array" /\ Next
  /\ UNCHANGED <<sliceVars, back, classVars, integerVars, dictVars, matrixVars, topic>>
ListSteps ==
  /\ topic = "list" /\ PyListNext
  /\ UNCHANGED <<classVars, integerVars, dictVars, matrixVars, topic>>
ClassSteps ==
  /\ topic = "classes" /\ ClassNext
  /\ UNCHANGED <<pyListVars, integerVars, dictVars, matrixVars, topic>>
IntegerSteps ==
  /\ topic = "integers" /\ IntegerNext
  /\ UNCHANGED <<pyListVars, classVars, dictVars, matrixVars, topic>>
DictionarySteps ==
  /\ topic = "dictionary" /\ DictNext
  /\ UNCHANGED <<pyListVars, classVars, integerVars, matrixVars, topic>>
MatrixSteps ==
  /\ topic = "matrices" /\ MatrixNext
  /\ UNCHANGED <<pyListVars, classVars, integerVars, dictVars, topic>>

LibraryNext ==
  ArraySteps \/ ListSteps \/ ClassSteps \/ IntegerSteps \/ DictionarySteps \/ MatrixSteps

LibrarySpec == LibraryInit /\ [][LibraryNext]_libraryVars

\* Of the operations on an array of object pointers one at a time, as List.h
\* has them: one that does not do what it does to a sequence leaves a null
\* pointer among the elements (List.h:455, List.h:302).
ArrayLossLeavesHole == [][topic = "array" => LossLeavesHole]_vars
=============================================================================
