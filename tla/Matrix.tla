------------------------------- MODULE Matrix -------------------------------
(***************************************************************************)
(* Collections::Matrix, which keeps its rows one after another in one list. *)
(*                                                                         *)
(* An operation that may throw is the set of its results: none or one.     *)
(* Elements are numbers that are added and multiplied exactly.             *)
(***************************************************************************)
EXTENDS Integers, Sequences, FiniteSets

CONSTANTS
  TileSize,      \* 64
  IndexLimit     \* 2 ^ 64: what an Index counts modulo

Larger(a, b) == IF a > b THEN a ELSE b

Offset(m, row, col) == (row * m.cols + col) % IndexLimit
Held(m, row, col) == Offset(m, row, col) < Len(m.data)
At(m, row, col) == m.data[Offset(m, row, col) + 1]

\* A new matrix, element by element.
Filled(rows, cols, element(_, _)) ==
  [rows |-> rows, cols |-> cols,
   data |-> [k \in 1..rows * cols |-> element((k - 1) \div cols, (k - 1) % cols)]]

Eye(n) == IF n = 0 THEN {} ELSE {Filled(n, n, LAMBDA i, j : IF i = j THEN 1 ELSE 0)}

Transpose(m) == Filled(m.cols, m.rows, LAMBDA i, j : At(m, j, i))

\* A faulty variant: the two bits of a matrix are taken for each other.
CheckBroadcastSwapped(m, other) ==
  [this  |-> {d \in {"rows", "cols"} : \E e \in {"rows", "cols"} \ {d} : m[e] = 1 /\ other[e] # 1},
   other |-> {d \in {"rows", "cols"} : \E e \in {"rows", "cols"} \ {d} : other[e] = 1 /\ m[e] # 1}]

\* In which directions the one row or column of a matrix serves for all.
CheckBroadcast(m, other) ==
  [this  |-> {d \in {"rows", "cols"} : m[d] = 1 /\ other[d] # 1},
   other |-> {d \in {"rows", "cols"} : other[d] = 1 /\ m[d] # 1}]

BroadcastRow(row, directions) == IF "rows" \in directions THEN 0 ELSE row
BroadcastCol(col, directions) == IF "cols" \in directions THEN 0 ELSE col

\* Add and Multiply: shapes that differ in a direction where neither is one
\* are noticed when an element is out of range, at the latest.
Elementwise(m, other, op(_, _)) ==
  LET same  == m.rows = other.rows /\ m.cols = other.cols
      dirs  == CheckBroadcast(m, other)
      rows  == Larger(m.rows, other.rows)
      cols  == Larger(m.cols, other.cols)
      inThis(i, j)  == Held(m, BroadcastRow(i, dirs.this), BroadcastCol(j, dirs.this))
      inOther(i, j) == Held(other, BroadcastRow(i, dirs.other), BroadcastCol(j, dirs.other))
  IN IF same THEN {Filled(rows, cols, LAMBDA i, j : op(At(m, i, j), At(other, i, j)))}
     ELSE IF dirs.this \cup dirs.other = {} THEN {}
     ELSE IF \E i \in 0..rows - 1, j \in 0..cols - 1 : ~inThis(i, j) \/ ~inOther(i, j) THEN {}
     ELSE {Filled(rows, cols,
             LAMBDA i, j : op(At(m, BroadcastRow(i, dirs.this), BroadcastCol(j, dirs.this)),
                              At(other, BroadcastRow(i, dirs.other), BroadcastCol(j, dirs.other))))}

Add(m, other) == Elementwise(m, other, LAMBDA x, y : x + y)
Multiply(m, other) == Elementwise(m, other, LAMBDA x, y : x * y)
MultiplyScalar(m, s) == Filled(m.rows, m.cols, LAMBDA i, j : At(m, i, j) * s)
Quotient(x, s) == IF s > 0 THEN x \div s ELSE (-x) \div (-s)
Divide(m, s) ==
  IF s = 0 THEN {} ELSE {Filled(m.rows, m.cols, LAMBDA i, j : Quotient(At(m, i, j), s))}
Subtract(m, other) == Add(m, MultiplyScalar(other, -1))

\* The positions below n, tile by tile.
Tiles(n) == {k \in 0..n - 1 : k % TileSize = 0}
Tile(k, n) == k..(IF k + TileSize <= n THEN k + TileSize ELSE n) - 1

\* How often the loops over the tiles come to a position.
Visits(i, n) == Cardinality({k \in Tiles(n) : i \in Tile(k, n)})

\* The sum of f over the numbers below n.
SumBelow(n, f) ==
  LET sum[k \in 0..n] == IF k = 0 THEN 0 ELSE sum[k - 1] + f[k - 1]
  IN sum[n]

\* Nothing compares the columns of the one with the rows of the other.
MatrixMultiply(m, other) ==
  LET visits(i, j, k) == Visits(i, m.rows) * Visits(j, other.cols) * Visits(k, m.cols)
      cell(i, j) ==
        SumBelow(m.cols, [k \in 0..m.cols - 1 |-> visits(i, j, k) * At(m, i, k) * At(other, k, j)])
  IN IF \E k \in 0..m.cols - 1, j \in 0..other.cols - 1 : ~Held(other, k, j) THEN {}
     ELSE {Filled(m.rows, other.cols, LAMBDA i, j : cell(i, j))}

Reshape(m, rows, cols) ==
  IF (rows * cols) % IndexLimit # (m.rows * m.cols) % IndexLimit THEN {}
  ELSE {[rows |-> rows, cols |-> cols, data |-> m.data]}

GetRows(m, start, stop) ==
  IF stop > m.rows \/ start >= stop THEN {}
  ELSE {[rows |-> stop - start, cols |-> m.cols,
         data |-> SubSeq(m.data, start * m.cols + 1, stop * m.cols)]}

\* Without a row between them, the two ends are not compared: the difference
\* of two Index wraps.
GetSlice(m, rowStart, colStart, rowStop, colStop) ==
  IF rowStop > m.rows \/ colStop > m.cols THEN {}
  ELSE IF rowStart >= rowStop
    THEN {[rows |-> (rowStop - rowStart) % IndexLimit, cols |-> (colStop - colStart) % IndexLimit,
           data |-> << >>]}
  ELSE IF colStart >= colStop THEN {}
  ELSE {Filled(rowStop - rowStart, colStop - colStart,
               LAMBDA i, j : At(m, rowStart + i, colStart + j))}

SetSlice(m, rowStart, colStart, rowStop, colStop, other) ==
  IF \/ rowStop > m.rows \/ colStop > m.cols \/ rowStart > rowStop \/ colStart > colStop
     \/ other.rows # rowStop - rowStart \/ other.cols # colStop - colStart
    THEN {}
  ELSE {Filled(m.rows, m.cols,
          LAMBDA i, j : IF i \in rowStart..rowStop - 1 /\ j \in colStart..colStop - 1
                          THEN At(other, i - rowStart, j - colStart) ELSE At(m, i, j))}

SetElement(m, row, col, x) ==
  IF row >= m.rows \/ col >= m.cols THEN {}
  ELSE {[rows |-> m.rows, cols |-> m.cols, data |-> [m.data EXCEPT ![Offset(m, row, col) + 1] = x]]}

\* Each row of the new matrix is one of the old, in the order of a shuffled
\* list of row numbers.
Shuffle(m, order) == Filled(m.rows, m.cols, LAMBDA i, j : At(m, order[i], j))
=============================================================================
