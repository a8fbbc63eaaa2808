------------------------------ MODULE PyMatrix ------------------------------
(***************************************************************************)
(* The matrices of the language: the operators, indices and functions a    *)
(* program calls, on Collections::Matrix.                                  *)
(*                                                                         *)
(* Matrices without rows or columns, which only Array([[]]) makes, are     *)
(* left out.                                                               *)
(***************************************************************************)
EXTENDS Slice, Sequences, FiniteSets

CONSTANTS
  Matrices,      \* the matrices programs start from and calculate with: of
                 \* at least one row and column, and as many elements
  Scalar,        \* the numbers they calculate with
  Exponent,      \* the exponents of **
  Place,         \* the integers they use as positions and sizes
  Span,          \* the slices they use for rows and for columns
  TileSize, IndexLimit,
  MaxCalls       \* bound: calls that return a matrix

M == INSTANCE Matrix

VARIABLES
  matrix,   \* rows, cols, and the elements row by row
  array,    \* history: the array it should be; none if the call has no result
  aside,    \* history: why it may be another one
  calls     \* history: calls that returned a matrix

matrixVars == <<matrix, array, aside, calls>>

-----------------------------------------------------------------------------
IsMatrix(m) ==
  /\ m = [rows |-> m.rows, cols |-> m.cols, data |-> m.data]
  /\ m.rows \in Nat \ {0} /\ m.cols \in Nat \ {0}
  /\ m.data \in [1..m.rows * m.cols -> Int]

\* No offset in it, nor in the two rows behind it, wraps.
Small(m) == (m.rows + 2) * m.cols < IndexLimit

\* A position has a position behind it: an integer that is too large for an
\* Index throws where it is converted.
MatrixConstants ==
  /\ IndexLimit \in Nat /\ TileSize \in Nat \ {0}
  /\ \A m \in Matrices : IsMatrix(m) /\ Small(m)
  /\ Scalar \subseteq Int /\ Exponent \subseteq Int
  /\ Place \subseteq Int /\ \A i \in Place : i + 1 < IndexLimit
  /\ Span \subseteq Slices

ASSUME MatrixAssumption == MatrixConstants

-----------------------------------------------------------------------------
(* Arrays: rows, cols, and a function from positions to elements.           *)

Cells(rows, cols) == (0..rows - 1) \X (0..cols - 1)
Array(rows, cols, element(_, _)) ==
  [rows |-> rows, cols |-> cols, cell |-> [p \in Cells(rows, cols) |-> element(p[1], p[2])]]
ArrayOf(m) == Array(m.rows, m.cols, LAMBDA i, j : m.data[i * m.cols + j + 1])

ArrayOfOne(x) == Array(1, 1, LAMBDA i, j : x)

\* The array there is.
Present == CHOOSE a \in array : TRUE

\* Shapes are compatible if they agree, or one of the two is one, both ways.
Broadcast(a, b, op(_, _)) ==
  IF \E d \in {"rows", "cols"} : a[d] # b[d] /\ 1 \notin {a[d], b[d]} THEN {}
  ELSE {Array(M!Larger(a.rows, b.rows), M!Larger(a.cols, b.cols),
          LAMBDA i, j : op(a.cell[<<i % a.rows, j % a.cols>>], b.cell[<<i % b.rows, j % b.cols>>]))}

Product(a, b) ==
  IF a.cols # b.rows THEN {}
  ELSE {Array(a.rows, b.cols,
          LAMBDA i, j : M!SumBelow(a.cols,
            [k \in 0..a.cols - 1 |-> a.cell[<<i, k>>] * b.cell[<<k, j>>]]))}

\* The rows and columns Python selects; nothing selected is no result.
Chosen(s, length) == Positions(PythonBound(s, length), length)
Selected(a, rows, cols) ==
  IF rows = << >> \/ cols = << >> THEN {}
  ELSE {Array(Len(rows), Len(cols), LAMBDA i, j : a.cell[<<rows[i + 1], cols[j + 1]>>])}

PlaceOf(x, places) == CHOOSE k \in DOMAIN places : places[k] = x
Replaced(a, rows, cols, b) ==
  IF rows = << >> \/ cols = << >> \/ b.rows # Len(rows) \/ b.cols # Len(cols) THEN {}
  ELSE {Array(a.rows, a.cols,
          LAMBDA i, j : IF (\E k \in DOMAIN rows : rows[k] = i) /\ (\E k \in DOMAIN cols : cols[k] = j)
                          THEN b.cell[<<PlaceOf(i, rows) - 1, PlaceOf(j, cols) - 1>>]
                          ELSE a.cell[<<i, j>>])}

-----------------------------------------------------------------------------
(* Positions and slices of the language.                                    *)

\* PyInteger::ToU64: a number below zero has none.
Unsigned(i) == IF i < 0 THEN {} ELSE {i}

\* A negative position counts from the end. One in front of the first row
\* wraps, where assertions are compiled out; where they are not, the program
\* ends.
PlaceIn(i, length) == FromEnd(i, length) % IndexLimit

\* Whether an operation sees the ends of the slice: the step is not asked for.
BoundEnds(s, length) ==
  IF BindThrows(s, length) THEN {}
  ELSE {[start |-> i, stop |-> j] :
          i \in Unsigned(BoundStart(s, length)), j \in Unsigned(BoundStop(s, length))}

If(condition, reason) == IF condition THEN {reason} ELSE {}

\* Where a slice of a matrix is not what it is in Python.
SpanAside(s, length) ==
  If(BoundStep(s) # 1, "the step of a slice is ignored")
  \cup If(Chosen(s, length) = << >>, "a slice that selects nothing")

PlaceAside(i, length) == If(FromEnd(i, length) < 0, "a position in front of the first")

\* Where an operation is not what it is on arrays.
FactorAside(m, o) == If(m.cols < o.rows, "rows of the second factor are left over")
SquareAside(m) == If(m.rows # m.cols, "a matrix that is not square")
WrittenAside(i, j) == If(i < 0 \/ j < 0, "a written position that counts from the end")

Becomes(results, arrays, why) ==
  /\ matrix' \in IF results = {} THEN {matrix} ELSE results
  /\ array' = IF results = {} /\ arrays = {} THEN array ELSE arrays
  /\ aside' = why
  /\ calls' = IF results = {} THEN calls ELSE calls + 1

-----------------------------------------------------------------------------
(* Operators.                                                               *)

MatrixInit ==
  /\ matrix \in Matrices
  /\ array = {ArrayOf(matrix)}
  /\ aside = {}
  /\ calls = 0

Adds(o) ==
  Becomes(M!Add(matrix, o), Broadcast(Present, ArrayOf(o), LAMBDA x, y : x + y), {})
Subtracts(o) ==
  Becomes(M!Subtract(matrix, o), Broadcast(Present, ArrayOf(o), LAMBDA x, y : x - y), {})
Multiplies(o) ==
  Becomes(M!Multiply(matrix, o), Broadcast(Present, ArrayOf(o), LAMBDA x, y : x * y), {})
Scales(s) ==
  Becomes({M!MultiplyScalar(matrix, s)},
          {Array(Present.rows, Present.cols, LAMBDA i, j : Present.cell[<<i, j>>] * s)}, {})
Negates == Scales(-1)

\* Bound: quotients that are integers.
Divides(s) ==
  /\ s # 0 => \A k \in 1..Len(matrix.data) : M!Quotient(matrix.data[k], s) * s = matrix.data[k]
  /\ Becomes(M!Divide(matrix, s),
             IF s = 0 THEN {}
             ELSE {Array(Present.rows, Present.cols, LAMBDA i, j : M!Quotient(Present.cell[<<i, j>>], s))},
             {})

MatMuls(o) ==
  Becomes(M!MatrixMultiply(matrix, o), Product(Present, ArrayOf(o)),
          FactorAside(matrix, o))

Products(xs, ys) == UNION {M!MatrixMultiply(x, y) : x \in xs, y \in ys}

\* One round of raising to a power by squaring. The last square is calculated
\* and not used.
Round(x) ==
  [power  |-> x.power \div 2,
   matrix |-> Products(x.matrix, x.matrix),
   result |-> IF x.power % 2 = 1 THEN Products(x.result, x.matrix) ELSE x.result]

\* What the rounds come to, one after another: more of them than there are.
Rounds(m, n) ==
  LET rounds[k \in 0..n] ==
        IF k = 0 THEN [power |-> n, matrix |-> {m}, result |-> M!Eye(m.rows)]
        ELSE Round(rounds[k - 1])
  IN rounds

MatrixPower(m, n) ==
  LET left(k) == Rounds(m, n)[k].power
      last == CHOOSE k \in 0..n : left(k) = 0 /\ \A j \in 0..k - 1 : left(j) # 0
      x == Rounds(m, n)[last]
  IN IF x.matrix = {} THEN {} ELSE x.result

\* The array multiplied by itself n times.
PowersOf(a, n) ==
  LET power[k \in 0..n] ==
        IF k = 0 THEN {Array(a.rows, a.rows, LAMBDA i, j : IF i = j THEN 1 ELSE 0)}
        ELSE UNION {Product(x, a) : x \in power[k - 1]}
  IN power[n]

Powers(n) ==
  Becomes(UNION {MatrixPower(matrix, k) : k \in Unsigned(n)}, IF n < 0 THEN {} ELSE PowersOf(Present, n),
          SquareAside(matrix))

-----------------------------------------------------------------------------
(* Indices.                                                                 *)

SelectsRows(s) ==
  Becomes(UNION {M!GetRows(matrix, e.start, e.stop) : e \in BoundEnds(s, matrix.rows)},
          Selected(Present, Chosen(s, Present.rows), [j \in 1..Present.cols |-> j - 1]),
          SpanAside(s, matrix.rows))

SelectsBoth(s, t) ==
  Becomes(UNION {M!GetSlice(matrix, e.start, f.start, e.stop, f.stop) :
                   e \in BoundEnds(s, matrix.rows), f \in BoundEnds(t, matrix.cols)},
          Selected(Present, Chosen(s, Present.rows), Chosen(t, Present.cols)),
          SpanAside(s, matrix.rows) \cup SpanAside(t, matrix.cols))

\* A place of an array, as a list of one or none.
OnePlace(i, length) ==
  IF FromEnd(i, length) \in 0..length - 1 THEN <<FromEnd(i, length)>> ELSE << >>

SelectsColumn(s, j) ==
  Becomes(UNION {M!GetSlice(matrix, e.start, PlaceIn(j, matrix.cols),
                            e.stop, (PlaceIn(j, matrix.cols) + 1) % IndexLimit) :
                   e \in BoundEnds(s, matrix.rows)},
          Selected(Present, Chosen(s, Present.rows), OnePlace(j, Present.cols)),
          SpanAside(s, matrix.rows) \cup PlaceAside(j, matrix.cols))

SelectsRow(i, t) ==
  Becomes(UNION {M!GetSlice(matrix, PlaceIn(i, matrix.rows), e.start,
                            (PlaceIn(i, matrix.rows) + 1) % IndexLimit, e.stop) :
                   e \in BoundEnds(t, matrix.cols)},
          Selected(Present, OnePlace(i, Present.rows), Chosen(t, Present.cols)),
          SpanAside(t, matrix.cols) \cup PlaceAside(i, matrix.rows))

Assigns(s, t, o) ==
  Becomes(UNION {M!SetSlice(matrix, e.start, f.start, e.stop, f.stop, o) :
                   e \in BoundEnds(s, matrix.rows), f \in BoundEnds(t, matrix.cols)},
          Replaced(Present, Chosen(s, Present.rows), Chosen(t, Present.cols), ArrayOf(o)),
          SpanAside(s, matrix.rows) \cup SpanAside(t, matrix.cols))

AssignsElement(i, j, x) ==
  Becomes(UNION {M!SetElement(matrix, k, l, x) : k \in Unsigned(i), l \in Unsigned(j)},
          Replaced(Present, OnePlace(i, Present.rows), OnePlace(j, Present.cols),
                   ArrayOfOne(x)),
          WrittenAside(i, j))

-----------------------------------------------------------------------------
(* Functions.                                                               *)

Transposes ==
  Becomes({M!Transpose(matrix)},
          {Array(Present.cols, Present.rows, LAMBDA i, j : Present.cell[<<j, i>>])}, {})

Reshapes(r, c) ==
  Becomes(UNION {M!Reshape(matrix, k, l) : k \in Unsigned(r), l \in Unsigned(c)},
          IF r <= 0 \/ c <= 0 \/ r * c # Present.rows * Present.cols THEN {}
          ELSE {Array(r, c, LAMBDA i, j : Present.cell[<<(i * c + j) \div Present.cols,
                                                         (i * c + j) % Present.cols>>])},
          {})

\* The rows of the two, one matrix after the other.
Concatenates(o) ==
  Becomes(IF matrix.cols # o.cols THEN {}
          ELSE {[rows |-> Len(matrix.data \o o.data) \div matrix.cols, cols |-> matrix.cols,
                 data |-> matrix.data \o o.data]},
          IF Present.cols # o.cols THEN {}
          ELSE {Array(Present.rows + o.rows, Present.cols,
                  LAMBDA i, j : IF i < Present.rows THEN Present.cell[<<i, j>>]
                                ELSE ArrayOf(o).cell[<<i - Present.rows, j>>])},
          {})

\* In any order.
Shuffles(order) ==
  Becomes({M!Shuffle(matrix, order)},
          {Array(Present.rows, Present.cols, LAMBDA i, j : Present.cell[<<order[i], j>>])}, {})

\* Eye(n), Zeros([r, c]), Ones([r, c]), and Diagnostic(list).
Eyes(n) ==
  Becomes(UNION {M!Eye(k) : k \in Unsigned(n)},
          IF n <= 0 THEN {} ELSE {Array(n, n, LAMBDA i, j : IF i = j THEN 1 ELSE 0)},
          {})

Fills(r, c, x) ==
  Becomes(IF r = 0 \/ c = 0 THEN {}
          ELSE {M!Filled(k, l, LAMBDA i, j : x) : k \in Unsigned(r), l \in Unsigned(c)},
          IF r <= 0 \/ c <= 0 THEN {} ELSE {Array(r, c, LAMBDA i, j : x)},
          {})

Diagonal(list) ==
  Becomes({M!Filled(Len(list), Len(list), LAMBDA i, j : IF i = j THEN list[i + 1] ELSE 0)},
          {Array(Len(list), Len(list), LAMBDA i, j : IF i = j THEN list[i + 1] ELSE 0)}, {})

-----------------------------------------------------------------------------
(* What a program sees of a matrix without changing it.                     *)

\* matrix[i, j]: a column behind the last is not noticed.
GetElement(i, j) ==
  LET row == PlaceIn(i, matrix.rows)
      col == PlaceIn(j, matrix.cols)
  IN IF M!Held(matrix, row, col) THEN {M!At(matrix, row, col)} ELSE {}

Ravel == matrix.data
Shape == <<matrix.rows, matrix.cols>>

\* matrix > x, matrix == x: lists of the answers, row by row.
Compared(op(_)) ==
  [i \in 1..matrix.rows |-> [j \in 1..matrix.cols |-> op(M!At(matrix, i - 1, j - 1))]]

-----------------------------------------------------------------------------
Calculates ==
  \/ Transposes \/ Negates
  \/ \E o \in Matrices : Adds(o) \/ Subtracts(o) \/ Multiplies(o) \/ MatMuls(o) \/ Concatenates(o)
  \/ \E s \in Scalar : Scales(s) \/ Divides(s)
  \/ \E n \in Exponent : Powers(n)
  \/ \E order \in {f \in [0..matrix.rows - 1 -> 0..matrix.rows - 1] :
                     \A i, j \in DOMAIN f : f[i] = f[j] => i = j} : Shuffles(order)

Makes ==
  \/ \E n \in Place : Eyes(n)
  \/ \E r, c \in Place : Reshapes(r, c) \/ \E x \in {0, 1} : Fills(r, c, x)
  \/ \E list \in {<<x, y>> : x, y \in Scalar} : Diagonal(list)

Indexes ==
  \/ \E s, t \in Span : SelectsRows(s) \/ SelectsBoth(s, t)
                        \/ \E o \in Matrices : Assigns(s, t, o)
  \/ \E s \in Span, i \in Place : SelectsColumn(s, i) \/ SelectsRow(i, s)
  \/ \E i, j \in Place, x \in Scalar : AssignsElement(i, j, x)

MatrixNext == aside = {} /\ calls < MaxCalls /\ (Calculates \/ Makes \/ Indexes)

MatrixSpec == MatrixInit /\ [][MatrixNext]_matrixVars

\* The rows of the matrix, one after another, are the array that the calls so
\* far amount to, and its elements are found at their positions, from either
\* end; a call throws if and only if there is no such array (Matrix.cpp,
\* PyMatrix.cpp). The excepted cases are the reasons `aside` names.
MatrixIsArray ==
  aside = {} =>
    \E a \in array :
      /\ Shape = <<a.rows, a.cols>>
      /\ Len(Ravel) = a.rows * a.cols
      /\ \A i \in -a.rows..a.rows - 1, j \in -a.cols..a.cols - 1 :
           GetElement(i, j) = {a.cell[<<i % a.rows, j % a.cols>>]}
      /\ \A i \in a.rows..a.rows + 1, j \in 0..a.cols - 1 : GetElement(i, j) = {}
      /\ \A x \in Scalar :
           /\ Compared(LAMBDA y : y > x) =
                [i \in 1..a.rows |-> [j \in 1..a.cols |-> a.cell[<<i - 1, j - 1>>] > x]]
           /\ Compared(LAMBDA y : y = x) =
                [i \in 1..a.rows |-> [j \in 1..a.cols |-> a.cell[<<i - 1, j - 1>>] = x]]
=============================================================================
