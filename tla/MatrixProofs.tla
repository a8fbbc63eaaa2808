---------------------------- MODULE MatrixProofs ----------------------------
(***************************************************************************)
(* Proofs about matrices (module PyMatrix): a matrix is the array that the *)
(* calls so far amount to.                                                 *)
(*                                                                         *)
(* The invariant, MatrixInv: unless something is set aside, the array is   *)
(* the one the matrix holds row by row.  Each call is shown to agree: the  *)
(* set of results and the set of arrays are both empty, or the one result  *)
(* is a matrix and the one array is its array (Agrees).  For this every    *)
(* array is written as a function from positions (ArrayFrom), and the      *)
(* position of an element in the list is split into row and column         *)
(* (RowsFit, DivMod, RowAndColumn).                                        *)
(*                                                                         *)
(* Powers: the loops over the tiles come to each position once, so a       *)
(* product is a sum of products; such products associate (TimesAssociates, *)
(* by exchanging two sums), so the powers of an array add their exponents; *)
(* and what the result and the square of a round are powers of, and what   *)
(* is left of the exponent, stay in balance (PowerAgrees).                 *)
(***************************************************************************)
EXTENDS LibraryProofs, PyMatrix, FiniteSetTheorems

-----------------------------------------------------------------------------
(* Positions of a matrix that is kept row by row.                           *)

LEMMA RowsFit ==
  ASSUME NEW rows \in Nat, NEW cols \in Nat, NEW i \in 0..rows - 1, NEW j \in 0..cols - 1
  PROVE  /\ i * cols + j \in 0..rows * cols - 1
         /\ i * cols + j \in Nat /\ i * cols \in Nat /\ rows * cols \in Nat
<1>1. i * cols + cols <= rows * cols
  <2> DEFINE d == rows - i
  <2>1. d \in Nat /\ d >= 1 /\ rows = i + d
    OBVIOUS
  <2> HIDE DEF d
  <2>2. rows * cols = i * cols + d * cols
    BY <2>1
  <2>3. d * cols >= cols
    BY <2>1
  <2> QED BY <2>2, <2>3
<1> QED BY <1>1

LEMMA DivMod ==
  ASSUME NEW cols \in Nat \ {0}, NEW i \in Nat, NEW j \in 0..cols - 1
  PROVE  (i * cols + j) \div cols = i /\ (i * cols + j) % cols = j
OBVIOUS

LEMMA RowAndColumn ==
  ASSUME NEW rows \in Nat, NEW cols \in Nat \ {0}, NEW l \in 0..rows * cols - 1
  PROVE  l \div cols \in 0..rows - 1 /\ l % cols \in 0..cols - 1 /\ (l \div cols) * cols + (l % cols) = l
<1> DEFINE q == l \div cols
           r == l % cols
<1>1. l \in Nat /\ l < rows * cols /\ rows * cols \in Nat
  OBVIOUS
<1>2. q \in Int /\ r \in 0..cols - 1 /\ q * cols + r = l
  BY <1>1
<1> HIDE DEF q, r
<1>3. q >= 0
  <2> SUFFICES ASSUME q <= -1 PROVE FALSE
    BY <1>2
  <2>1. q * cols <= -cols
    <3> DEFINE d == -1 - q
    <3>1. d \in Nat /\ q = -1 - d
      BY <1>2
    <3> HIDE DEF d
    <3>2. q * cols = -cols - d * cols /\ d * cols \in Nat
      BY <3>1
    <3> DEFINE e == d * cols
    <3> HIDE DEF e
    <3>3. e \in Nat /\ q * cols = -cols - e
      BY <3>2 DEF e
    <3> QED BY <3>3
  <2> QED BY <1>1, <1>2, <2>1
<1>4. q < rows
  <2> SUFFICES ASSUME q >= rows PROVE FALSE
    BY <1>2
  <2> DEFINE d == q - rows
  <2>1. d \in Nat /\ q = rows + d
    BY <1>2
  <2> HIDE DEF d
  <2>2. q * cols = rows * cols + d * cols /\ d * cols >= 0
    BY <2>1
  <2> QED BY <1>1, <1>2, <2>2
<1>5. q \in 0..rows - 1 /\ r \in 0..cols - 1 /\ q * cols + r = l
  BY <1>2, <1>3, <1>4
<1> QED BY <1>5 DEF q, r

-----------------------------------------------------------------------------
(* A matrix and its array.                                                  *)

\* The arrays of matrices.
IsArray(a) ==
  /\ a = [rows |-> a.rows, cols |-> a.cols, cell |-> a.cell]
  /\ a.rows \in Nat \ {0} /\ a.cols \in Nat \ {0}
  /\ a.cell \in [Cells(a.rows, a.cols) -> Int]

LEMMA ArrayIs ==
  ASSUME NEW m, IsMatrix(m)
  PROVE  /\ IsArray(ArrayOf(m)) /\ ArrayOf(m).rows = m.rows /\ ArrayOf(m).cols = m.cols
         /\ \A i \in 0..m.rows - 1, j \in 0..m.cols - 1 :
              ArrayOf(m).cell[<<i, j>>] = m.data[i * m.cols + j + 1]
<1> DEFINE f == [p \in Cells(m.rows, m.cols) |-> m.data[p[1] * m.cols + p[2] + 1]]
<1>1. ArrayOf(m) = [rows |-> m.rows, cols |-> m.cols, cell |-> f]
  BY DEF ArrayOf, Array
<1>2. ASSUME NEW i \in 0..m.rows - 1, NEW j \in 0..m.cols - 1
      PROVE  f[<<i, j>>] = m.data[i * m.cols + j + 1] /\ f[<<i, j>>] \in Int
  <2>1. i * m.cols + j + 1 \in 1..m.rows * m.cols
    <3>1. m.rows \in Nat /\ m.cols \in Nat
      BY DEF IsMatrix
    <3> QED BY <3>1, RowsFit
  <2>2. <<i, j>> \in Cells(m.rows, m.cols)
    BY DEF Cells
  <2> QED BY <2>1, <2>2 DEF IsMatrix
<1>3. f \in [Cells(m.rows, m.cols) -> Int]
  <2>1. \A p \in Cells(m.rows, m.cols) :
          p[1] \in 0..m.rows - 1 /\ p[2] \in 0..m.cols - 1 /\ p = <<p[1], p[2]>>
    BY DEF Cells
  <2>2. \A p \in Cells(m.rows, m.cols) : f[p] \in Int
    BY <1>2, <2>1
  <2> QED BY <2>2
<1> HIDE DEF f
<1> QED BY <1>1, <1>2, <1>3 DEF IsArray, IsMatrix

\* An array's elements, row by row, are the matrix it is the array of.
LEMMA MatrixOf ==
  ASSUME NEW a, IsArray(a), NEW m,
         m = [rows |-> a.rows, cols |-> a.cols, data |-> m.data],
         m.data = [k \in 1..a.rows * a.cols |->
                     a.cell[<<(k - 1) \div a.cols, (k - 1) % a.cols>>]]
  PROVE  IsMatrix(m) /\ ArrayOf(m) = a
<1>1. a.rows \in Nat \ {0} /\ a.cols \in Nat \ {0} /\ m.rows = a.rows /\ m.cols = a.cols
  BY DEF IsArray
<1>2. ASSUME NEW k \in 1..a.rows * a.cols PROVE m.data[k] \in Int
  <2> DEFINE l == k - 1
             rows == a.rows
             cols == a.cols
             p == <<l \div cols, l % cols>>
  <2>1. rows \in Nat /\ cols \in Nat \ {0} /\ l \in 0..rows * cols - 1
    BY <1>1
  <2>2. m.data[k] = a.cell[p]
    OBVIOUS
  <2> HIDE DEF l, rows, cols
  <2>3. p \in Cells(rows, cols)
    BY <2>1, RowAndColumn DEF Cells
  <2> HIDE DEF p
  <2> QED BY <2>2, <2>3 DEF IsArray, rows, cols
<1>3. m.data \in [1..a.rows * a.cols -> Int]
  BY <1>2
<1>4. IsMatrix(m)
  BY <1>1, <1>3 DEF IsMatrix
<1>5. ASSUME NEW i \in 0..a.rows - 1, NEW j \in 0..a.cols - 1
      PROVE  m.data[i * a.cols + j + 1] = a.cell[<<i, j>>]
  <2> DEFINE rows == a.rows
             cols == a.cols
             l == i * cols + j
             k == l + 1
  <2>1. rows \in Nat /\ cols \in Nat \ {0} /\ i \in 0..rows - 1 /\ i \in Nat /\ j \in 0..cols - 1
    BY <1>1
  <2> HIDE DEF rows, cols
  <2>2. l \in 0..rows * cols - 1 /\ l \in Nat /\ rows * cols \in Nat
    BY <2>1, RowsFit
  <2>3. l \div cols = i /\ l % cols = j
    BY <2>1, DivMod
  <2> HIDE DEF l
  <2>4. k \in 1..rows * cols /\ k - 1 = l
    BY <2>2
  <2> HIDE DEF k
  <2>5. m.data[k] = a.cell[<<i, j>>]
    BY <2>3, <2>4 DEF rows, cols
  <2> QED BY <2>5 DEF k, l, cols
<1>6. ArrayOf(m) = [rows |-> a.rows, cols |-> a.cols, cell |-> ArrayOf(m).cell]
  BY <1>1 DEF ArrayOf, Array
<1>7. ArrayOf(m).cell = a.cell
  <2>1. /\ ArrayOf(m).cell \in [Cells(a.rows, a.cols) -> Int]
        /\ \A i \in 0..a.rows - 1, j \in 0..a.cols - 1 :
             ArrayOf(m).cell[<<i, j>>] = a.cell[<<i, j>>]
    <3>1. IsArray(ArrayOf(m)) /\ ArrayOf(m).rows = a.rows /\ ArrayOf(m).cols = a.cols
      BY <1>1, <1>4, ArrayIs
    <3>2. ArrayOf(m).cell \in [Cells(a.rows, a.cols) -> Int]
      BY <3>1 DEF IsArray
    <3>3. ASSUME NEW i \in 0..a.rows - 1, NEW j \in 0..a.cols - 1
          PROVE  ArrayOf(m).cell[<<i, j>>] = m.data[i * a.cols + j + 1]
      <4>1. i \in 0..m.rows - 1 /\ j \in 0..m.cols - 1
        BY <1>1
      <4>2. ArrayOf(m).cell[<<i, j>>] = m.data[i * m.cols + j + 1]
        BY <1>4, <4>1, ArrayIs
      <4> QED BY <1>1, <4>2
    <3> QED BY <1>5, <3>2, <3>3
  <2>2. \A p \in Cells(a.rows, a.cols) :
          p[1] \in 0..a.rows - 1 /\ p[2] \in 0..a.cols - 1 /\ p = <<p[1], p[2]>>
    BY DEF Cells
  <2>3. \A p \in Cells(a.rows, a.cols) : ArrayOf(m).cell[p] = a.cell[p]
    BY <2>1, <2>2
  <2> QED BY <2>1, <2>3 DEF IsArray
<1> QED BY <1>4, <1>6, <1>7 DEF IsArray

LEMMA AtIs ==
  ASSUME NEW m, IsMatrix(m), Small(m), IndexLimit \in Nat,
         NEW i \in 0..m.rows - 1, NEW j \in 0..m.cols - 1
  PROVE  /\ M!At(m, i, j) = ArrayOf(m).cell[<<i, j>>] /\ M!At(m, i, j) \in Int
         /\ M!Held(m, i, j)
         /\ M!Offset(m, i, j) = i * m.cols + j
<1> DEFINE l == i * m.cols + j
           n == m.rows * m.cols
<1>1. m.rows \in Nat /\ m.cols \in Nat
  BY DEF IsMatrix
<1>2. l \in 0..n - 1 /\ n \in Nat /\ l + 1 \in 1..n
  BY <1>1, RowsFit
<1>3. n < IndexLimit
  BY <1>1 DEF Small
<1>4. M!Offset(m, i, j) = l % IndexLimit
  BY DEF M!Offset
<1> HIDE DEF l, n
<1>5. l % IndexLimit = l
  BY <1>2, <1>3
<1>6. Len(m.data) = n
  BY <1>2 DEF IsMatrix, n
<1>7. m.data[l + 1] \in Int
  BY <1>2 DEF IsMatrix, n
<1>8. ArrayOf(m).cell[<<i, j>>] = m.data[l + 1]
  BY ArrayIs DEF l
<1>9. M!Offset(m, i, j) = l
  BY <1>4, <1>5
<1>10. M!At(m, i, j) = m.data[l + 1] /\ (M!Held(m, i, j) <=> l < Len(m.data))
  BY <1>9 DEF M!At, M!Held
<1> QED BY <1>2, <1>6, <1>7, <1>8, <1>9, <1>10 DEF l

-----------------------------------------------------------------------------
(* What a program sees of a matrix.                                         *)

\* The matrix is the array, as long as nothing is set aside.
MatrixInv == aside = {} => IsMatrix(matrix) /\ array = {ArrayOf(matrix)}

LEMMA PlaceFound ==
  ASSUME NEW n \in Nat \ {0}, n < IndexLimit, IndexLimit \in Nat, NEW i \in -n..n - 1
  PROVE  PlaceIn(i, n) = i % n /\ PlaceIn(i, n) \in 0..n - 1 /\ FromEnd(i, n) = i % n
<1>1. i % n = IF i >= 0 THEN i ELSE n + i
  OBVIOUS
<1>2. FromEnd(i, n) = i % n /\ i % n \in 0..n - 1
  BY <1>1 DEF FromEnd
<1> DEFINE p == i % n
<1>3. p \in 0..n - 1 /\ FromEnd(i, n) = p
  BY <1>2
<1> HIDE DEF p
<1>4. p % IndexLimit = p
  BY <1>3
<1> QED BY <1>3, <1>4 DEF PlaceIn, p

LEMMA SmallBounds ==
  ASSUME NEW m, IsMatrix(m), Small(m), IndexLimit \in Nat
  PROVE  /\ m.rows * m.cols < IndexLimit /\ m.rows * m.cols \in Nat
         /\ m.rows + 2 < IndexLimit /\ m.cols < IndexLimit
<1> DEFINE r == m.rows
           c == m.cols
<1>1. r \in Nat \ {0} /\ c \in Nat \ {0} /\ (r + 2) * c < IndexLimit
  BY DEF IsMatrix, Small
<1> HIDE DEF r, c
<1>2. (r + 2) * c = r * c + 2 * c /\ r * c \in Nat
  BY <1>1
<1>3. (r + 2) * c >= r + 2
  <2> DEFINE d == c - 1
  <2>1. d \in Nat /\ c = d + 1
    BY <1>1
  <2> HIDE DEF d
  <2>2. (r + 2) * c = (r + 2) * d + (r + 2) /\ (r + 2) * d \in Nat
    BY <1>1, <2>1
  <2> QED BY <1>1, <2>2
<1>4. r * c < IndexLimit /\ r * c \in Nat /\ r + 2 < IndexLimit /\ c < IndexLimit
  BY <1>1, <1>2, <1>3
<1> QED BY <1>4 DEF r, c

LEMMA ElementFound ==
  ASSUME IsMatrix(matrix), Small(matrix), IndexLimit \in Nat,
         NEW i \in -matrix.rows..matrix.rows - 1, NEW j \in -matrix.cols..matrix.cols - 1
  PROVE  GetElement(i, j) = {ArrayOf(matrix).cell[<<i % matrix.rows, j % matrix.cols>>]}
<1>1. matrix.rows \in Nat \ {0} /\ matrix.cols \in Nat \ {0}
  BY DEF IsMatrix
<1>2. matrix.rows < IndexLimit /\ matrix.cols < IndexLimit
  BY <1>1, SmallBounds
<1> DEFINE p == PlaceIn(i, matrix.rows)
           q == PlaceIn(j, matrix.cols)
<1>3. p = i % matrix.rows /\ p \in 0..matrix.rows - 1 /\ q = j % matrix.cols /\ q \in 0..matrix.cols - 1
  BY <1>1, <1>2, PlaceFound
<1>4. GetElement(i, j) = IF M!Held(matrix, p, q) THEN {M!At(matrix, p, q)} ELSE {}
  BY DEF GetElement
<1> HIDE DEF p, q
<1>5. M!Held(matrix, p, q) /\ M!At(matrix, p, q) = ArrayOf(matrix).cell[<<p, q>>]
  BY <1>3, AtIs
<1> QED BY <1>3, <1>4, <1>5

LEMMA NothingBehind ==
  ASSUME NEW m, IsMatrix(m), Small(m), IndexLimit \in Nat,
         NEW i \in m.rows..m.rows + 1, NEW j \in 0..m.cols - 1
  PROVE  ~M!Held(m, i, j)
<1> DEFINE r == m.rows
           c == m.cols
           l == i * c + j
           n == r * c
<1>1. r \in Nat /\ c \in Nat \ {0} /\ i \in r..r + 1 /\ j \in 0..c - 1 /\ Len(m.data) = n
      /\ (r + 2) * c < IndexLimit
  BY DEF IsMatrix, Small
<1>2. M!Offset(m, i, j) = l % IndexLimit
  BY DEF M!Offset
<1> HIDE DEF r, c
<1>3. i * c = IF i = r THEN r * c ELSE r * c + c
  BY <1>1
<1>4. (r + 2) * c = r * c + 2 * c /\ r * c \in Nat
  BY <1>1
<1>5. l \in Nat /\ l >= n /\ l < IndexLimit /\ n \in Nat
  BY <1>1, <1>3, <1>4
<1> HIDE DEF l, n
<1>6. l % IndexLimit = l
  BY <1>5
<1> QED BY <1>1, <1>2, <1>5, <1>6 DEF M!Held

SeenAs(a) ==
  /\ Shape = <<a.rows, a.cols>>
  /\ Len(Ravel) = a.rows * a.cols
  /\ \A i \in -a.rows..a.rows - 1, j \in -a.cols..a.cols - 1 :
       GetElement(i, j) = {a.cell[<<i % a.rows, j % a.cols>>]}
  /\ \A i \in a.rows..a.rows + 1, j \in 0..a.cols - 1 : GetElement(i, j) = {}
  /\ \A x \in Scalar :
       /\ Compared(LAMBDA y : y > x) =
            [i \in 1..a.rows |-> [j \in 1..a.cols |-> a.cell[<<i - 1, j - 1>>] > x]]
       /\ Compared(LAMBDA y : y = x) =
            [i \in 1..a.rows |-> [j \in 1..a.cols |-> a.cell[<<i - 1, j - 1>>] = x]]

LEMMA MatrixSeen ==
  ASSUME MatrixConstants, MatrixInv, Small(matrix)
  PROVE  MatrixIsArray
<1> SUFFICES ASSUME aside = {} PROVE SeenAs(ArrayOf(matrix))
  <2>1. aside = {} => ArrayOf(matrix) \in array
    BY DEF MatrixInv
  <2>2. MatrixIsArray <=> (aside = {} => \E a \in array : SeenAs(a))
    BY DEF MatrixIsArray, SeenAs
  <2>3. (aside = {} => SeenAs(ArrayOf(matrix))) => (aside = {} => \E a \in array : SeenAs(a))
    BY <2>1
  <2> QED BY <2>2, <2>3
<1> DEFINE a == ArrayOf(matrix)
<1>1. IsMatrix(matrix) /\ IndexLimit \in Nat
  BY DEF MatrixInv, MatrixConstants
<1>2. a.rows = matrix.rows /\ a.cols = matrix.cols
  BY <1>1, ArrayIs
<1>3. matrix.rows \in Nat \ {0} /\ matrix.cols \in Nat \ {0}
  BY <1>1 DEF IsMatrix
<1>4. Shape = <<a.rows, a.cols>> /\ Len(Ravel) = a.rows * a.cols
  <2>1. matrix.rows * matrix.cols \in Nat
    BY <1>3
  <2> QED BY <1>1, <1>2, <2>1 DEF Shape, Ravel, IsMatrix
<1>5. ASSUME NEW i \in -matrix.rows..matrix.rows - 1, NEW j \in -matrix.cols..matrix.cols - 1
      PROVE  GetElement(i, j) = {a.cell[<<i % matrix.rows, j % matrix.cols>>]}
  BY <1>1, ElementFound
<1>6. ASSUME NEW i \in matrix.rows..matrix.rows + 1, NEW j \in 0..matrix.cols - 1
      PROVE  GetElement(i, j) = {}
  <2> DEFINE p == PlaceIn(i, matrix.rows)
             q == PlaceIn(j, matrix.cols)
  <2>1. matrix.rows + 2 < IndexLimit /\ matrix.cols < IndexLimit
    BY <1>1, SmallBounds
  <2>2. p = i /\ q = j
    BY <1>1, <1>3, <2>1 DEF PlaceIn, FromEnd
  <2>3. ~M!Held(matrix, i, j)
    BY <1>1, NothingBehind
  <2> QED BY <2>2, <2>3 DEF GetElement
<1>7. ASSUME NEW i \in 1..matrix.rows, NEW j \in 1..matrix.cols
      PROVE  M!At(matrix, i - 1, j - 1) = a.cell[<<i - 1, j - 1>>]
  <2>1. i - 1 \in 0..matrix.rows - 1 /\ j - 1 \in 0..matrix.cols - 1
    BY <1>3
  <2> QED BY <1>1, <2>1, AtIs
<1> HIDE DEF a
<1>8. ASSUME NEW x \in Scalar
      PROVE  /\ Compared(LAMBDA y : y > x) =
                  [i \in 1..a.rows |-> [j \in 1..a.cols |-> a.cell[<<i - 1, j - 1>>] > x]]
             /\ Compared(LAMBDA y : y = x) =
                  [i \in 1..a.rows |-> [j \in 1..a.cols |-> a.cell[<<i - 1, j - 1>>] = x]]
  BY <1>2, <1>7 DEF Compared
<1> QED BY <1>2, <1>4, <1>5, <1>6, <1>8 DEF a, SeenAs

-----------------------------------------------------------------------------
(* A call that returns what it should.                                      *)

\* Either both throw, or the matrix is the array's.
Agrees(results, arrays) ==
  \/ results = {} /\ arrays = {}
  \/ \E m : IsMatrix(m) /\ results = {m} /\ arrays = {ArrayOf(m)}

LEMMA BecomesKeeps ==
  ASSUME MatrixInv, aside = {}, NEW results, NEW arrays, NEW why,
         Becomes(results, arrays, why), why = {} => Agrees(results, arrays)
  PROVE  MatrixInv'
<1> SUFFICES ASSUME why = {} PROVE IsMatrix(matrix') /\ array' = {ArrayOf(matrix')}
  BY DEF MatrixInv, Becomes, IsMatrix, ArrayOf, Array, Cells
<1>1. ASSUME results = {}, arrays = {}
      PROVE  IsMatrix(matrix') /\ array' = {ArrayOf(matrix')}
  BY <1>1 DEF Becomes, MatrixInv
<1>2. ASSUME NEW m, IsMatrix(m), results = {m}, arrays = {ArrayOf(m)}
      PROVE  IsMatrix(matrix') /\ array' = {ArrayOf(matrix')}
  BY <1>2 DEF Becomes
<1> QED BY <1>1, <1>2 DEF Agrees

LEMMA PresentIs ==
  ASSUME MatrixInv, aside = {}
  PROVE  IsMatrix(matrix) /\ Present = ArrayOf(matrix)
BY DEF MatrixInv, Present

\* A matrix that is filled, element by element, from a function of positions.
FilledBy(m, r, c, f) ==
  /\ m = [rows |-> r, cols |-> c, data |-> m.data]
  /\ m.data = [k \in 1..r * c |-> m.data[k]]
  /\ \A i \in 0..r - 1, j \in 0..c - 1, k \in 1..r * c :
       k = i * c + j + 1 /\ (k - 1) \div c = i /\ (k - 1) % c = j => m.data[k] = f[<<i, j>>]
  /\ f = [p \in Cells(r, c) |-> f[p]]
  /\ \A i \in 0..r - 1, j \in 0..c - 1 : f[<<i, j>>] \in Int

ArrayFrom(r, c, f) == [rows |-> r, cols |-> c, cell |-> f]

LEMMA FilledIs ==
  ASSUME NEW r \in Nat \ {0}, NEW c \in Nat \ {0}, NEW f, NEW m, FilledBy(m, r, c, f)
  PROVE  IsMatrix(m) /\ ArrayOf(m) = ArrayFrom(r, c, f)
<1> DEFINE a == ArrayFrom(r, c, f)
<1>1. \A p \in Cells(r, c) : p[1] \in 0..r - 1 /\ p[2] \in 0..c - 1 /\ p = <<p[1], p[2]>>
  BY DEF Cells
<1>2. f \in [Cells(r, c) -> Int]
  <2>1. ASSUME NEW p \in Cells(r, c) PROVE f[p] \in Int
    <3>1. p[1] \in 0..r - 1 /\ p[2] \in 0..c - 1 /\ p = <<p[1], p[2]>>
      BY <1>1
    <3>2. f[<<p[1], p[2]>>] \in Int
      BY <3>1 DEF FilledBy
    <3> QED BY <3>1, <3>2
  <2> QED BY <2>1 DEF FilledBy
<1>3. a.rows = r /\ a.cols = c /\ a.cell = f
  BY DEF ArrayFrom
<1>4. IsArray(a)
  BY <1>2, <1>3 DEF IsArray, ArrayFrom
<1>5. ASSUME NEW k \in 1..r * c PROVE m.data[k] = f[<<(k - 1) \div c, (k - 1) % c>>]
  <2> DEFINE l == k - 1
             i == l \div c
             j == l % c
  <2>1. l \in 0..r * c - 1
    OBVIOUS
  <2>2. i \in 0..r - 1 /\ j \in 0..c - 1 /\ i * c + j = l
    <3> HIDE DEF l
    <3> QED BY <2>1, RowAndColumn
  <2>3. k = i * c + j + 1
    <3> HIDE DEF i, j
    <3> QED BY <2>2 DEF l
  <2>4. (k - 1) \div c = i /\ (k - 1) % c = j
    OBVIOUS
  <2> HIDE DEF i, j, l
  <2>5. m.data[k] = f[<<i, j>>]
    BY <2>2, <2>3, <2>4 DEF FilledBy
  <2> QED BY <2>5 DEF i, j, l
<1>6. m.data = [k \in 1..a.rows * a.cols |-> a.cell[<<(k - 1) \div a.cols, (k - 1) % a.cols>>]]
  BY <1>3, <1>5 DEF FilledBy
<1>7. m = [rows |-> a.rows, cols |-> a.cols, data |-> m.data]
  BY <1>3 DEF FilledBy
<1> QED
  <2> HIDE DEF a
  <2>1. IsMatrix(m) /\ ArrayOf(m) = a
    BY <1>4, <1>6, <1>7, MatrixOf
  <2> QED BY <2>1 DEF a

LEMMA FilledAgrees ==
  ASSUME NEW r \in Nat \ {0}, NEW c \in Nat \ {0}, NEW f, NEW m, FilledBy(m, r, c, f),
         NEW results, results = {m}, NEW arrays, arrays = {ArrayFrom(r, c, f)}
  PROVE  Agrees(results, arrays)
<1>1. IsMatrix(m) /\ ArrayOf(m) = ArrayFrom(r, c, f)
  BY FilledIs
<1> QED BY <1>1 DEF Agrees

Transposed(a) ==
  ArrayFrom(a.cols, a.rows, [p \in Cells(a.cols, a.rows) |-> a.cell[<<p[2], p[1]>>]])

LEMMA TransposeAgrees ==
  ASSUME NEW m, IsMatrix(m), Small(m), IndexLimit \in Nat
  PROVE  Agrees({M!Transpose(m)}, {Transposed(ArrayOf(m))})
<1> DEFINE a == ArrayOf(m)
           r == m.cols
           c == m.rows
           f == [p \in Cells(r, c) |-> a.cell[<<p[2], p[1]>>]]
           t == M!Transpose(m)
<1>1. r \in Nat \ {0} /\ c \in Nat \ {0} /\ a.cols = r /\ a.rows = c
  BY ArrayIs DEF IsMatrix
<1>2. Transposed(a) = ArrayFrom(r, c, f)
  BY <1>1 DEF Transposed
<1>3. ASSUME NEW i \in 0..r - 1, NEW j \in 0..c - 1
      PROVE  f[<<i, j>>] = M!At(m, j, i) /\ f[<<i, j>>] \in Int
  <2>1. <<i, j>> \in Cells(r, c)
    BY DEF Cells
  <2>2. f[<<i, j>>] = a.cell[<<j, i>>]
    BY <2>1
  <2> HIDE DEF f
  <2> QED BY <2>2, AtIs
<1>4. FilledBy(t, r, c, f)
  <2>1. t = [rows |-> r, cols |-> c,
             data |-> [k \in 1..r * c |-> M!At(m, (k - 1) % c, (k - 1) \div c)]]
    BY DEF M!Transpose, M!Filled
  <2> HIDE DEF t
  <2>2. f = [p \in Cells(r, c) |-> f[p]]
    OBVIOUS
  <2> HIDE DEF f
  <2> QED BY <1>3, <2>1, <2>2 DEF FilledBy
<1>5. {M!Transpose(m)} = {t}
  OBVIOUS
<1> HIDE DEF f, t, r, c
<1> QED
  BY <1>1, <1>2, <1>4, <1>5, FilledAgrees

Scaled(a, s) ==
  ArrayFrom(a.rows, a.cols, [p \in Cells(a.rows, a.cols) |-> a.cell[<<p[1], p[2]>>] * s])

LEMMA ScaleAgrees ==
  ASSUME NEW m, IsMatrix(m), Small(m), IndexLimit \in Nat, NEW s \in Int
  PROVE  Agrees({M!MultiplyScalar(m, s)}, {Scaled(ArrayOf(m), s)})
<1> DEFINE a == ArrayOf(m)
           r == m.rows
           c == m.cols
           f == [p \in Cells(r, c) |-> a.cell[<<p[1], p[2]>>] * s]
           t == M!MultiplyScalar(m, s)
<1>1. r \in Nat \ {0} /\ c \in Nat \ {0} /\ a.rows = r /\ a.cols = c
  BY ArrayIs DEF IsMatrix
<1>2. Scaled(a, s) = ArrayFrom(r, c, f)
  BY <1>1 DEF Scaled
<1>3. ASSUME NEW i \in 0..r - 1, NEW j \in 0..c - 1
      PROVE  f[<<i, j>>] = M!At(m, i, j) * s /\ f[<<i, j>>] \in Int
  <2>1. <<i, j>> \in Cells(r, c)
    BY DEF Cells
  <2>2. f[<<i, j>>] = a.cell[<<i, j>>] * s
    BY <2>1
  <2> HIDE DEF f
  <2>3. M!At(m, i, j) = a.cell[<<i, j>>] /\ M!At(m, i, j) \in Int
    BY AtIs
  <2> DEFINE x == M!At(m, i, j)
  <2>4. f[<<i, j>>] = x * s /\ x \in Int
    BY <2>2, <2>3
  <2> HIDE DEF x
  <2>5. f[<<i, j>>] = x * s /\ f[<<i, j>>] \in Int
    BY <2>4
  <2> QED BY <2>5 DEF x
<1>4. FilledBy(t, r, c, f)
  <2>1. t = [rows |-> r, cols |-> c,
             data |-> [k \in 1..r * c |-> M!At(m, (k - 1) \div c, (k - 1) % c) * s]]
    BY DEF M!MultiplyScalar, M!Filled
  <2> HIDE DEF t
  <2>2. f = [p \in Cells(r, c) |-> f[p]]
    OBVIOUS
  <2> HIDE DEF f
  <2> QED BY <1>3, <2>1, <2>2 DEF FilledBy
<1>5. {M!MultiplyScalar(m, s)} = {t}
  OBVIOUS
<1> HIDE DEF f, t, r, c
<1> QED
  BY <1>1, <1>2, <1>4, <1>5, FilledAgrees

Shuffled(a, order) ==
  ArrayFrom(a.rows, a.cols, [p \in Cells(a.rows, a.cols) |-> a.cell[<<order[p[1]], p[2]>>]])

LEMMA ShuffleAgrees ==
  ASSUME NEW m, IsMatrix(m), Small(m), IndexLimit \in Nat,
         NEW order \in [0..m.rows - 1 -> 0..m.rows - 1]
  PROVE  Agrees({M!Shuffle(m, order)}, {Shuffled(ArrayOf(m), order)})
<1> DEFINE a == ArrayOf(m)
           r == m.rows
           c == m.cols
           f == [p \in Cells(r, c) |-> a.cell[<<order[p[1]], p[2]>>]]
           t == M!Shuffle(m, order)
<1>1. r \in Nat \ {0} /\ c \in Nat \ {0} /\ a.rows = r /\ a.cols = c
  BY ArrayIs DEF IsMatrix
<1>2. Shuffled(a, order) = ArrayFrom(r, c, f)
  BY <1>1 DEF Shuffled
<1>3. ASSUME NEW i \in 0..r - 1, NEW j \in 0..c - 1
      PROVE  f[<<i, j>>] = M!At(m, order[i], j) /\ f[<<i, j>>] \in Int
  <2>1. <<i, j>> \in Cells(r, c)
    BY DEF Cells
  <2>2. f[<<i, j>>] = a.cell[<<order[i], j>>]
    BY <2>1
  <2> HIDE DEF f
  <2>3. order[i] \in 0..m.rows - 1
    OBVIOUS
  <2>4. M!At(m, order[i], j) = a.cell[<<order[i], j>>] /\ M!At(m, order[i], j) \in Int
    BY <2>3, AtIs
  <2> QED BY <2>2, <2>4
<1>4. FilledBy(t, r, c, f)
  <2>1. t = [rows |-> r, cols |-> c,
             data |-> [k \in 1..r * c |-> M!At(m, order[(k - 1) \div c], (k - 1) % c)]]
    BY DEF M!Shuffle, M!Filled
  <2> HIDE DEF t
  <2>2. f = [p \in Cells(r, c) |-> f[p]]
    OBVIOUS
  <2> HIDE DEF f
  <2> QED BY <1>3, <2>1, <2>2 DEF FilledBy
<1>5. {M!Shuffle(m, order)} = {t}
  OBVIOUS
<1> HIDE DEF f, t, r, c
<1> QED
  BY <1>1, <1>2, <1>4, <1>5, FilledAgrees

LEMMA QuotientType ==
  ASSUME NEW x \in Int, NEW s \in Int \ {0}
  PROVE  M!Quotient(x, s) \in Int
<1>1. CASE s > 0
  BY <1>1 DEF M!Quotient
<1>2. CASE s < 0
  <2> DEFINE y == -x
             d == -s
  <2>1. y \in Int /\ d \in Int /\ d > 0 /\ M!Quotient(x, s) = y \div d
    BY <1>2 DEF M!Quotient
  <2> HIDE DEF y, d
  <2> QED BY <2>1
<1> QED BY <1>1, <1>2

Divided(a, s) ==
  ArrayFrom(a.rows, a.cols, [p \in Cells(a.rows, a.cols) |-> M!Quotient(a.cell[<<p[1], p[2]>>], s)])

LEMMA DivideAgrees ==
  ASSUME NEW m, IsMatrix(m), Small(m), IndexLimit \in Nat, NEW s \in Int \ {0}
  PROVE  Agrees(M!Divide(m, s), {Divided(ArrayOf(m), s)})
<1> DEFINE a == ArrayOf(m)
           r == m.rows
           c == m.cols
           f == [p \in Cells(r, c) |-> M!Quotient(a.cell[<<p[1], p[2]>>], s)]
           t == M!Filled(r, c, LAMBDA i, j : M!Quotient(M!At(m, i, j), s))
<1>1. r \in Nat \ {0} /\ c \in Nat \ {0} /\ a.rows = r /\ a.cols = c
  BY ArrayIs DEF IsMatrix
<1>2. Divided(a, s) = ArrayFrom(r, c, f)
  BY <1>1 DEF Divided
<1>3. ASSUME NEW i \in 0..r - 1, NEW j \in 0..c - 1
      PROVE  f[<<i, j>>] = M!Quotient(M!At(m, i, j), s) /\ f[<<i, j>>] \in Int
  <2>1. <<i, j>> \in Cells(r, c)
    BY DEF Cells
  <2>2. f[<<i, j>>] = M!Quotient(a.cell[<<i, j>>], s)
    BY <2>1
  <2> HIDE DEF f
  <2>3. M!At(m, i, j) = a.cell[<<i, j>>] /\ M!At(m, i, j) \in Int
    BY AtIs
  <2> DEFINE x == M!At(m, i, j)
  <2>4. x \in Int
    BY <2>3
  <2> HIDE DEF x
  <2>5. M!Quotient(x, s) \in Int
    BY <2>4, QuotientType
  <2> QED BY <2>2, <2>3, <2>5 DEF x
<1>4. FilledBy(t, r, c, f)
  <2>1. t = [rows |-> r, cols |-> c,
             data |-> [k \in 1..r * c |-> M!Quotient(M!At(m, (k - 1) \div c, (k - 1) % c), s)]]
    BY DEF M!Filled
  <2> HIDE DEF t
  <2>2. f = [p \in Cells(r, c) |-> f[p]]
    OBVIOUS
  <2> HIDE DEF f
  <2> QED BY <1>3, <2>1, <2>2 DEF FilledBy
<1>5. M!Divide(m, s) = {t}
  BY DEF M!Divide
<1> HIDE DEF f, t, r, c
<1> QED
  BY <1>1, <1>2, <1>4, <1>5, FilledAgrees

-----------------------------------------------------------------------------
(* Two matrices, element by element.                                        *)

Directions == {"rows", "cols"}
Compatible(m, o) == \A d \in Directions : m[d] = o[d] \/ m[d] = 1 \/ o[d] = 1
SameShape(m, o)  == m.rows = o.rows /\ m.cols = o.cols

LongRows(m, o) == M!Larger(m.rows, o.rows)
LongCols(m, o) == M!Larger(m.cols, o.cols)

\* Where an element of the result comes from.
ThisRow(m, o, i)  == M!BroadcastRow(i, M!CheckBroadcast(m, o).this)
ThisCol(m, o, j)  == M!BroadcastCol(j, M!CheckBroadcast(m, o).this)
OtherRow(m, o, i) == M!BroadcastRow(i, M!CheckBroadcast(m, o).other)
OtherCol(m, o, j) == M!BroadcastCol(j, M!CheckBroadcast(m, o).other)

NoBroadcast(m, o) == M!CheckBroadcast(m, o).this \cup M!CheckBroadcast(m, o).other = {}
Missing(m, o) ==
  \E i \in 0..LongRows(m, o) - 1, j \in 0..LongCols(m, o) - 1 :
    \/ ~M!Held(m, ThisRow(m, o, i), ThisCol(m, o, j))
    \/ ~M!Held(o, OtherRow(m, o, i), OtherCol(m, o, j))

LEMMA BroadcastPlaces ==
  ASSUME NEW m, IsMatrix(m), NEW o, IsMatrix(o), NEW i, NEW j
  PROVE  /\ ThisRow(m, o, i)  = IF m.rows = 1 /\ o.rows # 1 THEN 0 ELSE i
         /\ ThisCol(m, o, j)  = IF m.cols = 1 /\ o.cols # 1 THEN 0 ELSE j
         /\ OtherRow(m, o, i) = IF o.rows = 1 /\ m.rows # 1 THEN 0 ELSE i
         /\ OtherCol(m, o, j) = IF o.cols = 1 /\ m.cols # 1 THEN 0 ELSE j
         /\ NoBroadcast(m, o) <=> /\ m.rows = 1 <=> o.rows = 1
                                  /\ m.cols = 1 <=> o.cols = 1
         /\ Compatible(m, o) <=> /\ m.rows = o.rows \/ m.rows = 1 \/ o.rows = 1
                                 /\ m.cols = o.cols \/ m.cols = 1 \/ o.cols = 1
<1>1. "rows" # "cols"
  OBVIOUS
<1>2. /\ \A d \in Directions : d = "rows" \/ d = "cols"
      /\ "rows" \in Directions /\ "cols" \in Directions
  BY DEF Directions
<1> DEFINE this == M!CheckBroadcast(m, o).this
           other == M!CheckBroadcast(m, o).other
<1>3. /\ this = {d \in {"rows", "cols"} : m[d] = 1 /\ o[d] # 1}
      /\ other = {d \in {"rows", "cols"} : o[d] = 1 /\ m[d] # 1}
  BY DEF M!CheckBroadcast
<1>4. /\ ThisRow(m, o, i)  = IF "rows" \in this THEN 0 ELSE i
      /\ ThisCol(m, o, j)  = IF "cols" \in this THEN 0 ELSE j
      /\ OtherRow(m, o, i) = IF "rows" \in other THEN 0 ELSE i
      /\ OtherCol(m, o, j) = IF "cols" \in other THEN 0 ELSE j
      /\ NoBroadcast(m, o) <=> this \cup other = {}
  BY DEF ThisRow, ThisCol, OtherRow, OtherCol, NoBroadcast, M!BroadcastRow, M!BroadcastCol
<1> HIDE DEF this, other
<1>5. /\ "rows" \in this  <=> m.rows = 1 /\ o.rows # 1
      /\ "cols" \in this  <=> m.cols = 1 /\ o.cols # 1
      /\ "rows" \in other <=> o.rows = 1 /\ m.rows # 1
      /\ "cols" \in other <=> o.cols = 1 /\ m.cols # 1
  BY <1>1, <1>3
<1>6. this \cup other = {} <=> /\ "rows" \notin this /\ "cols" \notin this
                               /\ "rows" \notin other /\ "cols" \notin other
  BY <1>3
<1>7. Compatible(m, o) <=> /\ m.rows = o.rows \/ m.rows = 1 \/ o.rows = 1
                           /\ m.cols = o.cols \/ m.cols = 1 \/ o.cols = 1
  BY <1>2 DEF Compatible
<1> QED BY <1>4, <1>5, <1>6, <1>7

LEMMA BroadcastFound ==
  ASSUME NEW m, IsMatrix(m), NEW o, IsMatrix(o), Compatible(m, o),
         NEW i \in 0..LongRows(m, o) - 1, NEW j \in 0..LongCols(m, o) - 1
  PROVE  /\ ThisRow(m, o, i)  = i % m.rows /\ ThisRow(m, o, i)  \in 0..m.rows - 1
         /\ ThisCol(m, o, j)  = j % m.cols /\ ThisCol(m, o, j)  \in 0..m.cols - 1
         /\ OtherRow(m, o, i) = i % o.rows /\ OtherRow(m, o, i) \in 0..o.rows - 1
         /\ OtherCol(m, o, j) = j % o.cols /\ OtherCol(m, o, j) \in 0..o.cols - 1
         /\ SameShape(m, o) => i % m.rows = i /\ j % m.cols = j /\ i % o.rows = i /\ j % o.cols = j
<1>1. m.rows \in Nat \ {0} /\ m.cols \in Nat \ {0} /\ o.rows \in Nat \ {0} /\ o.cols \in Nat \ {0}
  BY DEF IsMatrix
<1>2. ASSUME NEW p \in Nat \ {0}, NEW q \in Nat \ {0}, p = q \/ p = 1 \/ q = 1,
             NEW x \in 0..M!Larger(p, q) - 1
      PROVE  /\ (IF p = 1 /\ q # 1 THEN 0 ELSE x) = x % p /\ x % p \in 0..p - 1
             /\ (IF q = 1 /\ p # 1 THEN 0 ELSE x) = x % q /\ x % q \in 0..q - 1
             /\ p = q => x % p = x
  <2>1. x \in Nat /\ (p = q => x < p) /\ (p = 1 => x < q) /\ (q = 1 => x < p) /\ x < M!Larger(p, q)
    BY <1>2 DEF M!Larger
  <2>2. x % 1 = 0
    BY <2>1
  <2>3. \A y \in Nat \ {0} : x < y => x % y = x
    BY <2>1
  <2> QED BY <1>2, <2>1, <2>2, <2>3
<1>3. /\ m.rows = o.rows \/ m.rows = 1 \/ o.rows = 1
      /\ m.cols = o.cols \/ m.cols = 1 \/ o.cols = 1
  BY BroadcastPlaces
<1>4. /\ (IF m.rows = 1 /\ o.rows # 1 THEN 0 ELSE i) = i % m.rows /\ i % m.rows \in 0..m.rows - 1
      /\ (IF o.rows = 1 /\ m.rows # 1 THEN 0 ELSE i) = i % o.rows /\ i % o.rows \in 0..o.rows - 1
      /\ m.rows = o.rows => i % m.rows = i
  BY <1>1, <1>2, <1>3 DEF LongRows
<1>5. /\ (IF m.cols = 1 /\ o.cols # 1 THEN 0 ELSE j) = j % m.cols /\ j % m.cols \in 0..m.cols - 1
      /\ (IF o.cols = 1 /\ m.cols # 1 THEN 0 ELSE j) = j % o.cols /\ j % o.cols \in 0..o.cols - 1
      /\ m.cols = o.cols => j % m.cols = j
  BY <1>1, <1>2, <1>3 DEF LongCols
<1>6. SameShape(m, o) => m.rows = o.rows /\ m.cols = o.cols
  BY DEF SameShape
<1> QED BY <1>4, <1>5, <1>6, BroadcastPlaces

LEMMA NothingBeside ==
  ASSUME NEW m, IsMatrix(m), Small(m), IndexLimit \in Nat
  PROVE  ~M!Held(m, m.rows - 1, m.cols)
<1> DEFINE r == m.rows
           c == m.cols
           n == r * c
<1>1. r \in Nat \ {0} /\ c \in Nat \ {0} /\ n \in Nat /\ Len(m.data) = n /\ n < IndexLimit
  <2>1. n \in Nat /\ n < IndexLimit
    BY SmallBounds
  <2> QED BY <2>1 DEF IsMatrix
<1>2. M!Offset(m, r - 1, c) = ((r - 1) * c + c) % IndexLimit
  BY DEF M!Offset
<1> HIDE DEF r, c
<1>3. (r - 1) * c + c = r * c
  BY <1>1
<1> HIDE DEF n
<1>4. n % IndexLimit = n
  BY <1>1
<1>5. M!Offset(m, r - 1, c) = n
  BY <1>2, <1>3, <1>4 DEF n
<1>6. ~M!Held(m, r - 1, c)
  BY <1>1, <1>5 DEF M!Held
<1> QED BY <1>6 DEF r, c

LEMMA IncompatibleThrows ==
  ASSUME NEW m, IsMatrix(m), Small(m), NEW o, IsMatrix(o), Small(o), IndexLimit \in Nat,
         ~Compatible(m, o)
  PROVE  ~SameShape(m, o) /\ (NoBroadcast(m, o) \/ Missing(m, o))
<1>1. m.rows \in Nat \ {0} /\ m.cols \in Nat \ {0} /\ o.rows \in Nat \ {0} /\ o.cols \in Nat \ {0}
  BY DEF IsMatrix
<1>2. \/ m.rows # o.rows /\ m.rows # 1 /\ o.rows # 1
      \/ m.cols # o.cols /\ m.cols # 1 /\ o.cols # 1
  BY BroadcastPlaces
<1>3. ~SameShape(m, o)
  BY <1>2 DEF SameShape
<1> DEFINE Gap(i, j) ==
      \/ ~M!Held(m, ThisRow(m, o, i), ThisCol(m, o, j))
      \/ ~M!Held(o, OtherRow(m, o, i), OtherCol(m, o, j))
<1>4. ASSUME NEW i \in 0..LongRows(m, o) - 1, NEW j \in 0..LongCols(m, o) - 1, Gap(i, j)
      PROVE  Missing(m, o)
  BY <1>4 DEF Missing
<1>5. ASSUME m.rows # o.rows, m.rows # 1, o.rows # 1 PROVE Missing(m, o)
  <2>1. CASE m.rows < o.rows
    <3>1. m.rows \in 0..LongRows(m, o) - 1 /\ 0 \in 0..LongCols(m, o) - 1
      BY <1>1, <2>1 DEF LongRows, LongCols, M!Larger
    <3>2. ThisRow(m, o, m.rows) = m.rows /\ ThisCol(m, o, 0) = 0
      BY <1>5, BroadcastPlaces
    <3>3. ~M!Held(m, m.rows, 0)
      BY <1>1, NothingBehind
    <3> QED BY <1>4, <3>1, <3>2, <3>3
  <2>2. CASE o.rows < m.rows
    <3>1. o.rows \in 0..LongRows(m, o) - 1 /\ 0 \in 0..LongCols(m, o) - 1
      BY <1>1, <2>2 DEF LongRows, LongCols, M!Larger
    <3>2. OtherRow(m, o, o.rows) = o.rows /\ OtherCol(m, o, 0) = 0
      BY <1>5, BroadcastPlaces
    <3>3. ~M!Held(o, o.rows, 0)
      BY <1>1, NothingBehind
    <3> QED BY <1>4, <3>1, <3>2, <3>3
  <2> QED BY <1>1, <1>5, <2>1, <2>2
<1>6. ASSUME m.cols # o.cols, m.cols # 1, o.cols # 1 PROVE Missing(m, o)
  <2>1. CASE m.cols < o.cols
    <3>1. m.rows - 1 \in 0..LongRows(m, o) - 1 /\ m.cols \in 0..LongCols(m, o) - 1
      BY <1>1, <2>1 DEF LongRows, LongCols, M!Larger
    <3>2. ThisRow(m, o, m.rows - 1) = m.rows - 1 /\ ThisCol(m, o, m.cols) = m.cols
      BY <1>1, <1>6, BroadcastPlaces
    <3>3. ~M!Held(m, m.rows - 1, m.cols)
      BY NothingBeside
    <3> QED BY <1>4, <3>1, <3>2, <3>3
  <2>2. CASE o.cols < m.cols
    <3>1. o.rows - 1 \in 0..LongRows(m, o) - 1 /\ o.cols \in 0..LongCols(m, o) - 1
      BY <1>1, <2>2 DEF LongRows, LongCols, M!Larger
    <3>2. OtherRow(m, o, o.rows - 1) = o.rows - 1 /\ OtherCol(m, o, o.cols) = o.cols
      BY <1>1, <1>6, BroadcastPlaces
    <3>3. ~M!Held(o, o.rows - 1, o.cols)
      BY NothingBeside
    <3> QED BY <1>4, <3>1, <3>2, <3>3
  <2> QED BY <1>1, <1>6, <2>1, <2>2
<1> QED BY <1>2, <1>3, <1>5, <1>6

LEMMA CompatibleHolds ==
  ASSUME NEW m, IsMatrix(m), Small(m), NEW o, IsMatrix(o), Small(o), IndexLimit \in Nat,
         Compatible(m, o), ~SameShape(m, o)
  PROVE  ~NoBroadcast(m, o) /\ ~Missing(m, o)
<1>1. ~NoBroadcast(m, o)
  BY BroadcastPlaces DEF SameShape
<1>2. ASSUME NEW i \in 0..LongRows(m, o) - 1, NEW j \in 0..LongCols(m, o) - 1
      PROVE  /\ M!Held(m, ThisRow(m, o, i), ThisCol(m, o, j))
             /\ M!Held(o, OtherRow(m, o, i), OtherCol(m, o, j))
  BY BroadcastFound, AtIs
<1> QED BY <1>1, <1>2 DEF Missing

Added(a, b) ==
  ArrayFrom(M!Larger(a.rows, b.rows), M!Larger(a.cols, b.cols),
    [p \in Cells(M!Larger(a.rows, b.rows), M!Larger(a.cols, b.cols)) |->
       a.cell[<<p[1] % a.rows, p[2] % a.cols>>] + b.cell[<<p[1] % b.rows, p[2] % b.cols>>]])

LEMMA AddAgrees ==
  ASSUME NEW m, IsMatrix(m), Small(m), NEW o, IsMatrix(o), Small(o), IndexLimit \in Nat,
         NEW arrays, arrays = IF Compatible(m, o) THEN {Added(ArrayOf(m), ArrayOf(o))} ELSE {}
  PROVE  Agrees(M!Add(m, o), arrays)
<1> DEFINE a == ArrayOf(m)
           b == ArrayOf(o)
           r == LongRows(m, o)
           c == LongCols(m, o)
           el(i, j) == a.cell[<<i % m.rows, j % m.cols>>] + b.cell[<<i % o.rows, j % o.cols>>]
           f == [p \in Cells(r, c) |-> el(p[1], p[2])]
           same == M!Filled(r, c, LAMBDA i, j : M!At(m, i, j) + M!At(o, i, j))
           long == M!Filled(r, c, LAMBDA i, j :
                     M!At(m, ThisRow(m, o, i), ThisCol(m, o, j))
                       + M!At(o, OtherRow(m, o, i), OtherCol(m, o, j)))
<1>1. /\ m.rows \in Nat \ {0} /\ m.cols \in Nat \ {0} /\ o.rows \in Nat \ {0} /\ o.cols \in Nat \ {0}
      /\ a.rows = m.rows /\ a.cols = m.cols /\ b.rows = o.rows /\ b.cols = o.cols
  BY ArrayIs DEF IsMatrix
<1>2. r \in Nat \ {0} /\ c \in Nat \ {0}
  BY <1>1 DEF LongRows, LongCols, M!Larger
<1>3. Added(a, b) = ArrayFrom(r, c, f)
  BY <1>1 DEF Added, LongRows, LongCols
<1>4. M!Add(m, o) = IF SameShape(m, o) THEN {same}
                     ELSE IF NoBroadcast(m, o) \/ Missing(m, o) THEN {} ELSE {long}
  BY DEF M!Add, M!Elementwise, SameShape, NoBroadcast, Missing, LongRows, LongCols,
         ThisRow, ThisCol, OtherRow, OtherCol
<1>5. ASSUME Compatible(m, o), NEW i \in 0..r - 1, NEW j \in 0..c - 1
      PROVE  /\ f[<<i, j>>] \in Int
             /\ f[<<i, j>>] = M!At(m, ThisRow(m, o, i), ThisCol(m, o, j))
                               + M!At(o, OtherRow(m, o, i), OtherCol(m, o, j))
             /\ SameShape(m, o) => f[<<i, j>>] = M!At(m, i, j) + M!At(o, i, j)
  <2> DEFINE x == M!At(m, ThisRow(m, o, i), ThisCol(m, o, j))
             y == M!At(o, OtherRow(m, o, i), OtherCol(m, o, j))
  <2>1. <<i, j>> \in Cells(r, c)
    BY DEF Cells
  <2>2. f[<<i, j>>] = el(i, j)
    BY <2>1
  <2> HIDE DEF f
  <2>3. x = a.cell[<<i % m.rows, j % m.cols>>] /\ x \in Int
    <3>1. /\ ThisRow(m, o, i) = i % m.rows /\ ThisRow(m, o, i) \in 0..m.rows - 1
          /\ ThisCol(m, o, j) = j % m.cols /\ ThisCol(m, o, j) \in 0..m.cols - 1
      BY <1>5, BroadcastFound
    <3> QED BY <3>1, AtIs
  <2>4. y = b.cell[<<i % o.rows, j % o.cols>>] /\ y \in Int
    <3>1. /\ OtherRow(m, o, i) = i % o.rows /\ OtherRow(m, o, i) \in 0..o.rows - 1
          /\ OtherCol(m, o, j) = j % o.cols /\ OtherCol(m, o, j) \in 0..o.cols - 1
      BY <1>5, BroadcastFound
    <3> QED BY <3>1, AtIs
  <2>5. SameShape(m, o) => x = M!At(m, i, j) /\ y = M!At(o, i, j)
    BY <1>5, BroadcastFound
  <2> HIDE DEF x, y
  <2>6. f[<<i, j>>] = x + y
    BY <2>2, <2>3, <2>4
  <2>7. x + y \in Int
    BY <2>3, <2>4
  <2>8. SameShape(m, o) => x + y = M!At(m, i, j) + M!At(o, i, j)
    BY <2>5
  <2> QED BY <2>6, <2>7, <2>8 DEF x, y
<1> HIDE DEF r, c
<1>6. f = [p \in Cells(r, c) |-> f[p]]
  OBVIOUS
<1>7. same = [rows |-> r, cols |-> c,
              data |-> [k \in 1..r * c |-> M!At(m, (k - 1) \div c, (k - 1) % c)
                                            + M!At(o, (k - 1) \div c, (k - 1) % c)]]
  BY DEF M!Filled
<1>8. long = [rows |-> r, cols |-> c,
              data |-> [k \in 1..r * c |->
                M!At(m, ThisRow(m, o, (k - 1) \div c), ThisCol(m, o, (k - 1) % c))
                  + M!At(o, OtherRow(m, o, (k - 1) \div c), OtherCol(m, o, (k - 1) % c))]]
  BY DEF M!Filled
<1> HIDE DEF f, same, long
<1>9. ASSUME Compatible(m, o), SameShape(m, o) PROVE FilledBy(same, r, c, f)
  BY <1>5, <1>6, <1>7, <1>9 DEF FilledBy
<1>10. ASSUME Compatible(m, o) PROVE FilledBy(long, r, c, f)
  BY <1>5, <1>6, <1>8, <1>10 DEF FilledBy
<1>11. SameShape(m, o) => Compatible(m, o)
  BY BroadcastPlaces DEF SameShape
<1>12. CASE Compatible(m, o) /\ SameShape(m, o)
  BY <1>2, <1>3, <1>4, <1>9, <1>12, FilledAgrees
<1>13. CASE Compatible(m, o) /\ ~SameShape(m, o)
  BY <1>2, <1>3, <1>4, <1>10, <1>13, FilledAgrees, CompatibleHolds
<1>14. CASE ~Compatible(m, o)
  <2>1. M!Add(m, o) = {} /\ arrays = {}
    BY <1>4, <1>14, IncompatibleThrows
  <2> QED BY <2>1 DEF Agrees
<1> QED BY <1>11, <1>12, <1>13, <1>14

Multiplied(a, b) ==
  ArrayFrom(M!Larger(a.rows, b.rows), M!Larger(a.cols, b.cols),
    [p \in Cells(M!Larger(a.rows, b.rows), M!Larger(a.cols, b.cols)) |->
       a.cell[<<p[1] % a.rows, p[2] % a.cols>>] * b.cell[<<p[1] % b.rows, p[2] % b.cols>>]])

LEMMA MultiplyAgrees ==
  ASSUME NEW m, IsMatrix(m), Small(m), NEW o, IsMatrix(o), Small(o), IndexLimit \in Nat,
         NEW arrays, arrays = IF Compatible(m, o) THEN {Multiplied(ArrayOf(m), ArrayOf(o))} ELSE {}
  PROVE  Agrees(M!Multiply(m, o), arrays)
<1> DEFINE a == ArrayOf(m)
           b == ArrayOf(o)
           r == LongRows(m, o)
           c == LongCols(m, o)
           el(i, j) == a.cell[<<i % m.rows, j % m.cols>>] * b.cell[<<i % o.rows, j % o.cols>>]
           f == [p \in Cells(r, c) |-> el(p[1], p[2])]
           same == M!Filled(r, c, LAMBDA i, j : M!At(m, i, j) * M!At(o, i, j))
           long == M!Filled(r, c, LAMBDA i, j :
                     M!At(m, ThisRow(m, o, i), ThisCol(m, o, j))
                       * M!At(o, OtherRow(m, o, i), OtherCol(m, o, j)))
<1>1. /\ m.rows \in Nat \ {0} /\ m.cols \in Nat \ {0} /\ o.rows \in Nat \ {0} /\ o.cols \in Nat \ {0}
      /\ a.rows = m.rows /\ a.cols = m.cols /\ b.rows = o.rows /\ b.cols = o.cols
  BY ArrayIs DEF IsMatrix
<1>2. r \in Nat \ {0} /\ c \in Nat \ {0}
  BY <1>1 DEF LongRows, LongCols, M!Larger
<1>3. Multiplied(a, b) = ArrayFrom(r, c, f)
  BY <1>1 DEF Multiplied, LongRows, LongCols
<1>4. M!Multiply(m, o) = IF SameShape(m, o) THEN {same}
                     ELSE IF NoBroadcast(m, o) \/ Missing(m, o) THEN {} ELSE {long}
  BY DEF M!Multiply, M!Elementwise, SameShape, NoBroadcast, Missing, LongRows, LongCols,
         ThisRow, ThisCol, OtherRow, OtherCol
<1>5. ASSUME Compatible(m, o), NEW i \in 0..r - 1, NEW j \in 0..c - 1
      PROVE  /\ f[<<i, j>>] \in Int
             /\ f[<<i, j>>] = M!At(m, ThisRow(m, o, i), ThisCol(m, o, j))
                               * M!At(o, OtherRow(m, o, i), OtherCol(m, o, j))
             /\ SameShape(m, o) => f[<<i, j>>] = M!At(m, i, j) * M!At(o, i, j)
  <2> DEFINE x == M!At(m, ThisRow(m, o, i), ThisCol(m, o, j))
             y == M!At(o, OtherRow(m, o, i), OtherCol(m, o, j))
  <2>1. <<i, j>> \in Cells(r, c)
    BY DEF Cells
  <2>2. f[<<i, j>>] = el(i, j)
    BY <2>1
  <2> HIDE DEF f
  <2>3. x = a.cell[<<i % m.rows, j % m.cols>>] /\ x \in Int
    <3>1. /\ ThisRow(m, o, i) = i % m.rows /\ ThisRow(m, o, i) \in 0..m.rows - 1
          /\ ThisCol(m, o, j) = j % m.cols /\ ThisCol(m, o, j) \in 0..m.cols - 1
      BY <1>5, BroadcastFound
    <3> QED BY <3>1, AtIs
  <2>4. y = b.cell[<<i % o.rows, j % o.cols>>] /\ y \in Int
    <3>1. /\ OtherRow(m, o, i) = i % o.rows /\ OtherRow(m, o, i) \in 0..o.rows - 1
          /\ OtherCol(m, o, j) = j % o.cols /\ OtherCol(m, o, j) \in 0..o.cols - 1
      BY <1>5, BroadcastFound
    <3> QED BY <3>1, AtIs
  <2>5. SameShape(m, o) => x = M!At(m, i, j) /\ y = M!At(o, i, j)
    BY <1>5, BroadcastFound
  <2> HIDE DEF x, y
  <2>6. f[<<i, j>>] = x * y
    BY <2>2, <2>3, <2>4
  <2>7. x * y \in Int
    BY <2>3, <2>4
  <2>8. SameShape(m, o) => x * y = M!At(m, i, j) * M!At(o, i, j)
    BY <2>5
  <2> QED BY <2>6, <2>7, <2>8 DEF x, y
<1> HIDE DEF r, c
<1>6. f = [p \in Cells(r, c) |-> f[p]]
  OBVIOUS
<1>7. same = [rows |-> r, cols |-> c,
              data |-> [k \in 1..r * c |-> M!At(m, (k - 1) \div c, (k - 1) % c)
                                            * M!At(o, (k - 1) \div c, (k - 1) % c)]]
  BY DEF M!Filled
<1>8. long = [rows |-> r, cols |-> c,
              data |-> [k \in 1..r * c |->
                M!At(m, ThisRow(m, o, (k - 1) \div c), ThisCol(m, o, (k - 1) % c))
                  * M!At(o, OtherRow(m, o, (k - 1) \div c), OtherCol(m, o, (k - 1) % c))]]
  BY DEF M!Filled
<1> HIDE DEF f, same, long
<1>9. ASSUME Compatible(m, o), SameShape(m, o) PROVE FilledBy(same, r, c, f)
  BY <1>5, <1>6, <1>7, <1>9 DEF FilledBy
<1>10. ASSUME Compatible(m, o) PROVE FilledBy(long, r, c, f)
  BY <1>5, <1>6, <1>8, <1>10 DEF FilledBy
<1>11. SameShape(m, o) => Compatible(m, o)
  BY BroadcastPlaces DEF SameShape
<1>12. CASE Compatible(m, o) /\ SameShape(m, o)
  BY <1>2, <1>3, <1>4, <1>9, <1>12, FilledAgrees
<1>13. CASE Compatible(m, o) /\ ~SameShape(m, o)
  BY <1>2, <1>3, <1>4, <1>10, <1>13, FilledAgrees, CompatibleHolds
<1>14. CASE ~Compatible(m, o)
  <2>1. M!Multiply(m, o) = {} /\ arrays = {}
    BY <1>4, <1>14, IncompatibleThrows
  <2> QED BY <2>1 DEF Agrees
<1> QED BY <1>11, <1>12, <1>13, <1>14

LEMMA AgreesOne ==
  ASSUME NEW m, NEW a, Agrees({m}, {a})
  PROVE  IsMatrix(m) /\ ArrayOf(m) = a
<1>1. PICK n : IsMatrix(n) /\ {m} = {n} /\ {a} = {ArrayOf(n)}
  BY DEF Agrees
<1>2. n = m /\ a = ArrayOf(n)
  BY <1>1
<1> QED BY <1>1, <1>2

Subtracted(a, b) ==
  ArrayFrom(M!Larger(a.rows, b.rows), M!Larger(a.cols, b.cols),
    [p \in Cells(M!Larger(a.rows, b.rows), M!Larger(a.cols, b.cols)) |->
       a.cell[<<p[1] % a.rows, p[2] % a.cols>>] - b.cell[<<p[1] % b.rows, p[2] % b.cols>>]])

LEMMA SubtractAgrees ==
  ASSUME NEW m, IsMatrix(m), Small(m), NEW o, IsMatrix(o), Small(o), IndexLimit \in Nat,
         NEW arrays, arrays = IF Compatible(m, o) THEN {Subtracted(ArrayOf(m), ArrayOf(o))} ELSE {}
  PROVE  Agrees(M!Subtract(m, o), arrays)
<1> DEFINE a == ArrayOf(m)
           b == ArrayOf(o)
           n == M!MultiplyScalar(o, -1)
           r == M!Larger(a.rows, b.rows)
           c == M!Larger(a.cols, b.cols)
<1>1. IsMatrix(n) /\ ArrayOf(n) = Scaled(b, -1)
  <2>1. Agrees({M!MultiplyScalar(o, -1)}, {Scaled(ArrayOf(o), -1)})
    BY ScaleAgrees
  <2> QED BY <2>1, AgreesOne
<1>2. n.rows = o.rows /\ n.cols = o.cols
  BY DEF M!MultiplyScalar, M!Filled
<1>3. /\ a.rows = m.rows /\ a.cols = m.cols /\ b.rows = o.rows /\ b.cols = o.cols
      /\ m.rows \in Nat \ {0} /\ m.cols \in Nat \ {0} /\ o.rows \in Nat \ {0} /\ o.cols \in Nat \ {0}
      /\ IsArray(a) /\ IsArray(b)
  BY ArrayIs DEF IsMatrix
<1> HIDE DEF n
<1>4. Small(n) /\ (Compatible(m, n) <=> Compatible(m, o))
  BY <1>1, <1>2, BroadcastPlaces DEF Small
<1>5. M!Subtract(m, o) = M!Add(m, n)
  BY DEF M!Subtract, n
<1>6. Added(a, ArrayOf(n)) = Subtracted(a, b)
  <2> DEFINE s == Scaled(b, -1)
             x(p) == <<p[1] % a.rows, p[2] % a.cols>>
             y(p) == <<p[1] % b.rows, p[2] % b.cols>>
  <2>1. /\ s.rows = b.rows /\ s.cols = b.cols
        /\ s.cell = [p \in Cells(b.rows, b.cols) |-> b.cell[<<p[1], p[2]>>] * (-1)]
    BY DEF Scaled, ArrayFrom
  <2> HIDE DEF s
  <2>2. ASSUME NEW p \in Cells(r, c)
        PROVE  a.cell[x(p)] + s.cell[y(p)] = a.cell[x(p)] - b.cell[y(p)]
    <3>1. p[1] \in Nat /\ p[2] \in Nat
      <4>1. r \in Nat /\ c \in Nat
        BY <1>3 DEF M!Larger
      <4> QED BY <4>1 DEF Cells
    <3>2. x(p) \in Cells(a.rows, a.cols) /\ y(p) \in Cells(b.rows, b.cols)
      <4>1. \A d \in Nat \ {0} : p[1] % d \in 0..d - 1 /\ p[2] % d \in 0..d - 1
        BY <3>1
      <4> QED BY <1>3, <4>1 DEF Cells
    <3>3. a.cell[x(p)] \in Int /\ b.cell[y(p)] \in Int
      <4> HIDE DEF x, y, a, b
      <4> QED BY <1>3, <3>2 DEF IsArray
    <3>4. s.cell[y(p)] = b.cell[y(p)] * (-1)
      BY <2>1, <3>2
    <3> HIDE DEF x, y, a, b, r, c
    <3> QED BY <3>3, <3>4
  <2>3. Added(a, s) = ArrayFrom(r, c, [p \in Cells(r, c) |-> a.cell[x(p)] + s.cell[y(p)]])
    BY <2>1 DEF Added
  <2>4. Subtracted(a, b) = ArrayFrom(r, c, [p \in Cells(r, c) |-> a.cell[x(p)] - b.cell[y(p)]])
    BY DEF Subtracted
  <2> HIDE DEF x, y, a, b, r, c
  <2>5. Added(a, s) = Subtracted(a, b)
    BY <2>2, <2>3, <2>4
  <2> QED BY <1>1, <2>5 DEF s
<1>7. arrays = IF Compatible(m, n) THEN {Added(ArrayOf(m), ArrayOf(n))} ELSE {}
  BY <1>4, <1>6
<1>8. Agrees(M!Add(m, n), arrays)
  BY <1>1, <1>4, <1>7, AddAgrees
<1> QED BY <1>5, <1>8

-----------------------------------------------------------------------------
(* New matrices.                                                            *)

Identity(n) == ArrayFrom(n, n, [p \in Cells(n, n) |-> IF p[1] = p[2] THEN 1 ELSE 0])
Constant(r, c, x) == ArrayFrom(r, c, [p \in Cells(r, c) |-> x])
DiagonalOf(list) ==
  ArrayFrom(Len(list), Len(list),
    [p \in Cells(Len(list), Len(list)) |-> IF p[1] = p[2] THEN list[p[1] + 1] ELSE 0])

LEMMA EyeAgrees ==
  ASSUME NEW n \in Nat \ {0}
  PROVE  Agrees(M!Eye(n), {Identity(n)})
<1> DEFINE f == [p \in Cells(n, n) |-> IF p[1] = p[2] THEN 1 ELSE 0]
           t == M!Filled(n, n, LAMBDA i, j : IF i = j THEN 1 ELSE 0)
<1>1. M!Eye(n) = {t} /\ Identity(n) = ArrayFrom(n, n, f)
  BY DEF M!Eye, Identity
<1>2. \A i \in 0..n - 1, j \in 0..n - 1 :
        f[<<i, j>>] = (IF i = j THEN 1 ELSE 0) /\ f[<<i, j>>] \in Int
  BY DEF Cells
<1>3. f = [p \in Cells(n, n) |-> f[p]]
  OBVIOUS
<1>4. t = [rows |-> n, cols |-> n,
           data |-> [k \in 1..n * n |-> IF (k - 1) \div n = (k - 1) % n THEN 1 ELSE 0]]
  BY DEF M!Filled
<1> HIDE DEF f, t
<1>5. FilledBy(t, n, n, f)
  <2>1. ASSUME NEW i \in 0..n - 1, NEW j \in 0..n - 1, NEW k \in 1..n * n,
               (k - 1) \div n = i, (k - 1) % n = j
        PROVE  t.data[k] = f[<<i, j>>]
    <3>1. t.data[k] = IF (k - 1) \div n = (k - 1) % n THEN 1 ELSE 0
      BY <1>4
    <3> QED BY <1>2, <2>1, <3>1
  <2>2. t.data = [k \in 1..n * n |-> t.data[k]] /\ t = [rows |-> n, cols |-> n, data |-> t.data]
    BY <1>4
  <2> QED BY <1>2, <1>3, <2>1, <2>2 DEF FilledBy
<1> QED BY <1>1, <1>5, FilledAgrees

LEMMA FillAgrees ==
  ASSUME NEW r \in Nat \ {0}, NEW c \in Nat \ {0}, NEW x \in Int
  PROVE  Agrees({M!Filled(r, c, LAMBDA i, j : x)}, {Constant(r, c, x)})
<1> DEFINE f == [p \in Cells(r, c) |-> x]
           t == M!Filled(r, c, LAMBDA i, j : x)
<1>1. Constant(r, c, x) = ArrayFrom(r, c, f)
  BY DEF Constant
<1>2. \A i \in 0..r - 1, j \in 0..c - 1 : f[<<i, j>>] = x
  BY DEF Cells
<1>3. f = [p \in Cells(r, c) |-> f[p]]
  OBVIOUS
<1>4. t = [rows |-> r, cols |-> c, data |-> [k \in 1..r * c |-> x]]
  BY DEF M!Filled
<1> HIDE DEF f, t
<1>5. FilledBy(t, r, c, f)
  BY <1>2, <1>3, <1>4 DEF FilledBy
<1>6. Agrees({t}, {Constant(r, c, x)})
  BY <1>1, <1>5, FilledAgrees
<1> QED BY <1>6 DEF t

LEMMA DiagonalAgrees ==
  ASSUME NEW list \in Seq(Int), list # << >>
  PROVE  Agrees({M!Filled(Len(list), Len(list), LAMBDA i, j : IF i = j THEN list[i + 1] ELSE 0)},
                {DiagonalOf(list)})
<1> DEFINE n == Len(list)
           f == [p \in Cells(n, n) |-> IF p[1] = p[2] THEN list[p[1] + 1] ELSE 0]
           t == M!Filled(n, n, LAMBDA i, j : IF i = j THEN list[i + 1] ELSE 0)
<1>1. DiagonalOf(list) = ArrayFrom(n, n, f)
  BY DEF DiagonalOf
<1>2. n \in Nat \ {0} /\ \A i \in 0..n - 1 : list[i + 1] \in Int
  OBVIOUS
<1>3. \A i \in 0..n - 1, j \in 0..n - 1 :
        f[<<i, j>>] = (IF i = j THEN list[i + 1] ELSE 0) /\ f[<<i, j>>] \in Int
  <2> HIDE DEF n
  <2> QED BY <1>2 DEF Cells
<1>4. f = [p \in Cells(n, n) |-> f[p]]
  OBVIOUS
<1>5. t = [rows |-> n, cols |-> n,
           data |-> [k \in 1..n * n |->
             IF (k - 1) \div n = (k - 1) % n THEN list[((k - 1) \div n) + 1] ELSE 0]]
  BY DEF M!Filled
<1> HIDE DEF f, t, n
<1>6. FilledBy(t, n, n, f)
  <2>1. ASSUME NEW i \in 0..n - 1, NEW j \in 0..n - 1, NEW k \in 1..n * n,
               (k - 1) \div n = i, (k - 1) % n = j
        PROVE  t.data[k] = f[<<i, j>>]
    <3>1. t.data[k] = IF (k - 1) \div n = (k - 1) % n THEN list[((k - 1) \div n) + 1] ELSE 0
      BY <1>5
    <3> QED BY <1>3, <2>1, <3>1
  <2>2. t.data = [k \in 1..n * n |-> t.data[k]] /\ t = [rows |-> n, cols |-> n, data |-> t.data]
    BY <1>5
  <2> QED BY <1>3, <1>4, <2>1, <2>2 DEF FilledBy
<1>7. Agrees({t}, {DiagonalOf(list)})
  BY <1>1, <1>2, <1>6, FilledAgrees
<1> QED BY <1>7 DEF t, n

-----------------------------------------------------------------------------
(* The same elements in other rows.                                         *)

Stacked(a, b) ==
  ArrayFrom(a.rows + b.rows, a.cols,
    [p \in Cells(a.rows + b.rows, a.cols) |->
       IF p[1] < a.rows THEN a.cell[<<p[1], p[2]>>] ELSE b.cell[<<p[1] - a.rows, p[2]>>]])

LEMMA Chained ==
  ASSUME NEW n \in Nat, NEW l \in Nat, NEW x \in [1..n -> Int], NEW y \in [1..l -> Int]
  PROVE  /\ Len(x \o y) = n + l /\ x \o y = [k \in 1..n + l |-> (x \o y)[k]]
         /\ \A k \in 1..n : (x \o y)[k] = x[k]
         /\ \A k \in 1..l : (x \o y)[n + k] = y[k]
<1>1. x \in Seq(Int) /\ y \in Seq(Int) /\ Len(x) = n /\ Len(y) = l
  <2>1. x \in Seq(Int) /\ y \in Seq(Int)
    BY SeqDef
  <2> QED BY <2>1
<1> DEFINE d == x \o y
<1>2. /\ d \in Seq(Int) /\ Len(d) = n + l
      /\ \A k \in 1..n + l : d[k] = IF k <= n THEN x[k] ELSE y[k - n]
  BY <1>1, ConcatProperties
<1> HIDE DEF d
<1>3. d = [k \in 1..n + l |-> d[k]]
  BY <1>2
<1>4. \A k \in 1..n : d[k] = x[k]
  BY <1>2
<1>5. \A k \in 1..l : d[n + k] = y[k]
  <2>1. \A k \in 1..l : n + k \in 1..n + l /\ ~(n + k <= n) /\ (n + k) - n = k
    OBVIOUS
  <2> QED BY <1>2, <2>1
<1> QED BY <1>2, <1>3, <1>4, <1>5 DEF d

LEMMA ConcatenateAgrees ==
  ASSUME NEW m, IsMatrix(m), NEW o, IsMatrix(o), m.cols = o.cols, NEW t,
         t = [rows |-> Len(m.data \o o.data) \div m.cols, cols |-> m.cols,
              data |-> m.data \o o.data]
  PROVE  Agrees({t}, {Stacked(ArrayOf(m), ArrayOf(o))})
<1> DEFINE a == ArrayOf(m)
           b == ArrayOf(o)
           s == m.rows
           c == m.cols
           r == s + o.rows
           f == [p \in Cells(r, c) |->
                   IF p[1] < s THEN a.cell[<<p[1], p[2]>>] ELSE b.cell[<<p[1] - s, p[2]>>]]
<1>1. s \in Nat \ {0} /\ c \in Nat \ {0} /\ o.rows \in Nat \ {0} /\ o.cols = c
      /\ a.rows = s /\ a.cols = c /\ b.rows = o.rows /\ b.cols = c
  BY ArrayIs DEF IsMatrix
<1>2. Stacked(a, b) = ArrayFrom(r, c, f)
  BY <1>1 DEF Stacked
<1> DEFINE n == s * c
           n2 == o.rows * c
<1>3. n \in Nat /\ n2 \in Nat /\ r * c = n + n2 /\ r \in Nat \ {0}
  BY <1>1
<1>4. m.data \in [1..n -> Int] /\ o.data \in [1..n2 -> Int]
  BY <1>1 DEF IsMatrix
<1> HIDE DEF n, n2
<1> DEFINE d == m.data \o o.data
<1>6. /\ d = [k \in 1..r * c |-> d[k]] /\ Len(d) = r * c
      /\ \A k \in 1..n : d[k] = m.data[k]
      /\ \A k \in 1..n2 : d[n + k] = o.data[k]
  <2> DEFINE x == m.data
             y == o.data
  <2>1. n \in Nat /\ n2 \in Nat /\ x \in [1..n -> Int] /\ y \in [1..n2 -> Int]
    BY <1>3, <1>4
  <2> HIDE DEF x, y
  <2>3. /\ Len(x \o y) = n + n2 /\ x \o y = [k \in 1..n + n2 |-> (x \o y)[k]]
        /\ \A k \in 1..n : (x \o y)[k] = x[k]
        /\ \A k \in 1..n2 : (x \o y)[n + k] = y[k]
    BY ONLY <2>1, Chained
  <2>2. /\ d = [k \in 1..n + n2 |-> d[k]] /\ Len(d) = n + n2
        /\ \A k \in 1..n : d[k] = m.data[k]
        /\ \A k \in 1..n2 : d[n + k] = o.data[k]
    BY ONLY <2>3 DEF x, y
  <2> HIDE DEF r, c, d
  <2> QED BY ONLY <2>2, <1>3
<1>7. Len(d) \div c = r
  <2> DEFINE l == r * c
  <2>1. (r * c + 0) \div c = r
    BY <1>1, <1>3, DivMod
  <2> HIDE DEF d
  <2> QED BY <1>3, <1>6, <2>1
<1>8. t = [rows |-> r, cols |-> c, data |-> d]
  BY <1>7
<1>9. ASSUME NEW i \in 0..r - 1, NEW j \in 0..c - 1
      PROVE  d[i * c + j + 1] = f[<<i, j>>] /\ f[<<i, j>>] \in Int
  <2>1. f[<<i, j>>] = IF i < s THEN a.cell[<<i, j>>] ELSE b.cell[<<i - s, j>>]
    BY DEF Cells
  <2>2. CASE i < s
    <3>1. i \in 0..s - 1 /\ i \in Nat
      BY <1>1, <2>2
    <3>2. a.cell[<<i, j>>] = m.data[i * c + j + 1]
      BY <3>1, ArrayIs
    <3>3. i * c + j \in 0..n - 1
      BY <1>1, <3>1, RowsFit DEF n
    <3> DEFINE k == i * c + j + 1
    <3>4. k \in 1..n
      BY <3>3, <1>3
    <3> HIDE DEF f, d, a, k
    <3>5. d[k] = m.data[k] /\ m.data[k] \in Int
      BY <1>4, <1>6, <3>4
    <3> QED BY <2>1, <2>2, <3>2, <3>5 DEF k
  <2>3. CASE i >= s
    <3> DEFINE i2 == i - s
               l == o.rows
    <3>1. i2 \in 0..o.rows - 1 /\ i2 \in Nat /\ i = s + i2 /\ ~(i < s)
      <4>1. s \in Nat /\ l \in Nat /\ i \in 0..s + l - 1 /\ i >= s
        BY <1>1, <2>3
      <4> HIDE DEF s, l
      <4>2. i2 \in 0..l - 1 /\ i2 \in Nat /\ i = s + i2 /\ ~(i < s)
        BY ONLY <4>1 DEF i2
      <4> QED BY <4>2 DEF l
    <3>2. b.cell[<<i2, j>>] = o.data[i2 * c + j + 1]
      BY <1>1, <3>1, ArrayIs
    <3>3. i2 * c + j \in 0..n2 - 1 /\ i2 * c \in Nat
      BY <1>1, <3>1, RowsFit DEF n2
    <3> DEFINE k == i2 * c + j + 1
    <3> HIDE DEF i2
    <3>4. k \in 1..n2
      BY <3>3, <1>3
    <3>5. i * c + j + 1 = n + k
      <4>1. i * c = s * c + i2 * c
        BY <1>1, <3>1
      <4>2. n = s * c
        BY DEF n
      <4>3. s * c \in Nat
        BY <1>1
      <4> QED BY <3>3, <4>1, <4>2, <4>3
    <3> HIDE DEF f, d, b, k
    <3>6. d[n + k] = o.data[k] /\ o.data[k] \in Int
      BY <1>4, <1>6, <3>4
    <3>7. f[<<i, j>>] = o.data[k]
      BY <2>1, <3>1, <3>2 DEF k, i2
    <3> QED BY <3>5, <3>6, <3>7
  <2>4. i < s \/ i >= s
    <3>1. s \in Nat /\ r \in Nat
      BY <1>1, <1>3
    <3> HIDE DEF s, r
    <3> QED BY <3>1
  <2> QED BY <2>2, <2>3, <2>4
<1>10. f = [p \in Cells(r, c) |-> f[p]]
  OBVIOUS
<1> HIDE DEF f, d, r, c, a, b, s
<1>11. FilledBy(t, r, c, f)
  BY ONLY <1>6, <1>8, <1>9, <1>10 DEF FilledBy
<1> QED BY <1>1, <1>2, <1>3, <1>11, FilledAgrees DEF a, b

Reshaped(a, r, c) ==
  ArrayFrom(r, c, [p \in Cells(r, c) |->
    a.cell[<<(p[1] * c + p[2]) \div a.cols, (p[1] * c + p[2]) % a.cols>>]])

LEMMA ReshapeAgrees ==
  ASSUME NEW m, IsMatrix(m), Small(m), IndexLimit \in Nat, NEW r \in Nat, NEW c \in Nat,
         \A t \in M!Reshape(m, r, c) : Small(t),
         NEW arrays, arrays = IF r = 0 \/ c = 0 \/ r * c # m.rows * m.cols THEN {}
                              ELSE {Reshaped(ArrayOf(m), r, c)}
  PROVE  Agrees(M!Reshape(m, r, c), arrays)
<1> DEFINE a == ArrayOf(m)
           t == [rows |-> r, cols |-> c, data |-> m.data]
           n == m.rows * m.cols
<1>1. m.rows \in Nat \ {0} /\ m.cols \in Nat \ {0} /\ a.rows = m.rows /\ a.cols = m.cols
      /\ m = [rows |-> m.rows, cols |-> m.cols, data |-> m.data] /\ m.data \in [1..n -> Int]
  BY ArrayIs DEF IsMatrix
<1>2. n \in Nat /\ n < IndexLimit /\ n # 0
  <2>1. n \in Nat /\ n < IndexLimit
    BY SmallBounds
  <2>2. m.rows * m.cols >= m.cols
    <3>1. 0 \in 0..m.rows - 1 /\ m.cols - 1 \in 0..m.cols - 1 /\ m.rows \in Nat /\ m.cols \in Nat
      BY <1>1
    <3>2. 0 * m.cols + (m.cols - 1) \in 0..m.rows * m.cols - 1
      BY <3>1, RowsFit
    <3> QED BY <1>1, <2>1, <3>2
  <2> QED BY <1>1, <2>1, <2>2
<1>3. t = [rows |-> r, cols |-> c, data |-> m.data]
  OBVIOUS
<1>4. M!Reshape(m, r, c) = IF (r * c) % IndexLimit # n % IndexLimit THEN {} ELSE {t}
  BY DEF M!Reshape
<1>5. n % IndexLimit = n
  <2> HIDE DEF n
  <2> QED BY <1>2
<1>6. CASE M!Reshape(m, r, c) = {}
  <2>1. r * c # n
    BY <1>4, <1>6
  <2> QED BY <1>6, <2>1 DEF Agrees
<1>7. CASE M!Reshape(m, r, c) # {}
  <2>1. M!Reshape(m, r, c) = {t} /\ (r * c) % IndexLimit = n
    BY <1>4, <1>5, <1>7
  <2>2. (r + 2) * c < IndexLimit
    <3>1. Small(t)
      BY <2>1
    <3> HIDE DEF t
    <3> QED BY <1>3, <3>1 DEF Small
  <2>3. r * c \in Nat /\ r * c < IndexLimit
    <3>1. (r + 2) * c = r * c + 2 * c /\ r * c \in Nat
      OBVIOUS
    <3> QED BY <2>2, <3>1
  <2>4. r * c = n
    <3> DEFINE l == r * c
    <3>1. l \in Nat /\ l < IndexLimit /\ l % IndexLimit = n
      BY <2>1, <2>3
    <3> HIDE DEF l
    <3>2. l % IndexLimit = l
      BY <3>1
    <3> QED BY <3>1, <3>2 DEF l
  <2>5. r # 0 /\ c # 0
    <3>1. 0 * c = 0 /\ r * 0 = 0
      OBVIOUS
    <3> QED BY <1>2, <2>4, <3>1
  <2> DEFINE f == [p \in Cells(r, c) |->
               a.cell[<<(p[1] * c + p[2]) \div a.cols, (p[1] * c + p[2]) % a.cols>>]]
  <2>6. arrays = {ArrayFrom(r, c, f)}
    BY <2>4, <2>5 DEF Reshaped
  <2>7. ASSUME NEW i \in 0..r - 1, NEW j \in 0..c - 1
        PROVE  f[<<i, j>>] = m.data[i * c + j + 1] /\ f[<<i, j>>] \in Int
    <3> DEFINE l == i * c + j
               q == l \div m.cols
               e == l % m.cols
    <3>1. f[<<i, j>>] = a.cell[<<q, e>>]
      BY <1>1 DEF Cells
    <3>2. l \in 0..m.rows * m.cols - 1
      BY <2>4, RowsFit
    <3>3. q \in 0..m.rows - 1 /\ e \in 0..m.cols - 1 /\ q * m.cols + e = l
      <4> HIDE DEF l
      <4>1. m.rows \in Nat /\ m.cols \in Nat \ {0}
        BY <1>1
      <4> QED BY <3>2, <4>1, RowAndColumn
    <3> HIDE DEF q, e, f
    <3>4. a.cell[<<q, e>>] = m.data[q * m.cols + e + 1]
      BY <3>3, ArrayIs
    <3>5. l + 1 \in 1..n
      <4> HIDE DEF l
      <4> QED BY <3>2, <1>2
    <3> HIDE DEF l
    <3>6. m.data[l + 1] \in Int
      BY <1>1, <3>5
    <3>7. m.data[q * m.cols + e + 1] = m.data[l + 1]
      BY <3>3
    <3> QED BY <3>1, <3>4, <3>6, <3>7 DEF l
  <2>8. f = [p \in Cells(r, c) |-> f[p]]
    OBVIOUS
  <2> HIDE DEF f, t
  <2>9. m.data = [k \in 1..r * c |-> m.data[k]]
    BY <1>1, <2>4
  <2>10. FilledBy(t, r, c, f)
    BY <1>3, <2>7, <2>8, <2>9 DEF FilledBy
  <2>11. r \in Nat \ {0} /\ c \in Nat \ {0}
    BY <2>5
  <2> QED BY <2>1, <2>6, <2>10, <2>11, FilledAgrees
<1> QED BY <1>6, <1>7

-----------------------------------------------------------------------------
(* Rows and columns next to each other.                                     *)

Consecutive(low, high) == [k \in 1..high - low |-> low + (k - 1)]

LEMMA SpanBound ==
  ASSUME NEW s \in Slices, NEW n \in Nat \ {0}, SpanAside(s, n) = {}
  PROVE  /\ BoundStart(s, n) \in Nat /\ BoundStop(s, n) \in Nat
         /\ BoundStart(s, n) < BoundStop(s, n) /\ BoundStop(s, n) <= n
         /\ BoundEnds(s, n) = {[start |-> BoundStart(s, n), stop |-> BoundStop(s, n)]}
         /\ Chosen(s, n) = Consecutive(BoundStart(s, n), BoundStop(s, n))
<1>1. BoundStep(s) = 1 /\ Chosen(s, n) # << >>
  BY DEF SpanAside, If
<1> DEFINE b == PythonBound(s, n)
           low == BoundStart(s, n)
           high == BoundStop(s, n)
<1>2. b.step = 1 /\ b.start = PyStart(s, n) /\ b.stop = PyStop(s, n)
  BY <1>1 DEF PythonBound, PyStart, PyStop
<1>3. b.start \in Int /\ b.stop \in Int
  BY <1>2, PythonTypes
<1> HIDE DEF b
<1>4. b.start < n /\ b.start < b.stop
  <2>1. Positions(b, n) # << >>
    BY <1>1 DEF Chosen, b
  <2> QED BY <1>2, <1>3, <2>1, NoPositions
<1>5. low = b.start /\ high = b.stop
  BY <1>1, <1>2, <1>4, PythonForward
<1>6. low >= 0 /\ high <= n
  <2>1. /\ s.start = None \/ s.start \in Int
        /\ s.stop = None \/ s.stop \in Int
        /\ Forward(s)
    BY <1>1, BoundTypes DEF Slices, Field
  <2>2. \A i \in Int : FromEnd(i, n) \in Int
    BY FromEndType
  <2>3. low >= 0
    <3>1. CASE s.start = None
      BY <2>1, <3>1 DEF BoundStart
    <3>2. CASE s.start \in Int
      <4>1. FromEnd(s.start, n) \in Int /\ n - 1 \in Int
        BY <2>2, <3>2
      <4>2. 0 <= Clamp(FromEnd(s.start, n), 0, n - 1)
        BY <4>1, ClampBetween
      <4> QED BY <3>2, <4>2, NoneAssumption DEF BoundStart
    <3> QED BY <2>1, <3>1, <3>2
  <2>4. high <= n
    <3>1. CASE s.stop = None
      BY <2>1, <3>1 DEF BoundStop
    <3>2. CASE s.stop \in Int
      <4>1. FromEnd(s.stop, n) \in Int /\ n \in Int /\ 0 <= n
        BY <2>2, <3>2
      <4>2. Clamp(FromEnd(s.stop, n), 0, n) <= n
        BY <4>1, ClampBetween
      <4> QED BY <3>2, <4>2, NoneAssumption DEF BoundStop
    <3> QED BY <2>1, <3>1, <3>2
  <2> QED BY <2>3, <2>4
<1> HIDE DEF low, high
<1>7. low \in Nat /\ high \in Nat /\ low < high /\ high <= n
  BY <1>3, <1>4, <1>5, <1>6
<1>8. BoundEnds(s, n) = {[start |-> low, stop |-> high]}
  <2>1. ~BindThrows(s, n)
    BY <1>1, <1>7 DEF BindThrows, Bound, low, high
  <2>2. Unsigned(low) = {low} /\ Unsigned(high) = {high}
    BY <1>7 DEF Unsigned
  <2>3. BoundEnds(s, n) = {[start |-> i, stop |-> j] : i \in Unsigned(low), j \in Unsigned(high)}
    BY <2>1 DEF BoundEnds, low, high
  <2> QED BY <2>2, <2>3
<1>9. Chosen(s, n) = Consecutive(low, high)
  <2>1. Chosen(s, n) = [k \in 1..Steps(low, high, 1) |-> low + (k - 1) * 1]
    <3>1. ~(b.start >= n)
      BY <1>3, <1>4
    <3>2. Positions(b, n) = [k \in 1..Steps(b.start, b.stop, b.step) |-> b.start + (k - 1) * b.step]
      BY <3>1 DEF Positions
    <3>3. Chosen(s, n) = Positions(b, n)
      BY DEF Chosen, b
    <3> QED BY ONLY <1>2, <1>5, <3>2, <3>3
  <2>2. Steps(low, high, 1) = high - low
    BY <1>7 DEF Steps
  <2>3. \A k \in 1..high - low : low + (k - 1) * 1 = low + (k - 1)
    BY <1>7
  <2> QED BY <2>1, <2>2, <2>3 DEF Consecutive
<1> QED BY <1>7, <1>8, <1>9 DEF low, high

LEMMA ConsecutiveIs ==
  ASSUME NEW low \in Nat, NEW high \in Nat, low < high
  PROVE  /\ Len(Consecutive(low, high)) = high - low /\ Consecutive(low, high) # << >>
         /\ DOMAIN Consecutive(low, high) = 1..high - low
         /\ \A k \in 1..high - low : Consecutive(low, high)[k] = low + (k - 1)
<1> DEFINE n == high - low
           s == [k \in 1..n |-> low + (k - 1)]
<1>1. n \in Nat /\ n # 0
  OBVIOUS
<1> HIDE DEF n
<1>2. s \in Seq(Int) /\ Len(s) = n /\ s # << >>
  <2>1. s \in [1..n -> Int]
    BY <1>1
  <2> HIDE DEF s
  <2>2. s \in Seq(Int)
    BY <1>1, <2>1, SeqDef
  <2>3. Len(s) = n
    BY <1>1, <2>1, <2>2
  <2> QED BY <1>1, <2>2, <2>3
<1>3. DOMAIN s = 1..n /\ \A k \in 1..n : s[k] = low + (k - 1)
  OBVIOUS
<1> QED BY <1>2, <1>3 DEF Consecutive, n

\* A part of an array.
Window(a, i, j, i2, j2) ==
  ArrayFrom(i2 - i, j2 - j, [p \in Cells(i2 - i, j2 - j) |-> a.cell[<<i + p[1], j + p[2]>>]])

LEMMA SelectedIs ==
  ASSUME NEW a, NEW i \in Nat, NEW i2 \in Nat, i < i2, NEW j \in Nat, NEW j2 \in Nat, j < j2
  PROVE  Selected(a, Consecutive(i, i2), Consecutive(j, j2)) = {Window(a, i, j, i2, j2)}
<1> DEFINE rows == Consecutive(i, i2)
           cols == Consecutive(j, j2)
           r == i2 - i
           c == j2 - j
<1>1. rows # << >> /\ cols # << >> /\ Len(rows) = r /\ Len(cols) = c
  BY ConsecutiveIs
<1>2. ASSUME NEW p \in Cells(r, c)
      PROVE  rows[p[1] + 1] = i + p[1] /\ cols[p[2] + 1] = j + p[2]
  <2>1. p[1] \in 0..r - 1 /\ p[2] \in 0..c - 1
    BY DEF Cells
  <2>2. p[1] + 1 \in 1..i2 - i /\ p[2] + 1 \in 1..j2 - j
    BY <2>1
  <2>3. rows[p[1] + 1] = i + ((p[1] + 1) - 1) /\ cols[p[2] + 1] = j + ((p[2] + 1) - 1)
    BY <2>2, ConsecutiveIs
  <2>4. (p[1] + 1) - 1 = p[1] /\ (p[2] + 1) - 1 = p[2]
    BY <2>1
  <2> QED BY <2>3, <2>4
<1>3. Selected(a, rows, cols) =
        {ArrayFrom(r, c, [p \in Cells(r, c) |-> a.cell[<<rows[p[1] + 1], cols[p[2] + 1]>>]])}
  <2> HIDE DEF rows, cols, r, c
  <2> QED BY <1>1 DEF Selected, Array, ArrayFrom
<1> HIDE DEF rows, cols
<1>4. Selected(a, rows, cols) = {Window(a, i, j, i2, j2)}
  BY <1>2, <1>3 DEF Window
<1> QED BY <1>4 DEF rows, cols

LEMMA SliceAgrees ==
  ASSUME NEW m, IsMatrix(m), Small(m), IndexLimit \in Nat,
         NEW i \in Nat, NEW i2 \in Nat, i < i2, i2 <= m.rows,
         NEW j \in Nat, NEW j2 \in Nat, j < j2, j2 <= m.cols
  PROVE  Agrees(M!GetSlice(m, i, j, i2, j2), {Window(ArrayOf(m), i, j, i2, j2)})
<1> DEFINE a == ArrayOf(m)
           r == i2 - i
           c == j2 - j
           f == [p \in Cells(r, c) |-> a.cell[<<i + p[1], j + p[2]>>]]
           t == M!Filled(r, c, LAMBDA k, l : M!At(m, i + k, j + l))
<1>1. r \in Nat \ {0} /\ c \in Nat \ {0}
  OBVIOUS
<1>2. Window(a, i, j, i2, j2) = ArrayFrom(r, c, f)
  BY DEF Window
<1>3. M!GetSlice(m, i, j, i2, j2) = {t}
  <2>1. m.rows \in Nat /\ m.cols \in Nat
    BY DEF IsMatrix
  <2>2. ~(i2 > m.rows) /\ ~(j2 > m.cols) /\ ~(i >= i2) /\ ~(j >= j2)
    BY <2>1
  <2> QED BY <2>2 DEF M!GetSlice
<1>4. ASSUME NEW k \in 0..r - 1, NEW l \in 0..c - 1
      PROVE  f[<<k, l>>] = M!At(m, i + k, j + l) /\ f[<<k, l>>] \in Int
  <2>1. <<k, l>> \in Cells(r, c)
    BY DEF Cells
  <2>2. f[<<k, l>>] = a.cell[<<i + k, j + l>>]
    BY <2>1
  <2>3. i + k \in 0..m.rows - 1 /\ j + l \in 0..m.cols - 1
    <3>1. m.rows \in Nat /\ m.cols \in Nat
      BY DEF IsMatrix
    <3> QED BY <3>1
  <2> HIDE DEF f
  <2> QED BY <2>2, <2>3, AtIs
<1>5. t = [rows |-> r, cols |-> c,
           data |-> [k \in 1..r * c |-> M!At(m, i + ((k - 1) \div c), j + ((k - 1) % c))]]
  BY DEF M!Filled
<1>6. f = [p \in Cells(r, c) |-> f[p]]
  OBVIOUS
<1> HIDE DEF f, t, r, c, a
<1>7. FilledBy(t, r, c, f)
  BY <1>4, <1>5, <1>6 DEF FilledBy
<1>8. Agrees({t}, {Window(a, i, j, i2, j2)})
  BY <1>1, <1>2, <1>7, FilledAgrees
<1> QED BY <1>3, <1>8 DEF a

LEMMA CutIs ==
  ASSUME NEW x, NEW low \in Int, NEW high \in Int, low <= high, \A k \in low..high : x[k] \in Int
  PROVE  /\ SubSeq(x, low, high) = [k \in 1..high - low + 1 |-> SubSeq(x, low, high)[k]]
         /\ \A k \in 1..high - low + 1 : SubSeq(x, low, high)[k] = x[low + k - 1]
<1> DEFINE d == SubSeq(x, low, high)
           n == high - low + 1
<1>1. d \in Seq(Int) /\ Len(d) = n /\ \A k \in 1..n : d[k] = x[low + k - 1]
  BY SubSeqProperties
<1> HIDE DEF d, n
<1>2. d = [k \in 1..n |-> d[k]]
  BY <1>1
<1> QED BY <1>1, <1>2 DEF d, n

LEMMA RowsAgree ==
  ASSUME NEW m, IsMatrix(m), Small(m), IndexLimit \in Nat,
         NEW i \in Nat, NEW i2 \in Nat, i < i2, i2 <= m.rows
  PROVE  Agrees(M!GetRows(m, i, i2), {Window(ArrayOf(m), i, 0, i2, m.cols)})
<1> DEFINE a == ArrayOf(m)
           c == m.cols
           r == i2 - i
           f == [p \in Cells(r, c) |-> a.cell[<<i + p[1], 0 + p[2]>>]]
           low == i * c + 1
           high == i2 * c
           d == SubSeq(m.data, low, high)
           t == [rows |-> r, cols |-> c, data |-> d]
           n == m.rows * c
<1>1. r \in Nat \ {0} /\ c \in Nat \ {0} /\ m.rows \in Nat \ {0} /\ c - 0 = c
  BY DEF IsMatrix
<1>2. Window(a, i, 0, i2, c) = ArrayFrom(r, c, f)
  BY <1>1 DEF Window
<1>3. M!GetRows(m, i, i2) = {t}
  <2>1. ~(i2 > m.rows) /\ ~(i >= i2)
    BY <1>1
  <2> QED BY <2>1 DEF M!GetRows
<1> HIDE DEF c
<1>4. /\ low \in Int /\ high \in Int /\ high - low + 1 = r * c /\ low <= high
      /\ low >= 1 /\ high <= n /\ n \in Nat
  <2>1. i2 = i + r
    OBVIOUS
  <2>2. i2 * c = i * c + r * c /\ i * c \in Nat /\ r * c \in Nat
    BY <1>1, <2>1
  <2>3. r * c >= 1
    <3>1. 0 \in 0..r - 1 /\ c - 1 \in 0..c - 1 /\ r \in Nat /\ c \in Nat
      BY <1>1
    <3>2. 0 * c + (c - 1) \in 0..r * c - 1
      BY ONLY <3>1, RowsFit
    <3> QED BY <1>1, <2>2, <3>2
  <2>4. high <= n /\ n \in Nat
    <3> DEFINE e == m.rows - i2
    <3>1. e \in Nat /\ m.rows = i2 + e
      BY <1>1
    <3> HIDE DEF e
    <3>2. n = i2 * c + e * c /\ e * c \in Nat /\ i2 * c \in Nat
      BY <1>1, <3>1
    <3> QED BY <3>2
  <2> QED BY <2>2, <2>3, <2>4
<1>5. m.data \in [1..n -> Int]
  BY DEF IsMatrix, c
<1> HIDE DEF n
<1>6. \A k \in low..high : m.data[k] \in Int
  <2> HIDE DEF low, high
  <2> QED BY <1>4, <1>5
<1>7. d = [k \in 1..r * c |-> d[k]] /\ \A k \in 1..r * c : d[k] = m.data[low + k - 1]
  <2> HIDE DEF low, high
  <2>1. /\ d = [k \in 1..high - low + 1 |-> d[k]]
        /\ \A k \in 1..high - low + 1 : d[k] = m.data[low + k - 1]
    BY <1>4, <1>6, CutIs
  <2> HIDE DEF d
  <2> QED BY <1>4, <2>1
<1>8. ASSUME NEW k \in 0..r - 1, NEW l \in 0..c - 1
      PROVE  f[<<k, l>>] = d[k * c + l + 1] /\ f[<<k, l>>] \in Int
  <2>1. f[<<k, l>>] = a.cell[<<i + k, l>>]
    BY DEF Cells
  <2>2. i + k \in 0..m.rows - 1 /\ i + k \in Nat
    BY <1>1
  <2>3. a.cell[<<i + k, l>>] = m.data[(i + k) * c + l + 1] /\ a.cell[<<i + k, l>>] \in Int
    <3>1. l \in 0..m.cols - 1
      BY DEF c
    <3>2. a.cell[<<i + k, l>>] = m.data[(i + k) * m.cols + l + 1]
      BY <2>2, <3>1, ArrayIs
    <3>3. a.cell[<<i + k, l>>] \in Int
      BY <2>2, <3>1, AtIs
    <3> QED BY <3>2, <3>3 DEF c
  <2>4. k * c + l \in 0..r * c - 1 /\ k * c \in Nat /\ r * c \in Nat
    BY <1>1, RowsFit
  <2> DEFINE e == k * c + l + 1
  <2>5. e \in 1..r * c
    BY <2>4
  <2>6. low + e - 1 = (i + k) * c + l + 1
    <3>1. (i + k) * c = i * c + k * c /\ i * c \in Nat
      BY <1>1
    <3> QED BY <2>4, <3>1
  <2> HIDE DEF e, d, low, f
  <2>7. d[e] = m.data[low + e - 1]
    BY <1>7, <2>5
  <2> QED BY <2>1, <2>3, <2>6, <2>7 DEF e
<1>9. f = [p \in Cells(r, c) |-> f[p]]
  OBVIOUS
<1>10. t = [rows |-> r, cols |-> c, data |-> d]
  OBVIOUS
<1> HIDE DEF f, t, r, a, d, low, high
<1>11. FilledBy(t, r, c, f)
  BY ONLY <1>7, <1>8, <1>9, <1>10 DEF FilledBy
<1>12. Agrees({t}, {Window(a, i, 0, i2, c)})
  BY <1>1, <1>2, <1>11, FilledAgrees
<1> QED BY <1>3, <1>12 DEF a, c

Placed(a, b, i, j, i2, j2) ==
  ArrayFrom(a.rows, a.cols, [p \in Cells(a.rows, a.cols) |->
    IF p[1] \in i..i2 - 1 /\ p[2] \in j..j2 - 1
      THEN b.cell[<<p[1] - i, p[2] - j>>] ELSE a.cell[<<p[1], p[2]>>]])

LEMMA PlaceInConsecutive ==
  ASSUME NEW low \in Nat, NEW high \in Nat, low < high, NEW x \in Nat
  PROVE  /\ (\E k \in DOMAIN Consecutive(low, high) : Consecutive(low, high)[k] = x)
              <=> x \in low..high - 1
         /\ x \in low..high - 1 => PlaceOf(x, Consecutive(low, high)) - 1 = x - low
<1> DEFINE s == Consecutive(low, high)
           n == high - low
<1>1. DOMAIN s = 1..n /\ \A k \in 1..n : s[k] = low + (k - 1)
  BY ConsecutiveIs
<1> HIDE DEF s
<1>2. \A k \in 1..n : s[k] = x <=> k = x - low + 1
  BY <1>1
<1>3. x \in low..high - 1 <=> x - low + 1 \in 1..n
  OBVIOUS
<1>4. x \in low..high - 1 => PlaceOf(x, s) = x - low + 1
  <2> HAVE x \in low..high - 1
  <2> DEFINE e == x - low + 1
  <2>1. e \in DOMAIN s /\ \A k \in DOMAIN s : s[k] = x <=> k = e
    BY <1>1, <1>2, <1>3
  <2> HIDE DEF e
  <2>2. PlaceOf(x, s) = e
    BY <2>1 DEF PlaceOf
  <2> QED BY <2>2 DEF e
<1>5. x \in low..high - 1 => PlaceOf(x, s) - 1 = x - low
  BY <1>4
<1>6. (\E k \in DOMAIN s : s[k] = x) <=> x \in low..high - 1
  BY <1>1, <1>2, <1>3
<1> QED BY <1>5, <1>6 DEF s

LEMMA ReplacedIs ==
  ASSUME NEW a, a.rows \in Nat, a.cols \in Nat, NEW b,
         NEW i \in Nat, NEW i2 \in Nat, i < i2, NEW j \in Nat, NEW j2 \in Nat, j < j2
  PROVE  Replaced(a, Consecutive(i, i2), Consecutive(j, j2), b) =
           IF b.rows # i2 - i \/ b.cols # j2 - j THEN {} ELSE {Placed(a, b, i, j, i2, j2)}
<1> DEFINE rows == Consecutive(i, i2)
           cols == Consecutive(j, j2)
           In(p) == (\E k \in DOMAIN rows : rows[k] = p[1]) /\ (\E k \in DOMAIN cols : cols[k] = p[2])
           r == a.rows
           c == a.cols
           f == [p \in Cells(r, c) |->
                   IF In(p) THEN b.cell[<<PlaceOf(p[1], rows) - 1, PlaceOf(p[2], cols) - 1>>]
                   ELSE a.cell[<<p[1], p[2]>>]]
           g == [p \in Cells(r, c) |->
                   IF p[1] \in i..i2 - 1 /\ p[2] \in j..j2 - 1
                     THEN b.cell[<<p[1] - i, p[2] - j>>] ELSE a.cell[<<p[1], p[2]>>]]
<1>1. rows # << >> /\ cols # << >> /\ Len(rows) = i2 - i /\ Len(cols) = j2 - j
  BY ConsecutiveIs
<1>2. Replaced(a, rows, cols, b) =
        IF b.rows # i2 - i \/ b.cols # j2 - j THEN {} ELSE {ArrayFrom(r, c, f)}
  <2> HIDE DEF rows, cols
  <2> QED BY <1>1 DEF Replaced, Array, ArrayFrom
<1>3. ASSUME NEW p \in Cells(r, c)
      PROVE  /\ In(p) <=> p[1] \in i..i2 - 1 /\ p[2] \in j..j2 - 1
             /\ In(p) => PlaceOf(p[1], rows) - 1 = p[1] - i /\ PlaceOf(p[2], cols) - 1 = p[2] - j
  <2>1. p[1] \in Nat /\ p[2] \in Nat
    BY DEF Cells
  <2> DEFINE x == p[1]
             y == p[2]
  <2>2. x \in Nat /\ y \in Nat
    BY <2>1
  <2> HIDE DEF x, y
  <2>3. /\ (\E k \in DOMAIN rows : rows[k] = x) <=> x \in i..i2 - 1
        /\ x \in i..i2 - 1 => PlaceOf(x, rows) - 1 = x - i
    BY <2>2, PlaceInConsecutive
  <2>4. /\ (\E k \in DOMAIN cols : cols[k] = y) <=> y \in j..j2 - 1
        /\ y \in j..j2 - 1 => PlaceOf(y, cols) - 1 = y - j
    BY <2>2, PlaceInConsecutive
  <2> HIDE DEF rows, cols
  <2> QED BY <2>3, <2>4 DEF x, y
<1> HIDE DEF In, rows, cols
<1>4. f = g
  BY <1>3
<1>5. Placed(a, b, i, j, i2, j2) = ArrayFrom(r, c, g)
  BY DEF Placed
<1> QED BY <1>2, <1>4, <1>5 DEF rows, cols

LEMMA SetSliceAgrees ==
  ASSUME NEW m, IsMatrix(m), Small(m), NEW o, IsMatrix(o), Small(o), IndexLimit \in Nat,
         NEW i \in Nat, NEW i2 \in Nat, i < i2, i2 <= m.rows,
         NEW j \in Nat, NEW j2 \in Nat, j < j2, j2 <= m.cols, NEW arrays,
         arrays = IF o.rows # i2 - i \/ o.cols # j2 - j THEN {}
                  ELSE {Placed(ArrayOf(m), ArrayOf(o), i, j, i2, j2)}
  PROVE  Agrees(M!SetSlice(m, i, j, i2, j2, o), arrays)
<1> DEFINE a == ArrayOf(m)
           b == ArrayOf(o)
           r == m.rows
           c == m.cols
           f == [p \in Cells(r, c) |->
                   IF p[1] \in i..i2 - 1 /\ p[2] \in j..j2 - 1
                     THEN b.cell[<<p[1] - i, p[2] - j>>] ELSE a.cell[<<p[1], p[2]>>]]
           t == M!Filled(r, c, LAMBDA k, l : IF k \in i..i2 - 1 /\ l \in j..j2 - 1
                                               THEN M!At(o, k - i, l - j) ELSE M!At(m, k, l))
           other == o.rows # i2 - i \/ o.cols # j2 - j
<1>1. r \in Nat \ {0} /\ c \in Nat \ {0} /\ a.rows = r /\ a.cols = c
  BY ArrayIs DEF IsMatrix
<1>2. M!SetSlice(m, i, j, i2, j2, o) = IF other THEN {} ELSE {t}
  <2>1. ~(i2 > m.rows) /\ ~(j2 > m.cols) /\ ~(i > i2) /\ ~(j > j2)
    BY <1>1
  <2> QED BY <2>1 DEF M!SetSlice
<1>3. arrays = IF other THEN {} ELSE {ArrayFrom(r, c, f)}
  BY <1>1 DEF Placed
<1>4. ASSUME ~other, NEW k \in 0..r - 1, NEW l \in 0..c - 1
      PROVE  /\ f[<<k, l>>] = IF k \in i..i2 - 1 /\ l \in j..j2 - 1
                                THEN M!At(o, k - i, l - j) ELSE M!At(m, k, l)
             /\ f[<<k, l>>] \in Int
  <2>1. f[<<k, l>>] = IF k \in i..i2 - 1 /\ l \in j..j2 - 1
                        THEN b.cell[<<k - i, l - j>>] ELSE a.cell[<<k, l>>]
    BY DEF Cells
  <2>2. ASSUME k \in i..i2 - 1, l \in j..j2 - 1
        PROVE  k - i \in 0..o.rows - 1 /\ l - j \in 0..o.cols - 1
    <3>1. k - i \in 0..(i2 - i) - 1 /\ l - j \in 0..(j2 - j) - 1
      BY <2>2
    <3> QED BY <1>4, <3>1
  <2>3. M!At(m, k, l) = a.cell[<<k, l>>] /\ a.cell[<<k, l>>] \in Int
    BY AtIs
  <2>4. ASSUME k \in i..i2 - 1, l \in j..j2 - 1
        PROVE  M!At(o, k - i, l - j) = b.cell[<<k - i, l - j>>] /\ b.cell[<<k - i, l - j>>] \in Int
    BY <2>2, <2>4, AtIs
  <2> HIDE DEF f, a, b
  <2> QED BY <2>1, <2>3, <2>4
<1>5. t = [rows |-> r, cols |-> c,
           data |-> [k \in 1..r * c |->
             IF (k - 1) \div c \in i..i2 - 1 /\ (k - 1) % c \in j..j2 - 1
               THEN M!At(o, ((k - 1) \div c) - i, ((k - 1) % c) - j)
               ELSE M!At(m, (k - 1) \div c, (k - 1) % c)]]
  BY DEF M!Filled
<1>6. f = [p \in Cells(r, c) |-> f[p]]
  OBVIOUS
<1> HIDE DEF f, t, r, c, a, b
<1>7. ASSUME ~other PROVE FilledBy(t, r, c, f)
  BY <1>4, <1>5, <1>6, <1>7 DEF FilledBy
<1> HIDE DEF other
<1>8. CASE ~other
  BY <1>1, <1>2, <1>3, <1>7, <1>8, FilledAgrees
<1>9. CASE other
  BY <1>2, <1>3, <1>9 DEF Agrees
<1> QED BY <1>8, <1>9

LEMMA OneIsConsecutive ==
  ASSUME NEW i \in Nat
  PROVE  <<i>> = Consecutive(i, i + 1)
<1>1. (i + 1) - i = 1
  OBVIOUS
<1>2. Consecutive(i, i + 1) = [k \in 1..1 |-> i + (k - 1)]
  BY <1>1 DEF Consecutive
<1>3. \A k \in 1..1 : i + (k - 1) = i
  OBVIOUS
<1>4. Consecutive(i, i + 1) = [k \in 1..1 |-> i]
  BY <1>2, <1>3
<1>5. <<i>> = [k \in 1..1 |-> i]
  OBVIOUS
<1> QED BY <1>4, <1>5

LEMMA SetElementAgrees ==
  ASSUME NEW m, IsMatrix(m), Small(m), IndexLimit \in Nat, NEW x \in Int,
         NEW i \in 0..m.rows - 1, NEW j \in 0..m.cols - 1
  PROVE  Agrees(M!SetElement(m, i, j, x),
                {Placed(ArrayOf(m), Constant(1, 1, x), i, j, i + 1, j + 1)})
<1> DEFINE a == ArrayOf(m)
           b == Constant(1, 1, x)
           r == m.rows
           c == m.cols
           f == [p \in Cells(r, c) |->
                   IF p[1] \in i..(i + 1) - 1 /\ p[2] \in j..(j + 1) - 1
                     THEN b.cell[<<p[1] - i, p[2] - j>>] ELSE a.cell[<<p[1], p[2]>>]]
           e == i * c + j
           d == [m.data EXCEPT ![e + 1] = x]
           t == [rows |-> r, cols |-> c, data |-> d]
           n == r * c
<1>1. r \in Nat \ {0} /\ c \in Nat \ {0} /\ a.rows = r /\ a.cols = c /\ i \in Nat /\ j \in Nat
  BY ArrayIs DEF IsMatrix
<1>2. M!SetElement(m, i, j, x) = {t}
  <2>1. ~(i >= m.rows) /\ ~(j >= m.cols)
    BY <1>1
  <2>2. M!Offset(m, i, j) = e
    BY AtIs
  <2> HIDE DEF e
  <2> QED BY <2>1, <2>2 DEF M!SetElement
<1>3. Placed(a, b, i, j, i + 1, j + 1) = ArrayFrom(r, c, f)
  BY <1>1 DEF Placed
<1>4. b.cell[<<0, 0>>] = x
  BY DEF Constant, ArrayFrom, Cells
<1>5. m.data \in [1..n -> Int] /\ e + 1 \in 1..n
  <2>1. m.data \in [1..n -> Int]
    BY DEF IsMatrix
  <2>2. e \in 0..n - 1 /\ n \in Nat
    BY <1>1, RowsFit
  <2> HIDE DEF e, n
  <2> QED BY <2>1, <2>2
<1> HIDE DEF n
<1>6. d \in [1..n -> Int] /\ \A k \in 1..n : d[k] = IF k = e + 1 THEN x ELSE m.data[k]
  <2> HIDE DEF e
  <2> QED BY <1>5
<1> HIDE DEF d
<1>7. ASSUME NEW k \in 0..r - 1, NEW l \in 0..c - 1
      PROVE  f[<<k, l>>] = d[k * c + l + 1] /\ f[<<k, l>>] \in Int
  <2> DEFINE e2 == k * c + l
  <2>1. f[<<k, l>>] = IF k \in i..(i + 1) - 1 /\ l \in j..(j + 1) - 1
                        THEN b.cell[<<k - i, l - j>>] ELSE a.cell[<<k, l>>]
    BY DEF Cells
  <2>2. (k \in i..(i + 1) - 1 <=> k = i) /\ (l \in j..(j + 1) - 1 <=> l = j) /\ i - i = 0 /\ j - j = 0
    BY <1>1
  <2>3. f[<<k, l>>] = IF k = i /\ l = j THEN x ELSE a.cell[<<k, l>>]
    <3> HIDE DEF f, b, a
    <3> QED BY <1>4, <2>1, <2>2
  <2>4. a.cell[<<k, l>>] = m.data[e2 + 1]
    BY ArrayIs
  <2>5. e2 + 1 \in 1..n
    <3>1. e2 \in 0..r * c - 1 /\ r * c \in Nat
      BY <1>1, RowsFit
    <3> HIDE DEF e2
    <3> QED BY <3>1 DEF n
  <2>6. e2 = e <=> k = i /\ l = j
    <3>1. k \in Nat
      BY <1>1
    <3>2. e2 \div c = k /\ e2 % c = l /\ e \div c = i /\ e % c = j
      BY <1>1, <3>1, DivMod
    <3>3. k = i /\ l = j => e2 = e
      OBVIOUS
    <3> HIDE DEF e, e2
    <3> QED BY <3>2, <3>3
  <2>7. e2 \in Int /\ e \in Int
    BY <1>1
  <2> HIDE DEF e, e2, f, a
  <2>8. d[e2 + 1] = IF e2 = e THEN x ELSE m.data[e2 + 1]
    BY <1>6, <2>5, <2>7
  <2>9. d[e2 + 1] \in Int
    BY <1>6, <2>5
  <2>10. f[<<k, l>>] = d[e2 + 1]
    BY <2>3, <2>4, <2>6, <2>8
  <2> QED BY <2>9, <2>10 DEF e2
<1>8. d = [k \in 1..r * c |-> d[k]]
  BY <1>6 DEF n
<1>9. f = [p \in Cells(r, c) |-> f[p]]
  OBVIOUS
<1>10. t = [rows |-> r, cols |-> c, data |-> d]
  OBVIOUS
<1> HIDE DEF f, t, r, c, a, b
<1>11. FilledBy(t, r, c, f)
  BY ONLY <1>7, <1>8, <1>9, <1>10 DEF FilledBy
<1>12. Agrees({t}, {Placed(a, b, i, j, i + 1, j + 1)})
  BY <1>1, <1>3, <1>11, FilledAgrees
<1> QED BY <1>2, <1>12 DEF a, b

-----------------------------------------------------------------------------
(* Positions and slices of a program.                                       *)

\* A position that is not in front of the first does not wrap, nor does the one
\* behind it.
LEMMA PlaceIsOne ==
  ASSUME NEW i \in Int, i + 1 < IndexLimit, IndexLimit \in Nat, NEW n \in Nat \ {0}, n < IndexLimit,
         FromEnd(i, n) >= 0
  PROVE  /\ PlaceIn(i, n) = FromEnd(i, n) /\ FromEnd(i, n) \in Nat
         /\ (PlaceIn(i, n) + 1) % IndexLimit = FromEnd(i, n) + 1
         /\ FromEnd(i, n) < n => OnePlace(i, n) = Consecutive(FromEnd(i, n), FromEnd(i, n) + 1)
         /\ FromEnd(i, n) >= n => OnePlace(i, n) = << >>
<1> DEFINE p == FromEnd(i, n)
<1>1. p \in Nat /\ p + 1 < IndexLimit
  BY DEF FromEnd
<1> HIDE DEF p
<1>2. p % IndexLimit = p /\ (p + 1) % IndexLimit = p + 1
  BY <1>1
<1>3. PlaceIn(i, n) = p
  BY <1>2 DEF PlaceIn, p
<1>4. p < n => OnePlace(i, n) = <<p>>
  BY <1>1 DEF OnePlace, p
<1>5. p >= n => OnePlace(i, n) = << >>
  BY <1>1 DEF OnePlace, p
<1>6. <<p>> = Consecutive(p, p + 1)
  BY <1>1, OneIsConsecutive
<1> QED BY <1>1, <1>2, <1>3, <1>4, <1>5, <1>6 DEF p

-----------------------------------------------------------------------------
(* Each call keeps the matrix the array.                                    *)

LEMMA TransposesKeeps ==
  ASSUME MatrixConstants, MatrixInv, aside = {}, Small(matrix), Transposes
  PROVE  MatrixInv'
<1>1. IsMatrix(matrix) /\ Present = ArrayOf(matrix) /\ IndexLimit \in Nat
  BY PresentIs DEF MatrixConstants
<1>2. Becomes({M!Transpose(matrix)}, {Transposed(Present)}, {})
  BY DEF Transposes, Transposed, Array, ArrayFrom
<1>3. Agrees({M!Transpose(matrix)}, {Transposed(Present)})
  BY <1>1, TransposeAgrees
<1> QED BY <1>2, <1>3, BecomesKeeps

LEMMA ScalesKeeps ==
  ASSUME MatrixConstants, MatrixInv, aside = {}, Small(matrix), NEW s \in Int, Scales(s)
  PROVE  MatrixInv'
<1>1. IsMatrix(matrix) /\ Present = ArrayOf(matrix) /\ IndexLimit \in Nat
  BY PresentIs DEF MatrixConstants
<1>2. Becomes({M!MultiplyScalar(matrix, s)}, {Scaled(Present, s)}, {})
  BY DEF Scales, Scaled, Array, ArrayFrom
<1>3. Agrees({M!MultiplyScalar(matrix, s)}, {Scaled(Present, s)})
  BY <1>1, ScaleAgrees
<1> QED BY <1>2, <1>3, BecomesKeeps

LEMMA DividesKeeps ==
  ASSUME MatrixConstants, MatrixInv, aside = {}, Small(matrix), NEW s \in Int, Divides(s)
  PROVE  MatrixInv'
<1>1. IsMatrix(matrix) /\ Present = ArrayOf(matrix) /\ IndexLimit \in Nat
  BY PresentIs DEF MatrixConstants
<1> DEFINE arrays == IF s = 0 THEN {} ELSE {Divided(Present, s)}
<1>2. Becomes(M!Divide(matrix, s), arrays, {})
  BY DEF Divides, Divided, Array, ArrayFrom
<1>3. Agrees(M!Divide(matrix, s), arrays)
  <2>1. CASE s = 0
    BY <2>1 DEF M!Divide, Agrees
  <2>2. CASE s # 0
    BY <1>1, <2>2, DivideAgrees
  <2> QED BY <2>1, <2>2
<1> HIDE DEF arrays
<1> QED BY <1>2, <1>3, BecomesKeeps

LEMMA AddsKeeps ==
  ASSUME MatrixConstants, MatrixInv, aside = {}, Small(matrix), NEW o \in Matrices, Adds(o)
  PROVE  MatrixInv'
<1>1. IsMatrix(matrix) /\ Present = ArrayOf(matrix) /\ IndexLimit \in Nat /\ IsMatrix(o) /\ Small(o)
  BY PresentIs DEF MatrixConstants
<1> DEFINE arrays == IF Compatible(matrix, o) THEN {Added(Present, ArrayOf(o))} ELSE {}
<1>2. Becomes(M!Add(matrix, o), arrays, {})
  <2>1. (\E d \in {"rows", "cols"} : Present[d] # ArrayOf(o)[d] /\ 1 \notin {Present[d], ArrayOf(o)[d]})
           <=> ~Compatible(matrix, o)
    BY <1>1, ArrayIs DEF Compatible, Directions
  <2>2. Broadcast(Present, ArrayOf(o), LAMBDA x, y : x + y) = arrays
    BY <2>1 DEF Broadcast, Added, Array, ArrayFrom
  <2> QED BY <2>2 DEF Adds
<1>3. Agrees(M!Add(matrix, o), arrays)
  BY <1>1, AddAgrees
<1> HIDE DEF arrays
<1> QED BY <1>2, <1>3, BecomesKeeps


LEMMA SubtractsKeeps ==
  ASSUME MatrixConstants, MatrixInv, aside = {}, Small(matrix), NEW o \in Matrices, Subtracts(o)
  PROVE  MatrixInv'
<1>1. IsMatrix(matrix) /\ Present = ArrayOf(matrix) /\ IndexLimit \in Nat /\ IsMatrix(o) /\ Small(o)
  BY PresentIs DEF MatrixConstants
<1> DEFINE arrays == IF Compatible(matrix, o) THEN {Subtracted(Present, ArrayOf(o))} ELSE {}
<1>2. Becomes(M!Subtract(matrix, o), arrays, {})
  <2>1. (\E d \in {"rows", "cols"} : Present[d] # ArrayOf(o)[d] /\ 1 \notin {Present[d], ArrayOf(o)[d]})
           <=> ~Compatible(matrix, o)
    BY <1>1, ArrayIs DEF Compatible, Directions
  <2>2. Broadcast(Present, ArrayOf(o), LAMBDA x, y : x - y) = arrays
    BY <2>1 DEF Broadcast, Subtracted, Array, ArrayFrom
  <2> QED BY <2>2 DEF Subtracts
<1>3. Agrees(M!Subtract(matrix, o), arrays)
  BY <1>1, SubtractAgrees
<1> HIDE DEF arrays
<1> QED BY <1>2, <1>3, BecomesKeeps

LEMMA MultipliesKeeps ==
  ASSUME MatrixConstants, MatrixInv, aside = {}, Small(matrix), NEW o \in Matrices, Multiplies(o)
  PROVE  MatrixInv'
<1>1. IsMatrix(matrix) /\ Present = ArrayOf(matrix) /\ IndexLimit \in Nat /\ IsMatrix(o) /\ Small(o)
  BY PresentIs DEF MatrixConstants
<1> DEFINE arrays == IF Compatible(matrix, o) THEN {Multiplied(Present, ArrayOf(o))} ELSE {}
<1>2. Becomes(M!Multiply(matrix, o), arrays, {})
  <2>1. (\E d \in {"rows", "cols"} : Present[d] # ArrayOf(o)[d] /\ 1 \notin {Present[d], ArrayOf(o)[d]})
           <=> ~Compatible(matrix, o)
    BY <1>1, ArrayIs DEF Compatible, Directions
  <2>2. Broadcast(Present, ArrayOf(o), LAMBDA x, y : x * y) = arrays
    BY <2>1 DEF Broadcast, Multiplied, Array, ArrayFrom
  <2> QED BY <2>2 DEF Multiplies
<1>3. Agrees(M!Multiply(matrix, o), arrays)
  BY <1>1, MultiplyAgrees
<1> HIDE DEF arrays
<1> QED BY <1>2, <1>3, BecomesKeeps

LEMMA ConcatenatesKeeps ==
  ASSUME MatrixConstants, MatrixInv, aside = {}, Small(matrix), NEW o \in Matrices, Concatenates(o)
  PROVE  MatrixInv'
<1>1. IsMatrix(matrix) /\ Present = ArrayOf(matrix) /\ IndexLimit \in Nat /\ IsMatrix(o) /\ Small(o)
  BY PresentIs DEF MatrixConstants
<1> DEFINE t == [rows |-> Len(matrix.data \o o.data) \div matrix.cols, cols |-> matrix.cols,
                 data |-> matrix.data \o o.data]
           results == IF matrix.cols # o.cols THEN {} ELSE {t}
           arrays == IF matrix.cols # o.cols THEN {} ELSE {Stacked(Present, ArrayOf(o))}
<1>2. Becomes(results, arrays, {})
  <2>1. Present.cols = matrix.cols /\ ArrayOf(o).rows = o.rows
    BY <1>1, ArrayIs
  <2> QED BY <2>1 DEF Concatenates, Stacked, Array, ArrayFrom
<1>3. Agrees(results, arrays)
  <2>1. CASE matrix.cols # o.cols
    BY <2>1 DEF Agrees
  <2>2. CASE matrix.cols = o.cols
    <3>1. Agrees({t}, {Stacked(Present, ArrayOf(o))})
      BY <1>1, <2>2, ConcatenateAgrees
    <3> QED BY <2>2, <3>1
  <2> QED BY <2>1, <2>2
<1> HIDE DEF arrays, results
<1> QED BY <1>2, <1>3, BecomesKeeps

LEMMA ShufflesKeeps ==
  ASSUME MatrixConstants, MatrixInv, aside = {}, Small(matrix),
         NEW order \in [0..matrix.rows - 1 -> 0..matrix.rows - 1], Shuffles(order)
  PROVE  MatrixInv'
<1>1. IsMatrix(matrix) /\ Present = ArrayOf(matrix) /\ IndexLimit \in Nat
  BY PresentIs DEF MatrixConstants
<1>2. Becomes({M!Shuffle(matrix, order)}, {Shuffled(Present, order)}, {})
  BY DEF Shuffles, Shuffled, Array, ArrayFrom
<1>3. Agrees({M!Shuffle(matrix, order)}, {Shuffled(Present, order)})
  BY <1>1, ShuffleAgrees
<1> QED BY <1>2, <1>3, BecomesKeeps

LEMMA EyesKeeps ==
  ASSUME MatrixConstants, MatrixInv, aside = {}, NEW n \in Int, Eyes(n)
  PROVE  MatrixInv'
<1> DEFINE results == UNION {M!Eye(k) : k \in Unsigned(n)}
           arrays == IF n <= 0 THEN {} ELSE {Identity(n)}
<1>1. Becomes(results, arrays, {})
  BY DEF Eyes, Identity, Array, ArrayFrom
<1>2. Agrees(results, arrays)
  <2>1. CASE n < 0
    BY <2>1 DEF Unsigned, Agrees
  <2>2. CASE n = 0
    <3>1. M!Eye(0) = {}
      BY DEF M!Eye
    <3>2. Unsigned(n) = {0} /\ arrays = {}
      BY <2>2 DEF Unsigned
    <3> QED BY <3>1, <3>2 DEF Agrees
  <2>3. CASE n > 0
    <3>1. results = M!Eye(n) /\ arrays = {Identity(n)}
      BY <2>3 DEF Unsigned
    <3>2. Agrees(M!Eye(n), {Identity(n)})
      BY <2>3, EyeAgrees
    <3> HIDE DEF results, arrays
    <3> QED BY <3>1, <3>2
  <2> QED BY <2>1, <2>2, <2>3
<1> HIDE DEF arrays, results
<1> QED BY <1>1, <1>2, BecomesKeeps

Uniform(r, c, x) == [rows |-> r, cols |-> c, data |-> [k \in 1..r * c |-> x]]

LEMMA FillsKeeps ==
  ASSUME MatrixConstants, MatrixInv, aside = {}, NEW r \in Int, NEW c \in Int, NEW x \in Int,
         Fills(r, c, x)
  PROVE  MatrixInv'
<1> DEFINE results == IF r = 0 \/ c = 0 THEN {} ELSE {Uniform(k, l, x) : k \in Unsigned(r), l \in Unsigned(c)}
           arrays == IF r <= 0 \/ c <= 0 THEN {} ELSE {Constant(r, c, x)}
<1>1. Becomes(results, arrays, {})
  BY DEF Fills, Constant, Array, ArrayFrom, Uniform, M!Filled
<1>2. Agrees(results, arrays)
  <2>1. CASE r <= 0 \/ c <= 0
    BY <2>1 DEF Unsigned, Agrees
  <2>2. CASE r > 0 /\ c > 0
    <3>1. Agrees({Uniform(r, c, x)}, {Constant(r, c, x)})
      <4>1. Agrees({M!Filled(r, c, LAMBDA i, j : x)}, {Constant(r, c, x)})
        <5>1. r \in Nat \ {0} /\ c \in Nat \ {0}
          BY <2>2
        <5> QED BY <5>1, FillAgrees
      <4> QED BY <4>1 DEF Uniform, M!Filled
    <3>2. results = {Uniform(r, c, x)} /\ arrays = {Constant(r, c, x)}
      BY <2>2 DEF Unsigned
    <3> HIDE DEF results, arrays
    <3> QED BY <3>1, <3>2
  <2> QED BY <2>1, <2>2
<1> HIDE DEF arrays, results
<1> QED BY <1>1, <1>2, BecomesKeeps

LEMMA DiagonalKeeps ==
  ASSUME MatrixConstants, MatrixInv, aside = {}, NEW list \in Seq(Int), list # << >>, Diagonal(list)
  PROVE  MatrixInv'
<1> DEFINE t == M!Filled(Len(list), Len(list), LAMBDA i, j : IF i = j THEN list[i + 1] ELSE 0)
<1>1. Becomes({t}, {DiagonalOf(list)}, {})
  BY DEF Diagonal, DiagonalOf, Array, ArrayFrom
<1>2. Agrees({t}, {DiagonalOf(list)})
  BY DiagonalAgrees
<1> HIDE DEF t
<1> QED BY <1>1, <1>2, BecomesKeeps


LEMMA ReshapesKeeps ==
  ASSUME MatrixConstants, MatrixInv, aside = {}, Small(matrix), Small(matrix'),
         NEW r \in Int, NEW c \in Int, Reshapes(r, c)
  PROVE  MatrixInv'
<1>1. IsMatrix(matrix) /\ Present = ArrayOf(matrix) /\ IndexLimit \in Nat
  BY PresentIs DEF MatrixConstants
<1>2. Present.rows = matrix.rows /\ Present.cols = matrix.cols
  BY <1>1, ArrayIs
<1> DEFINE results == UNION {M!Reshape(matrix, k, l) : k \in Unsigned(r), l \in Unsigned(c)}
           arrays == IF r <= 0 \/ c <= 0 \/ r * c # matrix.rows * matrix.cols THEN {}
                     ELSE {Reshaped(Present, r, c)}
<1>3. Becomes(results, arrays, {})
  BY <1>2 DEF Reshapes, Reshaped, Array, ArrayFrom
<1>4. Agrees(results, arrays)
  <2>1. CASE r < 0 \/ c < 0
    <3>1. Unsigned(r) = {} \/ Unsigned(c) = {}
      BY <2>1 DEF Unsigned
    <3>2. results = {} /\ arrays = {}
      BY <2>1, <3>1
    <3> QED BY <3>2 DEF Agrees
  <2>2. CASE r >= 0 /\ c >= 0
    <3>1. r \in Nat /\ c \in Nat /\ Unsigned(r) = {r} /\ Unsigned(c) = {c}
      BY <2>2 DEF Unsigned
    <3>2. results = M!Reshape(matrix, r, c)
      BY <3>1
    <3>3. \A t \in results : results = {t}
      BY <3>2 DEF M!Reshape
    <3>4. \A t \in results : Small(t)
      <4>1. results = {} \/ matrix' \in results
        BY <1>3 DEF Becomes
      <4> HIDE DEF results
      <4>2. \A t \in results : t = matrix'
        BY <3>3, <4>1
      <4> QED BY <4>2
    <3>5. arrays = IF r = 0 \/ c = 0 \/ r * c # matrix.rows * matrix.cols THEN {}
                   ELSE {Reshaped(ArrayOf(matrix), r, c)}
      BY <1>1, <3>1
    <3>6. \A t \in M!Reshape(matrix, r, c) : Small(t)
      BY <3>2, <3>4
    <3> HIDE DEF arrays, results
    <3>7. Agrees(M!Reshape(matrix, r, c), arrays)
      BY <1>1, <3>1, <3>5, <3>6, ReshapeAgrees
    <3> QED BY <3>2, <3>7
  <2> QED BY <2>1, <2>2
<1> HIDE DEF arrays, results
<1> QED BY <1>3, <1>4, BecomesKeeps

LEMMA SelectsRowsKeeps ==
  ASSUME MatrixConstants, MatrixInv, aside = {}, Small(matrix), NEW s \in Slices, SelectsRows(s)
  PROVE  MatrixInv'
<1>1. IsMatrix(matrix) /\ Present = ArrayOf(matrix) /\ IndexLimit \in Nat
  BY PresentIs DEF MatrixConstants
<1>2. Present.rows = matrix.rows /\ Present.cols = matrix.cols
  BY <1>1, ArrayIs
<1>3. matrix.rows \in Nat \ {0} /\ matrix.cols \in Nat \ {0}
  BY <1>1 DEF IsMatrix
<1> DEFINE results == UNION {M!GetRows(matrix, e.start, e.stop) : e \in BoundEnds(s, matrix.rows)}
           columns == [j \in 1..matrix.cols |-> j - 1]
           arrays == Selected(Present, Chosen(s, matrix.rows), columns)
           i == BoundStart(s, matrix.rows)
           i2 == BoundStop(s, matrix.rows)
<1>4. Becomes(results, arrays, SpanAside(s, matrix.rows))
  BY <1>2 DEF SelectsRows
<1>5. ASSUME SpanAside(s, matrix.rows) = {}
      PROVE  Agrees(results, arrays)
  <2>1. /\ i \in Nat /\ i2 \in Nat /\ i < i2 /\ i2 <= matrix.rows
        /\ BoundEnds(s, matrix.rows) = {[start |-> i, stop |-> i2]}
        /\ Chosen(s, matrix.rows) = Consecutive(i, i2)
    BY <1>3, <1>5, SpanBound
  <2> HIDE DEF i, i2
  <2>2. columns = Consecutive(0, matrix.cols)
    BY <1>3 DEF Consecutive
  <2>3. arrays = {Window(Present, i, 0, i2, matrix.cols)}
    <3>1. arrays = Selected(Present, Consecutive(i, i2), Consecutive(0, matrix.cols))
      BY <2>1, <2>2
    <3>2. 0 \in Nat /\ matrix.cols \in Nat /\ 0 < matrix.cols
      BY <1>3
    <3> HIDE DEF arrays
    <3> QED BY <2>1, <3>1, <3>2, SelectedIs
  <2>4. results = M!GetRows(matrix, i, i2)
    BY <2>1
  <2> HIDE DEF results, arrays
  <2> QED BY <1>1, <2>1, <2>3, <2>4, RowsAgree
<1> HIDE DEF arrays, results
<1> QED BY <1>4, <1>5, BecomesKeeps

LEMMA SelectsBothKeeps ==
  ASSUME MatrixConstants, MatrixInv, aside = {}, Small(matrix), NEW s \in Slices, NEW t \in Slices,
         SelectsBoth(s, t)
  PROVE  MatrixInv'
<1>1. IsMatrix(matrix) /\ Present = ArrayOf(matrix) /\ IndexLimit \in Nat
  BY PresentIs DEF MatrixConstants
<1>2. Present.rows = matrix.rows /\ Present.cols = matrix.cols
  BY <1>1, ArrayIs
<1>3. matrix.rows \in Nat \ {0} /\ matrix.cols \in Nat \ {0}
  BY <1>1 DEF IsMatrix
<1> DEFINE results == UNION {M!GetSlice(matrix, e.start, f.start, e.stop, f.stop) :
                               e \in BoundEnds(s, matrix.rows), f \in BoundEnds(t, matrix.cols)}
           arrays == Selected(Present, Chosen(s, matrix.rows), Chosen(t, matrix.cols))
           why == SpanAside(s, matrix.rows) \cup SpanAside(t, matrix.cols)
           i == BoundStart(s, matrix.rows)
           i2 == BoundStop(s, matrix.rows)
           j == BoundStart(t, matrix.cols)
           j2 == BoundStop(t, matrix.cols)
<1>4. Becomes(results, arrays, why)
  BY <1>2 DEF SelectsBoth
<1>5. ASSUME why = {}
      PROVE  Agrees(results, arrays)
  <2>0. SpanAside(s, matrix.rows) = {} /\ SpanAside(t, matrix.cols) = {}
    BY <1>5
  <2>1. /\ i \in Nat /\ i2 \in Nat /\ i < i2 /\ i2 <= matrix.rows
        /\ BoundEnds(s, matrix.rows) = {[start |-> i, stop |-> i2]}
        /\ Chosen(s, matrix.rows) = Consecutive(i, i2)
    BY <1>3, <2>0, SpanBound
  <2>2. /\ j \in Nat /\ j2 \in Nat /\ j < j2 /\ j2 <= matrix.cols
        /\ BoundEnds(t, matrix.cols) = {[start |-> j, stop |-> j2]}
        /\ Chosen(t, matrix.cols) = Consecutive(j, j2)
    BY <1>3, <2>0, SpanBound
  <2> HIDE DEF i, i2, j, j2
  <2>3. arrays = {Window(Present, i, j, i2, j2)}
    <3>1. arrays = Selected(Present, Consecutive(i, i2), Consecutive(j, j2))
      BY <2>1, <2>2
    <3> HIDE DEF arrays
    <3> QED BY <2>1, <2>2, <3>1, SelectedIs
  <2>4. results = M!GetSlice(matrix, i, j, i2, j2)
    BY <2>1, <2>2
  <2> HIDE DEF results, arrays
  <2> QED BY <1>1, <2>1, <2>2, <2>3, <2>4, SliceAgrees
<1> HIDE DEF arrays, results, why
<1> QED BY <1>4, <1>5, BecomesKeeps

LEMMA AssignsKeeps ==
  ASSUME MatrixConstants, MatrixInv, aside = {}, Small(matrix), NEW s \in Slices, NEW t \in Slices,
         NEW o \in Matrices, Assigns(s, t, o)
  PROVE  MatrixInv'
<1>1. IsMatrix(matrix) /\ Present = ArrayOf(matrix) /\ IndexLimit \in Nat /\ IsMatrix(o) /\ Small(o)
  BY PresentIs DEF MatrixConstants
<1>2. Present.rows = matrix.rows /\ Present.cols = matrix.cols
      /\ ArrayOf(o).rows = o.rows /\ ArrayOf(o).cols = o.cols
  BY <1>1, ArrayIs
<1>3. matrix.rows \in Nat \ {0} /\ matrix.cols \in Nat \ {0}
  BY <1>1 DEF IsMatrix
<1> DEFINE results == UNION {M!SetSlice(matrix, e.start, f.start, e.stop, f.stop, o) :
                               e \in BoundEnds(s, matrix.rows), f \in BoundEnds(t, matrix.cols)}
           arrays == Replaced(Present, Chosen(s, matrix.rows), Chosen(t, matrix.cols), ArrayOf(o))
           why == SpanAside(s, matrix.rows) \cup SpanAside(t, matrix.cols)
           i == BoundStart(s, matrix.rows)
           i2 == BoundStop(s, matrix.rows)
           j == BoundStart(t, matrix.cols)
           j2 == BoundStop(t, matrix.cols)
<1>4. Becomes(results, arrays, why)
  BY <1>2 DEF Assigns
<1>5. ASSUME why = {}
      PROVE  Agrees(results, arrays)
  <2>0. SpanAside(s, matrix.rows) = {} /\ SpanAside(t, matrix.cols) = {}
    BY <1>5
  <2>1. /\ i \in Nat /\ i2 \in Nat /\ i < i2 /\ i2 <= matrix.rows
        /\ BoundEnds(s, matrix.rows) = {[start |-> i, stop |-> i2]}
        /\ Chosen(s, matrix.rows) = Consecutive(i, i2)
    BY <1>3, <2>0, SpanBound
  <2>2. /\ j \in Nat /\ j2 \in Nat /\ j < j2 /\ j2 <= matrix.cols
        /\ BoundEnds(t, matrix.cols) = {[start |-> j, stop |-> j2]}
        /\ Chosen(t, matrix.cols) = Consecutive(j, j2)
    BY <1>3, <2>0, SpanBound
  <2> HIDE DEF i, i2, j, j2
  <2>3. arrays = IF o.rows # i2 - i \/ o.cols # j2 - j THEN {}
                 ELSE {Placed(Present, ArrayOf(o), i, j, i2, j2)}
    <3>1. arrays = Replaced(Present, Consecutive(i, i2), Consecutive(j, j2), ArrayOf(o))
      BY <2>1, <2>2
    <3>2. Present.rows \in Nat /\ Present.cols \in Nat
      BY <1>2, <1>3
    <3> HIDE DEF arrays
    <3>3. Replaced(Present, Consecutive(i, i2), Consecutive(j, j2), ArrayOf(o)) =
            IF ArrayOf(o).rows # i2 - i \/ ArrayOf(o).cols # j2 - j THEN {}
            ELSE {Placed(Present, ArrayOf(o), i, j, i2, j2)}
      <4> DEFINE a == Present
                 b == ArrayOf(o)
      <4> HIDE DEF results, why, a, b
      <4>1. a.rows \in Nat /\ a.cols \in Nat
        BY <3>2 DEF a
      <4>2. i \in Nat /\ i2 \in Nat /\ i < i2 /\ j \in Nat /\ j2 \in Nat /\ j < j2
        BY <2>1, <2>2
      <4>3. Replaced(a, Consecutive(i, i2), Consecutive(j, j2), b) =
              IF b.rows # i2 - i \/ b.cols # j2 - j THEN {} ELSE {Placed(a, b, i, j, i2, j2)}
        BY ONLY <4>1, <4>2, ReplacedIs
      <4> QED BY <4>3 DEF a, b
    <3> QED BY <1>2, <3>1, <3>3
  <2>4. results = M!SetSlice(matrix, i, j, i2, j2, o)
    BY <2>1, <2>2
  <2> HIDE DEF results, arrays
  <2>5. arrays = IF o.rows # i2 - i \/ o.cols # j2 - j THEN {}
                 ELSE {Placed(ArrayOf(matrix), ArrayOf(o), i, j, i2, j2)}
    BY <1>1, <2>3
  <2> QED BY <1>1, <2>1, <2>2, <2>4, <2>5, SetSliceAgrees
<1> HIDE DEF arrays, results, why
<1> QED BY <1>4, <1>5, BecomesKeeps


LEMMA SelectsColumnKeeps ==
  ASSUME MatrixConstants, MatrixInv, aside = {}, Small(matrix), NEW s \in Slices, NEW q \in Place,
         SelectsColumn(s, q)
  PROVE  MatrixInv'
<1>1. IsMatrix(matrix) /\ Present = ArrayOf(matrix) /\ IndexLimit \in Nat
      /\ q \in Int /\ q + 1 < IndexLimit
  BY PresentIs DEF MatrixConstants
<1>2. Present.rows = matrix.rows /\ Present.cols = matrix.cols
  BY <1>1, ArrayIs
<1>3. matrix.rows \in Nat \ {0} /\ matrix.cols \in Nat \ {0} /\ matrix.cols < IndexLimit
  BY <1>1, SmallBounds DEF IsMatrix
<1> DEFINE p == PlaceIn(q, matrix.cols)
           p2 == (PlaceIn(q, matrix.cols) + 1) % IndexLimit
           results == UNION {M!GetSlice(matrix, e.start, p, e.stop, p2) :
                               e \in BoundEnds(s, matrix.rows)}
           arrays == Selected(Present, Chosen(s, matrix.rows), OnePlace(q, matrix.cols))
           why == SpanAside(s, matrix.rows) \cup PlaceAside(q, matrix.cols)
           i == BoundStart(s, matrix.rows)
           i2 == BoundStop(s, matrix.rows)
<1>4. Becomes(results, arrays, why)
  BY <1>2 DEF SelectsColumn
<1>5. ASSUME why = {}
      PROVE  Agrees(results, arrays)
  <2>1. SpanAside(s, matrix.rows) = {} /\ FromEnd(q, matrix.cols) >= 0
    <3>1. FromEnd(q, matrix.cols) \in Int
      BY <1>1, <1>3 DEF FromEnd
    <3>2. SpanAside(s, matrix.rows) = {} /\ PlaceAside(q, matrix.cols) = {}
      BY <1>5
    <3>3. ~(FromEnd(q, matrix.cols) < 0)
      BY ONLY <3>2, Zenon DEF PlaceAside, If
    <3> QED BY <3>1, <3>2, <3>3
  <2>2. /\ i \in Nat /\ i2 \in Nat /\ i < i2 /\ i2 <= matrix.rows
        /\ BoundEnds(s, matrix.rows) = {[start |-> i, stop |-> i2]}
        /\ Chosen(s, matrix.rows) = Consecutive(i, i2)
    BY <1>3, <2>1, SpanBound
  <2>3. /\ p = FromEnd(q, matrix.cols) /\ p \in Nat /\ p2 = p + 1
        /\ p < matrix.cols => OnePlace(q, matrix.cols) = Consecutive(p, p + 1)
        /\ p >= matrix.cols => OnePlace(q, matrix.cols) = << >>
    BY <1>1, <1>3, <2>1, PlaceIsOne
  <2> HIDE DEF i, i2, p, p2
  <2>4. results = M!GetSlice(matrix, i, p, i2, p2)
    BY <2>2
  <2>5. CASE p < matrix.cols
    <3>1. arrays = Selected(Present, Consecutive(i, i2), Consecutive(p, p2))
      BY <2>2, <2>3, <2>5
    <3>2. p2 \in Nat /\ p < p2 /\ p2 <= matrix.cols
      BY <1>3, <2>3, <2>5
    <3> HIDE DEF results, arrays
    <3>3. arrays = {Window(Present, i, p, i2, p2)}
      BY <2>2, <2>3, <3>1, <3>2, SelectedIs
    <3> QED BY <1>1, <2>2, <2>3, <2>4, <3>2, <3>3, SliceAgrees
  <2>6. CASE p >= matrix.cols
    <3>1. p2 > matrix.cols
      BY <1>3, <2>3, <2>6
    <3>2. results = {}
      <4> HIDE DEF results
      <4> QED BY <2>4, <3>1 DEF M!GetSlice
    <3>3. arrays = {}
      BY <2>3, <2>6 DEF Selected
    <3> QED BY <3>2, <3>3 DEF Agrees
  <2> QED BY <1>3, <2>3, <2>5, <2>6
<1> HIDE DEF arrays, results, why
<1> QED BY <1>4, <1>5, BecomesKeeps

LEMMA SelectsRowKeeps ==
  ASSUME MatrixConstants, MatrixInv, aside = {}, Small(matrix), NEW q \in Place, NEW t \in Slices,
         SelectsRow(q, t)
  PROVE  MatrixInv'
<1>1. IsMatrix(matrix) /\ Present = ArrayOf(matrix) /\ IndexLimit \in Nat
      /\ q \in Int /\ q + 1 < IndexLimit
  BY PresentIs DEF MatrixConstants
<1>2. Present.rows = matrix.rows /\ Present.cols = matrix.cols
  BY <1>1, ArrayIs
<1>3. matrix.rows \in Nat \ {0} /\ matrix.cols \in Nat \ {0} /\ matrix.rows < IndexLimit
  BY <1>1, SmallBounds DEF IsMatrix
<1> DEFINE p == PlaceIn(q, matrix.rows)
           p2 == (PlaceIn(q, matrix.rows) + 1) % IndexLimit
           results == UNION {M!GetSlice(matrix, p, e.start, p2, e.stop) :
                               e \in BoundEnds(t, matrix.cols)}
           arrays == Selected(Present, OnePlace(q, matrix.rows), Chosen(t, matrix.cols))
           why == SpanAside(t, matrix.cols) \cup PlaceAside(q, matrix.rows)
           j == BoundStart(t, matrix.cols)
           j2 == BoundStop(t, matrix.cols)
<1>4. Becomes(results, arrays, why)
  BY <1>2 DEF SelectsRow
<1>5. ASSUME why = {}
      PROVE  Agrees(results, arrays)
  <2>1. SpanAside(t, matrix.cols) = {} /\ FromEnd(q, matrix.rows) >= 0
    <3>1. FromEnd(q, matrix.rows) \in Int
      BY <1>1, <1>3 DEF FromEnd
    <3>2. SpanAside(t, matrix.cols) = {} /\ PlaceAside(q, matrix.rows) = {}
      BY <1>5
    <3>3. ~(FromEnd(q, matrix.rows) < 0)
      BY ONLY <3>2, Zenon DEF PlaceAside, If
    <3> QED BY <3>1, <3>2, <3>3
  <2>2. /\ j \in Nat /\ j2 \in Nat /\ j < j2 /\ j2 <= matrix.cols
        /\ BoundEnds(t, matrix.cols) = {[start |-> j, stop |-> j2]}
        /\ Chosen(t, matrix.cols) = Consecutive(j, j2)
    BY <1>3, <2>1, SpanBound
  <2>3. /\ p = FromEnd(q, matrix.rows) /\ p \in Nat /\ p2 = p + 1
        /\ p < matrix.rows => OnePlace(q, matrix.rows) = Consecutive(p, p + 1)
        /\ p >= matrix.rows => OnePlace(q, matrix.rows) = << >>
    BY <1>1, <1>3, <2>1, PlaceIsOne
  <2> HIDE DEF j, j2, p, p2
  <2>4. results = M!GetSlice(matrix, p, j, p2, j2)
    BY <2>2
  <2>5. CASE p < matrix.rows
    <3>1. arrays = Selected(Present, Consecutive(p, p2), Consecutive(j, j2))
      BY <2>2, <2>3, <2>5
    <3>2. p2 \in Nat /\ p < p2 /\ p2 <= matrix.rows
      BY <1>3, <2>3, <2>5
    <3> HIDE DEF results, arrays
    <3>3. arrays = {Window(Present, p, j, p2, j2)}
      BY <2>2, <2>3, <3>1, <3>2, SelectedIs
    <3> QED BY <1>1, <2>2, <2>3, <2>4, <3>2, <3>3, SliceAgrees
  <2>6. CASE p >= matrix.rows
    <3>1. p2 > matrix.rows
      BY <1>3, <2>3, <2>6
    <3>2. results = {}
      <4> HIDE DEF results
      <4> QED BY <2>4, <3>1 DEF M!GetSlice
    <3>3. arrays = {}
      BY <2>3, <2>6 DEF Selected
    <3> QED BY <3>2, <3>3 DEF Agrees
  <2> QED BY <1>3, <2>3, <2>5, <2>6
<1> HIDE DEF arrays, results, why
<1> QED BY <1>4, <1>5, BecomesKeeps

LEMMA AssignsElementKeeps ==
  ASSUME MatrixConstants, MatrixInv, aside = {}, Small(matrix), NEW i \in Place, NEW j \in Place,
         NEW x \in Int, AssignsElement(i, j, x)
  PROVE  MatrixInv'
<1>1. IsMatrix(matrix) /\ Present = ArrayOf(matrix) /\ IndexLimit \in Nat /\ i \in Int /\ j \in Int
  BY PresentIs DEF MatrixConstants
<1>2. Present.rows = matrix.rows /\ Present.cols = matrix.cols
  BY <1>1, ArrayIs
<1>3. matrix.rows \in Nat \ {0} /\ matrix.cols \in Nat \ {0}
  BY <1>1 DEF IsMatrix
<1> DEFINE results == UNION {M!SetElement(matrix, k, l, x) : k \in Unsigned(i), l \in Unsigned(j)}
           arrays == Replaced(Present, OnePlace(i, matrix.rows), OnePlace(j, matrix.cols),
                              Constant(1, 1, x))
           why == WrittenAside(i, j)
<1>4. Becomes(results, arrays, why)
  <2>1. Becomes(results, Replaced(Present, OnePlace(i, Present.rows), OnePlace(j, Present.cols),
                                  Constant(1, 1, x)), why)
    <3>1. ArrayOfOne(x) = Constant(1, 1, x)
      BY DEF ArrayOfOne, Constant, Array, ArrayFrom
    <3> QED BY <3>1 DEF AssignsElement
  <2> HIDE DEF results, why
  <2> QED BY <1>2, <2>1
<1>5. ASSUME why = {}
      PROVE  Agrees(results, arrays)
  <2>1. i \in Nat /\ j \in Nat
    <3>1. ~(i < 0 \/ j < 0)
      BY ONLY <1>5, Zenon DEF WrittenAside, If
    <3> QED BY <1>1, <3>1
  <2>2. results = M!SetElement(matrix, i, j, x)
    BY <2>1 DEF Unsigned
  <2>3. CASE i < matrix.rows /\ j < matrix.cols
    <3>1. OnePlace(i, matrix.rows) = Consecutive(i, i + 1) /\ OnePlace(j, matrix.cols) = Consecutive(j, j + 1)
      <4>1. OnePlace(i, matrix.rows) = <<i>> /\ OnePlace(j, matrix.cols) = <<j>>
        BY <1>3, <2>1, <2>3 DEF OnePlace, FromEnd
      <4> QED BY <2>1, <4>1, OneIsConsecutive
    <3>2. arrays = {Placed(ArrayOf(matrix), Constant(1, 1, x), i, j, i + 1, j + 1)}
      <4> DEFINE a == Present
                 b == Constant(1, 1, x)
                 i2 == i + 1
                 j2 == j + 1
      <4>1. a.rows \in Nat /\ a.cols \in Nat
        BY <1>2, <1>3
      <4>2. i \in Nat /\ i2 \in Nat /\ i < i2 /\ j \in Nat /\ j2 \in Nat /\ j < j2
            /\ i2 - i = 1 /\ j2 - j = 1
        BY <2>1
      <4>3. arrays = Replaced(a, Consecutive(i, i2), Consecutive(j, j2), b)
        BY <3>1
      <4>4. b.rows = 1 /\ b.cols = 1
        BY DEF Constant, ArrayFrom
      <4> HIDE DEF a, b, arrays, i2, j2
      <4>5. Replaced(a, Consecutive(i, i2), Consecutive(j, j2), b) =
              IF b.rows # i2 - i \/ b.cols # j2 - j THEN {} ELSE {Placed(a, b, i, j, i2, j2)}
        BY ONLY <4>1, <4>2, ReplacedIs
      <4>6. arrays = {Placed(a, b, i, j, i2, j2)}
        BY <4>2, <4>3, <4>4, <4>5
      <4> QED BY <1>1, <4>6 DEF a, b, i2, j2
    <3>3. i \in 0..matrix.rows - 1 /\ j \in 0..matrix.cols - 1
      BY <1>3, <2>1, <2>3
    <3> HIDE DEF arrays, results
    <3> QED BY <1>1, <2>2, <3>2, <3>3, SetElementAgrees
  <2>4. CASE i >= matrix.rows \/ j >= matrix.cols
    <3>1. results = {}
      BY <2>2, <2>4 DEF M!SetElement
    <3>2. OnePlace(i, matrix.rows) = << >> \/ OnePlace(j, matrix.cols) = << >>
      BY <1>3, <2>1, <2>4 DEF OnePlace, FromEnd
    <3>3. arrays = {}
      BY <3>2 DEF Replaced
    <3> QED BY <3>1, <3>3 DEF Agrees
  <2> QED BY <1>3, <2>1, <2>3, <2>4
<1> HIDE DEF arrays, results, why
<1> QED BY <1>4, <1>5, BecomesKeeps


-----------------------------------------------------------------------------
(* Sums.                                                                    *)

LEMMA SumFollows ==
  ASSUME NEW n \in Nat, NEW f, \A i \in 0..n - 1 : f[i] \in Int
  PROVE  \E s \in [0..n -> Int] :
           /\ s[0] = 0 /\ \A k \in 1..n : s[k] = s[k - 1] + f[k - 1]
           /\ M!SumBelow(n, f) = s[n]
<1> DEFINE step == [q \in (1..n) \X Int |-> q[2] + f[q[1] - 1]]
           body(s) == [k \in 0..n |-> IF k = 0 THEN 0 ELSE s[k - 1] + f[k - 1]]
           sum == CHOOSE s : s = body(s)
<1>1. M!SumBelow(n, f) = sum[n]
  BY DEF M!SumBelow
<1>2. step \in [(1..n) \X Int -> Int]
  OBVIOUS
<1>3. \A k \in 1..n, x \in Int : step[<<k, x>>] = x + f[k - 1]
  OBVIOUS
<1> HIDE DEF step
<1>4. PICK s \in [0..n -> Int] : s[0] = 0 /\ \A k \in 1..n : s[k] = step[<<k, s[k - 1]>>]
  <2> DEFINE S == Int
             none == 0
  <2>1. n \in Nat /\ none \in S /\ step \in StepFunctions(n, S)
    BY <1>2 DEF StepFunctions
  <2> HIDE DEF S, none
  <2>2. \E s : s \in Followers(n, S, none, step)
    BY ONLY <2>1, Recursion
  <2> QED BY <2>2 DEF S, none, Followers
<1>5. \A k \in 1..n : s[k] = s[k - 1] + f[k - 1]
  <2>1. \A k \in 1..n : s[k - 1] \in Int
    OBVIOUS
  <2> QED BY <1>3, <1>4, <2>1
<1>6. s = body(s)
  BY <1>4, <1>5
<1>7. sum = body(sum)
  BY <1>6
<1> HIDE DEF sum
<1>8. \A k \in 0..n : sum[k] = IF k = 0 THEN 0 ELSE sum[k - 1] + f[k - 1]
  BY <1>7
<1> DEFINE Same == {k \in 0..n : sum[k] = s[k]}
<1>9. 0..n \subseteq Same
  <2>1. 0 \in Same
    BY <1>4, <1>8
  <2>2. \A k \in 0..n - 1 : k \in Same => k + 1 \in Same
    <3> SUFFICES ASSUME NEW k \in 0..n - 1, sum[k] = s[k] PROVE sum[k + 1] = s[k + 1]
      OBVIOUS
    <3>1. k + 1 \in 1..n /\ k + 1 - 1 = k /\ k + 1 # 0 /\ k + 1 \in 0..n
      OBVIOUS
    <3> QED BY <1>5, <1>8, <3>1
  <2> HIDE DEF Same
  <2> QED BY <2>1, <2>2, Induct
<1>10. sum[n] = s[n]
  BY <1>9
<1> QED BY <1>1, <1>4, <1>5, <1>10

\* A sum has one number more than the sum below it.
LEMMA SumStep ==
  ASSUME NEW n \in Nat, NEW f, \A i \in 0..n - 1 : f[i] \in Int
  PROVE  /\ M!SumBelow(0, f) = 0
         /\ \A k \in 0..n : M!SumBelow(k, f) \in Int
         /\ \A k \in 0..n - 1 : M!SumBelow(k + 1, f) = M!SumBelow(k, f) + f[k]
<1> DEFINE Follows(s, k) == s[0] = 0 /\ \A i \in 1..k : s[i] = s[i - 1] + f[i - 1]
<1>1. ASSUME NEW k \in 0..n
      PROVE  \E s \in [0..k -> Int] : Follows(s, k) /\ M!SumBelow(k, f) = s[k]
  <2>1. k \in Nat /\ \A i \in 0..k - 1 : f[i] \in Int
    OBVIOUS
  <2> QED BY <2>1, SumFollows
<1>2. ASSUME NEW k \in Nat, NEW s, NEW t, Follows(s, k), Follows(t, k)
      PROVE  \A i \in 0..k : s[i] = t[i]
  <2> DEFINE Same == {i \in 0..k : s[i] = t[i]}
  <2>1. 0 \in Same
    BY <1>2
  <2>2. \A i \in 0..k - 1 : i \in Same => i + 1 \in Same
    <3> SUFFICES ASSUME NEW i \in 0..k - 1, s[i] = t[i] PROVE s[i + 1] = t[i + 1]
      OBVIOUS
    <3>1. i + 1 \in 1..k /\ i + 1 - 1 = i
      OBVIOUS
    <3>2. s[i + 1] = s[i] + f[i] /\ t[i + 1] = t[i] + f[i]
      BY <1>2, <3>1
    <3> QED BY <3>2
  <2>3. 0..k \subseteq Same
    <3> HIDE DEF Same
    <3> QED BY <2>1, <2>2, Induct
  <2> QED BY <2>3
<1>3. M!SumBelow(0, f) = 0
  BY <1>1
<1>4. \A k \in 0..n : M!SumBelow(k, f) \in Int
  BY <1>1
<1>5. ASSUME NEW k \in 0..n - 1
      PROVE  M!SumBelow(k + 1, f) = M!SumBelow(k, f) + f[k]
  <2>1. k \in 0..n /\ k + 1 \in 0..n /\ k \in Nat /\ k + 1 \in 1..k + 1 /\ k + 1 - 1 = k /\ k \in 0..k
    OBVIOUS
  <2>2. PICK s \in [0..k + 1 -> Int] : Follows(s, k + 1) /\ M!SumBelow(k + 1, f) = s[k + 1]
    BY <1>1, <2>1
  <2>3. PICK t \in [0..k -> Int] : Follows(t, k) /\ M!SumBelow(k, f) = t[k]
    BY <1>1, <2>1
  <2>4. Follows(s, k)
    BY <2>2
  <2>5. s[k] = t[k]
    <3> HIDE DEF Follows
    <3>1. \A i \in 0..k : s[i] = t[i]
      BY <1>2, <2>1, <2>3, <2>4
    <3> QED BY <2>1, <3>1
  <2>6. s[k + 1] = s[k] + f[k]
    BY <2>1, <2>2
  <2> QED BY <2>2, <2>3, <2>5, <2>6
<1> QED BY <1>3, <1>4, <1>5


LEMMA SumSame ==
  ASSUME NEW n \in Nat, NEW f, NEW g, \A i \in 0..n - 1 : f[i] \in Int /\ g[i] = f[i]
  PROVE  M!SumBelow(n, g) = M!SumBelow(n, f)
<1> DEFINE Same == {k \in 0..n : M!SumBelow(k, g) = M!SumBelow(k, f)}
<1>1. /\ M!SumBelow(0, f) = 0 /\ M!SumBelow(0, g) = 0
      /\ \A k \in 0..n - 1 : /\ M!SumBelow(k + 1, f) = M!SumBelow(k, f) + f[k]
                             /\ M!SumBelow(k + 1, g) = M!SumBelow(k, g) + g[k]
  BY SumStep
<1>2. 0 \in Same
  BY <1>1
<1>3. \A k \in 0..n - 1 : k \in Same => k + 1 \in Same
  BY <1>1
<1>4. 0..n \subseteq Same
  <2> HIDE DEF Same
  <2> QED BY <1>2, <1>3, Induct
<1> QED BY <1>4

\* A sum of sums of two is the sum of two sums.
LEMMA SumPlus ==
  ASSUME NEW n \in Nat, NEW f, NEW g, NEW h,
         \A i \in 0..n - 1 : f[i] \in Int /\ g[i] \in Int /\ h[i] = f[i] + g[i]
  PROVE  M!SumBelow(n, h) = M!SumBelow(n, f) + M!SumBelow(n, g)
<1> DEFINE Same == {k \in 0..n : M!SumBelow(k, h) = M!SumBelow(k, f) + M!SumBelow(k, g)}
<1>1. \A i \in 0..n - 1 : f[i] \in Int /\ g[i] \in Int /\ h[i] \in Int
  OBVIOUS
<1>2. /\ M!SumBelow(0, f) = 0 /\ M!SumBelow(0, g) = 0 /\ M!SumBelow(0, h) = 0
      /\ \A k \in 0..n : M!SumBelow(k, f) \in Int /\ M!SumBelow(k, g) \in Int
      /\ \A k \in 0..n - 1 : /\ M!SumBelow(k + 1, f) = M!SumBelow(k, f) + f[k]
                             /\ M!SumBelow(k + 1, g) = M!SumBelow(k, g) + g[k]
                             /\ M!SumBelow(k + 1, h) = M!SumBelow(k, h) + h[k]
  BY <1>1, SumStep
<1>3. 0 \in Same
  BY <1>2
<1>4. \A k \in 0..n - 1 : k \in Same => k + 1 \in Same
  <2> SUFFICES ASSUME NEW k \in 0..n - 1, M!SumBelow(k, h) = M!SumBelow(k, f) + M!SumBelow(k, g)
               PROVE  M!SumBelow(k + 1, h) = M!SumBelow(k + 1, f) + M!SumBelow(k + 1, g)
    OBVIOUS
  <2>1. k \in 0..n
    OBVIOUS
  <2> QED BY <1>1, <1>2, <2>1
<1>5. 0..n \subseteq Same
  <2> HIDE DEF Same
  <2> QED BY <1>3, <1>4, Induct
<1> QED BY <1>5

\* A sum of multiples is the multiple of the sum.
LEMMA SumTimes ==
  ASSUME NEW n \in Nat, NEW f, NEW c \in Int, NEW h,
         \A i \in 0..n - 1 : f[i] \in Int /\ h[i] = c * f[i]
  PROVE  M!SumBelow(n, h) = c * M!SumBelow(n, f)
<1> DEFINE Same == {k \in 0..n : M!SumBelow(k, h) = c * M!SumBelow(k, f)}
<1>1. \A i \in 0..n - 1 : f[i] \in Int /\ h[i] \in Int
  OBVIOUS
<1>2. /\ M!SumBelow(0, f) = 0 /\ M!SumBelow(0, h) = 0
      /\ \A k \in 0..n : M!SumBelow(k, f) \in Int
      /\ \A k \in 0..n - 1 : /\ M!SumBelow(k + 1, f) = M!SumBelow(k, f) + f[k]
                             /\ M!SumBelow(k + 1, h) = M!SumBelow(k, h) + h[k]
  BY <1>1, SumStep
<1>3. 0 \in Same
  BY <1>2
<1>4. \A k \in 0..n - 1 : k \in Same => k + 1 \in Same
  <2> SUFFICES ASSUME NEW k \in 0..n - 1, M!SumBelow(k, h) = c * M!SumBelow(k, f)
               PROVE  M!SumBelow(k + 1, h) = c * M!SumBelow(k + 1, f)
    OBVIOUS
  <2> DEFINE x == M!SumBelow(k, f)
             y == f[k]
  <2>1. x \in Int /\ y \in Int /\ M!SumBelow(k + 1, f) = x + y /\ M!SumBelow(k + 1, h) = c * x + c * y
    BY <1>1, <1>2
  <2> HIDE DEF x, y
  <2>2. c * (x + y) = c * x + c * y
    BY <2>1
  <2> QED BY <2>1, <2>2
<1>5. 0..n \subseteq Same
  <2> HIDE DEF Same
  <2> QED BY <1>3, <1>4, Induct
<1> QED BY <1>5

\* A sum of which one number at most is not zero.
LEMMA SumOne ==
  ASSUME NEW n \in Nat, NEW p \in 0..n - 1, NEW f, f[p] \in Int,
         \A i \in 0..n - 1 : i # p => f[i] = 0
  PROVE  M!SumBelow(n, f) = f[p]
<1> DEFINE Same == {k \in 0..n : M!SumBelow(k, f) = IF k > p THEN f[p] ELSE 0}
<1>1. \A i \in 0..n - 1 : f[i] \in Int /\ f[i] = IF i = p THEN f[p] ELSE 0
  OBVIOUS
<1>2. M!SumBelow(0, f) = 0 /\ \A k \in 0..n - 1 : M!SumBelow(k + 1, f) = M!SumBelow(k, f) + f[k]
  BY <1>1, SumStep
<1>3. 0 \in Same
  BY <1>2
<1>4. \A k \in 0..n - 1 : k \in Same => k + 1 \in Same
  <2> SUFFICES ASSUME NEW k \in 0..n - 1, M!SumBelow(k, f) = IF k > p THEN f[p] ELSE 0
               PROVE  M!SumBelow(k + 1, f) = IF k + 1 > p THEN f[p] ELSE 0
    OBVIOUS
  <2> DEFINE y == f[p]
  <2>1. y \in Int /\ M!SumBelow(k + 1, f) = (IF k > p THEN y ELSE 0) + (IF k = p THEN y ELSE 0)
    BY <1>1, <1>2
  <2> HIDE DEF y
  <2>2. M!SumBelow(k + 1, f) = IF k + 1 > p THEN y ELSE 0
    BY <2>1
  <2> QED BY <2>2 DEF y
<1>5. 0..n \subseteq Same
  <2> HIDE DEF Same
  <2> QED BY <1>3, <1>4, Induct
<1> QED BY <1>5

\* The sum of the sums of rows is the sum of the sums of columns.
RowSums(n, m, g) == [k \in 0..n - 1 |-> M!SumBelow(m, [l \in 0..m - 1 |-> g[<<k, l>>]])]
ColSums(i, n, m, g) == [l \in 0..m - 1 |-> M!SumBelow(i, [k \in 0..n - 1 |-> g[<<k, l>>]])]

LEMMA SumSwap ==
  ASSUME NEW n \in Nat, NEW m \in Nat, NEW g,
         \A k \in 0..n - 1, l \in 0..m - 1 : g[<<k, l>>] \in Int
  PROVE  M!SumBelow(n, RowSums(n, m, g)) = M!SumBelow(m, ColSums(n, n, m, g))
<1> DEFINE row(k) == [l \in 0..m - 1 |-> g[<<k, l>>]]
           col(l) == [k \in 0..n - 1 |-> g[<<k, l>>]]
           rows == RowSums(n, m, g)
           cols(i) == ColSums(i, n, m, g)
           Same == {i \in 0..n : M!SumBelow(i, rows) = M!SumBelow(m, cols(i))}
<1>1. ASSUME NEW k \in 0..n - 1
      PROVE  rows[k] = M!SumBelow(m, row(k)) /\ rows[k] \in Int /\ \A l \in 0..m - 1 : row(k)[l] = g[<<k, l>>]
  <2>1. \A l \in 0..m - 1 : row(k)[l] = g[<<k, l>>] /\ row(k)[l] \in Int
    OBVIOUS
  <2>2. rows[k] = M!SumBelow(m, row(k))
    BY DEF RowSums
  <2> HIDE DEF row, rows
  <2>3. m \in 0..m
    OBVIOUS
  <2>4. M!SumBelow(m, row(k)) \in Int
    BY <2>1, <2>3, SumStep
  <2> QED BY <2>1, <2>2, <2>4
<1>2. ASSUME NEW l \in 0..m - 1
      PROVE  /\ \A i \in 0..n : cols(i)[l] = M!SumBelow(i, col(l)) /\ cols(i)[l] \in Int
             /\ cols(0)[l] = 0
             /\ \A i \in 0..n - 1 : cols(i + 1)[l] = cols(i)[l] + g[<<i, l>>]
  <2>1. \A k \in 0..n - 1 : col(l)[k] = g[<<k, l>>] /\ col(l)[k] \in Int
    OBVIOUS
  <2>2. \A i \in 0..n : cols(i)[l] = M!SumBelow(i, col(l))
    BY DEF ColSums
  <2> HIDE DEF col, cols
  <2>3. /\ M!SumBelow(0, col(l)) = 0
        /\ \A i \in 0..n : M!SumBelow(i, col(l)) \in Int
        /\ \A i \in 0..n - 1 : M!SumBelow(i + 1, col(l)) = M!SumBelow(i, col(l)) + col(l)[i]
    BY <2>1, SumStep
  <2>4. \A i \in 0..n - 1 : i \in 0..n /\ i + 1 \in 0..n
    OBVIOUS
  <2> QED BY <2>1, <2>2, <2>3, <2>4
<1> HIDE DEF rows, cols, row, col
<1>3. M!SumBelow(0, rows) = 0 /\ \A i \in 0..n - 1 : M!SumBelow(i + 1, rows) = M!SumBelow(i, rows) + rows[i]
  BY <1>1, SumStep
<1>4. 0 \in Same
  <2> DEFINE z == cols(0)
  <2>0. \A l \in 0..m - 1 : z[l] = 0
    BY <1>2
  <2> HIDE DEF z
  <2> DEFINE none == 0
  <2>1. none \in Int /\ \A l \in 0..m - 1 : z[l] \in Int /\ z[l] = none * z[l]
    BY <2>0
  <2> HIDE DEF none
  <2>2. M!SumBelow(m, z) = none * M!SumBelow(m, z)
    BY <2>1, SumTimes
  <2>3. m \in 0..m
    OBVIOUS
  <2>4. M!SumBelow(m, z) \in Int
    BY <2>1, <2>3, SumStep
  <2>5. M!SumBelow(m, z) = 0
    BY <2>2, <2>4 DEF none
  <2> QED BY <1>3, <2>5 DEF z
<1>5. \A i \in 0..n - 1 : i \in Same => i + 1 \in Same
  <2> SUFFICES ASSUME NEW i \in 0..n - 1, M!SumBelow(i, rows) = M!SumBelow(m, cols(i))
               PROVE  M!SumBelow(i + 1, rows) = M!SumBelow(m, cols(i + 1))
    OBVIOUS
  <2> DEFINE f == cols(i)
             h == cols(i + 1)
             r == row(i)
  <2>1. i \in 0..n /\ i + 1 \in 0..n
    OBVIOUS
  <2>2. \A l \in 0..m - 1 : f[l] \in Int /\ r[l] \in Int /\ h[l] = f[l] + r[l]
    BY <1>1, <1>2, <2>1
  <2> HIDE DEF f, h, r
  <2>3. M!SumBelow(m, h) = M!SumBelow(m, f) + M!SumBelow(m, r)
    BY <2>2, SumPlus
  <2>4. rows[i] = M!SumBelow(m, r)
    BY <1>1 DEF r
  <2> QED BY <1>3, <2>3, <2>4 DEF f, h
<1>6. 0..n \subseteq Same
  <2> HIDE DEF Same
  <2> QED BY <1>4, <1>5, Induct
<1> QED BY <1>6 DEF rows, cols


-----------------------------------------------------------------------------
(* Products.                                                                *)

\* The loops over the tiles come to each position once.
LEMMA VisitsOnce ==
  ASSUME TileSize \in Nat \ {0}, NEW n \in Nat, NEW i \in 0..n - 1
  PROVE  M!Visits(i, n) = 1
<1> DEFINE q == i \div TileSize
           r == i % TileSize
           first == q * TileSize
           S == {k \in M!Tiles(n) : i \in M!Tile(k, n)}
<1>1. q \in Nat /\ r \in 0..TileSize - 1 /\ i = first + r /\ first \in Nat
  <2>1. i \in Nat /\ q \in Int /\ r \in 0..TileSize - 1 /\ i = q * TileSize + r
    OBVIOUS
  <2>2. i \in 0..n * TileSize - 1
    <3>1. n * TileSize >= n
      <4> DEFINE d == TileSize - 1
      <4>1. d \in Nat /\ TileSize = d + 1
        OBVIOUS
      <4> HIDE DEF d
      <4>2. n * TileSize = n * d + n /\ n * d \in Nat
        BY <4>1
      <4> QED BY <4>2
    <3>2. n * TileSize \in Nat /\ i <= n - 1 /\ 0 <= i
      OBVIOUS
    <3> DEFINE e == n * TileSize
    <3> HIDE DEF e
    <3>3. e \in Nat /\ e >= n
      BY <3>1, <3>2 DEF e
    <3>4. i \in 0..e - 1
      BY <3>2, <3>3
    <3> QED BY <3>4 DEF e
  <2>3. q \in 0..n - 1
    BY <2>2, RowAndColumn
  <2> HIDE DEF q, r
  <2> QED BY <2>1, <2>3
<1>2. first % TileSize = 0
  <2> HIDE DEF q
  <2>1. 0 \in 0..TileSize - 1
    OBVIOUS
  <2>2. (q * TileSize + 0) % TileSize = 0
    BY ONLY <1>1, <2>1, TileSize \in Nat \ {0}, DivMod
  <2>3. q * TileSize + 0 = first
    BY <1>1
  <2> QED BY <2>2, <2>3
<1>3. first \in S
  <2> HIDE DEF q, r, first
  <2>1. first \in 0..n - 1
    BY <1>1
  <2>2. i \in M!Tile(first, n)
    BY <1>1 DEF M!Tile
  <2> QED BY <1>2, <2>1, <2>2 DEF M!Tiles
<1>4. ASSUME NEW k \in S PROVE k = first
  <2> DEFINE p == k \div TileSize
             e == i - k
  <2>1. k \in 0..n - 1 /\ k % TileSize = 0 /\ i \in M!Tile(k, n)
    BY DEF M!Tiles
  <2>2. k <= i /\ i < k + TileSize
    BY <2>1 DEF M!Tile
  <2>3. p \in Int /\ k = p * TileSize
    BY <2>1
  <2>4. p \in Nat
    <3>1. k \in 0..n * TileSize - 1
      <4> DEFINE d == TileSize - 1
      <4>1. d \in Nat /\ TileSize = d + 1
        OBVIOUS
      <4> HIDE DEF d
      <4>2. n * TileSize = n * d + n /\ n * d \in Nat
        BY <4>1
      <4> DEFINE u == n * d
                 w == n * TileSize
      <4> HIDE DEF u, w
      <4>3. w = u + n /\ u \in Nat
        BY <4>2 DEF u, w
      <4>4. k \in 0..w - 1
        BY <2>1, <4>3
      <4> QED BY <4>4 DEF w
    <3>2. p \in 0..n - 1
      BY <3>1, RowAndColumn
    <3> QED BY <3>2
  <2>5. e \in 0..TileSize - 1 /\ i = k + e
    BY <2>1, <2>2
  <2> HIDE DEF p, e
  <2>6. (p * TileSize + e) \div TileSize = p
    BY ONLY <2>4, <2>5, TileSize \in Nat \ {0}, DivMod
  <2>7. q = p
    BY <2>3, <2>5, <2>6
  <2> HIDE DEF q
  <2> QED BY <2>3, <2>7
<1> HIDE DEF S, first
<1>5. S = {first}
  BY <1>3, <1>4
<1>6. Cardinality(S) = 1
  BY <1>5, FS_Singleton
<1> QED BY <1>6 DEF S, M!Visits, M!Cardinality, Cardinality

\* The numbers of which an element of a product is the sum.
Line(a, b, i, j) == [k \in 0..a.cols - 1 |-> a.cell[<<i, k>>] * b.cell[<<k, j>>]]

Times(a, b) ==
  ArrayFrom(a.rows, b.cols,
    [p \in Cells(a.rows, b.cols) |-> M!SumBelow(a.cols, Line(a, b, p[1], p[2]))])

LEMMA ProductIs ==
  ASSUME NEW a, NEW b
  PROVE  Product(a, b) = IF a.cols # b.rows THEN {} ELSE {Times(a, b)}
BY DEF Product, Times, Line, Array, ArrayFrom


LEMMA LineIs ==
  ASSUME NEW m, IsMatrix(m), NEW o, IsMatrix(o), m.cols = o.rows,
         NEW i \in 0..m.rows - 1, NEW j \in 0..o.cols - 1
  PROVE  /\ \A k \in 0..m.cols - 1 : Line(ArrayOf(m), ArrayOf(o), i, j)[k] \in Int
         /\ M!SumBelow(m.cols, Line(ArrayOf(m), ArrayOf(o), i, j)) \in Int
<1> DEFINE a == ArrayOf(m)
           b == ArrayOf(o)
           f == Line(a, b, i, j)
<1>1. IsArray(a) /\ IsArray(b) /\ a.rows = m.rows /\ a.cols = m.cols /\ b.rows = o.rows /\ b.cols = o.cols
  BY ArrayIs
<1> HIDE DEF a, b
<1>2. m.cols \in Nat
  BY DEF IsMatrix
<1>3. \A k \in 0..m.cols - 1 : f[k] \in Int
  <2> SUFFICES ASSUME NEW k \in 0..m.cols - 1 PROVE f[k] \in Int
    OBVIOUS
  <2>1. <<i, k>> \in Cells(a.rows, a.cols) /\ <<k, j>> \in Cells(b.rows, b.cols)
    BY <1>1 DEF Cells
  <2>2. a.cell[<<i, k>>] \in Int /\ b.cell[<<k, j>>] \in Int
    BY <1>1, <2>1 DEF IsArray
  <2>3. f[k] = a.cell[<<i, k>>] * b.cell[<<k, j>>]
    BY <1>1 DEF Line
  <2> QED BY <2>2, <2>3
<1> HIDE DEF f
<1>4. m.cols \in 0..m.cols
  BY <1>2
<1>5. M!SumBelow(m.cols, f) \in Int
  BY <1>2, <1>3, <1>4, SumStep
<1> QED BY <1>3, <1>5 DEF a, b, f

\* A product is what the loops over the tiles add up, and the first matrix
\* must not have more columns than the other has rows.
LEMMA TimesAgrees ==
  ASSUME NEW m, IsMatrix(m), Small(m), NEW o, IsMatrix(o), Small(o), IndexLimit \in Nat,
         TileSize \in Nat \ {0}, m.cols >= o.rows, NEW arrays,
         arrays = IF m.cols # o.rows THEN {} ELSE {Times(ArrayOf(m), ArrayOf(o))}
  PROVE  Agrees(M!MatrixMultiply(m, o), arrays)
<1>1. /\ m.rows \in Nat \ {0} /\ m.cols \in Nat \ {0} /\ o.rows \in Nat \ {0} /\ o.cols \in Nat \ {0}
  BY DEF IsMatrix
<1>2. CASE m.cols # o.rows
  <2>1. o.rows \in 0..m.cols - 1 /\ 0 \in 0..o.cols - 1 /\ o.rows \in o.rows..o.rows + 1
    BY <1>1, <1>2
  <2>2. ~M!Held(o, o.rows, 0)
    BY <2>1, NothingBehind
  <2>3. M!MatrixMultiply(m, o) = {}
    BY <2>1, <2>2 DEF M!MatrixMultiply
  <2> QED BY <1>2, <2>3 DEF Agrees
<1>3. CASE m.cols = o.rows
  <2> DEFINE a == ArrayOf(m)
             b == ArrayOf(o)
             r == m.rows
             c == o.cols
             n == m.cols
             f == [p \in Cells(r, c) |-> M!SumBelow(n, Line(a, b, p[1], p[2]))]
             sums(i, j) == M!SumBelow(n,
                             [k \in 0..n - 1 |-> M!Visits(i, r) * M!Visits(j, c) * M!Visits(k, n)
                                                 * M!At(m, i, k) * M!At(o, k, j)])
             t == [rows |-> r, cols |-> c,
                   data |-> [k \in 1..r * c |-> sums((k - 1) \div c, (k - 1) % c)]]
  <2>1. M!MatrixMultiply(m, o) = {t}
    <3>1. \A k \in 0..n - 1, j \in 0..c - 1 : M!Held(o, k, j)
      BY <1>3, AtIs
    <3> QED BY <3>1 DEF M!MatrixMultiply, M!Filled
  <2>2. arrays = {ArrayFrom(r, c, f)}
    BY <1>3, ArrayIs DEF Times
  <2>3. ASSUME NEW i \in 0..r - 1, NEW j \in 0..c - 1
        PROVE  f[<<i, j>>] = sums(i, j) /\ f[<<i, j>>] \in Int
    <3>1. <<i, j>> \in Cells(r, c)
      BY DEF Cells
    <3>2. f[<<i, j>>] = M!SumBelow(n, Line(a, b, i, j))
      BY <3>1
    <3>3. /\ \A k \in 0..n - 1 : Line(a, b, i, j)[k] \in Int
          /\ M!SumBelow(n, Line(a, b, i, j)) \in Int
      BY <1>3, LineIs
    <3> DEFINE h == [k \in 0..n - 1 |-> M!Visits(i, r) * M!Visits(j, c) * M!Visits(k, n)
                                        * M!At(m, i, k) * M!At(o, k, j)]
    <3>4. ASSUME NEW k \in 0..n - 1
          PROVE  h[k] = Line(a, b, i, j)[k]
      <4>1. M!Visits(i, r) = 1 /\ M!Visits(j, c) = 1 /\ M!Visits(k, n) = 1
        BY <1>1, VisitsOnce
      <4>2. M!At(m, i, k) = a.cell[<<i, k>>]
        BY AtIs
      <4>3. M!At(o, k, j) = b.cell[<<k, j>>]
        BY <1>3, AtIs
      <4>4. <<i, k>> \in Cells(m.rows, m.cols) /\ <<k, j>> \in Cells(o.rows, o.cols)
        BY <1>3 DEF Cells
      <4>5. a.cell[<<i, k>>] \in Int /\ b.cell[<<k, j>>] \in Int
        BY <4>4, ArrayIs DEF IsArray
      <4>6. Line(a, b, i, j)[k] = a.cell[<<i, k>>] * b.cell[<<k, j>>]
        <5>1. a.cols = n
          BY ArrayIs
        <5> HIDE DEF a, b, n
        <5> QED BY <5>1 DEF Line
      <4> DEFINE x == a.cell[<<i, k>>]
                 y == b.cell[<<k, j>>]
      <4>7. h[k] = 1 * 1 * 1 * x * y
        BY <4>1, <4>2, <4>3
      <4>8. x \in Int /\ y \in Int /\ Line(a, b, i, j)[k] = x * y
        BY <4>5, <4>6
      <4> HIDE DEF x, y, h
      <4> QED BY <4>7, <4>8
    <3> HIDE DEF h, a, b, f
    <3>5. M!SumBelow(n, h) = M!SumBelow(n, Line(a, b, i, j))
      BY <1>1, <3>3, <3>4, SumSame
    <3> QED BY <3>2, <3>3, <3>5 DEF h
  <2>4. t = [rows |-> r, cols |-> c, data |-> t.data]
        /\ t.data = [k \in 1..r * c |-> sums((k - 1) \div c, (k - 1) % c)]
    OBVIOUS
  <2>5. f = [p \in Cells(r, c) |-> f[p]]
    OBVIOUS
  <2> HIDE DEF sums, t, f, a, b
  <2>6. FilledBy(t, r, c, f)
    <3>1. ASSUME NEW i \in 0..r - 1, NEW j \in 0..c - 1, NEW k \in 1..r * c,
                 (k - 1) \div c = i, (k - 1) % c = j
          PROVE  t.data[k] = f[<<i, j>>]
      <4>1. t.data[k] = sums((k - 1) \div c, (k - 1) % c)
        BY <2>4
      <4> QED BY <2>3, <3>1, <4>1
    <3>2. t.data = [k \in 1..r * c |-> t.data[k]]
      BY <2>4
    <3> HIDE DEF r, c
    <3> QED BY <2>3, <2>4, <2>5, <3>1, <3>2 DEF FilledBy
  <2> HIDE DEF r, c, n
  <2>7. r \in Nat \ {0} /\ c \in Nat \ {0}
    BY <1>1 DEF r, c
  <2> QED BY ONLY <2>1, <2>2, <2>6, <2>7, FilledAgrees
<1> QED BY <1>2, <1>3


LEMMA MatMulsKeeps ==
  ASSUME MatrixConstants, MatrixInv, aside = {}, Small(matrix), NEW o \in Matrices, MatMuls(o)
  PROVE  MatrixInv'
<1>1. IsMatrix(matrix) /\ Present = ArrayOf(matrix) /\ IndexLimit \in Nat /\ IsMatrix(o) /\ Small(o)
      /\ TileSize \in Nat \ {0}
  BY PresentIs DEF MatrixConstants
<1> DEFINE arrays == Product(Present, ArrayOf(o))
           results == M!MatrixMultiply(matrix, o)
           why == FactorAside(matrix, o)
<1>2. Becomes(results, arrays, why)
  BY DEF MatMuls
<1>3. ASSUME why = {} PROVE Agrees(results, arrays)
  <2>1. matrix.cols >= o.rows
    <3>1. ~(matrix.cols < o.rows)
      BY ONLY <1>3, Zenon DEF FactorAside, If
    <3>2. matrix.cols \in Nat /\ o.rows \in Nat
      BY <1>1 DEF IsMatrix
    <3> QED BY <3>1, <3>2
  <2>2. arrays = IF matrix.cols # o.rows THEN {} ELSE {Times(ArrayOf(matrix), ArrayOf(o))}
    BY <1>1, ProductIs, ArrayIs
  <2> HIDE DEF arrays
  <2> QED BY <1>1, <2>1, <2>2, TimesAgrees
<1> HIDE DEF arrays, results, why
<1> QED BY <1>2, <1>3, BecomesKeeps

-----------------------------------------------------------------------------
(* Powers of a square array.                                                *)

SquareArrays(n) == [rows : {n}, cols : {n}, cell : [Cells(n, n) -> Int]]

LEMMA SquareIs ==
  ASSUME NEW n \in Nat \ {0}, NEW a
  PROVE  a \in SquareArrays(n) <=> IsArray(a) /\ a.rows = n /\ a.cols = n
<1>1. ASSUME a \in SquareArrays(n) PROVE IsArray(a) /\ a.rows = n /\ a.cols = n
  BY <1>1 DEF SquareArrays, IsArray
<1>2. ASSUME IsArray(a), a.rows = n, a.cols = n PROVE a \in SquareArrays(n)
  BY <1>2 DEF SquareArrays, IsArray
<1> QED BY <1>1, <1>2

LEMMA LineAt ==
  ASSUME NEW n \in Nat \ {0}, NEW a \in SquareArrays(n), NEW b \in SquareArrays(n),
         NEW i \in 0..n - 1, NEW j \in 0..n - 1, NEW k \in 0..n - 1
  PROVE  /\ Line(a, b, i, j)[k] = a.cell[<<i, k>>] * b.cell[<<k, j>>]
         /\ Line(a, b, i, j)[k] \in Int /\ a.cell[<<i, k>>] \in Int /\ b.cell[<<k, j>>] \in Int
<1>1. a.cols = n /\ a.cell \in [Cells(n, n) -> Int] /\ b.cell \in [Cells(n, n) -> Int]
  BY DEF SquareArrays
<1>2. <<i, k>> \in Cells(n, n) /\ <<k, j>> \in Cells(n, n)
  BY DEF Cells
<1>3. a.cell[<<i, k>>] \in Int /\ b.cell[<<k, j>>] \in Int
  BY <1>1, <1>2
<1>4. Line(a, b, i, j)[k] = a.cell[<<i, k>>] * b.cell[<<k, j>>]
  BY <1>1 DEF Line
<1> QED BY <1>3, <1>4

LEMMA TimesSquare ==
  ASSUME NEW n \in Nat \ {0}, NEW a \in SquareArrays(n), NEW b \in SquareArrays(n)
  PROVE  /\ Times(a, b) \in SquareArrays(n)
         /\ \A i, j \in 0..n - 1 :
              /\ Times(a, b).cell[<<i, j>>] = M!SumBelow(n, Line(a, b, i, j))
              /\ M!SumBelow(n, Line(a, b, i, j)) \in Int
              /\ \A k \in 0..n - 1 : /\ Line(a, b, i, j)[k] = a.cell[<<i, k>>] * b.cell[<<k, j>>]
                                     /\ Line(a, b, i, j)[k] \in Int
              /\ a.cell[<<i, j>>] \in Int /\ b.cell[<<i, j>>] \in Int
<1> DEFINE f == [p \in Cells(n, n) |-> M!SumBelow(n, Line(a, b, p[1], p[2]))]
<1>1. a.rows = n /\ a.cols = n /\ b.rows = n /\ b.cols = n
      /\ a.cell \in [Cells(n, n) -> Int] /\ b.cell \in [Cells(n, n) -> Int]
  BY DEF SquareArrays
<1>2. Times(a, b) = ArrayFrom(n, n, f)
  BY <1>1 DEF Times
<1>3. ASSUME NEW i \in 0..n - 1, NEW j \in 0..n - 1
      PROVE  <<i, j>> \in Cells(n, n) /\ a.cell[<<i, j>>] \in Int /\ b.cell[<<i, j>>] \in Int
  <2>1. <<i, j>> \in Cells(n, n)
    BY DEF Cells
  <2> QED BY <1>1, <2>1
<1>4. ASSUME NEW i \in 0..n - 1, NEW j \in 0..n - 1
      PROVE  /\ f[<<i, j>>] = M!SumBelow(n, Line(a, b, i, j))
             /\ M!SumBelow(n, Line(a, b, i, j)) \in Int
             /\ \A k \in 0..n - 1 : /\ Line(a, b, i, j)[k] = a.cell[<<i, k>>] * b.cell[<<k, j>>]
                                    /\ Line(a, b, i, j)[k] \in Int
  <2>1. \A k \in 0..n - 1 : /\ Line(a, b, i, j)[k] = a.cell[<<i, k>>] * b.cell[<<k, j>>]
                            /\ Line(a, b, i, j)[k] \in Int
    <3> SUFFICES ASSUME NEW k \in 0..n - 1
                 PROVE  /\ Line(a, b, i, j)[k] = a.cell[<<i, k>>] * b.cell[<<k, j>>]
                        /\ Line(a, b, i, j)[k] \in Int
      OBVIOUS
    <3>1. Line(a, b, i, j)[k] = a.cell[<<i, k>>] * b.cell[<<k, j>>]
      BY <1>1 DEF Line
    <3>2. a.cell[<<i, k>>] \in Int /\ b.cell[<<k, j>>] \in Int
      BY <1>3
    <3> QED BY <3>1, <3>2
  <2>2. n \in Nat /\ n \in 0..n
    OBVIOUS
  <2>3. M!SumBelow(n, Line(a, b, i, j)) \in Int
    BY <2>1, <2>2, SumStep
  <2>4. f[<<i, j>>] = M!SumBelow(n, Line(a, b, i, j))
    BY <1>3
  <2> QED BY <2>1, <2>3, <2>4
<1>5. f \in [Cells(n, n) -> Int]
  <2>1. ASSUME NEW p \in Cells(n, n) PROVE f[p] \in Int
    <3>1. p[1] \in 0..n - 1 /\ p[2] \in 0..n - 1 /\ p = <<p[1], p[2]>>
      BY DEF Cells
    <3>2. f[<<p[1], p[2]>>] \in Int
      BY <1>4, <3>1
    <3> QED BY <3>1, <3>2
  <2> QED BY <2>1
<1> HIDE DEF f
<1>6. Times(a, b) \in SquareArrays(n) /\ Times(a, b).cell = f
  BY <1>2, <1>5 DEF SquareArrays, ArrayFrom
<1> QED BY <1>3, <1>4, <1>6

LEMMA TimesAt ==
  ASSUME NEW n \in Nat \ {0}, NEW a \in SquareArrays(n), NEW b \in SquareArrays(n),
         NEW i \in 0..n - 1, NEW j \in 0..n - 1
  PROVE  /\ Times(a, b).cell[<<i, j>>] = M!SumBelow(n, Line(a, b, i, j))
         /\ M!SumBelow(n, Line(a, b, i, j)) \in Int
BY TimesSquare

LEMMA SameSquare ==
  ASSUME NEW n \in Nat \ {0}, NEW a \in SquareArrays(n), NEW b \in SquareArrays(n),
         \A i, j \in 0..n - 1 : a.cell[<<i, j>>] = b.cell[<<i, j>>]
  PROVE  a = b
<1>1. ASSUME NEW p \in Cells(n, n) PROVE a.cell[p] = b.cell[p]
  <2>1. p[1] \in 0..n - 1 /\ p[2] \in 0..n - 1 /\ p = <<p[1], p[2]>>
    BY DEF Cells
  <2>2. a.cell[<<p[1], p[2]>>] = b.cell[<<p[1], p[2]>>]
    BY <2>1
  <2> QED BY <2>1, <2>2
<1>2. a.cell = b.cell
  BY <1>1 DEF SquareArrays
<1> QED BY <1>2 DEF SquareArrays

\* A product of three is the same from the left and from the right.
LEMMA TimesAssociates ==
  ASSUME NEW n \in Nat \ {0}, NEW a \in SquareArrays(n), NEW b \in SquareArrays(n),
         NEW c \in SquareArrays(n)
  PROVE  Times(Times(a, b), c) = Times(a, Times(b, c))
<1> DEFINE ab == Times(a, b)
           bc == Times(b, c)
<1>1. ab \in SquareArrays(n) /\ bc \in SquareArrays(n) /\ Times(ab, c) \in SquareArrays(n)
      /\ Times(a, bc) \in SquareArrays(n)
  BY TimesSquare
<1>2. ASSUME NEW i \in 0..n - 1, NEW j \in 0..n - 1
      PROVE  Times(ab, c).cell[<<i, j>>] = Times(a, bc).cell[<<i, j>>]
  <2> DEFINE g == [p \in Cells(n, n) |->
                     (a.cell[<<i, p[2]>>] * b.cell[<<p[2], p[1]>>]) * c.cell[<<p[1], j>>]]
             rows == RowSums(n, n, g)
             cols == ColSums(n, n, n, g)
             F(k) == [l \in 0..n - 1 |-> g[<<k, l>>]]
             H(l) == [k \in 0..n - 1 |-> g[<<k, l>>]]
  <2>1. ASSUME NEW k \in 0..n - 1, NEW l \in 0..n - 1
        PROVE  /\ g[<<k, l>>] = (a.cell[<<i, l>>] * b.cell[<<l, k>>]) * c.cell[<<k, j>>]
               /\ a.cell[<<i, l>>] \in Int /\ b.cell[<<l, k>>] \in Int /\ c.cell[<<k, j>>] \in Int
               /\ g[<<k, l>>] \in Int
    <3>1. <<k, l>> \in Cells(n, n)
      BY DEF Cells
    <3>2. g[<<k, l>>] = (a.cell[<<i, l>>] * b.cell[<<l, k>>]) * c.cell[<<k, j>>]
      BY <3>1
    <3>3. a.cell[<<i, l>>] \in Int /\ b.cell[<<l, k>>] \in Int /\ c.cell[<<k, j>>] \in Int
      BY TimesSquare
    <3> QED BY <3>2, <3>3
  <2> HIDE DEF g
  <2>2. M!SumBelow(n, rows) = M!SumBelow(n, cols)
    BY <2>1, SumSwap
  <2>3. Times(ab, c).cell[<<i, j>>] = M!SumBelow(n, rows)
    <3>1. ASSUME NEW k \in 0..n - 1 PROVE rows[k] = Line(ab, c, i, j)[k] /\ Line(ab, c, i, j)[k] \in Int
      <4> DEFINE f == Line(a, b, i, k)
                 x == c.cell[<<k, j>>]
      <4>1. rows[k] = M!SumBelow(n, F(k))
        BY DEF RowSums
      <4>2. \A l \in 0..n - 1 : F(k)[l] = x * f[l] /\ f[l] \in Int
        <5> SUFFICES ASSUME NEW l \in 0..n - 1 PROVE F(k)[l] = x * f[l] /\ f[l] \in Int
          OBVIOUS
        <5> DEFINE y == a.cell[<<i, l>>] * b.cell[<<l, k>>]
        <5>1. f[l] = y /\ f[l] \in Int
          BY TimesSquare
        <5>2. F(k)[l] = y * x /\ x \in Int
          BY <2>1
        <5> HIDE DEF y, x, F, f
        <5> QED BY <5>1, <5>2
      <4>3. x \in Int
        BY TimesSquare
      <4>4. ab.cell[<<i, k>>] = M!SumBelow(n, f) /\ M!SumBelow(n, f) \in Int
        BY TimesAt
      <4>5. Line(ab, c, i, j)[k] = ab.cell[<<i, k>>] * x
        <5> HIDE DEF ab, bc
        <5> QED BY <1>1, LineAt
      <4> HIDE DEF f, x, F, ab
      <4>6. M!SumBelow(n, F(k)) = x * M!SumBelow(n, f)
        BY <4>2, <4>3, SumTimes
      <4> QED BY <4>1, <4>3, <4>4, <4>5, <4>6
    <3>2. Times(ab, c).cell[<<i, j>>] = M!SumBelow(n, Line(ab, c, i, j))
      BY <1>1, TimesAt
    <3> HIDE DEF ab, rows
    <3>3. M!SumBelow(n, rows) = M!SumBelow(n, Line(ab, c, i, j))
      BY <3>1, SumSame
    <3> QED BY <3>2, <3>3
  <2>4. Times(a, bc).cell[<<i, j>>] = M!SumBelow(n, cols)
    <3>1. ASSUME NEW l \in 0..n - 1 PROVE cols[l] = Line(a, bc, i, j)[l] /\ Line(a, bc, i, j)[l] \in Int
      <4> DEFINE f == Line(b, c, l, j)
                 x == a.cell[<<i, l>>]
      <4>1. cols[l] = M!SumBelow(n, H(l))
        BY DEF ColSums
      <4>2. \A k \in 0..n - 1 : H(l)[k] = x * f[k] /\ f[k] \in Int
        <5> SUFFICES ASSUME NEW k \in 0..n - 1 PROVE H(l)[k] = x * f[k] /\ f[k] \in Int
          OBVIOUS
        <5> DEFINE y == b.cell[<<l, k>>]
                   z == c.cell[<<k, j>>]
        <5>1. f[k] = y * z /\ f[k] \in Int
          BY TimesSquare
        <5>2. H(l)[k] = (x * y) * z /\ x \in Int /\ y \in Int /\ z \in Int
          BY <2>1
        <5> HIDE DEF y, x, z, H, f
        <5>3. (x * y) * z = x * (y * z)
          BY <5>2
        <5> QED BY <5>1, <5>2, <5>3
      <4>3. x \in Int
        BY TimesSquare
      <4>4. bc.cell[<<l, j>>] = M!SumBelow(n, f) /\ M!SumBelow(n, f) \in Int
        BY TimesAt
      <4>5. Line(a, bc, i, j)[l] = x * bc.cell[<<l, j>>]
        <5> HIDE DEF ab, bc
        <5> QED BY <1>1, LineAt
      <4> HIDE DEF f, x, H, bc
      <4>6. M!SumBelow(n, H(l)) = x * M!SumBelow(n, f)
        BY <4>2, <4>3, SumTimes
      <4> QED BY <4>1, <4>3, <4>4, <4>5, <4>6
    <3>2. Times(a, bc).cell[<<i, j>>] = M!SumBelow(n, Line(a, bc, i, j))
      BY <1>1, TimesAt
    <3> HIDE DEF bc, cols
    <3>3. M!SumBelow(n, cols) = M!SumBelow(n, Line(a, bc, i, j))
      BY <3>1, SumSame
    <3> QED BY <3>2, <3>3
  <2> QED BY <2>2, <2>3, <2>4
<1> HIDE DEF ab, bc
<1>3. Times(ab, c) = Times(a, bc)
  BY <1>1, <1>2, SameSquare
<1> QED BY <1>3 DEF ab, bc

LEMMA IdentityIs ==
  ASSUME NEW n \in Nat \ {0}
  PROVE  /\ Identity(n) \in SquareArrays(n)
         /\ \A i, j \in 0..n - 1 : Identity(n).cell[<<i, j>>] = IF i = j THEN 1 ELSE 0
<1>1. \A i, j \in 0..n - 1 : <<i, j>> \in Cells(n, n)
  BY DEF Cells
<1> QED BY <1>1 DEF Identity, ArrayFrom, SquareArrays

LEMMA IdentityTimes ==
  ASSUME NEW n \in Nat \ {0}, NEW a \in SquareArrays(n)
  PROVE  Times(Identity(n), a) = a /\ Times(a, Identity(n)) = a
<1> DEFINE e == Identity(n)
<1>1. e \in SquareArrays(n) /\ \A i, j \in 0..n - 1 : e.cell[<<i, j>>] = IF i = j THEN 1 ELSE 0
  BY IdentityIs
<1> HIDE DEF e
<1>2. Times(e, a) \in SquareArrays(n) /\ Times(a, e) \in SquareArrays(n)
  BY <1>1, TimesSquare
<1>3. ASSUME NEW i \in 0..n - 1, NEW j \in 0..n - 1
      PROVE  Times(e, a).cell[<<i, j>>] = a.cell[<<i, j>>]
  <2> DEFINE f == Line(e, a, i, j)
             x == a.cell[<<i, j>>]
  <2>1. ASSUME NEW k \in 0..n - 1 PROVE f[k] = e.cell[<<i, k>>] * a.cell[<<k, j>>] /\ a.cell[<<k, j>>] \in Int
    BY <1>1, LineAt
  <2>2. x \in Int /\ f[i] = x
    <3>1. e.cell[<<i, i>>] = 1
      BY <1>1
    <3>2. f[i] = 1 * x /\ x \in Int
      BY <2>1, <3>1
    <3> HIDE DEF f, x
    <3> QED BY <3>2
  <2>5. ASSUME NEW k \in 0..n - 1, k # i PROVE f[k] = 0
    <3> DEFINE y == a.cell[<<k, j>>]
    <3>1. e.cell[<<i, k>>] = 0
      BY <1>1, <2>5
    <3>2. f[k] = 0 * y /\ y \in Int
      BY <2>1, <3>1
    <3> HIDE DEF f, y
    <3> QED BY <3>2
  <2>3. Times(e, a).cell[<<i, j>>] = M!SumBelow(n, f)
    BY <1>1, TimesAt
  <2> HIDE DEF f, x
  <2>4. M!SumBelow(n, f) = f[i]
    BY <2>2, <2>5, SumOne
  <2> QED BY <2>2, <2>3, <2>4 DEF x
<1>4. ASSUME NEW i \in 0..n - 1, NEW j \in 0..n - 1
      PROVE  Times(a, e).cell[<<i, j>>] = a.cell[<<i, j>>]
  <2> DEFINE f == Line(a, e, i, j)
             x == a.cell[<<i, j>>]
  <2>1. ASSUME NEW k \in 0..n - 1 PROVE f[k] = a.cell[<<i, k>>] * e.cell[<<k, j>>] /\ a.cell[<<i, k>>] \in Int
    BY <1>1, LineAt
  <2>2. x \in Int /\ f[j] = x
    <3>1. e.cell[<<j, j>>] = 1
      BY <1>1
    <3>2. f[j] = x * 1 /\ x \in Int
      BY <2>1, <3>1
    <3> HIDE DEF f, x
    <3> QED BY <3>2
  <2>5. ASSUME NEW k \in 0..n - 1, k # j PROVE f[k] = 0
    <3> DEFINE y == a.cell[<<i, k>>]
    <3>1. e.cell[<<k, j>>] = 0
      BY <1>1, <2>5
    <3>2. f[k] = y * 0 /\ y \in Int
      BY <2>1, <3>1
    <3> HIDE DEF f, y
    <3> QED BY <3>2
  <2>3. Times(a, e).cell[<<i, j>>] = M!SumBelow(n, f)
    BY <1>1, TimesAt
  <2> HIDE DEF f, x
  <2>4. M!SumBelow(n, f) = f[j]
    BY <2>2, <2>5, SumOne
  <2> QED BY <2>2, <2>3, <2>4 DEF x
<1>5. Times(e, a) = a /\ Times(a, e) = a
  BY <1>2, <1>3, <1>4, SameSquare
<1> QED BY <1>5 DEF e


\* The powers of an array, one after another.
ArePowers(P, a, n, most) ==
  /\ P \in [0..most -> SquareArrays(n)]
  /\ P[0] = Identity(n)
  /\ \A k \in 1..most : P[k] = Times(P[k - 1], a)

LEMMA PowersExist ==
  ASSUME NEW n \in Nat \ {0}, NEW a \in SquareArrays(n), NEW most \in Nat
  PROVE  \E P : ArePowers(P, a, n, most)
<1> DEFINE S == SquareArrays(n)
           e == Identity(n)
           step == [q \in (1..most) \X S |-> Times(q[2], a)]
<1>1. e \in S /\ step \in StepFunctions(most, S)
  BY IdentityIs, TimesSquare DEF StepFunctions
<1>2. \A k \in 1..most, x \in S : step[<<k, x>>] = Times(x, a)
  OBVIOUS
<1> HIDE DEF S, e, step
<1>3. PICK P : P \in Followers(most, S, e, step)
  BY <1>1, Recursion
<1>4. P \in [0..most -> S] /\ P[0] = e /\ \A k \in 1..most : P[k] = step[<<k, P[k - 1]>>]
  BY <1>3 DEF Followers
<1>5. \A k \in 1..most : P[k] = Times(P[k - 1], a)
  <2>1. \A k \in 1..most : P[k - 1] \in S
    BY <1>4
  <2> QED BY <1>2, <1>4, <2>1
<1> QED BY <1>4, <1>5 DEF S, e, ArePowers

\* The product of two powers is the power that has the sum of the exponents.
LEMMA PowersAdd ==
  ASSUME NEW n \in Nat \ {0}, NEW a \in SquareArrays(n), NEW most \in Nat, NEW P,
         ArePowers(P, a, n, most), NEW i \in Nat, NEW j \in Nat, i + j <= most
  PROVE  Times(P[i], P[j]) = P[i + j]
<1> DEFINE Same == {k \in 0..j : Times(P[i], P[k]) = P[i + k]}
<1>1. 0 \in Same
  <2>1. P[i] \in SquareArrays(n) /\ P[0] = Identity(n)
    BY DEF ArePowers
  <2>2. Times(P[i], P[0]) = P[i]
    BY <2>1, IdentityTimes
  <2> QED BY <2>2
<1>2. \A k \in 0..j - 1 : k \in Same => k + 1 \in Same
  <2> SUFFICES ASSUME NEW k \in 0..j - 1, Times(P[i], P[k]) = P[i + k]
               PROVE  Times(P[i], P[k + 1]) = P[i + (k + 1)]
    OBVIOUS
  <2>1. i \in 0..most /\ k \in 0..most /\ k + 1 \in 1..most /\ i + (k + 1) \in 1..most
        /\ k + 1 - 1 = k /\ i + (k + 1) - 1 = i + k
    OBVIOUS
  <2>2. P[i] \in SquareArrays(n) /\ P[k] \in SquareArrays(n)
    BY <2>1 DEF ArePowers
  <2>3. P[k + 1] = Times(P[k], a) /\ P[i + (k + 1)] = Times(P[i + k], a)
    BY <2>1 DEF ArePowers
  <2>4. Times(Times(P[i], P[k]), a) = Times(P[i], Times(P[k], a))
    BY <2>2, TimesAssociates
  <2> QED BY <2>3, <2>4
<1>3. 0..j \subseteq Same
  <2> HIDE DEF Same
  <2> QED BY <1>1, <1>2, Induct
<1> QED BY <1>3

LEMMA FirstPower ==
  ASSUME NEW n \in Nat \ {0}, NEW a \in SquareArrays(n), NEW most \in Nat \ {0}, NEW P,
         ArePowers(P, a, n, most)
  PROVE  P[1] = a
<1>1. 1 \in 1..most /\ P[1 - 1] = Identity(n) /\ P[1] = Times(P[1 - 1], a)
  BY DEF ArePowers
<1> QED BY <1>1, IdentityTimes

LEMMA PowersOfIs ==
  ASSUME NEW n \in Nat \ {0}, NEW a \in SquareArrays(n), NEW most \in Nat, NEW P,
         ArePowers(P, a, n, most), NEW exponent \in 0..most
  PROVE  PowersOf(a, exponent) = {P[exponent]}
<1> DEFINE first == {Array(a.rows, a.rows, LAMBDA i, j : IF i = j THEN 1 ELSE 0)}
           next(xs) == UNION {Product(x, a) : x \in xs}
           body(f) == [k \in 0..exponent |-> IF k = 0 THEN first ELSE next(f[k - 1])]
           powers == CHOOSE f : f = body(f)
           known == [k \in 0..exponent |-> {P[k]}]
<1>1. PowersOf(a, exponent) = powers[exponent]
  BY DEF PowersOf
<1>2. first = {P[0]}
  <2>1. a.rows = n
    BY DEF SquareArrays
  <2>2. first = {Identity(n)}
    BY <2>1 DEF Identity, Array, ArrayFrom
  <2> QED BY <2>2 DEF ArePowers
<1> HIDE DEF first
<1>3. ASSUME NEW k \in 1..exponent PROVE next({P[k - 1]}) = {P[k]}
  <2>1. k \in 1..most /\ k - 1 \in 0..most
    OBVIOUS
  <2>2. P[k - 1] \in SquareArrays(n) /\ P[k] = Times(P[k - 1], a)
    BY <2>1 DEF ArePowers
  <2>3. Product(P[k - 1], a) = {P[k]}
    <3>1. P[k - 1].cols = n /\ a.rows = n
      BY <2>2 DEF SquareArrays
    <3> QED BY <2>2, <3>1, ProductIs
  <2> QED BY <2>3
<1> HIDE DEF next
<1>4. known = body(known)
  BY <1>2, <1>3
<1>5. powers = body(powers)
  <2> HIDE DEF known
  <2> QED BY <1>4
<1> HIDE DEF powers
<1>6. \A k \in 0..exponent : powers[k] = IF k = 0 THEN first ELSE next(powers[k - 1])
  BY <1>5
<1> DEFINE Same == {k \in 0..exponent : powers[k] = {P[k]}}
<1>7. 0 \in Same
  BY <1>2, <1>6
<1>8. \A k \in 0..exponent - 1 : k \in Same => k + 1 \in Same
  <2> SUFFICES ASSUME NEW k \in 0..exponent - 1, powers[k] = {P[k]} PROVE powers[k + 1] = {P[k + 1]}
    OBVIOUS
  <2>1. k + 1 \in 1..exponent /\ k + 1 - 1 = k /\ k + 1 # 0 /\ k + 1 \in 0..exponent
    OBVIOUS
  <2> QED BY <1>3, <1>6, <2>1
<1>9. 0..exponent \subseteq Same
  <2> HIDE DEF Same
  <2> QED BY <1>7, <1>8, Induct
<1> QED BY <1>1, <1>9


LEMMA ProductsAgree ==
  ASSUME IndexLimit \in Nat, TileSize \in Nat \ {0}, NEW n \in Nat \ {0}, (n + 2) * n < IndexLimit,
         NEW p \in SquareArrays(n), NEW q \in SquareArrays(n), NEW xs, NEW ys,
         Agrees(xs, {p}), Agrees(ys, {q})
  PROVE  Agrees(Products(xs, ys), {Times(p, q)})
<1>1. PICK x : IsMatrix(x) /\ xs = {x} /\ p = ArrayOf(x)
  BY DEF Agrees
<1>2. PICK y : IsMatrix(y) /\ ys = {y} /\ q = ArrayOf(y)
  BY DEF Agrees
<1>3. x.rows = n /\ x.cols = n /\ y.rows = n /\ y.cols = n
  BY <1>1, <1>2, SquareIs, ArrayIs
<1>4. Small(x) /\ Small(y)
  BY <1>3 DEF Small
<1>5. Products(xs, ys) = M!MatrixMultiply(x, y)
  BY <1>1, <1>2 DEF Products
<1> DEFINE arrays == {Times(ArrayOf(x), ArrayOf(y))}
<1>6. arrays = IF x.cols # y.rows THEN {} ELSE {Times(ArrayOf(x), ArrayOf(y))}
  BY <1>3
<1>7. x.cols >= y.rows
  BY <1>3
<1> HIDE DEF arrays
<1>8. Agrees(M!MatrixMultiply(x, y), arrays)
  BY <1>1, <1>2, <1>4, <1>6, <1>7, TimesAgrees
<1> QED BY <1>1, <1>2, <1>5, <1>8 DEF arrays

SquareMatrices(n) == {x \in [rows : {n}, cols : {n}, data : [1..n * n -> Int]] : IsMatrix(x)}

LEMMA SquareMatrixIs ==
  ASSUME NEW n \in Nat \ {0}, NEW x
  PROVE  x \in SquareMatrices(n) <=> IsMatrix(x) /\ x.rows = n /\ x.cols = n
<1>1. ASSUME x \in SquareMatrices(n) PROVE IsMatrix(x) /\ x.rows = n /\ x.cols = n
  BY <1>1 DEF SquareMatrices
<1>2. ASSUME IsMatrix(x), x.rows = n, x.cols = n PROVE x \in SquareMatrices(n)
  BY <1>2 DEF SquareMatrices, IsMatrix
<1> QED BY <1>1, <1>2

LEMMA ProductsSquare ==
  ASSUME IndexLimit \in Nat, TileSize \in Nat \ {0}, NEW n \in Nat \ {0}, (n + 2) * n < IndexLimit,
         NEW xs \in SUBSET SquareMatrices(n), NEW ys \in SUBSET SquareMatrices(n)
  PROVE  Products(xs, ys) \in SUBSET SquareMatrices(n)
<1>1. ASSUME NEW x \in xs, NEW y \in ys
      PROVE  M!MatrixMultiply(x, y) \subseteq SquareMatrices(n)
  <2>1. IsMatrix(x) /\ x.rows = n /\ x.cols = n /\ IsMatrix(y) /\ y.rows = n /\ y.cols = n
    BY SquareMatrixIs
  <2> DEFINE p == ArrayOf(x)
             q == ArrayOf(y)
  <2>2. p \in SquareArrays(n) /\ q \in SquareArrays(n)
    BY <2>1, ArrayIs, SquareIs
  <2>3. Agrees({x}, {p}) /\ Agrees({y}, {q})
    BY <2>1 DEF Agrees
  <2> HIDE DEF p, q
  <2>4. Agrees(Products({x}, {y}), {Times(p, q)})
    BY <2>2, <2>3, ProductsAgree
  <2>5. Products({x}, {y}) = M!MatrixMultiply(x, y)
    BY DEF Products
  <2>6. PICK t : IsMatrix(t) /\ M!MatrixMultiply(x, y) = {t} /\ Times(p, q) = ArrayOf(t)
    BY <2>4, <2>5 DEF Agrees
  <2>7. t.rows = n /\ t.cols = n
    BY <2>2, <2>6, TimesSquare, SquareIs, ArrayIs
  <2> QED BY <2>6, <2>7, SquareMatrixIs
<1> QED BY <1>1 DEF Products

\* Each round follows from the one before.
LEMMA RoundsFollow ==
  ASSUME IndexLimit \in Nat, TileSize \in Nat \ {0}, NEW n \in Nat \ {0}, (n + 2) * n < IndexLimit,
         NEW m \in SquareMatrices(n), NEW exponent \in Nat
  PROVE  /\ Rounds(m, exponent)[0] = [power |-> exponent, matrix |-> {m}, result |-> M!Eye(n)]
         /\ \A k \in 0..exponent - 1 : Rounds(m, exponent)[k + 1] = Round(Rounds(m, exponent)[k])
<1> DEFINE S == [power : Nat, matrix : SUBSET SquareMatrices(n), result : SUBSET SquareMatrices(n)]
           first == [power |-> exponent, matrix |-> {m}, result |-> M!Eye(m.rows)]
           step == [q \in (1..exponent) \X S |-> Round(q[2])]
           body(f) == [k \in 0..exponent |-> IF k = 0 THEN first ELSE Round(f[k - 1])]
           rounds == CHOOSE f : f = body(f)
<1>1. Rounds(m, exponent) = rounds
  BY DEF Rounds
<1>2. m.rows = n
  BY SquareMatrixIs
<1>3. first \in S
  <2>1. Agrees(M!Eye(n), {Identity(n)})
    BY EyeAgrees
  <2>2. PICK t : IsMatrix(t) /\ M!Eye(n) = {t} /\ Identity(n) = ArrayOf(t)
    BY <2>1 DEF Agrees
  <2>3. t.rows = n /\ t.cols = n
    BY <2>2, IdentityIs, SquareIs, ArrayIs
  <2>4. t \in SquareMatrices(n)
    BY <2>2, <2>3, SquareMatrixIs
  <2>5. M!Eye(m.rows) \in SUBSET SquareMatrices(n)
    BY <1>2, <2>2, <2>4
  <2> QED BY <2>5
<1>4. ASSUME NEW x \in S PROVE Round(x) \in S
  <2>1. x.power \in Nat /\ x.matrix \in SUBSET SquareMatrices(n) /\ x.result \in SUBSET SquareMatrices(n)
    OBVIOUS
  <2>2. x.power \div 2 \in Nat
    BY <2>1
  <2>3. Products(x.matrix, x.matrix) \in SUBSET SquareMatrices(n)
    BY <2>1, ProductsSquare
  <2>4. Products(x.result, x.matrix) \in SUBSET SquareMatrices(n)
    BY <2>1, ProductsSquare
  <2> QED BY <2>1, <2>2, <2>3, <2>4 DEF Round
<1> HIDE DEF S, first
<1>5. step \in StepFunctions(exponent, S)
  BY <1>4 DEF StepFunctions
<1>6. \A k \in 1..exponent, x \in S : step[<<k, x>>] = Round(x)
  OBVIOUS
<1> HIDE DEF step
<1>7. PICK f : f \in Followers(exponent, S, first, step)
  BY <1>3, <1>5, Recursion
<1>8. f \in [0..exponent -> S] /\ f[0] = first /\ \A k \in 1..exponent : f[k] = step[<<k, f[k - 1]>>]
  BY <1>7 DEF Followers
<1>9. \A k \in 1..exponent : f[k] = Round(f[k - 1])
  <2>1. \A k \in 1..exponent : f[k - 1] \in S
    BY <1>8
  <2> QED BY <1>6, <1>8, <2>1
<1>10. f = body(f)
  BY <1>8, <1>9
<1>11. rounds = body(rounds)
  BY <1>10
<1> HIDE DEF rounds
<1>12. rounds[0] = first
  BY <1>11
<1>13. ASSUME NEW k \in 0..exponent - 1 PROVE rounds[k + 1] = Round(rounds[k])
  <2>1. k + 1 \in 0..exponent /\ k + 1 # 0 /\ k + 1 - 1 = k
    OBVIOUS
  <2> QED BY <1>11, <2>1
<1> QED BY <1>1, <1>2, <1>12, <1>13 DEF first

\* The rounds end, and when they do the result is the power.
LEMMA PowerAgrees ==
  ASSUME IndexLimit \in Nat, TileSize \in Nat \ {0}, NEW n \in Nat \ {0}, (n + 2) * n < IndexLimit,
         NEW m \in SquareMatrices(n), NEW exponent \in Nat
  PROVE  Agrees(MatrixPower(m, exponent), PowersOf(ArrayOf(m), exponent))
<1> DEFINE a == ArrayOf(m)
           most == 2 * exponent + 1
           R == Rounds(m, exponent)
           left(k) == R[k].power
<1>1. IsMatrix(m) /\ m.rows = n /\ m.cols = n
  BY SquareMatrixIs
<1>2. a \in SquareArrays(n) /\ Agrees({m}, {a})
  BY <1>1, ArrayIs, SquareIs DEF Agrees
<1>3. most \in Nat \ {0} /\ most \in Nat /\ exponent \in 0..most /\ 1 \in 0..most
  OBVIOUS
<1> HIDE DEF a
<1>4. PICK P : ArePowers(P, a, n, most)
  <2> HIDE DEF most
  <2> QED BY <1>2, <1>3, PowersExist
<1>5. /\ R[0] = [power |-> exponent, matrix |-> {m}, result |-> M!Eye(n)]
      /\ \A k \in 0..exponent - 1 : R[k + 1] = Round(R[k])
  BY RoundsFollow
<1> HIDE DEF R
<1>6. left(0) = exponent /\ \A k \in 0..exponent - 1 : left(k + 1) = left(k) \div 2
  <2>1. left(0) = exponent
    BY <1>5
  <2>2. ASSUME NEW k \in 0..exponent - 1 PROVE left(k + 1) = left(k) \div 2
    <3>1. R[k + 1] = Round(R[k])
      BY <1>5
    <3>2. Round(R[k]).power = R[k].power \div 2
      BY DEF Round
    <3> QED BY <3>1, <3>2
  <2> HIDE DEF left
  <2> QED BY <2>1, <2>2
<1> HIDE DEF left
<1>7. \A k \in 0..exponent : left(k) \in Nat /\ left(k) <= exponent - k
  <2> DEFINE T == {k \in 0..exponent : left(k) \in Nat /\ left(k) <= exponent - k}
  <2>1. 0 \in T
    BY <1>6
  <2>2. \A k \in 0..exponent - 1 : k \in T => k + 1 \in T
    <3> SUFFICES ASSUME NEW k \in 0..exponent - 1, left(k) \in Nat, left(k) <= exponent - k
                 PROVE  left(k + 1) \in Nat /\ left(k + 1) <= exponent - (k + 1)
      OBVIOUS
    <3> DEFINE x == left(k)
    <3>1. x \in Nat /\ x <= exponent - k /\ left(k + 1) = x \div 2
      BY <1>6
    <3> HIDE DEF x
    <3> QED BY <3>1
  <2>3. 0..exponent \subseteq T
    <3> HIDE DEF T
    <3> QED BY <2>1, <2>2, Induct
  <2> QED BY <2>3
<1> DEFINE IsLast(k) == left(k) = 0 /\ \A j \in 0..k - 1 : left(j) # 0
           last == CHOOSE k \in 0..exponent : IsLast(k)
<1>8. last \in 0..exponent /\ IsLast(last)
  <2> DEFINE Z == {k \in 0..exponent : left(k) = 0}
  <2>1. exponent \in Z /\ Z \subseteq Nat
    BY <1>7
  <2>2. PICK k \in Z : \A j \in Z : k <= j
    <3> HIDE DEF Z
    <3> QED BY <2>1, Least
  <2>3. k \in 0..exponent /\ IsLast(k)
    BY <2>2
  <2> QED BY <2>3
<1> DEFINE At(k, s, r) ==
             /\ s \in Nat /\ r \in Nat /\ s <= most /\ r <= exponent
             /\ r + s * left(k) = exponent
             /\ Agrees(R[k].matrix, {P[s]}) /\ Agrees(R[k].result, {P[r]})
           Good == {k \in 0..last : \E s, r \in Nat : At(k, s, r)}
<1>9. 0 \in Good
  <2>1. At(0, 1, 0)
    <3>1. P[1] = a /\ P[0] = Identity(n)
      <4> HIDE DEF most
      <4> QED BY <1>2, <1>3, <1>4, FirstPower DEF ArePowers
    <3>2. R[0].matrix = {m} /\ R[0].result = M!Eye(n)
      BY <1>5
    <3>3. Agrees(R[0].matrix, {P[1]}) /\ Agrees(R[0].result, {P[0]})
      BY <1>2, <3>1, <3>2, EyeAgrees
    <3>4. 0 + 1 * left(0) = exponent
      BY <1>6
    <3> QED BY <1>3, <3>3, <3>4
  <2>2. 0 \in 0..last
    BY <1>8
  <2> HIDE DEF At
  <2> QED BY <2>1, <2>2
<1>10. \A k \in 0..last - 1 : k \in Good => k + 1 \in Good
  <2> SUFFICES ASSUME NEW k \in 0..last - 1, NEW s \in Nat, NEW r \in Nat, At(k, s, r)
               PROVE  \E s2, r2 \in Nat : At(k + 1, s2, r2)
    <3> HIDE DEF At
    <3>1. \A k \in 0..last - 1 : k + 1 \in 0..last
      BY <1>8
    <3> QED BY <3>1
  <2> DEFINE l == left(k)
  <2>1. k \in 0..exponent - 1 /\ k \in 0..exponent
    BY <1>8
  <2>2. l \in Nat /\ l # 0
    BY <1>7, <1>8, <2>1
  <2>3. R[k + 1] = Round(R[k]) /\ left(k + 1) = l \div 2 /\ l = R[k].power
    BY <1>5, <1>6, <2>1 DEF left
  <2>4. s <= exponent /\ r + s <= exponent
    <3> DEFINE d == l - 1
    <3>1. d \in Nat /\ l = d + 1
      BY <2>2
    <3>2. r + s * l = exponent
      OBVIOUS
    <3> HIDE DEF d, l
    <3>3. s * l = s * d + s /\ s * d \in Nat
      BY <3>1
    <3> QED BY <3>2, <3>3
  <2>5. s \in 0..most /\ r \in 0..most /\ P[s] \in SquareArrays(n) /\ P[r] \in SquareArrays(n)
    <3>1. s \in 0..most /\ r \in 0..most
      BY <2>4
    <3> QED BY <1>4, <3>1 DEF ArePowers
  <2>6. Agrees(Products(R[k].matrix, R[k].matrix), {P[s + s]})
    <3>1. Times(P[s], P[s]) = P[s + s]
      <4>1. s + s <= most
        BY <2>4
      <4> HIDE DEF most
      <4> QED BY <1>2, <1>3, <1>4, <4>1, PowersAdd
    <3>2. Agrees(Products(R[k].matrix, R[k].matrix), {Times(P[s], P[s])})
      BY <2>5, ProductsAgree
    <3> QED BY <3>1, <3>2
  <2>7. R[k + 1].matrix = Products(R[k].matrix, R[k].matrix)
        /\ R[k + 1].result = IF l % 2 = 1 THEN Products(R[k].result, R[k].matrix) ELSE R[k].result
    BY <2>3 DEF Round
  <2>8. s + s \in Nat /\ s + s <= most
    BY <2>4
  <2>9. CASE l % 2 = 1
    <3>1. Times(P[r], P[s]) = P[r + s]
      <4>1. r + s <= most
        BY <2>4
      <4> HIDE DEF most
      <4> QED BY <1>2, <1>3, <1>4, <4>1, PowersAdd
    <3>2. Agrees(Products(R[k].result, R[k].matrix), {Times(P[r], P[s])})
      BY <2>5, ProductsAgree
    <3>3. (r + s) + (s + s) * (l \div 2) = exponent
      <4> DEFINE h == l \div 2
      <4>1. h \in Nat /\ l = 2 * h + 1
        <5> HIDE DEF l
        <5> QED BY <2>2, <2>9
      <4>2. r + s * l = exponent
        OBVIOUS
      <4> HIDE DEF h, l
      <4>3. s * l = (s + s) * h + s
        BY <4>1
      <4> QED BY <4>1, <4>2, <4>3 DEF h
    <3>4. r + s \in Nat /\ r + s <= exponent
      BY <2>4
    <3>5. At(k + 1, s + s, r + s)
      BY <2>3, <2>6, <2>7, <2>8, <2>9, <3>1, <3>2, <3>3, <3>4
    <3> HIDE DEF At
    <3> QED BY <2>8, <3>4, <3>5
  <2>10. CASE l % 2 = 0
    <3>1. r + (s + s) * (l \div 2) = exponent
      <4> DEFINE h == l \div 2
      <4>1. h \in Nat /\ l = 2 * h
        BY <2>2, <2>10
      <4>2. r + s * l = exponent
        OBVIOUS
      <4> HIDE DEF h, l
      <4>3. s * l = (s + s) * h
        BY <4>1
      <4> QED BY <4>1, <4>2, <4>3 DEF h
    <3>2. At(k + 1, s + s, r)
      BY <2>3, <2>6, <2>7, <2>8, <2>10, <3>1
    <3> HIDE DEF At
    <3> QED BY <2>8, <3>2
  <2>11. l % 2 = 0 \/ l % 2 = 1
    BY <2>2
  <2> QED BY <2>9, <2>10, <2>11
<1>11. last \in Good
  <2>1. last \in Nat /\ last \in 0..last
    BY <1>8
  <2> HIDE DEF Good, last
  <2> QED BY <1>9, <1>10, <2>1, Induct
<1>12. PICK s \in Nat, r \in Nat : At(last, s, r)
  BY <1>11
<1>13. r = exponent
  <2>1. left(last) = 0 /\ r + s * left(last) = exponent
    BY <1>8, <1>12
  <2>2. s * 0 = 0
    OBVIOUS
  <2> QED BY <2>1, <2>2
<1>14. Agrees(R[last].result, {P[exponent]}) /\ R[last].matrix # {}
  BY <1>12, <1>13 DEF Agrees
<1>15. MatrixPower(m, exponent) = R[last].result
  BY <1>14 DEF MatrixPower, left, R
<1>16. PowersOf(a, exponent) = {P[exponent]}
  <2> HIDE DEF most
  <2> QED BY <1>2, <1>3, <1>4, PowersOfIs
<1> QED BY <1>14, <1>15, <1>16 DEF a


LEMMA PowersKeeps ==
  ASSUME MatrixConstants, MatrixInv, aside = {}, Small(matrix), NEW n \in Int, Powers(n)
  PROVE  MatrixInv'
<1>1. IsMatrix(matrix) /\ Present = ArrayOf(matrix) /\ IndexLimit \in Nat /\ TileSize \in Nat \ {0}
  BY PresentIs DEF MatrixConstants
<1> DEFINE results == UNION {MatrixPower(matrix, k) : k \in Unsigned(n)}
           arrays == IF n < 0 THEN {} ELSE PowersOf(Present, n)
           why == SquareAside(matrix)
<1>2. Becomes(results, arrays, why)
  BY DEF Powers
<1>3. ASSUME why = {} PROVE Agrees(results, arrays)
  <2>1. matrix.rows = matrix.cols
    BY ONLY <1>3, Zenon DEF SquareAside, If
  <2>2. CASE n < 0
    <3>1. results = {} /\ arrays = {}
      BY <2>2 DEF Unsigned
    <3> QED BY <3>1 DEF Agrees
  <2>3. CASE n >= 0
    <3> DEFINE side == matrix.cols
    <3>1. n \in Nat /\ Unsigned(n) = {n} /\ arrays = PowersOf(Present, n)
      BY <2>3 DEF Unsigned
    <3>2. results = MatrixPower(matrix, n)
      BY <3>1
    <3>3. side \in Nat \ {0} /\ (side + 2) * side < IndexLimit
      BY <1>1, <2>1 DEF IsMatrix, Small
    <3>4. matrix \in SquareMatrices(side)
      BY <1>1, <2>1, <3>3, SquareMatrixIs
    <3> HIDE DEF results, arrays, side
    <3>5. Agrees(MatrixPower(matrix, n), PowersOf(ArrayOf(matrix), n))
      BY <1>1, <3>1, <3>3, <3>4, PowerAgrees
    <3> QED BY <1>1, <3>1, <3>2, <3>5
  <2> QED BY <2>2, <2>3
<1> HIDE DEF arrays, results, why
<1> QED BY <1>2, <1>3, BecomesKeeps

-----------------------------------------------------------------------------
(* Every call.                                                              *)

LEMMA MatrixInitially ==
  ASSUME MatrixConstants, MatrixInit
  PROVE  MatrixInv
BY DEF MatrixConstants, MatrixInit, MatrixInv

LEMMA CalculatesKeeps ==
  ASSUME MatrixConstants, MatrixInv, aside = {}, Small(matrix), Calculates
  PROVE  MatrixInv'
<1>1. CASE Transposes
  BY <1>1, TransposesKeeps
<1>2. CASE Negates
  BY <1>2, ScalesKeeps DEF Negates
<1>3. ASSUME NEW o \in Matrices, Adds(o) PROVE MatrixInv'
  BY <1>3, AddsKeeps
<1>4. ASSUME NEW o \in Matrices, Subtracts(o) PROVE MatrixInv'
  BY <1>4, SubtractsKeeps
<1>5. ASSUME NEW o \in Matrices, Multiplies(o) PROVE MatrixInv'
  BY <1>5, MultipliesKeeps
<1>6. ASSUME NEW o \in Matrices, MatMuls(o) PROVE MatrixInv'
  BY <1>6, MatMulsKeeps
<1>7. ASSUME NEW o \in Matrices, Concatenates(o) PROVE MatrixInv'
  BY <1>7, ConcatenatesKeeps
<1>8. ASSUME NEW s \in Scalar, Scales(s) PROVE MatrixInv'
  BY <1>8, ScalesKeeps DEF MatrixConstants
<1>9. ASSUME NEW s \in Scalar, Divides(s) PROVE MatrixInv'
  BY <1>9, DividesKeeps DEF MatrixConstants
<1>10. ASSUME NEW n \in Exponent, Powers(n) PROVE MatrixInv'
  BY <1>10, PowersKeeps DEF MatrixConstants
<1>11. ASSUME NEW order \in [0..matrix.rows - 1 -> 0..matrix.rows - 1], Shuffles(order)
       PROVE  MatrixInv'
  BY <1>11, ShufflesKeeps
<1> QED BY <1>1, <1>2, <1>3, <1>4, <1>5, <1>6, <1>7, <1>8, <1>9, <1>10, <1>11 DEF Calculates

LEMMA MakesKeeps ==
  ASSUME MatrixConstants, MatrixInv, aside = {}, Small(matrix), Small(matrix'), Makes
  PROVE  MatrixInv'
<1>1. Place \subseteq Int /\ Scalar \subseteq Int
  BY DEF MatrixConstants
<1>2. ASSUME NEW n \in Place, Eyes(n) PROVE MatrixInv'
  BY <1>1, <1>2, EyesKeeps
<1>3. ASSUME NEW r \in Place, NEW c \in Place, Reshapes(r, c) PROVE MatrixInv'
  BY <1>1, <1>3, ReshapesKeeps
<1>4. ASSUME NEW r \in Place, NEW c \in Place, NEW x \in {0, 1}, Fills(r, c, x) PROVE MatrixInv'
  BY <1>1, <1>4, FillsKeeps
<1>5. ASSUME NEW x \in Scalar, NEW y \in Scalar, Diagonal(<<x, y>>) PROVE MatrixInv'
  <2>1. <<x, y>> \in Seq(Int) /\ <<x, y>> # << >>
    BY <1>1
  <2> QED BY <1>5, <2>1, DiagonalKeeps
<1> QED BY <1>2, <1>3, <1>4, <1>5 DEF Makes

LEMMA IndexesKeeps ==
  ASSUME MatrixConstants, MatrixInv, aside = {}, Small(matrix), Indexes
  PROVE  MatrixInv'
<1>1. Span \subseteq Slices /\ Scalar \subseteq Int
  BY DEF MatrixConstants
<1>2. ASSUME NEW s \in Span, SelectsRows(s) PROVE MatrixInv'
  BY <1>1, <1>2, SelectsRowsKeeps
<1>3. ASSUME NEW s \in Span, NEW t \in Span, SelectsBoth(s, t) PROVE MatrixInv'
  BY <1>1, <1>3, SelectsBothKeeps
<1>4. ASSUME NEW s \in Span, NEW t \in Span, NEW o \in Matrices, Assigns(s, t, o) PROVE MatrixInv'
  BY <1>1, <1>4, AssignsKeeps
<1>5. ASSUME NEW s \in Span, NEW i \in Place, SelectsColumn(s, i) PROVE MatrixInv'
  BY <1>1, <1>5, SelectsColumnKeeps
<1>6. ASSUME NEW s \in Span, NEW i \in Place, SelectsRow(i, s) PROVE MatrixInv'
  BY <1>1, <1>6, SelectsRowKeeps
<1>7. ASSUME NEW i \in Place, NEW j \in Place, NEW x \in Scalar, AssignsElement(i, j, x) PROVE MatrixInv'
  BY <1>1, <1>7, AssignsElementKeeps
<1> QED BY <1>2, <1>3, <1>4, <1>5, <1>6, <1>7 DEF Indexes

\* The matrix is the array that the calls so far amount to, and a program sees
\* that array, whatever the matrices, numbers, positions and slices are, as
\* long as no offset of the matrix wraps (Matrix.cpp, PyMatrix.cpp).
THEOREM MatricesAreArrays == MatrixSpec /\ []Small(matrix) => []MatrixIsArray
<1> USE MatrixAssumption
<1>1. MatrixInit => MatrixInv
  BY MatrixInitially
<1>2. MatrixInv /\ Small(matrix) /\ Small(matrix)' /\ [MatrixNext]_matrixVars => MatrixInv'
  <2> SUFFICES ASSUME MatrixInv, Small(matrix), Small(matrix'), [MatrixNext]_matrixVars
               PROVE  MatrixInv'
    BY DEF Small
  <2>1. CASE UNCHANGED matrixVars
    BY <2>1 DEF matrixVars, MatrixInv, IsMatrix, ArrayOf, Array, Cells
  <2>2. CASE MatrixNext
    <3>1. aside = {} /\ (Calculates \/ Makes \/ Indexes)
      BY <2>2 DEF MatrixNext
    <3> QED BY <3>1, CalculatesKeeps, MakesKeeps, IndexesKeeps
  <2> QED BY <2>1, <2>2
<1>3. MatrixInv /\ Small(matrix) => MatrixIsArray
  BY MatrixSeen
<1> QED BY <1>1, <1>2, <1>3, PTL DEF MatrixSpec
=============================================================================
