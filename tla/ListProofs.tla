----------------------------- MODULE ListProofs -----------------------------
(***************************************************************************)
(* Proofs about List, for every set of elements and of arguments, every    *)
(* capacity, and both kinds of element types.                              *)
(***************************************************************************)
EXTENDS List, SequenceTheorems, WellFoundedInduction, TLAPS

-----------------------------------------------------------------------------
(* What the array operators keep.                                           *)

\* The arrays with n positions.
Array(n) == [0..n - 1 -> Cell]

LEMMA FreshType ==
  ASSUME NEW n \in Nat
  PROVE  Fresh(n) \in Array(n)
BY DEF Fresh, Array, Cell

LEMMA OverwriteType ==
  ASSUME NEW n \in Nat, NEW array \in Array(n), NEW at \in Nat, NEW list \in Seq(Cell)
  PROVE  Overwrite(array, at, list) \in Array(n)
<1> SUFFICES ASSUME NEW i \in 0..n - 1, i - at \in 0..Len(list) - 1
             PROVE  list[i - at + 1] \in Cell
  BY DEF Overwrite, Array
<1>1. i - at + 1 \in 1..Len(list)
  OBVIOUS
<1> QED BY <1>1

LEMMA MoveAtOnceType ==
  ASSUME NEW n \in Nat, NEW array \in Array(n),
         NEW first \in Nat, NEW last \in Nat, NEW dest \in Nat, last <= n
  PROVE  MoveAtOnce(array, first, last, dest) \in Array(n)
<1> SUFFICES ASSUME NEW i \in 0..n - 1, i - dest \in 0..last - first - 1
             PROVE  array[i - dest + first] \in Cell
  BY DEF MoveAtOnce, Array
<1>1. i - dest + first \in 0..n - 1
  OBVIOUS
<1> QED BY <1>1 DEF Array

LEMMA MoveOneByOneType ==
  ASSUME NEW n \in Nat, NEW array \in Array(n),
         NEW first \in Nat, NEW last \in Nat, NEW dest \in Nat, last <= n
  PROVE  MoveOneByOne(array, first, last, dest) \in Array(n)
<1> DEFINE d == dest - first
           m == MoveOneByOne(array, first, last, dest)
<1>1. ASSUME NEW i \in 0..n - 1
      PROVE  m[i] \in Cell
  <2>1. CASE i - dest \in 0..last - first - 1 /\ d <= 0
    <3>1. i - d \in 0..n - 1 /\ m[i] = array[i - d]
      BY <2>1 DEF MoveOneByOne, Array
    <3> QED BY <3>1 DEF Array
  <2>2. CASE i - dest \in 0..last - first - 1 /\ d > 0
    <3>1. (i - dest) % d \in 0..d - 1
      BY <2>2
    <3>2. first + ((i - dest) % d) \in 0..n - 1
      BY <2>2, <3>1
    <3>3. m[i] \in {Null, array[first + ((i - dest) % d)]}
      BY <2>2 DEF MoveOneByOne, Array
    <3> QED BY <3>2, <3>3 DEF Array, Cell
  <2>3. CASE i - dest \notin 0..last - first - 1
    BY <2>3 DEF MoveOneByOne, Array, Cell
  <2> QED BY <2>1, <2>2, <2>3
<1>2. m = [i \in 0..n - 1 |-> m[i]]
  BY DEF MoveOneByOne, Array
<1> HIDE DEF m
<1>3. [i \in 0..n - 1 |-> m[i]] \in [0..n - 1 -> Cell]
  BY <1>1
<1> QED BY <1>2, <1>3 DEF Array, m

LEMMA MoveRangeType ==
  ASSUME NEW n \in Nat, NEW array \in Array(n),
         NEW first \in Nat, NEW last \in Nat, NEW dest \in Nat, last <= n
  PROVE  MoveRange(array, first, last, dest) \in Array(n)
BY MoveAtOnceType, MoveOneByOneType DEF MoveRange

LEMMA StretchType ==
  ASSUME NEW n \in Nat, NEW array \in Array(n),
         NEW first \in Nat, NEW last \in Nat, first <= last, last <= n
  PROVE  /\ Stretch(array, first, last) \in Seq(Cell)
         /\ Len(Stretch(array, first, last)) = last - first
<1>1. \A i \in 1..last - first : first + i - 1 \in 0..n - 1
  OBVIOUS
<1> QED BY <1>1 DEF Stretch, Array

LEMMA HoldsAll ==
  ASSUME NEW n \in Nat, NEW array \in Array(n), NEW k \in Nat, k <= n
  PROVE  Holds(array, k)
BY DEF Holds, Array

-----------------------------------------------------------------------------
(* The invariant: an array of `capacity` positions, `size` of them in use,    *)
(* and nothing has been touched outside.                                      *)

ListInv == TypeOK /\ InBounds

\* Expand keeps the elements, and leaves room for one more.
LEMMA ExpandedType ==
  ASSUME ListInv, NEW n \in Nat
  PROVE  Expanded(n) \in Array(n)
<1>1. Stretch(elements, 0, size) \in Seq(Cell)
  BY StretchType DEF ListInv, TypeOK, Array
<1> QED BY <1>1, FreshType, OverwriteType DEF Expanded

LEMMA RoomForOne ==
  ASSUME ListInv
  PROVE  /\ CapacityForOne \in Nat
         /\ size + 1 <= CapacityForOne
         /\ WithRoomForOne \in Array(CapacityForOne)
<1>1. /\ GrownCapacity \in Nat
      /\ Full => size + 1 <= GrownCapacity
  BY ListAssumption DEF GrownCapacity, Full, ListInv, TypeOK
<1>2. CASE Full
  <2>1. CapacityForOne = GrownCapacity /\ WithRoomForOne = Expanded(GrownCapacity)
    BY <1>2 DEF CapacityForOne, WithRoomForOne
  <2> QED BY <1>1, <1>2, <2>1, ExpandedType
<1>3. CASE ~Full
  <2>1. CapacityForOne = capacity /\ WithRoomForOne = elements
    BY <1>3 DEF CapacityForOne, WithRoomForOne
  <2> QED BY <1>3, <2>1 DEF Full, ListInv, TypeOK, Array
<1> QED BY <1>2, <1>3

\* A step that stores an array of the new capacity, touched below it only.
LEMMA StoreKeeps ==
  ASSUME ListInv, NEW array, NEW n \in Nat, Store(array, n),
         size' \in Nat, capacity' \in Nat, size' <= capacity',
         array \in Array(capacity'), n <= capacity'
  PROVE  ListInv'
<1>1. Holds(array, n)
  BY HoldsAll
<1> QED BY <1>1 DEF ListInv, TypeOK, InBounds, Store, Array

LEMMA ThrowsKeeps ==
  ASSUME ListInv, Throws
  PROVE  ListInv'
BY DEF ListInv, TypeOK, InBounds, Throws

\* One element is a sequence of one.
LEMMA OneElement ==
  ASSUME NEW e \in Value
  PROVE  <<e>> \in Seq(Cell) /\ Len(<<e>>) = 1
BY DEF Cell

LEMMA ArgumentType ==
  ASSUME NEW list \in Argument
  PROVE  list \in Seq(Cell) /\ Len(list) \in Nat
<1>1. list \in Seq(Value)
  BY ListAssumption
<1> QED BY <1>1 DEF Cell

\* An insertion stores what a move of the array with room gives, with one
\* element written into it.
LEMMA InsertionKeeps ==
  ASSUME ListInv, NEW e \in Value, NEW at \in Nat, NEW moved \in Array(CapacityForOne),
         capacity' = CapacityForOne, size' = size + 1,
         Store(Overwrite(moved, at, <<e>>), size + 1)
  PROVE  ListInv'
<1>1. size \in Nat
  BY DEF ListInv, TypeOK
<1>2. Overwrite(moved, at, <<e>>) \in Array(CapacityForOne)
  BY RoomForOne, OneElement, OverwriteType
<1> QED BY <1>1, <1>2, RoomForOne, StoreKeeps

LEMMA ListInductive ==
  ASSUME ListInv, [Next]_vars
  PROVE  ListInv'
<1>0. /\ size \in Nat /\ capacity \in Nat /\ size <= capacity
      /\ elements \in Array(capacity)
  BY DEF ListInv, TypeOK, Array
<1>1. CASE Shift
  <2>1. CASE Empty
    BY <1>1, <2>1, ThrowsKeeps DEF Shift
  <2>2. CASE ~Empty
    <3>1. <<Null>> \in Seq(Cell)
      BY DEF Cell
    <3>2. Overwrite(elements, 0, <<Null>>) \in Array(capacity)
      BY <1>0, <3>1, OverwriteType
    <3>3. WithoutFirst \in Array(capacity)
      BY <1>0, <3>2 DEF WithoutFirst
    <3>4. MoveRange(WithoutFirst, 1, size, 0) \in Array(capacity)
      BY <1>0, <3>3, MoveRangeType
    <3> QED BY <1>0, <1>1, <2>2, <3>4, StoreKeeps DEF Shift, Empty
  <2> QED BY <2>1, <2>2
<1>2. CASE Pop
  BY <1>0, <1>2, ThrowsKeeps DEF Pop, Empty, ListInv, TypeOK, InBounds
<1>3. CASE Clear
  BY <1>0, <1>3 DEF Clear, ListInv, TypeOK, InBounds
<1>4. CASE ReverseList
  <2> DEFINE reversed == [i \in DOMAIN elements |->
               IF i < size THEN elements[size - 1 - i] ELSE elements[i]]
  <2>1. reversed \in Array(capacity)
    BY <1>0 DEF Array
  <2> QED BY <1>0, <1>4, <2>1, StoreKeeps DEF ReverseList
<1>5. CASE TrimExcess
  BY <1>0, <1>5, ExpandedType, StoreKeeps DEF TrimExcess
<1>6. ASSUME NEW e \in Value, Push(e)
      PROVE  ListInv'
  BY <1>0, <1>6, RoomForOne, InsertionKeeps DEF Push
<1>7. ASSUME NEW e \in Value, Unshift(e)
      PROVE  ListInv'
  <2>1. MoveRange(WithRoomForOne, 0, size, 1) \in Array(CapacityForOne)
    BY <1>0, RoomForOne, MoveRangeType
  <2> QED BY <1>0, <1>7, <2>1, InsertionKeeps DEF Unshift
<1>8. ASSUME NEW e \in Value, Fill(e)
      PROVE  ListInv'
  <2>1. [i \in DOMAIN elements |-> e] \in Array(capacity)
    BY <1>0 DEF Array, Cell
  <2> QED BY <1>0, <1>8, <2>1, StoreKeeps, ThrowsKeeps DEF Fill
<1>9. ASSUME NEW list \in Argument \cup {Stretch(elements, 0, size)}, Concat(list)
      PROVE  ListInv'
  <2> DEFINE needed == size + Len(list)
  <2>1. list \in Seq(Cell) /\ Len(list) \in Nat
    <3>1. CASE list \in Argument
      BY <3>1, ArgumentType
    <3>2. CASE list = Stretch(elements, 0, size)
      BY <1>0, <3>2, StretchType
    <3> QED BY <3>1, <3>2
  <2>2. CASE needed > capacity
    <3>1. Overwrite(Expanded(needed), size, list) \in Array(needed)
      BY <1>0, <2>1, ExpandedType, OverwriteType
    <3> QED BY <1>0, <1>9, <2>1, <2>2, <3>1, StoreKeeps DEF Concat
  <2>3. CASE ~(needed > capacity)
    <3>1. Overwrite(elements, size, list) \in Array(capacity)
      BY <1>0, <2>1, OverwriteType
    <3> QED BY <1>0, <1>9, <2>1, <2>3, <3>1, StoreKeeps DEF Concat
  <2> QED BY <2>2, <2>3
<1>10. ASSUME NEW index \in 0..MaxSize + 1, RemoveAt(index)
       PROVE  ListInv'
  <2>1. CASE ~ValidIndex(index)
    BY <1>10, <2>1, ThrowsKeeps DEF RemoveAt
  <2>2. CASE ValidIndex(index)
    <3>1. MoveRange(elements, index + 1, size, index) \in Array(capacity)
      BY <1>0, MoveRangeType
    <3> QED BY <1>0, <1>10, <2>2, <3>1, StoreKeeps DEF RemoveAt, ValidIndex
  <2> QED BY <2>1, <2>2
<1>11. ASSUME NEW k \in 0..MaxSize + 1, PopMany(k)
       PROVE  ListInv'
  BY <1>0, <1>11, ThrowsKeeps DEF PopMany, ListInv, TypeOK, InBounds
<1>12. ASSUME NEW index \in 0..MaxSize + 1, NEW e \in Value, Insert(index, e)
       PROVE  ListInv'
  <2>1. CASE index > size
    BY <1>12, <2>1, ThrowsKeeps DEF Insert
  <2>2. CASE ~(index > size)
    <3>1. CopyRange(WithRoomForOne, index, size, index + 1) \in Array(CapacityForOne)
      BY <1>0, RoomForOne, MoveAtOnceType DEF CopyRange
    <3> QED BY <1>0, <1>12, <2>2, <3>1, InsertionKeeps DEF Insert
  <2> QED BY <2>1, <2>2
<1>13. ASSUME NEW index \in 0..MaxSize + 1, NEW e \in Value, Set(index, e)
       PROVE  ListInv'
  <2>1. CASE ~ValidIndex(index)
    BY <1>13, <2>1, ThrowsKeeps DEF Set
  <2>2. CASE ValidIndex(index)
    <3>1. Overwrite(elements, index, <<e>>) \in Array(capacity)
      <4>1. <<e>> \in Seq(Cell) /\ index \in Nat
        BY OneElement
      <4> HIDE DEF ListInv
      <4> QED BY <1>0, <4>1, OverwriteType
    <3> QED BY <1>0, <1>13, <2>2, <3>1, StoreKeeps DEF Set, ValidIndex
  <2> QED BY <2>1, <2>2
<1>14. ASSUME NEW start \in 0..MaxSize + 1, NEW length \in 0..MaxSize + 1,
              RemoveRange(start, length)
       PROVE  ListInv'
  <2>1. CASE start >= size \/ start + length > size
    BY <1>14, <2>1, ThrowsKeeps DEF RemoveRange
  <2>2. CASE ~(start >= size \/ start + length > size)
    <3>1. MoveRange(elements, start + length, size, start) \in Array(capacity)
      BY <1>0, MoveRangeType
    <3>2. CASE length = 0
      BY <1>0, <1>14, <2>2, <3>2 DEF RemoveRange, ListInv, TypeOK, InBounds
    <3>3. CASE length # 0
      BY <1>0, <1>14, <2>2, <3>1, <3>3, StoreKeeps DEF RemoveRange
    <3> QED BY <3>2, <3>3
  <2> QED BY <2>1, <2>2
<1>15. ASSUME NEW start \in 0..MaxSize + 1, NEW end \in 0..MaxSize + 1,
              NEW list \in Argument, InsertAndReplace(start, end, list)
       PROVE  ListInv'
  <2>1. CASE start > size \/ end > size \/ start > end
    BY <1>15, <2>1, ThrowsKeeps DEF InsertAndReplace
  <2>2. CASE ~(start > size \/ end > size \/ start > end)
    <3> DEFINE newSize == size - (end - start) + Len(list)
               grows   == Len(list) > end - start /\ newSize > capacity
               cap     == IF grows THEN newSize ELSE capacity
               room    == IF grows THEN Expanded(newSize) ELSE elements
               moved   == IF Len(list) = end - start THEN room
                          ELSE MoveRange(room, end, size, start + Len(list))
    <3>1. list \in Seq(Cell) /\ Len(list) \in Nat
      BY ArgumentType
    <3>2. newSize \in Nat /\ cap \in Nat /\ newSize <= cap /\ size <= cap
      BY <1>0, <2>2, <3>1
    <3>3. room \in Array(cap)
      BY <1>0, <3>2, ExpandedType
    <3>4. moved \in Array(cap)
      <4> HIDE DEF room, cap, grows, newSize
      <4> QED BY <1>0, <3>1, <3>2, <3>3, MoveRangeType
    <3>5. Overwrite(moved, start, list) \in Array(cap)
      <4> HIDE DEF moved, cap
      <4> QED BY <3>1, <3>2, <3>4, OverwriteType
    <3>6. capacity' = cap /\ size' = newSize /\ Store(Overwrite(moved, start, list), newSize)
      BY <1>15, <2>2 DEF InsertAndReplace
    <3> HIDE DEF moved, cap, newSize
    <3> QED BY <3>2, <3>5, <3>6, StoreKeeps
  <2> QED BY <2>1, <2>2
<1>16. ASSUME NEW newCapacity \in size..MaxSize, NEW e \in Value,
              ExpandWithElement(newCapacity, e)
       PROVE  ListInv'
  <2> DEFINE filled == [i \in 0..newCapacity - 1 |-> e]
  <2>1. newCapacity \in Nat
    BY <1>0, ListAssumption
  <2>2. filled \in Array(newCapacity)
    BY DEF Array, Cell
  <2>3. Overwrite(filled, 0, Stretch(elements, 0, size)) \in Array(newCapacity)
    <3> HIDE DEF filled
    <3> QED BY <1>0, <2>1, <2>2, StretchType, OverwriteType
  <2> QED BY <1>0, <1>16, <2>1, <2>3, StoreKeeps DEF ExpandWithElement
<1>17. ASSUME NEW list \in Argument, NEW spare \in 0..1, Assign(list, Len(list) + spare)
       PROVE  ListInv'
  <2>1. list \in Seq(Cell) /\ Len(list) + spare \in Nat /\ Len(list) \in Nat
    BY ArgumentType
  <2>2. Overwrite(Fresh(Len(list) + spare), 0, list) \in Array(Len(list) + spare)
    BY <2>1, FreshType, OverwriteType
  <2> QED BY <1>0, <1>17, <2>1, <2>2, StoreKeeps DEF Assign
<1>18. CASE UNCHANGED vars
  BY <1>18 DEF vars, ListInv, TypeOK, InBounds
<1> QED
  BY <1>1, <1>2, <1>3, <1>4, <1>5, <1>6, <1>7, <1>8, <1>9, <1>10, <1>11, <1>12,
     <1>13, <1>14, <1>15, <1>16, <1>17, <1>18 DEF Next

LEMMA ListInitially ==
  ASSUME Init
  PROVE  ListInv
<1>0. astray \in BOOLEAN /\ InBounds
  BY Zenon DEF Init, InBounds
<1>1. CASE size = 0 /\ capacity \in 0..INIT_CAPACITY /\ elements = Fresh(capacity)
  <2>1. elements \in Array(capacity)
    BY <1>1, FreshType
  <2>2. capacity \in Nat
    BY <1>1, ListAssumption
  <2> QED BY <1>0, <1>1, <2>1, <2>2 DEF ListInv, TypeOK, Array
<1>2. ASSUME NEW list \in Argument, size = Len(list), capacity = Len(list),
             elements = Overwrite(Fresh(Len(list)), 0, list)
      PROVE  ListInv
  <2>1. list \in Seq(Cell) /\ Len(list) \in Nat
    BY ArgumentType
  <2>2. elements \in Array(capacity)
    BY <1>2, <2>1, FreshType, OverwriteType
  <2> QED BY <1>0, <1>2, <2>1, <2>2 DEF ListInv, TypeOK, Array
<1> QED BY <1>1, <1>2 DEF Init

\* `size` never exceeds `capacity`, and the array has `capacity` positions, for
\* every element type and every way of growing, trimming and filling.
THEOREM TypeCorrect == Spec => []TypeOK
<1>1. ListInv => TypeOK
  BY DEF ListInv
<1> QED BY <1>1, ListInitially, ListInductive, PTL DEF Spec

\* No operation of List touches memory outside its array.
THEOREM StaysInBounds == Spec => []InBounds
<1>1. ListInv => InBounds
  BY DEF ListInv
<1> QED BY <1>1, ListInitially, ListInductive, PTL DEF Spec

-----------------------------------------------------------------------------
(* What the array operators do, position by position.                       *)

LEMMA OverwriteAt ==
  ASSUME NEW n \in Nat, NEW array \in Array(n), NEW at, NEW list, NEW i \in 0..n - 1
  PROVE  Overwrite(array, at, list)[i]
           = IF i - at \in 0..Len(list) - 1 THEN list[i - at + 1] ELSE array[i]
BY DEF Overwrite, Array

LEMMA SmallRemainder ==
  ASSUME NEW a \in Nat, NEW d \in Nat, a < d
  PROVE  a % d = a
OBVIOUS

\* Where a move takes what it should: when it copies bytes, or goes to the left,
\* or to the right of all it moves.
LEMMA MoveRangeAt ==
  ASSUME NEW n \in Nat, NEW array \in Array(n),
         NEW first \in Nat, NEW last \in Nat, NEW dest \in Nat, first <= last, last <= n,
         Trivial \/ dest <= first \/ last <= dest,
         NEW i \in 0..n - 1
  PROVE  /\ i - dest \in 0..last - first - 1 =>
              MoveRange(array, first, last, dest)[i] = array[i - dest + first]
         /\ i < first /\ i < dest => MoveRange(array, first, last, dest)[i] = array[i]
<1>1. CASE Trivial
  BY <1>1 DEF MoveRange, MoveAtOnce, Array
<1>2. CASE ~Trivial
  <2> DEFINE m == MoveOneByOne(array, first, last, dest)
             d == dest - first
  <2>1. MoveRange(array, first, last, dest) = m
    BY <1>2 DEF MoveRange
  <2>2. m[i] = IF i - dest \in 0..last - first - 1
                 THEN IF d <= 0 THEN array[i - d]
                      ELSE IF i - dest + d < last - first THEN Null
                      ELSE array[first + ((i - dest) % d)]
                 ELSE IF i - first \in 0..last - first - 1 THEN Null ELSE array[i]
    BY DEF MoveOneByOne, Array
  <2> HIDE DEF m
  <2>3. ASSUME i - dest \in 0..last - first - 1 PROVE m[i] = array[i - dest + first]
    <3>1. CASE d <= 0
      <4>1. i - d = i - dest + first
        OBVIOUS
      <4> QED BY <2>2, <2>3, <3>1, <4>1
    <3>2. CASE ~(d <= 0)
      <4>1. last <= dest
        BY <1>2, <3>2
      <4>2. /\ i - dest \in Nat /\ d \in Nat /\ i - dest < d
            /\ ~(i - dest + d < last - first)
        BY <2>3, <3>2, <4>1
      <4>3. (i - dest) % d = i - dest
        BY <4>2, SmallRemainder
      <4>4. first + (i - dest) = i - dest + first
        OBVIOUS
      <4> QED BY <2>2, <2>3, <3>2, <4>2, <4>3, <4>4
    <3> QED BY <3>1, <3>2
  <2>4. ASSUME i < first, i < dest PROVE m[i] = array[i]
    <3>1. i - dest \notin 0..last - first - 1 /\ i - first \notin 0..last - first - 1
      BY <2>4
    <3> QED BY <2>2, <3>1
  <2> QED BY <2>1, <2>3, <2>4
<1> QED BY <1>1, <1>2

\* And otherwise the first place it goes to is moved on.
LEMMA MoveLeavesHole ==
  ASSUME NEW n \in Nat, NEW array \in Array(n),
         NEW first \in Nat, NEW last \in Nat, NEW dest \in Nat, last <= n,
         ~Trivial, first < dest, dest < last
  PROVE  MoveRange(array, first, last, dest)[dest] = Null
<1>1. /\ dest \in 0..n - 1 /\ dest - dest \in 0..last - first - 1
      /\ ~(dest - first <= 0) /\ dest - dest + (dest - first) < last - first
  OBVIOUS
<1> QED BY <1>1 DEF MoveRange, MoveOneByOne, Array

LEMMA StretchAt ==
  ASSUME NEW n \in Nat, NEW array \in Array(n),
         NEW first \in Nat, NEW last \in Nat, first <= last, last <= n
  PROVE  \A i \in 1..last - first : Stretch(array, first, last)[i] = array[first + i - 1]
BY DEF Stretch

\* The first k positions of an array, as a sequence.
LEMMA PrefixShape ==
  ASSUME NEW n \in Nat, NEW array \in Array(n), NEW k \in Nat, k <= n
  PROVE  /\ Stretch(array, 0, k) \in Seq(Cell)
         /\ Len(Stretch(array, 0, k)) = k
         /\ \A i \in 1..k : Stretch(array, 0, k)[i] = array[i - 1]
<1>1. \A i \in 1..k : 0 + i - 1 \in 0..n - 1
  OBVIOUS
<1>2. \A i \in 1..k : Stretch(array, 0, k)[i] = array[i - 1]
  BY DEF Stretch
<1>3. Stretch(array, 0, k) \in Seq(Cell) /\ Len(Stretch(array, 0, k)) = k
  BY <1>1 DEF Stretch, Array
<1> QED BY <1>2, <1>3

LEMMA ElementsShape ==
  ASSUME ListInv
  PROVE  /\ Elements \in Seq(Cell) /\ Len(Elements) = size /\ size \in Nat
         /\ \A i \in 1..size : Elements[i] = elements[i - 1]
<1>1. size \in Nat /\ capacity \in Nat /\ size <= capacity /\ elements \in Array(capacity)
  BY DEF ListInv, TypeOK, Array
<1> QED BY <1>1, PrefixShape DEF Elements

LEMMA ExpandedAt ==
  ASSUME ListInv, NEW n \in Nat, NEW i \in 0..n - 1, i < size
  PROVE  Expanded(n)[i] = elements[i]
<1>1. /\ Elements \in Seq(Cell) /\ Len(Elements) = size /\ size \in Nat
      /\ Elements[i + 1] = elements[i]
  BY ElementsShape
<1>2. Fresh(n) \in Array(n)
  BY FreshType
<1>3. i - 0 \in 0..Len(Elements) - 1 /\ i - 0 + 1 = i + 1
  BY <1>1
<1>4. Overwrite(Fresh(n), 0, Elements)[i] = Elements[i - 0 + 1]
  BY <1>2, <1>3, OverwriteAt
<1> QED BY <1>1, <1>3, <1>4 DEF Expanded, Elements

LEMMA RoomForOneAt ==
  ASSUME ListInv, NEW i \in 0..size - 1
  PROVE  WithRoomForOne[i] = elements[i]
<1>1. size \in Nat
  BY DEF ListInv, TypeOK
<1>2. CASE Full
  <2>1. GrownCapacity \in Nat /\ size + 1 <= GrownCapacity
    BY <1>2, RoomForOne DEF CapacityForOne
  <2> QED BY <1>1, <1>2, <2>1, ExpandedAt DEF WithRoomForOne
<1> QED BY <1>2 DEF WithRoomForOne

\* To become a sequence: its length is the new size, its elements are there.
LEMMA ElementsNext ==
  ASSUME ListInv', NEW t \in Seq(Cell), Len(t) = size',
         \A i \in 1..size' : elements'[i - 1] = t[i]
  PROVE  Elements' = t
<1>1. size' \in Nat /\ capacity' \in Nat /\ size' <= capacity' /\ elements' \in Array(capacity')
  BY DEF ListInv, TypeOK, Array
<1>2. /\ Stretch(elements', 0, size') \in Seq(Cell)
      /\ Len(Stretch(elements', 0, size')) = size'
      /\ \A i \in 1..size' : Stretch(elements', 0, size')[i] = elements'[i - 1]
  BY <1>1, PrefixShape
<1>3. Stretch(elements', 0, size') = t
  BY <1>2, SeqEqual
<1> QED BY <1>3 DEF Elements

LEMMA ConcatShape ==
  ASSUME NEW r \in Seq(Cell), NEW q \in Seq(Cell)
  PROVE  /\ r \o q \in Seq(Cell) /\ Len(r \o q) = Len(r) + Len(q)
         /\ \A i \in 1..Len(r) : (r \o q)[i] = r[i]
         /\ \A i \in Len(r) + 1..Len(r) + Len(q) : (r \o q)[i] = q[i - Len(r)]
OBVIOUS

\* The sequence t is s with the stretch from a + 1 to b replaced by list.
IsSplice(t, s, a, b, list) ==
  /\ t \in Seq(Cell) /\ Len(t) = a + Len(list) + Len(s) - b
  /\ \A i \in 1..a : t[i] = s[i]
  /\ \A i \in a + 1..a + Len(list) : t[i] = list[i - a]
  /\ \A i \in a + Len(list) + 1..Len(t) : t[i] = s[i - a - Len(list) + b]

LEMMA SpliceShape ==
  ASSUME NEW s \in Seq(Cell), NEW list \in Seq(Cell), NEW a \in Nat, NEW b \in Nat,
         a <= b, b <= Len(s)
  PROVE  IsSplice(SubSeq(s, 1, a) \o list \o SubSeq(s, b + 1, Len(s)), s, a, b, list)
<1> DEFINE p == SubSeq(s, 1, a)
           q == SubSeq(s, b + 1, Len(s))
<1>1. p \in Seq(Cell) /\ Len(p) = a /\ \A i \in 1..a : p[i] = s[i]
  OBVIOUS
<1>2. q \in Seq(Cell) /\ Len(q) = Len(s) - b /\ \A i \in 1..Len(s) - b : q[i] = s[b + i]
  OBVIOUS
<1> HIDE DEF p, q
<1>3. /\ p \o list \in Seq(Cell) /\ Len(p \o list) = a + Len(list)
      /\ \A i \in 1..a : (p \o list)[i] = p[i]
      /\ \A i \in a + 1..a + Len(list) : (p \o list)[i] = list[i - a]
  BY <1>1, ConcatShape
<1> DEFINE r == p \o list
<1>4. r \in Seq(Cell) /\ Len(r) = a + Len(list)
  BY <1>3
<1> HIDE DEF r
<1>5. /\ r \o q \in Seq(Cell) /\ Len(r \o q) = Len(r) + Len(q)
      /\ \A i \in 1..Len(r) : (r \o q)[i] = r[i]
      /\ \A i \in Len(r) + 1..Len(r) + Len(q) : (r \o q)[i] = q[i - Len(r)]
  BY <1>2, <1>4, ConcatShape
<1>6. \A i \in a + Len(list) + 1..Len(r \o q) : (r \o q)[i] = s[i - a - Len(list) + b]
  <2> SUFFICES ASSUME NEW i \in a + Len(list) + 1..Len(r \o q)
               PROVE  (r \o q)[i] = s[i - a - Len(list) + b]
    OBVIOUS
  <2>1. i - Len(r) \in 1..Len(s) - b /\ b + (i - Len(r)) = i - a - Len(list) + b
    BY <1>2, <1>4, <1>5
  <2> QED BY <1>2, <1>4, <1>5, <2>1
<1>7. \A i \in 1..a : (r \o q)[i] = s[i]
  BY <1>1, <1>3, <1>4, <1>5 DEF r
<1>8. \A i \in a + 1..a + Len(list) : (r \o q)[i] = list[i - a]
  BY <1>3, <1>4, <1>5 DEF r
<1> QED BY <1>2, <1>4, <1>5, <1>6, <1>7, <1>8 DEF r, p, q, IsSplice

-----------------------------------------------------------------------------
(* List implements ListContract.                                            *)

LEMMA Contents ==
  ASSUME ListInv
  PROVE  /\ size \in Nat /\ capacity \in Nat /\ size <= capacity
         /\ elements \in Array(capacity)
         /\ Elements \in Seq(Cell) /\ Len(Elements) = size
         /\ \A i \in 1..size : Elements[i] = elements[i - 1]
BY ElementsShape DEF ListInv, TypeOK, Array

LEMMA ThrowsStep ==
  ASSUME Throws
  PROVE  Contract!Throws
BY DEF Throws, Returns, Contract!Throws, Elements, Threw, Contract!Threw

\* A stretch replaced, said of the arrays.
LEMMA SpliceStep ==
  ASSUME ListInv, ListInv', NEW list \in Seq(Cell),
         NEW start \in Nat, NEW end \in Nat, start <= end, end <= size,
         size' = size - (end - start) + Len(list),
         \A i \in 0..start - 1 : elements'[i] = elements[i],
         \A i \in start..start + Len(list) - 1 : elements'[i] = list[i - start + 1],
         \A i \in start + Len(list)..size' - 1 :
            elements'[i] = elements[i - start - Len(list) + end]
  PROVE  Elements' = SubSeq(Elements, 1, start) \o list \o SubSeq(Elements, end + 1, size)
<1> DEFINE t == SubSeq(Elements, 1, start) \o list \o SubSeq(Elements, end + 1, size)
<1>0. /\ size \in Nat /\ Elements \in Seq(Cell) /\ Len(Elements) = size
      /\ \A i \in 1..size : Elements[i] = elements[i - 1]
  BY Contents
<1>1. /\ t \in Seq(Cell) /\ Len(t) = start + Len(list) + size - end
      /\ \A i \in 1..start : t[i] = Elements[i]
      /\ \A i \in start + 1..start + Len(list) : t[i] = list[i - start]
      /\ \A i \in start + Len(list) + 1..Len(t) : t[i] = Elements[i - start - Len(list) + end]
  <2>1. t = SubSeq(Elements, 1, start) \o list \o SubSeq(Elements, end + 1, Len(Elements))
    BY <1>0
  <2>2. end <= Len(Elements)
    BY <1>0
  <2> HIDE DEF t
  <2>3. IsSplice(t, Elements, start, end, list)
    BY <1>0, <2>1, <2>2, SpliceShape
  <2> QED BY <1>0, <2>3 DEF IsSplice
<1> HIDE DEF t
<1>2. Len(list) \in Nat /\ Len(t) = size'
  BY <1>0, <1>1
<1>3. \A i \in 1..size' : elements'[i - 1] = t[i]
  <2> SUFFICES ASSUME NEW i \in 1..size'
               PROVE  elements'[i - 1] = t[i]
    OBVIOUS
  <2>1. CASE i <= start
    <3>1. i - 1 \in 0..start - 1 /\ i \in 1..start /\ i \in 1..size
      BY <1>0, <2>1
    <3> QED BY <1>0, <1>1, <3>1
  <2>2. CASE i > start /\ i <= start + Len(list)
    <3>1. /\ i - 1 \in start..start + Len(list) - 1 /\ i \in start + 1..start + Len(list)
          /\ (i - 1) - start + 1 = i - start
      BY <1>2, <2>2
    <3>2. elements'[i - 1] = list[(i - 1) - start + 1]
      BY <3>1
    <3>3. t[i] = list[i - start]
      BY <1>1, <3>1
    <3> QED BY <3>1, <3>2, <3>3
  <2>3. CASE i > start + Len(list)
    <3> DEFINE j == i - start - Len(list) + end
    <3>1. /\ i - 1 \in start + Len(list)..size' - 1 /\ i \in start + Len(list) + 1..Len(t)
          /\ (i - 1) - start - Len(list) + end = j - 1 /\ j \in 1..size
      BY <1>0, <1>1, <1>2, <2>3
    <3>2. elements'[i - 1] = elements[j - 1] /\ t[i] = Elements[j]
      BY <1>1, <3>1
    <3> QED BY <1>0, <3>1, <3>2
  <2> QED BY <1>2, <2>1, <2>2, <2>3
<1> QED BY <1>1, <1>2, <1>3, ElementsNext DEF t

\* One element written into an array with room for it, that was moved before.
LEMMA InsertionStep ==
  ASSUME ListInv, ListInv', NEW e \in Value, NEW at \in 0..size,
         NEW moved \in Array(CapacityForOne),
         \A i \in 0..at - 1 : moved[i] = elements[i],
         \A i \in at + 1..size : moved[i] = elements[i - 1],
         elements' = Overwrite(moved, at, <<e>>), size' = size + 1
  PROVE  Elements' = SubSeq(Elements, 1, at) \o <<e>> \o SubSeq(Elements, at + 1, size)
<1>0. size \in Nat /\ at \in Nat /\ CapacityForOne \in Nat /\ size + 1 <= CapacityForOne
  BY Contents, RoomForOne
<1>1. PICK list \in Seq(Cell) : list = <<e>>
  <2>1. <<e>> \in Seq(Cell)
    BY DEF Cell
  <2> QED BY <2>1, Zenon
<1>2. Len(list) = 1 /\ list[1] = e
  BY <1>1
<1>3. \A i \in 0..size : Overwrite(moved, at, list)[i]
                          = IF i = at THEN e ELSE moved[i]
  <2> SUFFICES ASSUME NEW i \in 0..size
               PROVE  Overwrite(moved, at, list)[i] = IF i = at THEN e ELSE moved[i]
    OBVIOUS
  <2>1. i \in 0..CapacityForOne - 1 /\ (i - at \in 0..Len(list) - 1 <=> i = at)
    BY <1>0, <1>2
  <2>2. Overwrite(moved, at, list)[i]
          = IF i - at \in 0..Len(list) - 1 THEN list[i - at + 1] ELSE moved[i]
    BY <2>1 DEF Overwrite, Array
  <2>3. i = at => i - at + 1 = 1
    BY <1>0
  <2> QED BY <1>2, <2>1, <2>2, <2>3
<1>4. \A i \in 0..at - 1 : elements'[i] = elements[i]
  BY <1>0, <1>1, <1>3
<1>5. \A i \in at..at + Len(list) - 1 : elements'[i] = list[i - at + 1]
  BY <1>0, <1>1, <1>2, <1>3
<1>6. \A i \in at + Len(list)..size' - 1 : elements'[i] = elements[i - at - Len(list) + at]
  BY <1>0, <1>1, <1>2, <1>3
<1>7. size' = size - (at - at) + Len(list)
  BY <1>0, <1>2
<1>8. Elements' = SubSeq(Elements, 1, at) \o list \o SubSeq(Elements, at + 1, size)
  <2>1. at <= at /\ at <= size
    BY <1>0
  <2> QED BY <1>0, <1>4, <1>5, <1>6, <1>7, <2>1, SpliceStep
<1> QED BY <1>1, <1>8

-----------------------------------------------------------------------------
(* One lemma for each operation that moves elements.                        *)

LEMMA ShiftStep ==
  ASSUME ListInv, ListInv', Shift
  PROVE  Contract!Shift
<1>0. /\ size \in Nat /\ capacity \in Nat /\ size <= capacity /\ elements \in Array(capacity)
      /\ Elements \in Seq(Cell) /\ Len(Elements) = size
      /\ \A i \in 1..size : Elements[i] = elements[i - 1]
  BY Contents
<1>1. CASE Empty
  <2>1. Elements = <<>>
    BY <1>0, <1>1, EmptySeq DEF Empty
  <2> QED BY <1>1, <2>1, ThrowsStep DEF Shift, Contract!Shift
<1>2. CASE ~Empty
  <2>1. size > 0 /\ Elements # <<>>
    BY <1>0, <1>2 DEF Empty
  <2>2. /\ Tail(Elements) \in Seq(Cell) /\ Len(Tail(Elements)) = size - 1
        /\ \A i \in 1..size - 1 : Tail(Elements)[i] = Elements[i + 1]
        /\ Head(Elements) = Elements[1]
    BY <1>0, <2>1
  <2>3. /\ size' = size - 1 /\ elements' = MoveRange(WithoutFirst, 1, size, 0)
        /\ ret' = Item(elements[0])
    BY <1>2 DEF Shift, Store, Returns
  <2>4. WithoutFirst \in Array(capacity) /\ \A i \in 1..size - 1 : WithoutFirst[i] = elements[i]
    <3>1. CASE Trivial
      BY <1>0, <3>1 DEF WithoutFirst
    <3>2. CASE ~Trivial
      <4>1. WithoutFirst = Overwrite(elements, 0, <<Null>>)
        BY <3>2 DEF WithoutFirst
      <4>2. <<Null>> \in Seq(Cell) /\ Len(<<Null>>) = 1
        BY DEF Cell
      <4>3. ASSUME NEW i \in 1..size - 1 PROVE Overwrite(elements, 0, <<Null>>)[i] = elements[i]
        <5>1. i \in 0..capacity - 1 /\ i - 0 \notin 0..Len(<<Null>>) - 1
          BY <1>0, <4>2
        <5> QED BY <1>0, <5>1 DEF Overwrite, Array
      <4> QED BY <1>0, <4>1, <4>2, <4>3, OverwriteType
    <3> QED BY <3>1, <3>2
  <2>5. \A i \in 1..size' : elements'[i - 1] = Tail(Elements)[i]
    <3> SUFFICES ASSUME NEW i \in 1..size'
                 PROVE  elements'[i - 1] = Tail(Elements)[i]
      OBVIOUS
    <3>1. i - 1 \in 0..capacity - 1 /\ (i - 1) - 0 \in 0..size - 1 - 1 /\ (i - 1) - 0 + 1 = i
      BY <1>0, <2>3
    <3>2. MoveRange(WithoutFirst, 1, size, 0)[i - 1] = WithoutFirst[(i - 1) - 0 + 1]
      <4>1. /\ 1 <= size /\ size <= capacity /\ 0 <= 1
            /\ capacity \in Nat /\ 1 \in Nat /\ size \in Nat /\ 0 \in Nat
        BY <1>0, <2>1
      <4>2. WithoutFirst \in Array(capacity)
        BY <2>4
      <4> HIDE DEF WithoutFirst
      <4>3. (i - 1) - 0 \in 0..size - 1 - 1 =>
              MoveRange(WithoutFirst, 1, size, 0)[i - 1] = WithoutFirst[(i - 1) - 0 + 1]
        BY <3>1, <4>1, <4>2, MoveRangeAt
      <4> QED BY <3>1, <4>3
    <3>3. WithoutFirst[i] = elements[i]
      BY <1>0, <2>3, <2>4
    <3>4. Elements[i + 1] = elements[i] /\ Tail(Elements)[i] = Elements[i + 1]
      BY <1>0, <2>2, <2>3
    <3> QED BY <2>3, <3>1, <3>2, <3>4, <3>3
  <2>6. Elements' = Tail(Elements)
    BY <2>2, <2>3, <2>5, ElementsNext
  <2>7. ret' = Contract!Item(Head(Elements))
    BY <1>0, <2>1, <2>2, <2>3 DEF Item, Contract!Item
  <2> QED BY <2>1, <2>6, <2>7 DEF Contract!Shift, Contract!Returns
<1> QED BY <1>1, <1>2

LEMMA PopStep ==
  ASSUME ListInv, ListInv', Pop
  PROVE  Contract!Pop
<1>0. /\ size \in Nat /\ Elements \in Seq(Cell) /\ Len(Elements) = size
      /\ \A i \in 1..size : Elements[i] = elements[i - 1]
  BY Contents
<1>1. CASE Empty
  <2>1. Elements = <<>>
    BY <1>0, <1>1, EmptySeq DEF Empty
  <2> QED BY <1>1, <2>1, ThrowsStep DEF Pop, Contract!Pop
<1>2. CASE ~Empty
  <2>1. size > 0 /\ Elements # <<>>
    BY <1>0, <1>2 DEF Empty
  <2>2. size' = size - 1 /\ elements' = elements /\ ret' = Item(elements[size - 1])
    BY <1>2 DEF Pop, Returns
  <2> DEFINE t == SubSeq(Elements, 1, size - 1)
  <2>3. t \in Seq(Cell) /\ Len(t) = size - 1 /\ \A i \in 1..size - 1 : t[i] = Elements[i]
    BY <1>0, <2>1
  <2> HIDE DEF t
  <2>4. Elements' = t
    BY <1>0, <2>2, <2>3, ElementsNext
  <2>5. Contract!Seqs!Front(Elements) = t /\ Contract!Seqs!Last(Elements) = elements[size - 1]
    BY <1>0, <2>1 DEF t, Contract!Seqs!Front, Contract!Seqs!Last
  <2> QED BY <2>1, <2>2, <2>4, <2>5 DEF Contract!Pop, Contract!Returns, Item, Contract!Item
<1> QED BY <1>1, <1>2

LEMMA PushStep ==
  ASSUME ListInv, ListInv', NEW e \in Value, Push(e)
  PROVE  Contract!Push(e)
<1>0. /\ size \in Nat /\ Elements \in Seq(Cell) /\ Len(Elements) = size
      /\ \A i \in 1..size : Elements[i] = elements[i - 1]
      /\ CapacityForOne \in Nat /\ size + 1 <= CapacityForOne
      /\ WithRoomForOne \in Array(CapacityForOne)
      /\ \A i \in 0..size - 1 : WithRoomForOne[i] = elements[i]
      /\ e \in Cell
  BY Contents, RoomForOne, RoomForOneAt DEF Cell
<1> DEFINE t == Append(Elements, e)
<1>1. /\ t \in Seq(Cell) /\ Len(t) = size + 1
      /\ \A i \in 1..size : t[i] = Elements[i]
      /\ t[size + 1] = e
  BY <1>0
<1> HIDE DEF t
<1>2. /\ size' = size + 1 /\ size < MaxSize /\ ret' = Done
      /\ elements' = Overwrite(WithRoomForOne, size, <<e>>)
  BY DEF Push, Store, Returns
<1>3. \A i \in 1..size + 1 : elements'[i - 1] = t[i]
  <2> SUFFICES ASSUME NEW i \in 1..size + 1
               PROVE  elements'[i - 1] = t[i]
    OBVIOUS
  <2>1. i - 1 \in 0..CapacityForOne - 1 /\ Len(<<e>>) = 1 /\ <<e>>[1] = e
    BY <1>0
  <2>2. elements'[i - 1] = IF i - 1 - size \in 0..Len(<<e>>) - 1
                             THEN <<e>>[i - 1 - size + 1] ELSE WithRoomForOne[i - 1]
    BY <1>0, <1>2, <2>1 DEF Overwrite, Array
  <2>3. CASE i = size + 1
    <3>1. i - 1 - size = 0
      BY <1>0, <2>3
    <3> QED BY <1>1, <2>1, <2>2, <2>3, <3>1
  <2>4. CASE i # size + 1
    <3>1. i - 1 - size \notin 0..Len(<<e>>) - 1 /\ i - 1 \in 0..size - 1 /\ i \in 1..size
      BY <1>0, <2>1, <2>4
    <3> QED BY <1>0, <1>1, <2>2, <3>1
  <2> QED BY <2>3, <2>4
<1>4. Elements' = t
  BY <1>1, <1>2, <1>3, ElementsNext
<1>5. Len(t) <= MaxSize
  BY <1>0, <1>1, <1>2, ListAssumption
<1> QED BY <1>2, <1>4, <1>5
        DEF t, Contract!Push, Contract!Becomes, Contract!Returns, Done, Contract!Done

LEMMA SpliceAtFront ==
  ASSUME NEW s \in Seq(Cell), NEW list \in Seq(Cell)
  PROVE  SubSeq(s, 1, 0) \o list \o SubSeq(s, 0 + 1, Len(s)) = list \o s
<1>1. SubSeq(s, 1, 0) = <<>> /\ SubSeq(s, 0 + 1, Len(s)) = s
  BY SubSeqEmpty, SubSeqFull
<1>2. <<>> \o list = list
  OBVIOUS
<1> QED BY <1>1, <1>2

\* Unshift and Insert.
LEMMA InsertsAt ==
  ASSUME ListInv, ListInv', NEW e \in Value, NEW at \in 0..size,
         NEW moved \in Array(CapacityForOne),
         \A i \in 0..at - 1 : moved[i] = WithRoomForOne[i],
         \A i \in at + 1..size : moved[i] = WithRoomForOne[i - 1],
         elements' = Overwrite(moved, at, <<e>>), size' = size + 1
  PROVE  Elements' = SubSeq(Elements, 1, at) \o <<e>> \o SubSeq(Elements, at + 1, size)
<1>0. size \in Nat /\ at \in Nat
  BY Contents
<1>1. \A i \in 0..size - 1 : WithRoomForOne[i] = elements[i]
  BY RoomForOneAt
<1>2. \A i \in 0..at - 1 : moved[i] = elements[i]
  BY <1>0, <1>1
<1>3. \A i \in at + 1..size : moved[i] = elements[i - 1]
  BY <1>0, <1>1
<1> QED BY <1>2, <1>3, InsertionStep

LEMMA UnshiftStep ==
  ASSUME ListInv, ListInv', Trivial \/ HoleFree', NEW e \in Value, Unshift(e)
  PROVE  Contract!Unshift(e)
<1> DEFINE moved == MoveRange(WithRoomForOne, 0, size, 1)
<1>0. /\ size \in Nat /\ Elements \in Seq(Cell) /\ Len(Elements) = size
      /\ CapacityForOne \in Nat /\ size + 1 <= CapacityForOne
      /\ WithRoomForOne \in Array(CapacityForOne)
  BY Contents, RoomForOne
<1>1. moved \in Array(CapacityForOne)
  BY <1>0, MoveRangeType
<1>2. /\ size' = size + 1 /\ size < MaxSize /\ ret' = Done
      /\ elements' = Overwrite(moved, 0, <<e>>)
  BY DEF Unshift, Store, Returns
<1>3. ASSUME ~Trivial, 1 < size PROVE FALSE
  <2>1. moved[1] = Null
    BY <1>0, <1>3, MoveLeavesHole
  <2>2. 1 \in 0..CapacityForOne - 1 /\ 1 - 0 \notin 0..Len(<<e>>) - 1
    BY <1>0, <1>3
  <2> HIDE DEF moved
  <2>3. elements'[1] = Null
    BY <1>1, <1>2, <2>1, <2>2 DEF Overwrite, Array
  <2>4. 1 \in 0..size' - 1
    BY <1>0, <1>2, <1>3
  <2> QED BY <1>3, <2>3, <2>4 DEF HoleFree
<1>4. \A i \in 1..size : moved[i] = WithRoomForOne[i - 1]
  <2> SUFFICES ASSUME NEW i \in 1..size
               PROVE  moved[i] = WithRoomForOne[i - 1]
    OBVIOUS
  <2>1. i \in 0..CapacityForOne - 1 /\ i - 1 \in 0..size - 0 - 1 /\ i - 1 + 0 = i - 1
    BY <1>0
  <2>2. Trivial \/ size <= 1
    BY <1>0, <1>3
  <2> QED BY <1>0, <2>1, <2>2, MoveRangeAt
<1> HIDE DEF moved
<1>5. Elements' = SubSeq(Elements, 1, 0) \o <<e>> \o SubSeq(Elements, 0 + 1, size)
  <2>1. 0 \in 0..size /\ \A i \in 0..0 - 1 : moved[i] = WithRoomForOne[i]
    BY <1>0
  <2>2. \A i \in 0 + 1..size : moved[i] = WithRoomForOne[i - 1]
    BY <1>4
  <2> QED BY <1>1, <1>2, <2>1, <2>2, InsertsAt
<1>6. <<e>> \in Seq(Cell)
  BY DEF Cell
<1>7. Elements' = <<e>> \o Elements /\ Len(<<e>> \o Elements) = size + 1
  BY <1>0, <1>5, <1>6, SpliceAtFront
<1>8. Len(<<e>> \o Elements) <= MaxSize
  BY <1>0, <1>2, <1>7, ListAssumption
<1> QED BY <1>2, <1>7, <1>8
        DEF Contract!Unshift, Contract!Becomes, Contract!Returns, Done, Contract!Done

LEMMA InsertStep ==
  ASSUME ListInv, ListInv', NEW at \in Nat, NEW e \in Value, Insert(at, e)
  PROVE  Contract!Insert(at, e)
<1>0. /\ size \in Nat /\ Elements \in Seq(Cell) /\ Len(Elements) = size
      /\ CapacityForOne \in Nat /\ size + 1 <= CapacityForOne
      /\ WithRoomForOne \in Array(CapacityForOne)
  BY Contents, RoomForOne
<1>1. CASE at > size
  BY <1>0, <1>1, ThrowsStep DEF Insert, Contract!Insert
<1>2. CASE ~(at > size)
  <2> DEFINE moved == CopyRange(WithRoomForOne, at, size, at + 1)
  <2>1. moved \in Array(CapacityForOne)
    BY <1>0, MoveAtOnceType DEF CopyRange
  <2>2. \A i \in at + 1..size : moved[i] = WithRoomForOne[i - 1]
    <3> SUFFICES ASSUME NEW i \in at + 1..size
                 PROVE  moved[i] = WithRoomForOne[i - 1]
      OBVIOUS
    <3>1. /\ i \in 0..CapacityForOne - 1 /\ i - (at + 1) \in 0..size - at - 1
          /\ i - (at + 1) + at = i - 1
      BY <1>0
    <3> QED BY <1>0, <3>1 DEF CopyRange, MoveAtOnce, Array
  <2>3. \A i \in 0..at - 1 : moved[i] = WithRoomForOne[i]
    <3> SUFFICES ASSUME NEW i \in 0..at - 1
                 PROVE  moved[i] = WithRoomForOne[i]
      OBVIOUS
    <3>1. i \in 0..CapacityForOne - 1 /\ i - (at + 1) \notin 0..size - at - 1
      BY <1>0, <1>2
    <3> QED BY <1>0, <3>1 DEF CopyRange, MoveAtOnce, Array
  <2>4. /\ size' = size + 1 /\ size < MaxSize /\ ret' = Done
        /\ elements' = Overwrite(moved, at, <<e>>)
    BY <1>2 DEF Insert, Store, Returns
  <2> HIDE DEF moved
  <2>5. at \in 0..size
    BY <1>0, <1>2
  <2>6. Elements' = SubSeq(Elements, 1, at) \o <<e>> \o SubSeq(Elements, at + 1, size)
    BY <2>1, <2>2, <2>3, <2>4, <2>5, InsertsAt
  <2>7. Len(Elements') <= MaxSize
    <3>1. Len(Elements') = size'
      BY PrefixShape DEF ListInv, TypeOK, Array, Elements
    <3> QED BY <1>0, <2>4, <3>1, ListAssumption
  <2> QED BY <1>0, <1>2, <2>4, <2>6, <2>7
          DEF Contract!Insert, Contract!Becomes, Contract!Returns, Done, Contract!Done
<1> QED BY <1>1, <1>2

LEMMA NewLength ==
  ASSUME ListInv'
  PROVE  Len(Elements') = size'
<1>1. size' \in Nat /\ capacity' \in Nat /\ size' <= capacity' /\ elements' \in Array(capacity')
  BY DEF ListInv, TypeOK, Array
<1> QED BY <1>1, PrefixShape DEF Elements

LEMMA PopManyStep ==
  ASSUME ListInv, ListInv', NEW k \in Nat, PopMany(k)
  PROVE  Contract!PopMany(k)
<1>0. /\ size \in Nat /\ capacity \in Nat /\ size <= capacity /\ elements \in Array(capacity)
      /\ Elements \in Seq(Cell) /\ Len(Elements) = size
      /\ \A i \in 1..size : Elements[i] = elements[i - 1]
  BY Contents
<1>1. CASE k > size
  BY <1>0, <1>1, ThrowsStep DEF PopMany, Contract!PopMany
<1>2. CASE ~(k > size)
  <2>1. PICK m \in Nat : m = size - k /\ m <= size /\ size = m + k
    BY <1>0, <1>2
  <2> DEFINE t == SubSeq(Elements, 1, m)
             u == SubSeq(Elements, m + 1, size)
             popped == Stretch(elements, m, size)
  <2>2. size' = m /\ elements' = elements /\ ret' = Items(popped)
    BY <1>2, <2>1 DEF PopMany, Returns
  <2>3. t \in Seq(Cell) /\ Len(t) = m /\ \A i \in 1..m : t[i] = Elements[i]
    BY <1>0, <2>1
  <2>4. u \in Seq(Cell) /\ Len(u) = k /\ \A i \in 1..k : u[i] = Elements[m + i]
    BY <1>0, <2>1
  <2>5. popped \in Seq(Cell) /\ Len(popped) = size - m
    <3>1. /\ \A i \in 1..size - m : elements[m + i - 1] \in Cell
          /\ size - m \in Nat
      BY <1>0, <2>1 DEF Array
    <3>2. popped = [i \in 1..size - m |-> elements[m + i - 1]]
      BY DEF Stretch
    <3> HIDE DEF popped
    <3> QED BY <3>1, <3>2
  <2>6. \A i \in 1..k : popped[i] = Elements[m + i]
    <3> SUFFICES ASSUME NEW i \in 1..k
                 PROVE  popped[i] = Elements[m + i]
      OBVIOUS
    <3>1. i \in 1..size - m /\ m + i \in 1..size
      BY <1>0, <2>1
    <3>2. popped[i] = elements[m + i - 1]
      BY <3>1 DEF Stretch
    <3> QED BY <1>0, <3>1, <3>2
  <2> HIDE DEF t, u, popped
  <2>7. Elements' = t
    BY <1>0, <2>1, <2>2, <2>3, ElementsNext
  <2>8. popped = u
    <3>1. Len(popped) = k
      BY <1>0, <2>1, <2>5
    <3>2. \A i \in 1..k : popped[i] = u[i]
      BY <2>4, <2>6
    <3> QED BY <2>4, <2>5, <3>1, <3>2, SeqEqual
  <2> QED BY <1>0, <1>2, <2>1, <2>2, <2>7, <2>8
          DEF t, u, Contract!PopMany, Contract!Returns, Items, Contract!Items
<1> QED BY <1>1, <1>2

LEMMA ClearStep ==
  ASSUME ListInv, ListInv', Clear
  PROVE  Contract!Clear
<1>1. size' = 0 /\ ret' = Done
  BY DEF Clear, Returns
<1>2. Elements' = <<>>
  BY <1>1 DEF Elements, Stretch
<1> QED BY <1>1, <1>2 DEF Contract!Clear, Contract!Returns, Done, Contract!Done

\* Elements are removed by moving those behind them to the left.
LEMMA RemovalStep ==
  ASSUME ListInv, ListInv', NEW start \in Nat, NEW end \in Nat,
         start <= end, end <= size, size' = size - (end - start),
         elements' = MoveRange(elements, end, size, start)
  PROVE  Elements' = SubSeq(Elements, 1, start) \o <<>> \o SubSeq(Elements, end + 1, size)
<1>0. /\ size \in Nat /\ capacity \in Nat /\ size <= capacity /\ elements \in Array(capacity)
  BY Contents
<1>1. PICK list \in Seq(Cell) : list = <<>>
  <2>1. <<>> \in Seq(Cell)
    OBVIOUS
  <2> QED BY <2>1, Zenon
<1>2. Len(list) = 0
  BY <1>1
<1>3. \A i \in 0..capacity - 1 :
        /\ i - start \in 0..size - end - 1 => elements'[i] = elements[i - start + end]
        /\ i < end /\ i < start => elements'[i] = elements[i]
  <2> SUFFICES ASSUME NEW i \in 0..capacity - 1
               PROVE  /\ i - start \in 0..size - end - 1 =>
                            MoveRange(elements, end, size, start)[i] = elements[i - start + end]
                      /\ i < end /\ i < start =>
                            MoveRange(elements, end, size, start)[i] = elements[i]
    OBVIOUS
  <2> QED BY <1>0, MoveRangeAt
<1>4. \A i \in 0..start - 1 : elements'[i] = elements[i]
  <2>1. \A i \in 0..start - 1 : i \in 0..capacity - 1 /\ i < end /\ i < start
    BY <1>0
  <2> QED BY <1>3, <2>1
<1>5. \A i \in start..start + Len(list) - 1 : elements'[i] = list[i - start + 1]
  BY <1>2
<1>6. \A i \in start + Len(list)..size' - 1 : elements'[i] = elements[i - start - Len(list) + end]
  <2> SUFFICES ASSUME NEW i \in start + Len(list)..size' - 1
               PROVE  elements'[i] = elements[i - start - Len(list) + end]
    OBVIOUS
  <2>1. /\ i \in 0..capacity - 1 /\ i - start \in 0..size - end - 1
        /\ i - start - Len(list) + end = i - start + end
    BY <1>0, <1>2
  <2> QED BY <1>3, <2>1
<1>7. size' = size - (end - start) + Len(list)
  BY <1>0, <1>2
<1>8. Elements' = SubSeq(Elements, 1, start) \o list \o SubSeq(Elements, end + 1, size)
  BY <1>4, <1>5, <1>6, <1>7, SpliceStep
<1> QED BY <1>1, <1>8

LEMMA RemoveAtStep ==
  ASSUME ListInv, ListInv', NEW index \in Nat, RemoveAt(index)
  PROVE  Contract!RemoveAt(index)
<1>0. size \in Nat /\ Len(Elements) = size
  BY Contents
<1>1. CASE ~ValidIndex(index)
  BY <1>0, <1>1, ThrowsStep DEF RemoveAt, ValidIndex, Contract!RemoveAt
<1>2. CASE ValidIndex(index)
  <2>1. /\ size' = size - 1 /\ ret' = Done /\ index < size
        /\ elements' = MoveRange(elements, index + 1, size, index)
    BY <1>2 DEF RemoveAt, Store, Returns, ValidIndex
  <2>2. index + 1 \in Nat /\ index <= index + 1 /\ index + 1 <= size
        /\ size' = size - ((index + 1) - index)
    BY <1>0, <2>1
  <2>3. Elements' = SubSeq(Elements, 1, index) \o <<>> \o SubSeq(Elements, index + 1 + 1, size)
    BY <2>1, <2>2, RemovalStep
  <2> QED BY <1>0, <2>1, <2>3
          DEF Contract!RemoveAt, Contract!Spliced, Contract!Returns, Done, Contract!Done
<1> QED BY <1>1, <1>2

LEMMA RemoveRangeStep ==
  ASSUME ListInv, ListInv', NEW start \in Nat, NEW length \in Nat,
         RemoveRange(start, length)
  PROVE  Contract!RemoveRange(start, length)
<1>0. /\ size \in Nat /\ Elements \in Seq(Cell) /\ Len(Elements) = size
  BY Contents
<1>1. CASE start >= size \/ start + length > size
  BY <1>0, <1>1, ThrowsStep DEF RemoveRange, Contract!RemoveRange
<1>2. CASE ~(start >= size \/ start + length > size)
  <2>1. size' = size - length /\ ret' = Done
    BY <1>2 DEF RemoveRange, Returns
  <2>2. elements' = MoveRange(elements, start + length, size, start)
    <3>1. CASE length = 0
      <4>1. elements' = elements
        BY <1>2, <3>1 DEF RemoveRange
      <4>2. elements = [i \in DOMAIN elements |-> elements[i]]
        BY Contents DEF Array
      <4>3. /\ start + length = start /\ start - start = 0
            /\ \A i \in DOMAIN elements : i - start + start = i /\ i - 0 = i
        BY Contents, <3>1 DEF Array
      <4>4. MoveRange(elements, start + length, size, start)
              = [i \in DOMAIN elements |-> elements[i]]
        BY <4>3 DEF MoveRange, MoveAtOnce, MoveOneByOne
      <4> QED BY <4>1, <4>2, <4>4
    <3>2. CASE length # 0
      BY <1>2, <3>2 DEF RemoveRange, Store
    <3> QED BY <3>1, <3>2
  <2>3. start + length \in Nat /\ start <= start + length /\ start + length <= size
        /\ size' = size - ((start + length) - start)
    BY <1>0, <1>2, <2>1
  <2>4. Elements' = SubSeq(Elements, 1, start) \o <<>> \o SubSeq(Elements, start + length + 1, size)
    BY <2>2, <2>3, RemovalStep
  <2> QED BY <1>0, <1>2, <2>1, <2>4
          DEF Contract!RemoveRange, Contract!Spliced, Contract!Returns, Done, Contract!Done
<1> QED BY <1>1, <1>2

LEMMA ConcatStep ==
  ASSUME ListInv, ListInv', NEW list \in Seq(Cell), Concat(list)
  PROVE  Contract!Concat(list)
<1>0. /\ size \in Nat /\ capacity \in Nat /\ size <= capacity /\ elements \in Array(capacity)
      /\ Elements \in Seq(Cell) /\ Len(Elements) = size
      /\ \A i \in 1..size : Elements[i] = elements[i - 1]
      /\ Len(list) \in Nat
  BY Contents
<1>1. PICK needed \in Nat : needed = size + Len(list)
  BY <1>0
<1> DEFINE cap  == IF needed > capacity THEN needed ELSE capacity
           room == IF needed > capacity THEN Expanded(needed) ELSE elements
<1>2. /\ size' = needed /\ needed <= MaxSize /\ ret' = Done
      /\ elements' = Overwrite(room, size, list)
  BY <1>1 DEF Concat, Store, Returns
<1>3. /\ cap \in Nat /\ needed <= cap
      /\ room \in Array(cap) /\ \A i \in 0..size - 1 : room[i] = elements[i]
  <2>1. CASE needed > capacity
    <3>1. room = Expanded(needed) /\ cap = needed
      BY <2>1
    <3>2. \A i \in 0..size - 1 : i \in 0..needed - 1 /\ i < size
      BY <1>0, <1>1
    <3> HIDE DEF room, cap
    <3> QED BY <3>1, <3>2, ExpandedType, ExpandedAt
  <2>2. CASE ~(needed > capacity)
    BY <1>0, <2>2
  <2> QED BY <2>1, <2>2
<1> HIDE DEF room, cap
<1> DEFINE t == Elements \o list
<1>4. /\ t \in Seq(Cell) /\ Len(t) = needed
      /\ \A i \in 1..size : t[i] = Elements[i]
      /\ \A i \in size + 1..needed : t[i] = list[i - size]
  BY <1>0, <1>1, ConcatShape
<1> HIDE DEF t
<1>5. \A i \in 1..needed : elements'[i - 1] = t[i]
  <2> SUFFICES ASSUME NEW i \in 1..needed
               PROVE  elements'[i - 1] = t[i]
    OBVIOUS
  <2>1. i - 1 \in 0..cap - 1
    BY <1>3
  <2>2. elements'[i - 1] = IF i - 1 - size \in 0..Len(list) - 1
                             THEN list[i - 1 - size + 1] ELSE room[i - 1]
    BY <1>2, <1>3, <2>1 DEF Overwrite, Array
  <2>3. CASE i <= size
    <3>1. i - 1 - size \notin 0..Len(list) - 1 /\ i - 1 \in 0..size - 1 /\ i \in 1..size
      BY <1>0, <2>3
    <3> QED BY <1>0, <1>3, <1>4, <2>2, <3>1
  <2>4. CASE i > size
    <3>1. /\ i - 1 - size \in 0..Len(list) - 1 /\ i - 1 - size + 1 = i - size
          /\ i \in size + 1..needed
      BY <1>0, <1>1, <2>4
    <3>2. elements'[i - 1] = list[i - size]
      BY <2>2, <3>1
    <3>3. t[i] = list[i - size]
      BY <1>4, <3>1
    <3> QED BY <3>2, <3>3
  <2>5. i <= size \/ i > size
    BY <1>0
  <2> QED BY <2>3, <2>4, <2>5
<1>6. Elements' = t
  BY <1>2, <1>4, <1>5, ElementsNext
<1> QED BY <1>2, <1>4, <1>6
        DEF t, Contract!Concat, Contract!Becomes, Contract!Returns, Done, Contract!Done

LEMMA InsertAndReplaceStep ==
  ASSUME ListInv, ListInv', Trivial \/ HoleFree', NEW start \in Nat, NEW end \in Nat,
         NEW list \in Seq(Cell), InsertAndReplace(start, end, list)
  PROVE  Contract!InsertAndReplace(start, end, list)
<1>0. /\ size \in Nat /\ capacity \in Nat /\ size <= capacity /\ elements \in Array(capacity)
      /\ Elements \in Seq(Cell) /\ Len(Elements) = size /\ Len(list) \in Nat
  BY Contents
<1>1. CASE start > size \/ end > size \/ start > end
  BY <1>0, <1>1, ThrowsStep DEF InsertAndReplace, Contract!InsertAndReplace
<1>2. CASE ~(start > size \/ end > size \/ start > end)
  <2>0. size - (end - start) + Len(list) \in Nat
    <3>1. size \in Nat /\ Len(list) \in Nat /\ end <= size /\ start <= end
      BY <1>0, <1>2
    <3>2. size - (end - start) \in Nat
      BY <3>1
    <3> QED BY <3>1, <3>2
  <2>1. PICK n \in Nat : n = size - (end - start) + Len(list)
    BY <2>0
  <2>2. PICK to \in Nat : to = start + Len(list)
    BY <1>0
  <2> DEFINE grows == Len(list) > end - start /\ n > capacity
             cap   == IF grows THEN n ELSE capacity
             room  == IF grows THEN Expanded(n) ELSE elements
             moved == IF Len(list) = end - start THEN room ELSE MoveRange(room, end, size, to)
  <2>3. /\ size' = n /\ n <= MaxSize /\ ret' = Done
        /\ elements' = Overwrite(moved, start, list)
    BY <1>2, <2>1, <2>2 DEF InsertAndReplace, Store, Returns
  <2>4. cap \in Nat /\ n <= cap /\ size <= cap
    BY <1>0, <1>2, <2>1
  <2>5. room \in Array(cap) /\ \A i \in 0..size - 1 : room[i] = elements[i]
    <3>1. CASE grows
      <4>1. room = Expanded(n) /\ cap = n
        BY <3>1
      <4>2. \A i \in 0..size - 1 : i \in 0..n - 1 /\ i < size
        BY <1>0, <1>2, <2>1, <3>1
      <4> HIDE DEF room, cap, grows
      <4> QED BY <4>1, <4>2, ExpandedType, ExpandedAt
    <3>2. CASE ~grows
      BY <1>0, <3>2
    <3> QED BY <3>1, <3>2
  <2> HIDE DEF room, cap
  <2>6. /\ moved \in Array(cap)
        /\ \A i \in 0..start - 1 : moved[i] = room[i]
        /\ \A i \in to..n - 1 : moved[i] = room[i - to + end]
    <3>1. CASE Len(list) = end - start
      <4>1. moved = room
        BY <3>1
      <4>2. \A i \in to..n - 1 : i - to + end = i
        BY <1>0, <2>2, <3>1
      <4> QED BY <2>5, <4>1, <4>2
    <3>2. CASE Len(list) # end - start
      <4>1. moved = MoveRange(room, end, size, to)
        BY <3>2
      <4>2. moved \in Array(cap)
        BY <1>0, <2>4, <2>5, <4>1, MoveRangeType
      <4>3. ASSUME ~Trivial, end < to, to < size PROVE FALSE
        <5>1. moved[to] = Null
          BY <1>0, <2>4, <2>5, <4>1, <4>3, MoveLeavesHole
        <5> HIDE DEF moved
        <5>2. to \in 0..cap - 1 /\ to - start \notin 0..Len(list) - 1 /\ to \in 0..n - 1
          BY <1>0, <1>2, <2>1, <2>2, <2>4, <4>3
        <5>3. elements'[to] = Null
          <6> HIDE DEF cap
          <6>1. Overwrite(moved, start, list)[to] = moved[to]
            BY <2>4, <4>2, <5>2, OverwriteAt
          <6> QED BY <2>3, <5>1, <6>1
        <5> QED BY <2>3, <4>3, <5>2, <5>3 DEF HoleFree
      <4>4. ASSUME NEW i \in 0..cap - 1
            PROVE  /\ i - to \in 0..size - end - 1 => moved[i] = room[i - to + end]
                   /\ i < end /\ i < to => moved[i] = room[i]
        <5>1. Trivial \/ to <= end \/ size <= to
          BY <1>0, <4>3
        <5>2. end \in Nat /\ end <= size /\ size <= cap
          BY <1>0, <1>2, <2>4
        <5> DEFINE m == MoveRange(room, end, size, to)
        <5>3. /\ i - to \in 0..size - end - 1 => m[i] = room[i - to + end]
              /\ i < end /\ i < to => m[i] = room[i]
          <6>1. cap \in Nat /\ room \in Array(cap) /\ size \in Nat /\ to \in Nat
            BY <1>0, <2>4, <2>5
          <6> HIDE DEF room, moved, cap
          <6> QED BY <5>1, <5>2, <6>1, MoveRangeAt DEF m
        <5> HIDE DEF moved, m
        <5>4. moved = m
          BY <4>1 DEF m
        <5> QED BY <5>3, <5>4
      <4> HIDE DEF moved
      <4>5. \A i \in 0..start - 1 : i \in 0..cap - 1 /\ i < end /\ i < to
        BY <1>0, <1>2, <2>2, <2>4
      <4>6. \A i \in to..n - 1 : i \in 0..cap - 1 /\ i - to \in 0..size - end - 1
        BY <1>0, <1>2, <2>1, <2>2, <2>4
      <4> QED BY <4>2, <4>4, <4>5, <4>6
    <3> QED BY <3>1, <3>2
  <2> HIDE DEF moved
  <2>7. \A i \in 0..cap - 1 :
          elements'[i] = IF i - start \in 0..Len(list) - 1 THEN list[i - start + 1] ELSE moved[i]
    BY <2>3, <2>6 DEF Overwrite, Array
  <2>8. \A i \in 0..start - 1 : elements'[i] = elements[i]
    <3>1. \A i \in 0..start - 1 :
            i \in 0..cap - 1 /\ i - start \notin 0..Len(list) - 1 /\ i \in 0..size - 1
      BY <1>0, <1>2, <2>4
    <3> QED BY <2>5, <2>6, <2>7, <3>1
  <2>9. \A i \in start..start + Len(list) - 1 : elements'[i] = list[i - start + 1]
    <3>1. \A i \in start..start + Len(list) - 1 :
            i \in 0..cap - 1 /\ i - start \in 0..Len(list) - 1
      BY <1>0, <1>2, <2>1, <2>4
    <3> QED BY <2>7, <3>1
  <2>10. \A i \in start + Len(list)..size' - 1 :
           elements'[i] = elements[i - start - Len(list) + end]
    <3> SUFFICES ASSUME NEW i \in start + Len(list)..size' - 1
                 PROVE  elements'[i] = elements[i - start - Len(list) + end]
      OBVIOUS
    <3>1. /\ i \in 0..cap - 1 /\ i - start \notin 0..Len(list) - 1 /\ i \in to..n - 1
          /\ i - to + end = i - start - Len(list) + end /\ i - to + end \in 0..size - 1
      BY <1>0, <1>2, <2>1, <2>2, <2>3, <2>4
    <3> QED BY <2>5, <2>6, <2>7, <3>1
  <2>11. Elements' = SubSeq(Elements, 1, start) \o list \o SubSeq(Elements, end + 1, size)
    <3>1. start <= end /\ end <= size /\ size' = size - (end - start) + Len(list)
      BY <1>0, <1>2, <2>1, <2>3
    <3> QED BY <2>8, <2>9, <2>10, <3>1, SpliceStep
  <2>12. Len(Elements') <= MaxSize
    BY <2>3, NewLength
  <2> QED BY <1>0, <1>2, <2>3, <2>11, <2>12
          DEF Contract!InsertAndReplace, Contract!Spliced, Contract!Becomes, Contract!Returns,
              Done, Contract!Done
<1> QED BY <1>1, <1>2

LEMMA ReverseStep ==
  ASSUME ListInv, ListInv', ReverseList
  PROVE  Contract!ReverseList
<1>0. /\ size \in Nat /\ capacity \in Nat /\ size <= capacity /\ elements \in Array(capacity)
      /\ Elements \in Seq(Cell) /\ Len(Elements) = size
      /\ \A i \in 1..size : Elements[i] = elements[i - 1]
  BY Contents
<1> DEFINE t == [i \in 1..size |-> Elements[(size - i) + 1]]
<1>1. /\ size' = size /\ ret' = Done
      /\ elements' = [i \in DOMAIN elements |->
                        IF i < size THEN elements[size - 1 - i] ELSE elements[i]]
  BY DEF ReverseList, Store, Returns
<1>2. t \in Seq(Cell) /\ Len(t) = size /\ \A i \in 1..size : t[i] = Elements[(size - i) + 1]
  <2>1. \A i \in 1..size : Elements[(size - i) + 1] \in Cell
    BY <1>0
  <2> QED BY <1>0, <2>1
<1>3. \A i \in 1..size' : elements'[i - 1] = t[i]
  <2> SUFFICES ASSUME NEW i \in 1..size
               PROVE  elements'[i - 1] = t[i]
    BY <1>1
  <2> DEFINE j == (size - i) + 1
  <2>1. i - 1 \in DOMAIN elements /\ i - 1 < size /\ size - 1 - (i - 1) = j - 1 /\ j \in 1..size
    BY <1>0 DEF Array
  <2>2. elements'[i - 1] = elements[size - 1 - (i - 1)]
    BY <1>1, <2>1
  <2>3. t[i] = Elements[j]
    BY <1>2
  <2> HIDE DEF j, t
  <2> QED BY <1>0, <2>1, <2>2, <2>3
<1> HIDE DEF t
<1>4. Elements' = t
  BY <1>1, <1>2, <1>3, ElementsNext
<1>5. Contract!Seqs!Reverse(Elements) = t
  BY <1>0 DEF Contract!Seqs!Reverse, t
<1> QED BY <1>1, <1>4, <1>5 DEF Contract!ReverseList, Contract!Returns, Done, Contract!Done

LEMMA TrimExcessStep ==
  ASSUME ListInv, ListInv', TrimExcess
  PROVE  Contract!Reallocate
<1>0. /\ size \in Nat /\ Elements \in Seq(Cell) /\ Len(Elements) = size
      /\ \A i \in 1..size : Elements[i] = elements[i - 1]
  BY Contents
<1>1. size' = size /\ ret' = Done /\ elements' = Expanded(size)
  BY DEF TrimExcess, Store, Returns
<1>2. \A i \in 1..size : Expanded(size)[i - 1] = elements[i - 1]
  <2> SUFFICES ASSUME NEW i \in 1..size
               PROVE  Expanded(size)[i - 1] = elements[i - 1]
    OBVIOUS
  <2>1. i - 1 \in 0..size - 1 /\ i - 1 < size
    BY <1>0
  <2> QED BY <1>0, <2>1, ExpandedAt
<1>3. Elements' = Elements
  BY <1>0, <1>1, <1>2, ElementsNext
<1> QED BY <1>1, <1>3 DEF Contract!Reallocate, Contract!Returns, Done, Contract!Done

LEMMA SetStep ==
  ASSUME ListInv, ListInv', NEW index \in Nat, NEW e \in Value, Set(index, e)
  PROVE  Contract!Set(index, e)
<1>0. /\ size \in Nat /\ capacity \in Nat /\ size <= capacity /\ elements \in Array(capacity)
      /\ Elements \in Seq(Cell) /\ Len(Elements) = size
      /\ \A i \in 1..size : Elements[i] = elements[i - 1]
      /\ e \in Cell
  BY Contents DEF Cell
<1>1. CASE ~ValidIndex(index)
  BY <1>0, <1>1, ThrowsStep DEF Set, ValidIndex, Contract!Set
<1>2. CASE ValidIndex(index)
  <2> DEFINE t == [Elements EXCEPT ![index + 1] = e]
  <2>1. /\ size' = size /\ ret' = Done /\ index < size
        /\ elements' = Overwrite(elements, index, <<e>>)
    BY <1>2 DEF Set, Store, Returns, ValidIndex
  <2>2. /\ t \in Seq(Cell) /\ Len(t) = size
        /\ \A i \in 1..size : t[i] = IF i = index + 1 THEN e ELSE Elements[i]
    <3>1. PICK s \in Seq(Cell) : s = Elements
      BY <1>0
    <3>2. PICK k \in 1..size : k = index + 1
      BY <1>0, <2>1
    <3>3. /\ [s EXCEPT ![k] = e] \in Seq(Cell) /\ Len([s EXCEPT ![k] = e]) = Len(s)
          /\ \A i \in 1..Len(s) : [s EXCEPT ![k] = e][i] = IF i = k THEN e ELSE s[i]
      BY <1>0, <3>1, ExceptSeq
    <3> QED BY <1>0, <3>1, <3>2, <3>3
  <2>3. \A i \in 1..size : elements'[i - 1] = IF i = index + 1 THEN e ELSE elements[i - 1]
    <3> SUFFICES ASSUME NEW i \in 1..size
                 PROVE  elements'[i - 1] = IF i = index + 1 THEN e ELSE elements[i - 1]
      OBVIOUS
    <3>1. i - 1 \in 0..capacity - 1 /\ Len(<<e>>) = 1 /\ <<e>>[1] = e
      BY <1>0
    <3>2. elements'[i - 1] = IF i - 1 - index \in 0..Len(<<e>>) - 1
                               THEN <<e>>[i - 1 - index + 1] ELSE elements[i - 1]
      BY <1>0, <2>1, <3>1 DEF Overwrite, Array
    <3>3. (i - 1 - index \in 0..Len(<<e>>) - 1) <=> i = index + 1
      BY <3>1
    <3>4. i = index + 1 => i - 1 - index + 1 = 1
      OBVIOUS
    <3> QED BY <3>1, <3>2, <3>3, <3>4
  <2> HIDE DEF t
  <2>4. Elements' = t
    BY <1>0, <2>1, <2>2, <2>3, ElementsNext
  <2> QED BY <1>0, <2>1, <2>4 DEF t, Contract!Set, Contract!Returns, Done, Contract!Done
<1> QED BY <1>1, <1>2

LEMMA RepeatShape ==
  ASSUME NEW n \in Nat, NEW e \in Cell
  PROVE  /\ Contract!Repeat(n, e) \in Seq(Cell) /\ Len(Contract!Repeat(n, e)) = n
         /\ \A i \in 1..n : Contract!Repeat(n, e)[i] = e
BY DEF Contract!Repeat

LEMMA FillStep ==
  ASSUME ListInv, ListInv', NEW e \in Value, Fill(e)
  PROVE  Contract!Fill(e)
<1>0. /\ size \in Nat /\ capacity \in Nat /\ size <= capacity /\ elements \in Array(capacity)
      /\ Len(Elements) = size /\ e \in Cell
  BY Contents DEF Cell
<1>1. CASE capacity = 0
  BY <1>1, ThrowsStep DEF Fill, Contract!Fill
<1>2. CASE capacity # 0
  <2>1. size' = capacity /\ ret' = Done /\ elements' = [i \in DOMAIN elements |-> e]
    BY <1>2 DEF Fill, Store, Returns
  <2>2. \A i \in 1..capacity : elements'[i - 1] = e
    BY <1>0, <2>1 DEF Array
  <2>3. Elements' = Contract!Repeat(capacity, e)
    <3>1. /\ capacity \in Nat /\ size' = capacity
          /\ \A i \in 1..capacity : elements'[i - 1] = Contract!Repeat(capacity, e)[i]
      BY <1>0, <2>1, <2>2, RepeatShape
    <3> QED BY <1>0, <3>1, RepeatShape, ElementsNext
  <2>4. Len(Elements') = capacity
    BY <2>1, NewLength
  <2> QED BY <1>0, <2>1, <2>3, <2>4 DEF Contract!Fill, Contract!Returns, Done, Contract!Done
<1> QED BY <1>1, <1>2

LEMMA ExpandWithElementStep ==
  ASSUME ListInv, ListInv', NEW n \in Nat, size <= n, n <= MaxSize, NEW e \in Value,
         ExpandWithElement(n, e)
  PROVE  Contract!ExpandWithElement(n, e)
<1>0. /\ size \in Nat /\ Elements \in Seq(Cell) /\ Len(Elements) = size /\ e \in Cell
  BY Contents DEF Cell
<1>1. PICK k \in Nat : k = n - size
  BY <1>0
<1>2. PICK rest \in Seq(Cell) : rest = Contract!Repeat(k, e)
  BY <1>0, RepeatShape
<1>3. Len(rest) = k /\ \A i \in 1..k : rest[i] = e
  BY <1>0, <1>2, RepeatShape
<1> DEFINE t    == Elements \o rest
           room == [i \in 0..n - 1 |-> e]
<1>4. /\ t \in Seq(Cell) /\ Len(t) = n
      /\ \A i \in 1..size : t[i] = Elements[i]
      /\ \A i \in size + 1..n : t[i] = rest[i - size]
  BY <1>0, <1>1, <1>3, ConcatShape
<1>5. size' = n /\ ret' = Done /\ elements' = Overwrite(room, 0, Elements)
  BY DEF ExpandWithElement, Store, Returns, Elements
<1>6. DOMAIN room = 0..n - 1 /\ \A i \in 0..n - 1 : room[i] = e
  OBVIOUS
<1> HIDE DEF t, room
<1>7. ASSUME NEW i \in 1..n
      PROVE  elements'[i - 1] = t[i]
  <2>1. i - 1 \in 0..n - 1 /\ i - 1 - 0 = i - 1 /\ i - 1 + 1 = i
    OBVIOUS
  <2>2. elements'[i - 1] = IF i - 1 - 0 \in 0..Len(Elements) - 1
                             THEN Elements[i - 1 - 0 + 1] ELSE room[i - 1]
    <3>1. \A j \in 0..n - 1 :
            Overwrite(room, 0, Elements)[j]
              = IF j - 0 \in 0..Len(Elements) - 1 THEN Elements[j - 0 + 1] ELSE room[j]
      BY <1>6 DEF Overwrite
    <3> QED BY <1>5, <2>1, <3>1, Zenon
  <2>3. CASE i <= size
    <3>1. i \in 1..size /\ i - 1 \in 0..Len(Elements) - 1
      BY <1>0, <2>3
    <3> QED BY <1>4, <2>1, <2>2, <3>1
  <2>4. CASE i > size
    <3>1. i \in size + 1..n /\ i - 1 \notin 0..Len(Elements) - 1 /\ i - size \in 1..k
      BY <1>0, <1>1, <2>4
    <3>2. rest[i - size] = e
      BY <1>3, <3>1
    <3> QED BY <1>4, <1>6, <2>1, <2>2, <3>1, <3>2
  <2> QED BY <1>0, <2>3, <2>4
<1>8. Elements' = t
  BY <1>4, <1>5, <1>7, ElementsNext
<1>9. Elements' = Elements \o Contract!Repeat(n - Len(Elements), e)
  BY <1>0, <1>1, <1>2, <1>8 DEF t
<1>10. Len(Elements') <= MaxSize
  BY <1>5, NewLength
<1> QED BY <1>5, <1>9, <1>10
        DEF Contract!ExpandWithElement, Contract!Becomes, Contract!Returns, Done, Contract!Done

\* A fresh array with a sequence at its start.
LEMMA FreshWith ==
  ASSUME NEW n \in Nat, NEW list \in Seq(Cell), Len(list) <= n, NEW i \in 1..Len(list)
  PROVE  Overwrite(Fresh(n), 0, list)[i - 1] = list[i]
<1>1. /\ i - 1 \in 0..n - 1 /\ i - 1 - 0 = i - 1 /\ i - 1 + 1 = i
      /\ i - 1 \in 0..Len(list) - 1
  OBVIOUS
<1>2. Fresh(n) \in Array(n)
  BY FreshType
<1>3. Overwrite(Fresh(n), 0, list)[i - 1]
        = IF i - 1 - 0 \in 0..Len(list) - 1 THEN list[i - 1 - 0 + 1] ELSE Fresh(n)[i - 1]
  BY <1>1, <1>2, OverwriteAt
<1> QED BY <1>1, <1>3

LEMMA AssignStep ==
  ASSUME ListInv, ListInv', NEW list \in Seq(Cell), NEW n \in Nat, Len(list) <= n,
         Assign(list, n)
  PROVE  Contract!Assign(list)
<1>1. size' = Len(list) /\ ret' = Done /\ elements' = Overwrite(Fresh(n), 0, list)
  BY DEF Assign, Store, Returns
<1>2. \A i \in 1..Len(list) : elements'[i - 1] = list[i]
  BY <1>1, FreshWith
<1>3. Elements' = list
  BY <1>1, <1>2, ElementsNext
<1> QED BY <1>1, <1>3 DEF Contract!Assign, Contract!Returns, Done, Contract!Done

-----------------------------------------------------------------------------
(* List implements its contract.                                            *)

LEMMA ContractInitially ==
  ASSUME Init
  PROVE  Contract!Init
<1>0. ret = Done
  BY DEF Init
<1>1. CASE size = 0
  <2>1. Elements = <<>>
    BY <1>1 DEF Elements, Stretch
  <2> QED BY <1>0, <2>1 DEF Contract!Init, Done, Contract!Done
<1>2. ASSUME NEW list \in Argument, size = Len(list), capacity = Len(list),
             elements = Overwrite(Fresh(Len(list)), 0, list)
      PROVE  Contract!Init
  <2>1. list \in Seq(Cell) /\ Len(list) \in Nat
    BY ArgumentType
  <2>2. /\ Elements \in Seq(Cell) /\ Len(Elements) = Len(list)
        /\ \A i \in 1..Len(list) : Elements[i] = elements[i - 1]
    BY <1>2, ListInitially, ElementsShape
  <2>3. \A i \in 1..Len(list) : elements[i - 1] = list[i]
    BY <1>2, <2>1, FreshWith
  <2>4. Elements = list
    BY <2>1, <2>2, <2>3, SeqEqual
  <2> QED BY <1>0, <2>4 DEF Contract!Init, Done, Contract!Done
<1> QED BY <1>1, <1>2 DEF Init

LEMMA ContractStep ==
  ASSUME ListInv, ListInv', Trivial, [Next]_vars
  PROVE  [Contract!Next]_(Contract!svars)
<1>0. size \in Nat /\ Len(Elements) = size /\ Elements \in Seq(Cell) /\ MaxSize \in Nat
  BY Contents, ListAssumption
<1>1. CASE UNCHANGED vars
  BY <1>1 DEF vars, Elements, Contract!svars
<1>2. CASE Shift
  BY <1>2, ShiftStep DEF Contract!Next
<1>3. CASE Pop
  BY <1>3, PopStep DEF Contract!Next
<1>4. CASE Clear
  BY <1>4, ClearStep DEF Contract!Next
<1>5. CASE ReverseList
  BY <1>5, ReverseStep DEF Contract!Next
<1>6. CASE TrimExcess
  BY <1>6, TrimExcessStep DEF Contract!Next
<1>7. ASSUME NEW e \in Value, Push(e) \/ Unshift(e) \/ Fill(e)
      PROVE  Contract!Next
  BY <1>7, PushStep, UnshiftStep, FillStep DEF Contract!Next
<1>8. ASSUME NEW list \in Argument \cup {Elements}, Concat(list)
      PROVE  Contract!Next
  <2>1. list \in Seq(Cell)
    BY <1>0, ArgumentType
  <2> QED BY <1>8, <2>1, ConcatStep DEF Contract!Next
<1>9. ASSUME NEW index \in 0..MaxSize + 1, RemoveAt(index) \/ PopMany(index)
      PROVE  Contract!Next
  <2>1. index \in Nat
    BY <1>0
  <2> QED BY <1>9, <2>1, RemoveAtStep, PopManyStep DEF Contract!Next
<1>10. ASSUME NEW index \in 0..MaxSize + 1, NEW e \in Value, Insert(index, e) \/ Set(index, e)
       PROVE  Contract!Next
  <2>1. index \in Nat
    BY <1>0
  <2> QED BY <1>10, <2>1, InsertStep, SetStep DEF Contract!Next
<1>11. ASSUME NEW index \in 0..MaxSize + 1, NEW length \in 0..MaxSize + 1,
              RemoveRange(index, length)
       PROVE  Contract!Next
  <2>1. index \in Nat /\ length \in Nat
    BY <1>0
  <2> QED BY <1>11, <2>1, RemoveRangeStep DEF Contract!Next
<1>12. ASSUME NEW index \in 0..MaxSize + 1, NEW length \in 0..MaxSize + 1,
              NEW list \in Argument, InsertAndReplace(index, length, list)
       PROVE  Contract!Next
  <2>1. index \in Nat /\ length \in Nat /\ list \in Seq(Cell)
    BY <1>0, ArgumentType
  <2> QED BY <1>12, <2>1, InsertAndReplaceStep DEF Contract!Next
<1>13. ASSUME NEW n \in size..MaxSize, NEW e \in Value, ExpandWithElement(n, e)
       PROVE  Contract!Next
  <2>1. n \in Nat /\ size <= n /\ n <= MaxSize /\ n \in Len(Elements)..MaxSize
    BY <1>0
  <2> QED BY <1>13, <2>1, ExpandWithElementStep DEF Contract!Next
<1>14. ASSUME NEW list \in Argument, NEW spare \in 0..1, Assign(list, Len(list) + spare)
       PROVE  Contract!Next
  <2>1. /\ list \in Seq(Cell) /\ Len(list) \in Nat
        /\ Len(list) + spare \in Nat /\ Len(list) <= Len(list) + spare
    BY ArgumentType
  <2>2. Contract!Assign(list)
    BY <1>14, <2>1, AssignStep
  <2> QED BY <2>2 DEF Contract!Next
<1> QED BY <1>1, <1>2, <1>3, <1>4, <1>5, <1>6, <1>7, <1>8, <1>9, <1>10, <1>11, <1>12,
           <1>13, <1>14 DEF Next, Elements

\* A List of a type that is moved by copying its bytes is a sequence: growing,
\* shifting, splicing and trimming an array never shows.
THEOREM ListIsSequence == Trivial => (Spec => ImplementsContract)
<1> SUFFICES ASSUME Trivial PROVE Spec => ImplementsContract
  OBVIOUS
<1>1. Init => Contract!Init
  BY ContractInitially
<1>2. ListInv /\ ListInv' /\ [Next]_vars => [Contract!Next]_(Contract!svars)
  BY ContractStep
<1>3. Init => ListInv
  BY ListInitially
<1>4. ListInv /\ [Next]_vars => ListInv'
  BY ListInductive
<1> QED BY <1>1, <1>2, <1>3, <1>4, PTL DEF Spec, ImplementsContract, Contract!Spec

-----------------------------------------------------------------------------
(* What the operations that only look give.                                 *)

LEMMA LeastOf ==
  ASSUME NEW S, S \subseteq Nat, S # {}
  PROVE  \E m \in S : \A k \in S : m <= k
<1> DEFINE R == OpToRel(<, Nat)
<1>1. PICK m \in S : \A k \in S : <<k, m>> \notin R
  BY NatLessThanWellFounded, WFMin
<1>2. \A k \in S : ~(k < m)
  BY <1>1 DEF OpToRel
<1>3. \A k \in S : m <= k
  BY <1>2
<1> QED BY <1>3

LEMMA FirstOccurrence ==
  ASSUME ListInv, NEW e \in Value
  PROVE  /\ Contains(e) <=> \E i \in 1..size : Elements[i] = e
         /\ Contains(e) => /\ Elements[IndexOf(e) + 1] = e
                           /\ \A i \in 1..IndexOf(e) : Elements[i] # e
<1>1. size \in Nat /\ \A i \in 1..size : Elements[i] = elements[i - 1]
  BY Contents
<1>2. Contains(e) <=> \E i \in 1..size : Elements[i] = e
  <2>1. ASSUME NEW i \in 0..size - 1, elements[i] = e PROVE \E j \in 1..size : Elements[j] = e
    <3>1. i + 1 \in 1..size /\ i + 1 - 1 = i
      BY <1>1
    <3>2. Elements[i + 1] = e
      BY <1>1, <2>1, <3>1
    <3> QED BY <3>1, <3>2
  <2>2. ASSUME NEW j \in 1..size, Elements[j] = e PROVE \E i \in 0..size - 1 : elements[i] = e
    <3>1. j - 1 \in 0..size - 1 /\ elements[j - 1] = e
      BY <1>1, <2>2
    <3> QED BY <3>1
  <2> QED BY <2>1, <2>2 DEF Contains, Occurrences
<1>3. ASSUME Contains(e)
      PROVE  /\ Elements[IndexOf(e) + 1] = e
             /\ \A i \in 1..IndexOf(e) : Elements[i] # e
  <2>1. Occurrences(e) \subseteq Nat /\ Occurrences(e) # {}
    BY <1>1, <1>3 DEF Contains, Occurrences
  <2>2. \E i \in Occurrences(e) : \A j \in Occurrences(e) : i <= j
    BY <2>1, LeastOf
  <2>3. IndexOf(e) \in Occurrences(e) /\ \A j \in Occurrences(e) : IndexOf(e) <= j
    BY <2>2 DEF IndexOf
  <2>4. IndexOf(e) \in 0..size - 1 /\ elements[IndexOf(e)] = e
    BY <2>3 DEF Occurrences
  <2>5. IndexOf(e) + 1 \in 1..size /\ IndexOf(e) + 1 - 1 = IndexOf(e)
    BY <1>1, <2>4
  <2>6. ASSUME NEW i \in 1..IndexOf(e), Elements[i] = e PROVE FALSE
    <3>1. i \in 1..size /\ i - 1 \in 0..size - 1 /\ i - 1 < IndexOf(e)
      BY <1>1, <2>4
    <3>2. i - 1 \in Occurrences(e)
      BY <1>1, <2>6, <3>1 DEF Occurrences
    <3> QED BY <1>1, <2>3, <2>4, <3>1, <3>2
  <2> QED BY <1>1, <2>4, <2>5, <2>6
<1> QED BY <1>2, <1>3

LEMMA SliceIsStretch ==
  ASSUME ListInv, NEW start \in Nat, NEW end \in Nat, ~SliceThrows(start, end)
  PROVE  Slice(start, end) = SubSeq(Elements, start + 1, end) /\ Slice(start, end) # <<>>
<1> DEFINE s == Slice(start, end)
           t == SubSeq(Elements, start + 1, end)
<1>1. /\ size \in Nat /\ capacity \in Nat /\ size <= capacity /\ elements \in Array(capacity)
      /\ Elements \in Seq(Cell) /\ Len(Elements) = size
      /\ \A i \in 1..size : Elements[i] = elements[i - 1]
  BY Contents
<1>2. start < end /\ end <= size
  BY <1>1 DEF SliceThrows
<1>3. s \in Seq(Cell) /\ Len(s) = end - start
  BY <1>1, <1>2, StretchType DEF Slice
<1>4. \A i \in 1..end - start : s[i] = elements[start + i - 1]
  BY DEF Slice, Stretch
<1>5. t \in Seq(Cell) /\ Len(t) = end - start /\ \A i \in 1..end - start : t[i] = Elements[start + i]
  <2>1. start + 1 \in 1..size + 1 /\ end \in start..size
    BY <1>1, <1>2
  <2> HIDE DEF s
  <2> QED BY <1>1, <1>2, <2>1
<1>6. \A i \in 1..end - start : s[i] = t[i]
  <2> SUFFICES ASSUME NEW i \in 1..end - start PROVE s[i] = t[i]
    OBVIOUS
  <2>1. start + i \in 1..size
    BY <1>1, <1>2
  <2>2. Elements[start + i] = elements[start + i - 1]
    BY <1>1, <2>1
  <2>3. s[i] = elements[start + i - 1] /\ t[i] = Elements[start + i]
    BY <1>4, <1>5
  <2> HIDE DEF s, t
  <2> QED BY <2>2, <2>3
<1>7. s = t
  BY <1>3, <1>5, <1>6, SeqEqual
<1>8. s # <<>>
  BY <1>2, <1>3
<1> HIDE DEF s, t
<1> QED BY <1>7, <1>8 DEF s, t

LEMMA SumIsConcat ==
  ASSUME ListInv, NEW list \in Argument
  PROVE  Sum(list) = Elements \o list
<1> DEFINE k == Len(list)
           n == size + k
           first == Overwrite(Fresh(n), 0, Elements)
           both == Overwrite(first, size, list)
<1>1. /\ size \in Nat /\ Elements \in Seq(Cell) /\ Len(Elements) = size
      /\ list \in Seq(Cell) /\ k \in Nat /\ n \in Nat /\ Len(Elements) <= n
  BY Contents, ArgumentType
<1>2. first \in Array(n) /\ both \in Array(n)
  BY <1>1, FreshType, OverwriteType
<1>3. \A i \in 1..size : first[i - 1] = Elements[i]
  <2> HIDE DEF n
  <2>1. ASSUME NEW i \in 1..Len(Elements) PROVE first[i - 1] = Elements[i]
    BY <1>1, FreshWith
  <2> QED BY <1>1, <2>1
<1>4. \A i \in 0..n - 1 : both[i] = IF i - size \in 0..k - 1 THEN list[i - size + 1] ELSE first[i]
  <2> HIDE DEF first, n
  <2>1. ASSUME NEW i \in 0..n - 1
        PROVE  both[i] = IF i - size \in 0..k - 1 THEN list[i - size + 1] ELSE first[i]
    BY <1>2 DEF Overwrite, Array
  <2> HIDE DEF both, k
  <2> QED BY <2>1
<1>5. /\ Stretch(both, 0, n) \in Seq(Cell) /\ Len(Stretch(both, 0, n)) = n
      /\ \A i \in 1..n : Stretch(both, 0, n)[i] = both[i - 1]
  <2> HIDE DEF both, n
  <2> QED BY <1>1, <1>2, PrefixShape
<1>6. /\ Elements \o list \in Seq(Cell) /\ Len(Elements \o list) = n
      /\ \A i \in 1..size : (Elements \o list)[i] = Elements[i]
      /\ \A i \in size + 1..n : (Elements \o list)[i] = list[i - size]
  BY <1>1, ConcatShape
<1>7. ASSUME NEW i \in 1..n PROVE both[i - 1] = (Elements \o list)[i]
  <2> HIDE DEF both, first
  <2>1. i - 1 \in 0..n - 1
    BY <1>1
  <2>2. CASE i <= size
    <3>1. i \in 1..size /\ i - 1 - size \notin 0..k - 1
      BY <1>1, <2>2
    <3> QED BY <1>3, <1>4, <1>6, <2>1, <3>1
  <2>3. CASE i > size
    <3>1. i \in size + 1..n /\ i - 1 - size \in 0..k - 1 /\ i - 1 - size + 1 = i - size
      BY <1>1, <2>3
    <3> QED BY <1>4, <1>6, <2>1, <3>1
  <2> QED BY <1>1, <2>2, <2>3
<1>8. Stretch(both, 0, n) = Elements \o list
  <2> HIDE DEF both, n
  <2> QED BY <1>5, <1>6, <1>7, SeqEqual
<1> QED BY <1>8 DEF Sum, Elements

\* Searching, slicing and adding give what they give of the sequence, whatever
\* earlier operations have left behind the last element.
THEOREM LookingSeesTheSequence == Spec => []ObserversAgree
<1>1. ListInv => ObserversAgree
  <2> SUFFICES ASSUME ListInv PROVE ObserversAgree
    OBVIOUS
  <2>1. 0..MaxSize + 1 \subseteq Nat
    BY ListAssumption
  <2> QED BY <2>1, FirstOccurrence, SliceIsStretch, SumIsConcat DEF ObserversAgree
<1> QED BY <1>1, ListInitially, ListInductive, PTL DEF Spec

-----------------------------------------------------------------------------
(* Elements are lost visibly.                                               *)

\* Whatever kind the elements are of: an operation after which no null pointer
\* is among them has done to the sequence what the operation of its name does.
LEMMA LossIsSeen ==
  ASSUME ListInv, ListInv', HoleFree'
  PROVE  SameOperation
<1>1. 0..MaxSize \subseteq Nat
  BY ListAssumption
<1>2. /\ Shift => Contract!Shift
      /\ Pop => Contract!Pop
      /\ ReverseList => Contract!ReverseList
      /\ TrimExcess => Contract!Reallocate
  BY ShiftStep, PopStep, ReverseStep, TrimExcessStep
<1>3. \A e \in Value : (Push(e) => Contract!Push(e)) /\ (Unshift(e) => Contract!Unshift(e))
  BY PushStep, UnshiftStep
<1>4. \A list \in Argument : Concat(list) => Contract!Concat(list)
  BY ArgumentType, ConcatStep
<1>5. \A index \in 0..MaxSize :
        /\ RemoveAt(index) => Contract!RemoveAt(index)
        /\ PopMany(index) => Contract!PopMany(index)
  BY <1>1, RemoveAtStep, PopManyStep
<1>6. \A index \in 0..MaxSize : \A e \in Value :
        /\ Insert(index, e) => Contract!Insert(index, e)
        /\ Set(index, e) => Contract!Set(index, e)
  BY <1>1, InsertStep, SetStep
<1>7. \A index \in 0..MaxSize : \A end \in 0..MaxSize :
        /\ RemoveRange(index, end) => Contract!RemoveRange(index, end)
        /\ \A list \in Argument :
             InsertAndReplace(index, end, list) => Contract!InsertAndReplace(index, end, list)
  BY <1>1, ArgumentType, RemoveRangeStep, InsertAndReplaceStep
<1> QED BY <1>2, <1>3, <1>4, <1>5, <1>6, <1>7 DEF SameOperation

\* A list of object pointers may lose elements, where it moves them to the right
\* one at a time; but then one of its elements is a null pointer afterwards.
THEOREM LossIsVisible == Spec => [][LossLeavesHole]_vars
<1>1. ListInv /\ ListInv' => LossLeavesHole
  BY LossIsSeen DEF LossLeavesHole
<1> QED BY <1>1, ListInitially, ListInductive, PTL DEF Spec
=============================================================================
