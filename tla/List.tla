-------------------------------- MODULE List --------------------------------
(***************************************************************************)
(* Collections::List, the growing array under every container.             *)
(*                                                                         *)
(* `elements` is the allocated array; behind `size` it holds what earlier  *)
(* operations left there.  std::move of a range goes from its first        *)
(* element to its last, or, for a type whose move is a copy of bytes, all  *)
(* at once (memmove); what it does when the target starts inside the       *)
(* source depends on that.  The constant Trivial tells the two kinds of T  *)
(* apart: characters and digits are trivial, object pointers are not.      *)
(***************************************************************************)
EXTENDS Integers, Sequences

CONSTANTS
  Value,        \* the elements
  Null,         \* T{}: fresh memory, and what moving from a pointer leaves
  Argument,     \* the sequences that are passed as arguments
  INIT_CAPACITY,
  Trivial,      \* T is trivially copyable
  MaxSize       \* bound: elements in the list

ASSUME ListAssumption ==
  /\ Null \notin Value
  /\ Argument \subseteq Seq(Value)
  /\ \A list \in Argument : Len(list) <= MaxSize
  /\ INIT_CAPACITY \in Nat /\ INIT_CAPACITY >= 2     \* with 1, an array of 1 would not grow
  /\ Trivial \in BOOLEAN
  /\ MaxSize \in Nat

VARIABLES
  size, capacity, elements,
  ret,          \* what the last operation returned
  astray        \* history: an operation has touched memory outside the array

vars == <<size, capacity, elements, ret, astray>>

Cell == Value \cup {Null}

Done     == <<"done">>
Threw    == <<"threw">>
Item(v)  == <<"item", v>>
Items(s) == <<"items", s>>

-----------------------------------------------------------------------------
(* Arrays.                                                                  *)

Fresh(n) == [i \in 0..n - 1 |-> Null]

\* std::copy of the sequence `list` to position `at`; std::fill.
Overwrite(array, at, list) ==
  [i \in DOMAIN array |->
     IF i - at \in 0..Len(list) - 1 THEN list[i - at + 1] ELSE array[i]]

\* std::move of positions first..last - 1 to dest: step k moves position
\* first + k, as the steps before it left it.
MoveOneByOne(array, first, last, dest) ==
  LET n == last - first
      d == dest - first
  IN [i \in DOMAIN array |->
        IF i - dest \in 0..n - 1
          THEN IF d <= 0 THEN array[i - d]
               ELSE IF i - dest + d < n THEN Null          \* moved on by a later step
               ELSE array[first + ((i - dest) % d)]
          ELSE IF i - first \in 0..n - 1 THEN Null ELSE array[i]]

MoveAtOnce(array, first, last, dest) ==
  [i \in DOMAIN array |->
     IF i - dest \in 0..last - first - 1 THEN array[i - dest + first] ELSE array[i]]

MoveRange(array, first, last, dest) ==
  IF Trivial THEN MoveAtOnce(array, first, last, dest)
             ELSE MoveOneByOne(array, first, last, dest)

\* std::copy_backward, and std::copy where nothing overlaps.
CopyRange(array, first, last, dest) == MoveAtOnce(array, first, last, dest)

\* Positions first..last - 1 as a sequence.
Stretch(array, first, last) == [i \in 1..last - first |-> array[first + i - 1]]

\* No position below n is outside the array.
Holds(array, n) == 0..n - 1 \subseteq DOMAIN array

-----------------------------------------------------------------------------
Empty == size = 0
Full  == size >= capacity
ValidIndex(index) == size > 0 /\ index < size

\* A faulty variant: nothing is added to an array without room.
GrowByHalf == capacity + capacity \div 2

\* Expand().
GrownCapacity ==
  IF capacity + capacity \div 2 > INIT_CAPACITY
    THEN capacity + capacity \div 2 ELSE INIT_CAPACITY

\* Expand(newCapacity).
Expanded(newCapacity) ==
  Overwrite(Fresh(newCapacity), 0, Stretch(elements, 0, size))

\* The array once there is room for one more.
CapacityForOne == IF Full THEN GrownCapacity ELSE capacity
WithRoomForOne == IF Full THEN Expanded(GrownCapacity) ELSE elements

\* The operation leaves this array, having touched it up to position n - 1.
Store(array, n) ==
  /\ elements' = array
  /\ astray' = (astray \/ ~Holds(array, n))

Returns(r) == ret' = r
Throws == Returns(Threw) /\ UNCHANGED <<size, capacity, elements, astray>>

Init ==
  /\ \/ size = 0 /\ capacity \in 0..INIT_CAPACITY /\ elements = Fresh(capacity)
     \/ \E list \in Argument :
          /\ size = Len(list) /\ capacity = Len(list)
          /\ elements = Overwrite(Fresh(Len(list)), 0, list)
  /\ ret = Done /\ astray = FALSE

-----------------------------------------------------------------------------
Push(e) ==
  /\ size < MaxSize
  /\ capacity' = CapacityForOne
  /\ Store(Overwrite(WithRoomForOne, size, <<e>>), size + 1)
  /\ size' = size + 1
  /\ Returns(Done)

Unshift(e) ==
  /\ size < MaxSize
  /\ capacity' = CapacityForOne
  /\ Store(Overwrite(MoveRange(WithRoomForOne, 0, size, 1), 0, <<e>>), size + 1)
  /\ size' = size + 1
  /\ Returns(Done)

\* The array once its first element has been moved out of it.
WithoutFirst == IF Trivial THEN elements ELSE Overwrite(elements, 0, <<Null>>)

Shift ==
  IF Empty THEN Throws
  ELSE /\ Store(MoveRange(WithoutFirst, 1, size, 0), size)
       /\ size' = size - 1
       /\ Returns(Item(elements[0]))
       /\ UNCHANGED capacity

Pop ==
  IF Empty THEN Throws
  ELSE /\ size' = size - 1
       /\ Returns(Item(elements[size - 1]))
       /\ UNCHANGED <<capacity, elements, astray>>

\* Pop(k).
PopMany(k) ==
  IF k > size THEN Throws
  ELSE /\ size' = size - k
       /\ Returns(Items(Stretch(elements, size - k, size)))
       /\ UNCHANGED <<capacity, elements, astray>>

\* The argument may be the list itself.
Concat(list) ==
  LET needed == size + Len(list)
      room   == IF needed > capacity THEN Expanded(needed) ELSE elements
  IN /\ needed <= MaxSize
     /\ capacity' = IF needed > capacity THEN needed ELSE capacity
     /\ Store(Overwrite(room, size, list), needed)
     /\ size' = needed
     /\ Returns(Done)

Clear == size' = 0 /\ Returns(Done) /\ UNCHANGED <<capacity, elements, astray>>

\* A faulty variant: room is made with std::move, as in Unshift.
InsertMoving(index, e) ==
  IF index > size THEN Throws
  ELSE /\ size < MaxSize
       /\ capacity' = CapacityForOne
       /\ Store(Overwrite(MoveOneByOne(WithRoomForOne, index, size, index + 1), index, <<e>>), size + 1)
       /\ size' = size + 1
       /\ Returns(Done)

Insert(index, e) ==
  IF index > size THEN Throws
  ELSE /\ size < MaxSize
       /\ capacity' = CapacityForOne
       /\ Store(Overwrite(CopyRange(WithRoomForOne, index, size, index + 1), index, <<e>>), size + 1)
       /\ size' = size + 1
       /\ Returns(Done)

RemoveAt(index) ==
  IF ~ValidIndex(index) THEN Throws
  ELSE /\ Store(MoveRange(elements, index + 1, size, index), size)
       /\ size' = size - 1
       /\ Returns(Done)
       /\ UNCHANGED capacity

\* A faulty variant: the length is taken for the end of the range.
RemoveUpTo(start, length) ==
  IF start >= size \/ length > size \/ start > length THEN Throws
  ELSE /\ Store(MoveRange(elements, length, size, start), size)
       /\ size' = size - (length - start)
       /\ Returns(Done)
       /\ UNCHANGED capacity

RemoveRange(start, length) ==
  IF start >= size \/ start + length > size THEN Throws
  ELSE /\ IF length = 0 THEN UNCHANGED <<elements, astray>>
          ELSE Store(MoveRange(elements, start + length, size, start), size)
       /\ size' = size - length
       /\ Returns(Done)
       /\ UNCHANGED capacity

\* The elements behind `end` move to where the new ones end, if that is another
\* place; then the new ones are copied in.
InsertAndReplace(start, end, list) ==
  IF start > size \/ end > size \/ start > end THEN Throws
  ELSE LET newSize == size - (end - start) + Len(list)
           grows   == Len(list) > end - start /\ newSize > capacity
           room    == IF grows THEN Expanded(newSize) ELSE elements
           moved   == IF Len(list) = end - start THEN room
                      ELSE MoveRange(room, end, size, start + Len(list))
       IN /\ newSize <= MaxSize
          /\ capacity' = IF grows THEN newSize ELSE capacity
          /\ Store(Overwrite(moved, start, list), newSize)
          /\ size' = newSize
          /\ Returns(Done)

ReverseList ==
  /\ Store([i \in DOMAIN elements |->
              IF i < size THEN elements[size - 1 - i] ELSE elements[i]], size)
  /\ Returns(Done)
  /\ UNCHANGED <<size, capacity>>

TrimExcess ==
  /\ capacity' = size
  /\ Store(Expanded(size), size)
  /\ Returns(Done)
  /\ UNCHANGED size

Set(index, e) ==
  IF ~ValidIndex(index) THEN Throws
  ELSE /\ Store(Overwrite(elements, index, <<e>>), index + 1)
       /\ Returns(Done)
       /\ UNCHANGED <<size, capacity>>

\* Up to the capacity.
Fill(e) ==
  IF capacity = 0 THEN Throws
  ELSE /\ Store([i \in DOMAIN elements |-> e], capacity)
       /\ size' = capacity
       /\ Returns(Done)
       /\ UNCHANGED capacity

\* Called with a capacity of at least the size.
ExpandWithElement(newCapacity, e) ==
  /\ capacity' = newCapacity
  /\ Store(Overwrite([i \in 0..newCapacity - 1 |-> e], 0, Stretch(elements, 0, size)), newCapacity)
  /\ size' = newCapacity
  /\ Returns(Done)

\* operator=, by copy or by move: the array is as large as the other list's.
Assign(list, newCapacity) ==
  /\ capacity' = newCapacity
  /\ Store(Overwrite(Fresh(newCapacity), 0, list), Len(list))
  /\ size' = Len(list)
  /\ Returns(Done)

-----------------------------------------------------------------------------
(* Operations that only look.                                               *)

\* A faulty variant: the whole array is searched.
SearchesArray(e) == {i \in DOMAIN elements : elements[i] = e}

\* Contains, and the index IndexOf returns.
Occurrences(e) == {i \in 0..size - 1 : elements[i] = e}
Contains(e) == Occurrences(e) # {}
IndexOf(e)  == CHOOSE i \in Occurrences(e) : \A j \in Occurrences(e) : i <= j

Slice(start, end) == Stretch(elements, start, end)
SliceThrows(start, end) == start >= size \/ end > size \/ start >= end

\* Add: a new list.
Sum(list) ==
  Stretch(Overwrite(Overwrite(Fresh(size + Len(list)), 0, Stretch(elements, 0, size)),
                    size, list), 0, size + Len(list))

-----------------------------------------------------------------------------
Next ==
  \/ Shift \/ Pop \/ Clear \/ ReverseList \/ TrimExcess
  \/ \E e \in Value : Push(e) \/ Unshift(e) \/ Fill(e)
  \/ \E list \in Argument \cup {Stretch(elements, 0, size)} : Concat(list)
  \/ \E index \in 0..MaxSize + 1 :
       \/ RemoveAt(index) \/ PopMany(index)
       \/ \E e \in Value : Insert(index, e) \/ Set(index, e)
       \/ \E length \in 0..MaxSize + 1 :
            \/ RemoveRange(index, length)
            \/ \E list \in Argument : InsertAndReplace(index, length, list)
  \/ \E newCapacity \in size..MaxSize, e \in Value : ExpandWithElement(newCapacity, e)
  \/ \E list \in Argument : \E spare \in 0..1 : Assign(list, Len(list) + spare)

Spec == Init /\ [][Next]_vars

-----------------------------------------------------------------------------
TypeOK ==
  /\ size \in Nat /\ capacity \in Nat
  /\ size <= capacity
  /\ elements \in [0..capacity - 1 -> Cell]
  /\ astray \in BOOLEAN

\* Whatever the order of growing, trimming, filling and removing: no operation
\* reads or writes outside the array it has allocated.
InBounds == ~astray

\* The list as its users see it.
Elements == Stretch(elements, 0, size)

Contract == INSTANCE ListContract WITH seq <- Elements

\* For types that are moved by copying bytes, List is a sequence.
ImplementsContract == Contract!Spec

HoleFree == \A i \in 0..size - 1 : elements[i] # Null

\* Each operation does to the sequence what the operation of that name does.
SameOperation ==
  /\ Shift => Contract!Shift
  /\ Pop => Contract!Pop
  /\ ReverseList => Contract!ReverseList
  /\ TrimExcess => Contract!Reallocate
  /\ \A e \in Value : (Push(e) => Contract!Push(e)) /\ (Unshift(e) => Contract!Unshift(e))
  /\ \A list \in Argument : Concat(list) => Contract!Concat(list)
  /\ \A index \in 0..MaxSize :
       /\ RemoveAt(index) => Contract!RemoveAt(index)
       /\ PopMany(index) => Contract!PopMany(index)
       /\ \A e \in Value : /\ Insert(index, e) => Contract!Insert(index, e)
                           /\ Set(index, e) => Contract!Set(index, e)
       /\ \A end \in 0..MaxSize :
            /\ RemoveRange(index, end) => Contract!RemoveRange(index, end)
            /\ \A list \in Argument :
                 InsertAndReplace(index, end, list) => Contract!InsertAndReplace(index, end, list)

\* What is left behind the last element is never seen: searching, slicing and
\* adding give what they give of the sequence.
ObserversAgree ==
  /\ \A e \in Value :
       /\ Contains(e) <=> \E i \in 1..size : Elements[i] = e
       /\ Contains(e) => /\ Elements[IndexOf(e) + 1] = e
                         /\ \A i \in 1..IndexOf(e) : Elements[i] # e
  /\ \A start, end \in 0..MaxSize + 1 :
       ~SliceThrows(start, end) =>
         /\ Slice(start, end) = SubSeq(Elements, start + 1, end)
         /\ Slice(start, end) # <<>>
  /\ \A list \in Argument : Sum(list) = Elements \o list

\* An operation that does not do what it does to a sequence leaves a null pointer
\* among the elements.
LossLeavesHole == HoleFree' => SameOperation

\* InsertAndReplace replaces [start, end) and nothing else: the elements behind
\* `end` are there afterwards, behind the new ones (List.h:141).
TailKept ==
  [][\A start, end \in 0..MaxSize : \A list \in Argument :
       InsertAndReplace(start, end, list) /\ ret' = Done =>
         SubSeq(Elements, end + 1, size)
           = SubSeq(Elements', start + Len(list) + 1, size')]_vars
=============================================================================
