------------------------------- MODULE PyList -------------------------------
(***************************************************************************)
(* The list of the language: Collections::List of object pointers behind   *)
(* the methods and operators a program calls, with a slice object and a    *)
(* reversed iterator that outlive one call.                                *)
(*                                                                         *)
(* An operation that compares elements follows their pointers; with a null *)
(* one among them the program ends there, so that it has no next state.    *)
(*                                                                         *)
(* list.extend(itself) never returns (its iterator sees what it appends)   *)
(* and is not among the actions.                                           *)
(***************************************************************************)
EXTENDS List, Slice, FiniteSets

CONSTANTS
  SliceObject,   \* the slices programs make
  Index          \* the integers they use as positions and factors

ASSUME PyListAssumption ==
  /\ SliceObject \subseteq Slices
  /\ Index \subseteq Int
  /\ None \notin Slices

VARIABLES
  slice,        \* a slice object in the program's hands, or None
  lastUse,      \* history: the length and the positions it was last used with
  back          \* position of a reversed iterator (-1: exhausted), or None

listVars   == <<size, capacity, elements, astray>>
sliceVars  == <<slice, lastUse>>
pyListVars == <<vars, sliceVars, back>>

Number(n) == <<"number", n>>
Truth(b)  == <<"truth", b>>
Itself    == <<"itself">>

PyListInit ==
  /\ Init
  /\ slice = None /\ lastUse = None /\ back = None

-----------------------------------------------------------------------------
(* Methods that change the list.                                            *)

ListAppend(e) == Push(e)

\* One append after another: the array may grow more than once.
ListExtend(list) ==
  LET grown[k \in 0..Len(list)] ==
        IF k = 0 THEN capacity
        ELSE IF size + k - 1 < grown[k - 1] THEN grown[k - 1]
        ELSE IF grown[k - 1] + grown[k - 1] \div 2 > INIT_CAPACITY
               THEN grown[k - 1] + grown[k - 1] \div 2 ELSE INIT_CAPACITY
      room == IF grown[Len(list)] = capacity THEN elements ELSE Expanded(grown[Len(list)])
  IN /\ size + Len(list) <= MaxSize
     /\ capacity' = grown[Len(list)]
     /\ Store(Overwrite(room, size, list), size + Len(list))
     /\ size' = size + Len(list)
     /\ Returns(Done)

\* pop(), pop(i): a position from the front is not looked at.
ListPop(i) ==
  LET index == IF i = None THEN size - 1 ELSE IF i >= 0 THEN size - 1 ELSE size + i
  IN IF index \notin 0..size - 1 THEN Throws
     ELSE /\ Store(MoveRange(elements, index + 1, size, index), size)
          /\ size' = size - 1
          /\ Returns(Item(elements[index]))
          /\ UNCHANGED capacity

ListClear == Clear

ListRemove(e) ==
  /\ HoleFree
  /\ IF Contains(e) THEN RemoveAt(IndexOf(e)) ELSE Throws

ListReverse == ReverseList

\* A position outside the list is an error.
ListInsert(i, e) ==
  IF FromEnd(i, size) \in 0..size THEN Insert(FromEnd(i, size), e) ELSE Throws

\* list[i] = e: a negative position is an error.
SetItem(i, e) == IF i < 0 THEN Throws ELSE Set(i, e)

-----------------------------------------------------------------------------
(* Methods that look.                                                       *)

Answers(r) == Returns(r) /\ UNCHANGED listVars

ListIndex(e) ==
  HoleFree /\ IF Contains(e) THEN Answers(Number(IndexOf(e))) ELSE Throws

ListCount(e) ==
  HoleFree /\ Answers(Number(Cardinality({i \in 1..size : Elements[i] = e})))

ListContains(e) == HoleFree /\ Answers(Truth(Contains(e)))
ListEquals(list) == HoleFree /\ Answers(Truth(Elements = list))
ListLen == Answers(Number(size))
ListBoolean == Answers(Truth(size > 0))
ListCopy == Answers(Items(Elements))
ListAdd(list) == Answers(Items(Sum(list)))

\* list(list) is the list.
ListOfList == Answers(Itself)

\* A list of one element is made by another constructor, which refuses zero.
ListMul(times) ==
  IF times < 0 \/ (size = 1 /\ times = 0) THEN Throws
  ELSE Answers(Items([i \in 1..size * times |-> Elements[((i - 1) % size) + 1]]))

GetItem(i) ==
  IF FromEnd(i, size) \in 0..size - 1
    THEN Answers(Item(elements[FromEnd(i, size)])) ELSE Throws

-----------------------------------------------------------------------------
(* Slices.                                                                  *)

\* Bound: one slice object, or one reversed iterator.
SliceInit(fields) == slice = None /\ back = None /\ slice' = fields /\ UNCHANGED lastUse

\* A faulty variant: the numbers are used and not kept.
BindOnly(length) ==
  /\ UNCHANGED slice
  /\ lastUse' = [length |-> length, positions |-> Positions(Bound(slice, length), length)]

BindLength(length) ==
  /\ slice' = Bound(slice, length)
  /\ lastUse' = [length |-> length, positions |-> Positions(slice', length)]

GetSlice ==
  /\ slice # None
  /\ IF BindThrows(slice, size) THEN Throws /\ UNCHANGED sliceVars
     ELSE /\ BindLength(size)
          /\ LET at == Positions(Bound(slice, size), size)
             IN Answers(Items([k \in DOMAIN at |-> elements[at[k]]]))

\* list[start:stop] = list: a step is an error, and a slice that has been used
\* has one.
SetSlice(list) ==
  /\ slice # None
  /\ IF slice.step # None \/ BindThrows(slice, size) THEN Throws /\ UNCHANGED sliceVars
     ELSE /\ BindLength(size)
          /\ InsertAndReplace(BoundStart(slice, size), BoundStop(slice, size), list)

-----------------------------------------------------------------------------
(* reversed(list).                                                          *)

Reversed == back = None /\ slice = None /\ back' = size - 1 /\ Answers(Done)

\* The list is read at the position whatever has become of its length.
ReverseNext ==
  /\ back # None
  /\ IF back = -1 THEN Answers(Done) /\ UNCHANGED back
     ELSE IF back >= size THEN Throws /\ UNCHANGED back
     ELSE Answers(Item(elements[back])) /\ back' = back - 1

-----------------------------------------------------------------------------
ListMethods ==
  \/ ListClear \/ ListReverse
  \/ \E e \in Value : ListAppend(e) \/ ListRemove(e)
  \/ \E list \in Argument : ListExtend(list)
  \/ \E i \in Index \cup {None} : ListPop(i)
  \/ \E i \in Index, e \in Value : ListInsert(i, e) \/ SetItem(i, e)

ListQueries ==
  \/ ListLen \/ ListBoolean \/ ListCopy \/ ListOfList
  \/ \E e \in Value : ListIndex(e) \/ ListCount(e) \/ ListContains(e)
  \/ \E list \in Argument : ListEquals(list) \/ ListAdd(list)
  \/ \E i \in Index : ListMul(i) \/ GetItem(i)

PyListNext ==
  \/ ListMethods /\ UNCHANGED <<sliceVars, back>>
  \/ ListQueries /\ UNCHANGED <<sliceVars, back>>
  \/ \E fields \in SliceObject : SliceInit(fields) /\ UNCHANGED <<vars, back>>
  \/ GetSlice /\ UNCHANGED back
  \/ \E list \in Argument : SetSlice(list) /\ UNCHANGED back
  \/ (Reversed \/ ReverseNext) /\ UNCHANGED sliceVars

PyListSpec == PyListInit /\ [][PyListNext]_pyListVars

-----------------------------------------------------------------------------
\* A slice that has not been used selects, of the list as it is, what Python
\* selects, wherever that is something (PySlice.cpp, BindLength).
SliceAsPython ==
  slice # None /\ lastUse = None => SelectsAsPython(slice, size)

\* A slice selects the positions of its last use, whatever the program did to
\* the list in between, as long as the list has not become shorter; only one
\* that went backwards to the front selects nothing at all (PySlice.cpp:56).
SliceKeepsPositions ==
  lastUse # None /\ size >= lastUse.length =>
    IF slice.stop = -1 THEN BindThrows(slice, size)
    ELSE /\ ~BindThrows(slice, size)
         /\ Positions(Bound(slice, size), size) = lastUse.positions
=============================================================================
