---------------------------- MODULE LibraryProofs ---------------------------
(***************************************************************************)
(* Proofs about the objects a program's methods are called on, for any     *)
(* keys, values, lengths and slices: what a slice selects is what Python   *)
(* selects, and it keeps it; a dictionary loses no store, wherever equal   *)
(* keys meet, and a loop nothing disturbs gives every key once; the order  *)
(* of a class is the merge of its bases' orders; an object keeps the       *)
(* attribute it has read, whatever becomes of its classes.                 *)
(***************************************************************************)
EXTENDS PyList, Classes, Dictionary, SequenceTheorems, FiniteSetTheorems, WellFoundedInduction,
        TLAPS

-----------------------------------------------------------------------------
(* Slices.                                                                  *)

LEMMA ClampBetween ==
  ASSUME NEW i \in Int, NEW low \in Int, NEW high \in Int
  PROVE  /\ Clamp(i, low, high) \in Int
         /\ low <= Clamp(i, low, high)
         /\ low <= high => Clamp(i, low, high) <= high
         /\ low <= i /\ i <= high => Clamp(i, low, high) = i
         /\ i > high /\ low <= high => Clamp(i, low, high) = high
         /\ i < low => Clamp(i, low, high) = low
         /\ high < low => Clamp(i, low, high) = low
BY DEF Clamp

LEMMA FromEndType ==
  ASSUME NEW i \in Int, NEW n \in Nat
  PROVE  FromEnd(i, n) \in Int
BY DEF FromEnd

LEMMA BoundTypes ==
  ASSUME NEW s \in Slices, NEW n \in Nat
  PROVE  /\ BoundStart(s, n) \in Int /\ BoundStop(s, n) \in Int /\ BoundStep(s) \in Int
         /\ Forward(s) <=> BoundStep(s) > 0
         /\ Bound(s, n) \in Slices
         /\ Bound(s, n).start = BoundStart(s, n)
         /\ Bound(s, n).stop = BoundStop(s, n)
         /\ Bound(s, n).step = BoundStep(s)
<1>1. /\ s.start \in Int \cup {None} /\ s.stop \in Int \cup {None} /\ s.step \in Int \cup {None}
  BY DEF Slices, Field
<1>2. BoundStart(s, n) \in Int
  <2>1. CASE s.start = None
    BY <2>1 DEF BoundStart
  <2>2. CASE s.start # None
    <3>1. FromEnd(s.start, n) \in Int
      BY <1>1, <2>2, FromEndType
    <3>2. Clamp(FromEnd(s.start, n), 0, n - 1) \in Int
      BY <3>1, ClampBetween
    <3> QED BY <2>2, <3>2 DEF BoundStart
  <2> QED BY <2>1, <2>2
<1>3. BoundStop(s, n) \in Int
  <2>1. CASE s.stop = None
    BY <2>1 DEF BoundStop
  <2>2. CASE s.stop # None
    <3>1. FromEnd(s.stop, n) \in Int
      BY <1>1, <2>2, FromEndType
    <3>2. Clamp(FromEnd(s.stop, n), 0, n) \in Int
      BY <3>1, ClampBetween
    <3> QED BY <2>2, <3>2 DEF BoundStop
  <2> QED BY <2>1, <2>2
<1>4. BoundStep(s) \in Int /\ (Forward(s) <=> BoundStep(s) > 0)
  BY <1>1, NoneAssumption DEF BoundStep, Forward
<1> QED BY <1>2, <1>3, <1>4 DEF Bound, Slices, Field

LEMMA NoPositions ==
  ASSUME NEW b, NEW n \in Nat, b.start \in Int, b.stop \in Int, b.step \in Int \ {0},
         Positions(b, n) # << >>
  PROVE  /\ b.start < n
         /\ b.step > 0 => b.start < b.stop
         /\ b.step < 0 => b.start > b.stop
<1>1. b.start < n
  BY DEF Positions
<1>2. ASSUME Steps(b.start, b.stop, b.step) = 0 PROVE FALSE
  <2>1. 1..0 = {}
    OBVIOUS
  <2>2. Positions(b, n) = [k \in {} |-> b.start + (k - 1) * b.step]
    BY <1>1, <1>2, <2>1 DEF Positions
  <2>3. [k \in {} |-> b.start + (k - 1) * b.step] = << >>
    OBVIOUS
  <2> QED BY <2>2, <2>3
<1>3. ASSUME b.step > 0, ~(b.start < b.stop) PROVE FALSE
  BY <1>2, <1>3 DEF Steps
<1>4. ASSUME b.step < 0, ~(b.start > b.stop) PROVE FALSE
  BY <1>2, <1>4 DEF Steps
<1> QED BY <1>1, <1>3, <1>4

-----------------------------------------------------------------------------
(* The ends of a slice that selects something are where Python has them.    *)

PyStart(s, n) == PythonBound(s, n).start
PyStop(s, n)  == PythonBound(s, n).stop

LEMMA PythonTypes ==
  ASSUME NEW s \in Slices, NEW n \in Nat
  PROVE  PyStart(s, n) \in Int /\ PyStop(s, n) \in Int
<1>1. s.start \in Int \cup {None} /\ s.stop \in Int \cup {None}
  BY DEF Slices, Field
<1>2. ASSUME NEW low \in Int, NEW high \in Int
      PROVE  /\ s.start # None => Clamp(FromEnd(s.start, n), low, high) \in Int
             /\ s.stop # None => Clamp(FromEnd(s.stop, n), low, high) \in Int
  BY <1>1, FromEndType, ClampBetween
<1>3. PyStart(s, n) \in Int
  <2>1. CASE s.start = None
    BY <2>1 DEF PyStart, PythonBound
  <2>2. CASE s.start # None
    <3>1. CASE BoundStep(s) > 0
      BY <1>2, <2>2, <3>1 DEF PyStart, PythonBound
    <3>2. CASE ~(BoundStep(s) > 0)
      BY <1>2, <2>2, <3>2 DEF PyStart, PythonBound
    <3> QED BY <3>1, <3>2
  <2> QED BY <2>1, <2>2
<1>4. PyStop(s, n) \in Int
  <2>1. CASE s.stop = None
    BY <2>1 DEF PyStop, PythonBound
  <2>2. CASE s.stop # None
    <3>1. CASE BoundStep(s) > 0
      BY <1>2, <2>2, <3>1 DEF PyStop, PythonBound
    <3>2. CASE ~(BoundStep(s) > 0)
      BY <1>2, <2>2, <3>2 DEF PyStop, PythonBound
    <3> QED BY <3>1, <3>2
  <2> QED BY <2>1, <2>2
<1> QED BY <1>3, <1>4

LEMMA PythonForward ==
  ASSUME NEW s \in Slices, NEW n \in Nat, BoundStep(s) > 0,
         PyStart(s, n) < n, PyStart(s, n) < PyStop(s, n)
  PROVE  BoundStart(s, n) = PyStart(s, n) /\ BoundStop(s, n) = PyStop(s, n)
<1>1. /\ s.start \in Int \cup {None} /\ s.stop \in Int \cup {None} /\ None \notin Int
      /\ Forward(s)
  BY BoundTypes, NoneAssumption DEF Slices, Field
<1>2. PyStop(s, n) = BoundStop(s, n)
  BY <1>1 DEF PyStop, PythonBound, BoundStop
<1>3. PyStart(s, n) = IF s.start = None THEN 0 ELSE Clamp(FromEnd(s.start, n), 0, n)
  BY <1>1 DEF PyStart, PythonBound
<1>4. BoundStart(s, n) = IF s.start = None THEN 0 ELSE Clamp(FromEnd(s.start, n), 0, n - 1)
  BY <1>1 DEF BoundStart
<1>5. ASSUME s.start # None PROVE BoundStart(s, n) = PyStart(s, n)
  <2> DEFINE i == FromEnd(s.start, n)
  <2>1. i \in Int
    BY <1>1, <1>5 DEF FromEnd
  <2> HIDE DEF i
  <2>2. Clamp(i, 0, n) < n
    BY <1>3, <1>5 DEF i
  <2>3. i <= n - 1 /\ 0 <= n - 1
    BY <2>1, <2>2 DEF Clamp
  <2>4. Clamp(i, 0, n) = Clamp(i, 0, n - 1)
    BY <2>1, <2>3 DEF Clamp
  <2> QED BY <1>3, <1>4, <1>5, <2>4 DEF i
<1> QED BY <1>2, <1>3, <1>4, <1>5

LEMMA PythonBackward ==
  ASSUME NEW s \in Slices, NEW n \in Nat, BoundStep(s) < 0, ~StopsInFront(s, n),
         PyStart(s, n) < n, PyStart(s, n) > PyStop(s, n)
  PROVE  BoundStart(s, n) = PyStart(s, n) /\ BoundStop(s, n) = PyStop(s, n)
<1>1. /\ s.start \in Int \cup {None} /\ s.stop \in Int \cup {None} /\ None \notin Int
      /\ ~Forward(s) /\ BoundStep(s) \in Int /\ ~(BoundStep(s) > 0)
  BY BoundTypes, NoneAssumption DEF Slices, Field
<1>2. PyStart(s, n) = IF s.start = None THEN n - 1 ELSE Clamp(FromEnd(s.start, n), -1, n - 1)
  BY <1>1 DEF PyStart, PythonBound
<1>3. PyStop(s, n) = IF s.stop = None THEN -1 ELSE Clamp(FromEnd(s.stop, n), -1, n - 1)
  BY <1>1 DEF PyStop, PythonBound
<1>4. BoundStart(s, n) = IF s.start = None THEN n - 1 ELSE Clamp(FromEnd(s.start, n), 0, n - 1)
  BY <1>1 DEF BoundStart
<1>5. BoundStop(s, n) = IF s.stop = None THEN -1 ELSE Clamp(FromEnd(s.stop, n), 0, n)
  BY <1>1 DEF BoundStop
<1>6. PyStart(s, n) \in Int /\ PyStop(s, n) \in Int /\ PyStop(s, n) >= -1
  <2>1. ASSUME s.stop # None PROVE Clamp(FromEnd(s.stop, n), -1, n - 1) >= -1
    <3>1. FromEnd(s.stop, n) \in Int
      BY <1>1, <2>1, FromEndType
    <3> QED BY <3>1, ClampBetween
  <2> QED BY <1>3, <2>1, PythonTypes
<1>7. PyStart(s, n) >= 0
  BY <1>6
<1>8. ASSUME s.start # None PROVE BoundStart(s, n) = PyStart(s, n)
  <2> DEFINE i == FromEnd(s.start, n)
  <2>1. i \in Int
    BY <1>1, <1>8 DEF FromEnd
  <2> HIDE DEF i
  <2>2. Clamp(i, -1, n - 1) >= 0
    BY <1>2, <1>7, <1>8 DEF i
  <2>3. i >= 0 /\ n - 1 >= 0
    BY <2>1, <2>2 DEF Clamp
  <2>4. Clamp(i, -1, n - 1) = Clamp(i, 0, n - 1)
    BY <2>1, <2>3 DEF Clamp
  <2> QED BY <1>2, <1>4, <1>8, <2>4 DEF i
<1>9. ASSUME s.stop # None PROVE BoundStop(s, n) = PyStop(s, n)
  <2> DEFINE i == FromEnd(s.stop, n)
  <2>1. i \in Int /\ i >= 0
    BY <1>1, <1>9 DEF FromEnd, StopsInFront
  <2>2. PyStart(s, n) <= n - 1
    BY <1>6
  <2>6. i \in Int /\ i >= 0
    BY <2>1
  <2>3. PyStop(s, n) = Clamp(i, -1, n - 1) /\ BoundStop(s, n) = Clamp(i, 0, n)
    BY <1>3, <1>5, <1>9
  <2> HIDE DEF i
  <2>4. Clamp(i, -1, n - 1) < n - 1
    BY <1>6, <2>2, <2>3
  <2>5. i < n - 1
    BY <2>4, <2>6 DEF Clamp
  <2> QED BY <2>3, <2>5, <2>6 DEF Clamp
<1> QED BY <1>2, <1>3, <1>4, <1>5, <1>8, <1>9

\* Every slice that has not been used selects of every list, whatever its
\* length, what it selects in Python, wherever that is something, except one
\* that steps backwards to a stop in front of the list (BindLength).
THEOREM SliceIsPythons ==
  ASSUME NEW s \in Slices, NEW n \in Nat
  PROVE  SelectsAsPython(s, n)
<1> DEFINE p == PythonBound(s, n)
<1> SUFFICES ASSUME BoundStep(s) # 0, ~StopsInFront(s, n), Positions(p, n) # << >>
             PROVE  ~BindThrows(s, n) /\ Positions(Bound(s, n), n) = Positions(p, n)
  BY DEF SelectsAsPython
<1>1. /\ s.start \in Int \cup {None} /\ s.stop \in Int \cup {None}
      /\ BoundStep(s) \in Int \ {0}
  BY BoundTypes DEF Slices, Field
<1>2. p.step = BoundStep(s) /\ p.start = PyStart(s, n) /\ p.stop = PyStop(s, n)
  BY DEF PythonBound, PyStart, PyStop
<1>3. PyStart(s, n) \in Int /\ PyStop(s, n) \in Int
  BY PythonTypes
<1> HIDE DEF p
<1>4. /\ PyStart(s, n) < n
      /\ BoundStep(s) > 0 => PyStart(s, n) < PyStop(s, n)
      /\ BoundStep(s) < 0 => PyStart(s, n) > PyStop(s, n)
  BY <1>1, <1>2, <1>3, NoPositions
<1>5. BoundStart(s, n) = PyStart(s, n) /\ BoundStop(s, n) = PyStop(s, n)
  <2>1. BoundStep(s) > 0 \/ BoundStep(s) < 0
    BY <1>1
  <2> QED BY <1>4, <2>1, PythonForward, PythonBackward
<1>6. /\ Bound(s, n).start = p.start /\ Bound(s, n).stop = p.stop
      /\ Bound(s, n).step = p.step
  BY <1>2, <1>5, BoundTypes
<1>7. ~BindThrows(s, n)
  BY <1>1, <1>2, <1>3, <1>4, <1>6 DEF BindThrows
<1> QED BY <1>6, <1>7 DEF Positions

-----------------------------------------------------------------------------
(* A slice that has been used.  SliceKeepsPositions is not inductive alone: *)
(* the slice must be known to hold numbers that fit the list of its last    *)
(* use, and this is what binding it, to any list, establishes.              *)

\* b holds numbers for a list of n elements.
Fits(b, n) ==
  /\ b.start \in Nat /\ b.stop \in Int /\ b.step \in Int \ {0}
  /\ b.stop >= -1
  /\ b.step > 0 => b.start < b.stop /\ b.stop <= n
  /\ b.step < 0 => b.start > b.stop /\ (b.stop = -1 \/ b.start < n)

LEMMA BoundFits ==
  ASSUME NEW s \in Slices, NEW n \in Nat, ~BindThrows(s, n)
  PROVE  Fits(Bound(s, n), n)
<1> DEFINE b == Bound(s, n)
<1>1. /\ s.start \in Int \cup {None} /\ s.stop \in Int \cup {None}
      /\ BoundStart(s, n) \in Int /\ BoundStop(s, n) \in Int /\ BoundStep(s) \in Int
      /\ Forward(s) <=> BoundStep(s) > 0
      /\ b.start = BoundStart(s, n) /\ b.stop = BoundStop(s, n) /\ b.step = BoundStep(s)
  BY BoundTypes DEF Slices, Field
<1>2. /\ b.step # 0
      /\ b.step > 0 => b.start < b.stop
      /\ b.step < 0 => b.start > b.stop
  BY <1>1 DEF BindThrows
<1>3. b.stop >= -1 /\ (b.stop <= n)
  <2>1. CASE s.stop = None
    BY <1>1, <2>1 DEF BoundStop
  <2>2. CASE s.stop # None
    <3>1. FromEnd(s.stop, n) \in Int
      BY <1>1, <2>2, FromEndType
    <3>2. 0 <= Clamp(FromEnd(s.stop, n), 0, n) /\ Clamp(FromEnd(s.stop, n), 0, n) <= n
      BY <3>1 DEF Clamp
    <3> QED BY <1>1, <2>2, <3>2 DEF BoundStop
  <2> QED BY <2>1, <2>2
<1>4. \/ /\ BoundStart(s, n) >= 0
         /\ BoundStart(s, n) < n \/ (n = 0 /\ BoundStart(s, n) = 0)
      \/ BoundStart(s, n) = -1 /\ n = 0
  <2>1. CASE s.start = None
    <3>1. BoundStart(s, n) = 0 \/ BoundStart(s, n) = n - 1
      BY <2>1 DEF BoundStart
    <3> QED BY <3>1
  <2>2. CASE s.start # None
    <3> DEFINE i == FromEnd(s.start, n)
    <3>1. i \in Int
      BY <1>1, <2>2, FromEndType
    <3>2. BoundStart(s, n) = Clamp(i, 0, n - 1)
      BY <2>2 DEF BoundStart
    <3> HIDE DEF i
    <3>3. LET c == Clamp(i, 0, n - 1)
          IN c \in Int /\ 0 <= c /\ (c <= n - 1 \/ (n = 0 /\ c = 0))
      BY <3>1 DEF Clamp
    <3> QED BY <3>2, <3>3
  <2> QED BY <2>1, <2>2
<1>5. b.step < 0 => b.start # -1
  BY <1>1, <1>2, <1>3
<1>6. b.step > 0 => b.start # -1
  <2> SUFFICES ASSUME b.step > 0 PROVE b.start >= 0
    OBVIOUS
  <2>1. Forward(s)
    BY <1>1
  <2>2. CASE s.start = None
    BY <1>1, <2>1, <2>2 DEF BoundStart
  <2>3. CASE s.start # None
    <3>1. FromEnd(s.start, n) \in Int
      BY <1>1, <2>3, FromEndType
    <3>2. 0 <= Clamp(FromEnd(s.start, n), 0, n - 1)
      BY <3>1, ClampBetween
    <3> QED BY <1>1, <2>3, <3>2 DEF BoundStart
  <2> QED BY <2>2, <2>3
<1>7. b.start = BoundStart(s, n)
  BY <1>1
<1> HIDE DEF b
<1>8. \/ b.start >= 0 /\ (b.start < n \/ (n = 0 /\ b.start = 0))
      \/ b.start = -1 /\ n = 0
  BY <1>4, <1>7
<1>9. /\ b.start \in Int /\ b.stop \in Int /\ b.step \in Int
  BY <1>1
<1>10. b.start \in Nat
  BY <1>2, <1>5, <1>6, <1>9, <1>8
<1>11. b.step < 0 => (b.stop = -1 \/ b.start < n)
  BY <1>2, <1>3, <1>9, <1>10, <1>8
<1>12. Fits(b, n)
  BY <1>2, <1>3, <1>9, <1>10, <1>11 DEF Fits
<1> QED BY <1>12 DEF b

\* Bound again to a list that is as long or longer, it stays what it is, unless
\* it went backwards past the front.
LEMMA FitsLonger ==
  ASSUME NEW b \in Slices, NEW n \in Nat, NEW m \in Nat, n <= m, Fits(b, n)
  PROVE  IF b.stop = -1 THEN BindThrows(b, m)
         ELSE ~BindThrows(b, m) /\ Positions(Bound(b, m), m) = Positions(b, n)
<1>1. /\ b.start \in Nat /\ b.stop \in Int /\ b.step \in Int \ {0} /\ b.stop >= -1
      /\ b.start # None /\ b.stop # None /\ b.step # None
  BY NoneAssumption DEF Fits
<1>2. /\ Bound(b, m).start = Clamp(b.start, 0, m - 1)
      /\ Bound(b, m).stop = Clamp(FromEnd(b.stop, m), 0, m)
      /\ Bound(b, m).step = b.step
  <2>1. FromEnd(b.start, m) = b.start
    BY <1>1 DEF FromEnd
  <2> QED BY <1>1, <2>1 DEF Bound, BoundStart, BoundStop, BoundStep
<1>3. CASE b.stop = -1
  <2>1. b.step < 0
    BY <1>1, <1>3 DEF Fits
  <2>2. FromEnd(b.stop, m) = m - 1
    BY <1>3 DEF FromEnd
  <2>3. Clamp(b.start, 0, m - 1) <= Clamp(m - 1, 0, m)
    BY <1>1 DEF Clamp
  <2> QED BY <1>2, <1>3, <2>1, <2>2, <2>3 DEF BindThrows
<1>4. CASE b.stop # -1
  <2>1. b.stop \in Nat /\ FromEnd(b.stop, m) = b.stop
    BY <1>1, <1>4 DEF FromEnd
  <2>2. b.start < n /\ b.stop <= n
    BY <1>1, <1>4, <2>1 DEF Fits
  <2>3. Clamp(b.start, 0, m - 1) = b.start /\ Clamp(b.stop, 0, m) = b.stop
    BY <1>1, <2>1, <2>2 DEF Clamp
  <2>4. /\ Bound(b, m).start = b.start /\ Bound(b, m).stop = b.stop
        /\ Bound(b, m).step = b.step
    BY <1>2, <2>1, <2>3
  <2>5. ~BindThrows(b, m)
    BY <1>1, <2>1, <2>4 DEF BindThrows, Fits
  <2>6. ~(b.start >= m) /\ ~(b.start >= n)
    BY <1>1, <2>2
  <2>7. Positions(Bound(b, m), m) = Positions(b, n)
    BY <2>4, <2>6 DEF Positions
  <2> QED BY <1>4, <2>5, <2>7
<1> QED BY <1>3, <1>4

SliceInv ==
  /\ size \in Nat
  /\ slice # None => slice \in Slices
  /\ lastUse # None =>
       /\ slice \in Slices /\ lastUse.length \in Nat
       /\ Fits(slice, lastUse.length)
       /\ lastUse.positions = Positions(slice, lastUse.length)

LEMMA SliceInvInit == PyListInit => SliceInv
BY ListAssumption DEF PyListInit, Init, SliceInv

LEMMA SliceInvImplies == SliceInv => SliceAsPython /\ SliceKeepsPositions
<1>1. SliceInv => SliceAsPython
  BY SliceIsPythons DEF SliceInv, SliceAsPython
<1>2. SliceInv => SliceKeepsPositions
  BY FitsLonger DEF SliceInv, SliceKeepsPositions
<1> QED BY <1>1, <1>2

\* The length of the list.
LEMMA SizeStays ==
  ASSUME SliceInv, [PyListNext]_pyListVars
  PROVE  size' \in Nat
<1> size \in Nat
  BY DEF SliceInv
<1>0. \A list \in Argument : Len(list) \in Nat
  BY ListAssumption
<1>1. ASSUME ListMethods PROVE size' \in Nat
  <2>1. CASE ListClear \/ ListReverse
    BY <2>1 DEF ListClear, Clear, ListReverse, ReverseList
  <2>2. ASSUME NEW e \in Value, ListAppend(e) \/ ListRemove(e) PROVE size' \in Nat
    BY <2>2 DEF ListAppend, Push, ListRemove, RemoveAt, ValidIndex, Throws
  <2>3. ASSUME NEW list \in Argument, ListExtend(list) PROVE size' \in Nat
    BY <1>0, <2>3 DEF ListExtend
  <2>4. ASSUME NEW i \in Index \cup {None}, ListPop(i) PROVE size' \in Nat
    <3>1. size' = size \/ (size' = size - 1 /\ 0..size - 1 # {})
      BY <2>4 DEF ListPop, Throws
    <3> QED BY <3>1
  <2>5. ASSUME NEW i \in Index, NEW e \in Value, ListInsert(i, e) \/ SetItem(i, e)
        PROVE  size' \in Nat
    BY <2>5 DEF ListInsert, Insert, SetItem, Set, Throws
  <2> QED BY <1>1, <2>1, <2>2, <2>3, <2>4, <2>5 DEF ListMethods
<1>2. ASSUME ListQueries PROVE size' \in Nat
  <2>1. ASSUME Throws \/ UNCHANGED listVars PROVE size' = size
    BY <2>1 DEF Throws, listVars
  <2>2. CASE ListLen \/ ListBoolean \/ ListCopy \/ ListOfList
    BY <2>1, <2>2 DEF ListLen, ListBoolean, ListCopy, ListOfList, Answers
  <2>3. ASSUME NEW e \in Value, ListIndex(e) \/ ListCount(e) \/ ListContains(e)
        PROVE  size' = size
    BY <2>1, <2>3 DEF ListIndex, ListCount, ListContains, Answers
  <2>4. ASSUME NEW list \in Argument, ListEquals(list) \/ ListAdd(list) PROVE size' = size
    BY <2>1, <2>4 DEF ListEquals, ListAdd, Answers
  <2>5. ASSUME NEW i \in Index, ListMul(i) \/ GetItem(i) PROVE size' = size
    BY <2>1, <2>5 DEF ListMul, GetItem, Answers
  <2> QED BY <1>2, <2>1, <2>2, <2>3, <2>4, <2>5 DEF ListQueries
<1>3. CASE GetSlice
  BY <1>3 DEF GetSlice, Throws, Answers, listVars
<1>4. ASSUME NEW list \in Argument, SetSlice(list) PROVE size' \in Nat
  <2>1. CASE size' = size
    BY <2>1
  <2>2. CASE /\ slice # None /\ slice.step = None
              /\ InsertAndReplace(BoundStart(slice, size), BoundStop(slice, size), list)
    <3> DEFINE a == BoundStart(slice, size)
               z == BoundStop(slice, size)
    <3>1. \/ size' = size
          \/ ~(a > size \/ z > size \/ a > z) /\ size' = size - (z - a) + Len(list)
      BY <2>2 DEF InsertAndReplace, Throws
    <3>2. a \in Int /\ z \in Int /\ Len(list) \in Nat
      BY <1>0, <2>2, BoundTypes DEF SliceInv
    <3>3. a >= 0
      <4>1. CASE slice.start = None
        BY <2>2, <4>1 DEF BoundStart, Forward
      <4>2. CASE slice.start # None
        <5>1. FromEnd(slice.start, size) \in Int
          BY <2>2, <4>2, FromEndType DEF SliceInv, Slices, Field
        <5>2. 0 <= Clamp(FromEnd(slice.start, size), 0, size - 1)
          BY <5>1, ClampBetween
        <5> QED BY <4>2, <5>2 DEF BoundStart
      <4> QED BY <4>1, <4>2
    <3> HIDE DEF a, z
    <3> QED BY <3>1, <3>2, <3>3
  <2> QED BY <1>4, <2>1, <2>2 DEF SetSlice, Throws
<1>5. CASE UNCHANGED size
  BY <1>5
<1>6. CASE PyListNext
  <2>1. ASSUME NEW fields \in SliceObject, SliceInit(fields) /\ UNCHANGED <<vars, back>>
        PROVE  UNCHANGED size
    BY <2>1 DEF vars
  <2>2. CASE Reversed \/ ReverseNext
    BY <2>2 DEF Reversed, ReverseNext, Answers, Throws, listVars
  <2> QED BY <1>1, <1>2, <1>3, <1>4, <1>5, <1>6, <2>1, <2>2 DEF PyListNext
<1>7. CASE UNCHANGED pyListVars
  BY <1>5, <1>7 DEF pyListVars, vars
<1> QED BY <1>6, <1>7

LEMMA BindingFits ==
  ASSUME SliceInv, slice # None, ~BindThrows(slice, size), BindLength(size), size' \in Nat
  PROVE  SliceInv'
<1>1. slice \in Slices /\ size \in Nat
  BY DEF SliceInv
<1>2. /\ slice' = Bound(slice, size)
      /\ lastUse' = [length |-> size, positions |-> Positions(slice', size)]
  BY DEF BindLength
<1>3. PICK s, n : s = slice /\ n = size
  OBVIOUS
<1>4. Bound(s, n) \in Slices /\ Fits(Bound(s, n), n)
  BY <1>1, <1>3, BoundTypes, BoundFits
<1>5. slice' \in Slices /\ Fits(slice', size)
  BY <1>2, <1>3, <1>4
<1>6. lastUse'.length = size /\ lastUse'.positions = Positions(slice', size)
  BY <1>2
<1> QED BY <1>1, <1>5, <1>6 DEF SliceInv

LEMMA SliceInvNext ==
  ASSUME SliceInv, [PyListNext]_pyListVars
  PROVE  SliceInv'
<1>1. size' \in Nat
  BY SizeStays
<1>2. ASSUME UNCHANGED sliceVars PROVE SliceInv'
  BY <1>1, <1>2 DEF SliceInv, sliceVars
<1>3. ASSUME NEW fields \in SliceObject, SliceInit(fields) PROVE SliceInv'
  BY <1>1, <1>3, PyListAssumption DEF SliceInit, SliceInv
<1>4. CASE GetSlice
  BY <1>1, <1>2, <1>4, BindingFits DEF GetSlice
<1>5. ASSUME NEW list \in Argument, SetSlice(list) PROVE SliceInv'
  BY <1>1, <1>2, <1>5, BindingFits DEF SetSlice
<1>6. CASE UNCHANGED pyListVars
  BY <1>2, <1>6 DEF pyListVars
<1> QED BY <1>2, <1>3, <1>4, <1>5, <1>6 DEF PyListNext

\* Every slice that a program makes and has not used selects what it selects in
\* Python, of the list as it is after whatever calls.
THEOREM SlicesAsPython == PyListSpec => []SliceAsPython
<1> QED BY SliceInvInit, SliceInvNext, SliceInvImplies, PTL DEF PyListSpec

\* And one that has been used keeps its positions while the list is no shorter.
THEOREM SlicesKeepPositions == PyListSpec => []SliceKeepsPositions
<1> QED BY SliceInvInit, SliceInvNext, SliceInvImplies, PTL DEF PyListSpec

-----------------------------------------------------------------------------
(* What a store and a read leave.                                           *)

Pair == Key \X (Datum \cup {Nothing})
Distinct(map) == \A i, j \in DOMAIN map : map[i][1] = map[j][1] => i = j
KeysOf(map) == {map[i][1] : i \in DOMAIN map}

\* Another order of the same pairs.
Reordered(left, map) ==
  /\ left \in Seq(Pair) /\ Distinct(left) /\ Len(left) = Len(map)
  /\ \A i \in DOMAIN left : \E j \in DOMAIN map : left[i] = map[j]
  /\ \A j \in DOMAIN map : \E i \in DOMAIN left : left[i] = map[j]

LEMMA OrdersKeep ==
  ASSUME NEW map \in Seq(Pair), Distinct(map), NEW left \in Orders(map)
  PROVE  Reordered(left, map)
<1>1. Len(map) \in Nat /\ DOMAIN map = 1..Len(map)
  OBVIOUS
<1>2. PICK p \in Bijection(1..Len(map), 1..Len(map)) : left = [i \in 1..Len(map) |-> map[p[i]]]
  BY <1>1 DEF Orders
<1>3. /\ p \in [1..Len(map) -> 1..Len(map)]
      /\ \A i, j \in 1..Len(map) : p[i] = p[j] => i = j
      /\ \A w \in 1..Len(map) : \E v \in 1..Len(map) : p[v] = w
  BY DEF Bijection, Injection, Surjection, IsInjective
<1>4. \A i \in 1..Len(map) : map[i] \in Pair
  OBVIOUS
<1>5. left \in Seq(Pair) /\ DOMAIN left = 1..Len(map) /\ Len(left) = Len(map)
  <2>1. left \in [1..Len(map) -> Pair]
    BY <1>2, <1>3, <1>4
  <2> QED BY <1>1, <2>1
<1>6. Distinct(left)
  <2>1. \A i \in 1..Len(map) : left[i] = map[p[i]] /\ p[i] \in 1..Len(map)
    BY <1>2, <1>3
  <2>2. \A i, j \in 1..Len(map) : map[p[i]][1] = map[p[j]][1] => p[i] = p[j]
    BY <1>1, <2>1 DEF Distinct
  <2>3. ASSUME NEW i \in 1..Len(map), NEW j \in 1..Len(map), left[i][1] = left[j][1]
        PROVE  i = j
    <3>1. map[p[i]][1] = map[p[j]][1]
      BY <2>1, <2>3
    <3>2. p[i] = p[j]
      BY <2>2, <3>1
    <3> QED BY <1>3, <3>2
  <2> QED BY <1>5, <2>3 DEF Distinct
<1>7. \A i \in DOMAIN left : \E j \in DOMAIN map : left[i] = map[j]
  BY <1>1, <1>2, <1>3, <1>5
<1>8. \A j \in DOMAIN map : \E i \in DOMAIN left : left[i] = map[j]
  BY <1>1, <1>2, <1>3, <1>5
<1> QED BY <1>5, <1>6, <1>7, <1>8 DEF Reordered
\* The same pairs and a new one.
Grown(left, map, k, v) ==
  /\ left \in Seq(Pair) /\ Distinct(left) /\ Len(left) # Len(map)
  /\ \A i \in DOMAIN left : left[i] = <<k, v>> \/ \E j \in DOMAIN map : left[i] = map[j]
  /\ \A j \in DOMAIN map : \E i \in DOMAIN left : left[i] = map[j]
  /\ \E i \in DOMAIN left : left[i] = <<k, v>>

\* One pair, whose key is taken for k, has another value.
Assigned(left, map, k, v) ==
  \E i \in DOMAIN map :
    MayBe(k, map[i][1]) /\ left = [map EXCEPT ![i] = <<map[i][1], v>>]

\* A new pair at the end, and then another order.
LEMMA AppendKeeps ==
  ASSUME NEW map \in Seq(Pair), Distinct(map), NEW k \in Key, NEW v \in Datum \cup {Nothing},
         k \notin KeysOf(map), NEW left \in Orders(Append(map, <<k, v>>))
  PROVE  Grown(left, map, k, v)
<1> DEFINE longer == Append(map, <<k, v>>)
           n == Len(map)
<1>1. /\ n \in Nat /\ DOMAIN map = 1..n
      /\ longer \in Seq(Pair) /\ DOMAIN longer = 1..n + 1 /\ Len(longer) = n + 1
      /\ longer[n + 1] = <<k, v>> /\ \A i \in 1..n : longer[i] = map[i]
  BY DEF Pair
<1> HIDE DEF longer, n
<1>2. \A i \in 1..n + 1 : i = n + 1 \/ i \in 1..n
  BY <1>1
<1>3. \A i \in 1..n : i \in 1..n + 1
  BY <1>1
<1>4. n + 1 \in 1..n + 1 /\ n + 1 # n
  BY <1>1
<1>5. <<k, v>>[1] = k
  OBVIOUS
<1>6. Distinct(longer)
  <2> SUFFICES ASSUME NEW i \in 1..n + 1, NEW j \in 1..n + 1, longer[i][1] = longer[j][1]
               PROVE  i = j
    BY <1>1 DEF Distinct
  <2>1. CASE i \in 1..n /\ j \in 1..n
    BY <1>1, <2>1 DEF Distinct
  <2>2. \A l \in 1..n : longer[l][1] # k
    BY <1>1 DEF KeysOf
  <2> QED BY <1>1, <1>2, <1>5, <2>1, <2>2
<1>7. Reordered(left, longer)
  <2>1. left \in Orders(longer)
    BY DEF longer
  <2> QED BY <1>1, <1>6, <2>1, OrdersKeep
<1>8. \A i \in DOMAIN left : left[i] = <<k, v>> \/ \E j \in DOMAIN map : left[i] = map[j]
  BY <1>1, <1>2, <1>7 DEF Reordered
<1>9. /\ \A j \in DOMAIN map : \E i \in DOMAIN left : left[i] = map[j]
      /\ \E i \in DOMAIN left : left[i] = <<k, v>>
  BY <1>1, <1>3, <1>4, <1>7 DEF Reordered
<1>10. Len(left) # Len(map)
  BY <1>1, <1>4, <1>7 DEF Reordered, n
<1> QED BY <1>7, <1>8, <1>9, <1>10 DEF Reordered, Grown

\* A key that is there is found: it is in its bucket.
LEMMA NotFoundIsNew ==
  ASSUME NEW map, NEW place, NEW k, NotFound(map, place, k)
  PROVE  k \notin KeysOf(map)
BY DEF NotFound, BucketOf, Differs, KeysOf

\* What a read that finds nothing leaves.
LEMMA InsertedGrows ==
  ASSUME NEW map \in Seq(Pair), Distinct(map), NEW place, NEW k \in Key,
         NEW v \in Datum \cup {Nothing}, NotFound(map, place, k), NEW new \in Inserted(map, k, v)
  PROVE  k \notin KeysOf(map) /\ Grown(new.pairs, map, k, v)
<1>1. k \notin KeysOf(map)
  BY NotFoundIsNew
<1>2. new.pairs \in Orders(Append(map, <<k, v>>))
  BY DEF Inserted
<1> QED BY <1>1, <1>2, AppendKeeps

\* What a store leaves.
LEMMA AssignKeeps ==
  ASSUME NEW map \in Seq(Pair), Distinct(map), NEW place, NEW k \in Key, NEW v \in Datum,
         NEW new \in insert_or_assign(map, place, k, v)
  PROVE  \/ Assigned(new.pairs, map, k, v)
         \/ k \notin KeysOf(map) /\ Grown(new.pairs, map, k, v)
<1>1. CASE \E i \in Finds(map, place, k) :
             new = [pairs |-> [map EXCEPT ![i] = <<map[i][1], v>>], place |-> place]
  <2>1. PICK i \in Finds(map, place, k) :
          new = [pairs |-> [map EXCEPT ![i] = <<map[i][1], v>>], place |-> place]
    BY <1>1
  <2>2. i \in DOMAIN map /\ MayBe(k, map[i][1])
    BY DEF Finds, ComparedWith, BucketOf
  <2>3. new.pairs = [map EXCEPT ![i] = <<map[i][1], v>>]
    BY <2>1
  <2> QED BY <2>2, <2>3 DEF Assigned
<1>2. CASE NotFound(map, place, k) /\ new \in Inserted(map, k, v)
  BY <1>2, InsertedGrows
<1> QED BY <1>1, <1>2 DEF insert_or_assign

\* An assigned pair keeps its key, and the others are as they were.
LEMMA AssignedIs ==
  ASSUME NEW map \in Seq(Pair), Distinct(map), NEW k \in Key, NEW v \in Datum,
         NEW left, NEW at \in DOMAIN map, left = [map EXCEPT ![at] = <<map[at][1], v>>]
  PROVE  /\ left \in Seq(Pair) /\ Distinct(left)
         /\ Len(left) = Len(map) /\ DOMAIN left = DOMAIN map
         /\ \A i \in DOMAIN map : left[i][1] = map[i][1] /\ (i # at => left[i] = map[i])
         /\ left[at][2] = v
<1>1. Len(map) \in Nat /\ DOMAIN map = 1..Len(map) /\ \A i \in 1..Len(map) : map[i] \in Pair
  OBVIOUS
<1>2. <<map[at][1], v>> \in Pair /\ <<map[at][1], v>>[1] = map[at][1] /\ <<map[at][1], v>>[2] = v
  BY <1>1 DEF Pair
<1>3. left \in [1..Len(map) -> Pair]
  <2>1. map \in [1..Len(map) -> Pair]
    BY <1>1
  <2> QED BY <1>2, <2>1
<1>4. left \in Seq(Pair) /\ DOMAIN left = 1..Len(map) /\ Len(left) = Len(map)
  BY <1>1, <1>3
<1>5. /\ \A i \in DOMAIN map : left[i][1] = map[i][1] /\ (i # at => left[i] = map[i])
      /\ left[at][2] = v
  BY <1>1, <1>2
<1>6. Distinct(left)
  BY <1>1, <1>4, <1>5 DEF Distinct
<1> QED BY <1>1, <1>4, <1>5, <1>6

-----------------------------------------------------------------------------
(* The dictionary invariant.                                                *)

\* A value that was stored under k is there, or one under a key == confuses it
\* with is.
StoreHolds(map, last, late, k) ==
  \E i \in DOMAIN map :
    /\ MayBe(k, map[i][1])
    /\ map[i][2] = last[k] \/ \E l \in late[k] : MayBe(l, map[i][1])

\* A key nothing is equal to.
AloneIs(map, last, miss, k) ==
  /\ k \in KeysOf(map) <=> last[k] # Nothing \/ k \in miss
  /\ \A i \in DOMAIN map : map[i][1] = k => map[i][2] = last[k]

\* What the pairs are, and what the history says of them.
Kept(map, last, late, miss) ==
  /\ map \in Seq(Pair) /\ Distinct(map)
  /\ last \in [Key -> Datum \cup {Nothing}] /\ late \in [Key -> SUBSET Key] /\ miss \subseteq Key
  /\ \A k \in Key : last[k] # Nothing => StoreHolds(map, last, late, k)
  /\ \A k \in Key : Alone(k) => AloneIs(map, last, miss, k)
  /\ \A i \in DOMAIN map : map[i][2] = Nothing => map[i][1] \in miss

\* A loop that nothing disturbed has met the keys up to its position.
Met ==
  position # Nothing /\ ~disturbed =>
    /\ position \in Nat /\ met \in Seq(Key) /\ Len(met) = position /\ position <= Len(entries)
    /\ \A i \in 1..position : met[i] = entries[i][1]

DictInv == Kept(entries, lastStored, later, missed) /\ Met

\* The history after a store.
LastAfter(last, k, v) == [last EXCEPT ![k] = v]
LaterAfter(last, late, k) ==
  [l \in Key |->
    IF l = k THEN {} ELSE late[l] \cup {m \in {k} : last[l] # Nothing /\ Confused(l, m)}]
MissedAfter(miss, left) == miss \ {left[i][1] : i \in {j \in DOMAIN left : left[j][2] # Nothing}}

LEMMA KeptTypes ==
  ASSUME NEW map, NEW last, NEW late, NEW miss, Kept(map, last, late, miss)
  PROVE  \A i \in DOMAIN map : map[i] \in Pair /\ map[i][1] \in Key
BY DEF Kept, Pair

\* A store into a pair whose key is taken for k.
LEMMA AssignedKeeps ==
  ASSUME NEW map, NEW last, NEW late, NEW miss, Kept(map, last, late, miss),
         NEW k \in Key, NEW v \in Datum, NEW left, Assigned(left, map, k, v)
  PROVE  Kept(left, LastAfter(last, k, v), LaterAfter(last, late, k), MissedAfter(miss, left))
<1> USE DictionaryAssumption
<1> DEFINE lastN == LastAfter(last, k, v)
           lateN == LaterAfter(last, late, k)
           missN == MissedAfter(miss, left)
<1>1. PICK at \in DOMAIN map :
        MayBe(k, map[at][1]) /\ left = [map EXCEPT ![at] = <<map[at][1], v>>]
  BY DEF Assigned
<1>2. map \in Seq(Pair) /\ Distinct(map)
  BY DEF Kept
<1>3. /\ left \in Seq(Pair) /\ Distinct(left) /\ DOMAIN left = DOMAIN map
      /\ \A i \in DOMAIN map : left[i][1] = map[i][1] /\ (i # at => left[i] = map[i])
      /\ left[at][2] = v
  BY <1>1, <1>2, AssignedIs
<1>4. /\ lastN \in [Key -> Datum \cup {Nothing}] /\ lastN[k] = v
      /\ \A l \in Key : l # k => lastN[l] = last[l]
  BY DEF Kept, LastAfter
<1>5. /\ lateN \in [Key -> SUBSET Key]
      /\ \A l \in Key : l # k => /\ late[l] \subseteq lateN[l]
                                /\ (last[l] # Nothing /\ Confused(l, k) => k \in lateN[l])
  BY DEF Kept, LaterAfter
<1>6. missN \subseteq Key /\ missN \subseteq miss
  BY DEF Kept, MissedAfter
<1>7. \A i \in DOMAIN map : map[i][1] \in Key
  BY KeptTypes
<1> HIDE DEF lastN, lateN
<1>8. ASSUME NEW l \in Key, lastN[l] # Nothing
      PROVE  StoreHolds(left, lastN, lateN, l)
  <2>1. CASE l = k
    BY <1>1, <1>3, <1>4, <2>1 DEF StoreHolds
  <2>2. CASE l # k
    <3>1. last[l] # Nothing
      BY <1>4, <1>8, <2>2
    <3>2. PICK i \in DOMAIN map :
            /\ MayBe(l, map[i][1])
            /\ map[i][2] = last[l] \/ \E m \in late[l] : MayBe(m, map[i][1])
      BY <3>1 DEF Kept, StoreHolds
    <3>3. CASE i = at
      <4>1. Confused(l, k)
        BY <1>1, <1>7, <3>2, <3>3 DEF Confused
      <4>2. k \in lateN[l]
        BY <1>5, <2>2, <3>1, <4>1
      <4> QED BY <1>1, <1>3, <3>2, <3>3, <4>2 DEF StoreHolds
    <3>4. CASE i # at
      <4>1. late[l] \subseteq lateN[l] /\ lastN[l] = last[l] /\ left[i] = map[i]
        BY <1>3, <1>4, <1>5, <2>2, <3>4
      <4> QED BY <1>3, <3>2, <4>1 DEF StoreHolds
    <3> QED BY <3>3, <3>4
  <2> QED BY <2>1, <2>2
<1>9. KeysOf(left) = KeysOf(map)
  BY <1>3 DEF KeysOf
<1>10. \A i \in DOMAIN left : left[i][2] = Nothing => left[i][1] \in missN
  <2> SUFFICES ASSUME NEW i \in DOMAIN left, left[i][2] = Nothing PROVE left[i][1] \in missN
    OBVIOUS
  <2>1. i # at /\ left[i] = map[i]
    BY <1>3
  <2>2. left[i][1] \in miss
    BY <1>3, <2>1 DEF Kept
  <2>3. \A j \in DOMAIN left : left[j][1] = left[i][1] => left[j][2] = Nothing
    BY <1>3 DEF Distinct
  <2> QED BY <2>2, <2>3 DEF MissedAfter
<1>11. ASSUME NEW l \in Key, Alone(l) PROVE AloneIs(left, lastN, missN, l)
  <2>1. AloneIs(map, last, miss, l)
    BY <1>11 DEF Kept
  <2>2. \A i \in DOMAIN map : map[i][1] = l => map[i][2] = last[l]
    BY <2>1 DEF AloneIs
  <2>3. l \in KeysOf(map) <=> last[l] # Nothing \/ l \in miss
    BY <2>1 DEF AloneIs
  <2>4. map[at][1] = l <=> k = l
    BY <1>1, <1>7, <1>11 DEF Alone, MayBe
  <2>5. ASSUME NEW i \in DOMAIN left, left[i][1] = l PROVE left[i][2] = lastN[l]
    <3>1. CASE i = at
      BY <1>3, <1>4, <2>4, <2>5, <3>1
    <3>2. CASE i # at
      <4>1. left[i] = map[i] /\ map[i][1] = l /\ map[i][1] # map[at][1]
        BY <1>2, <1>3, <2>5, <3>2 DEF Distinct
      <4> QED BY <1>3, <1>4, <2>2, <2>4, <4>1
    <3> QED BY <3>1, <3>2
  <2>6. l \in KeysOf(left) => lastN[l] # Nothing \/ l \in missN
    <3> SUFFICES ASSUME NEW i \in DOMAIN left, left[i][1] = l, lastN[l] = Nothing PROVE l \in missN
      BY DEF KeysOf
    <3> QED BY <1>10, <2>5
  <2>7. lastN[l] # Nothing \/ l \in missN => l \in KeysOf(left)
    <3>1. CASE l = k
      <4>1. left[at][1] = l
        BY <1>3, <2>4, <3>1
      <4> QED BY <1>3, <4>1 DEF KeysOf
    <3>2. CASE l # k
      BY <1>4, <1>6, <1>9, <2>3, <3>2
    <3> QED BY <3>1, <3>2
  <2> QED BY <2>5, <2>6, <2>7 DEF AloneIs
<1>12. Kept(left, lastN, lateN, missN)
  BY <1>3, <1>4, <1>5, <1>6, <1>8, <1>10, <1>11 DEF Kept
<1> QED BY <1>12 DEF lastN, lateN

\* A new pair for k, with a value or, after a read, with none: what was stored
\* under other keys is where it was.
LEMMA GrownKeeps ==
  ASSUME NEW map, NEW last, NEW late, NEW miss, Kept(map, last, late, miss),
         NEW k \in Key, NEW v \in Datum \cup {Nothing}, k \notin KeysOf(map),
         NEW left, Grown(left, map, k, v),
         NEW lastN \in [Key -> Datum \cup {Nothing}], NEW lateN \in [Key -> SUBSET Key],
         NEW missN, missN \subseteq Key,
         \A l \in Key : l # k => lastN[l] = last[l] /\ late[l] \subseteq lateN[l],
         v # Nothing => lastN[k] = v,
         v = Nothing => lastN[k] = last[k] /\ late[k] \subseteq lateN[k] /\ k \in missN,
         missN \subseteq miss \cup {k},
         \A i \in DOMAIN left :
           left[i][2] = Nothing /\ left[i][1] \in miss \cup {k} => left[i][1] \in missN
  PROVE  Kept(left, lastN, lateN, missN)
<1> USE DictionaryAssumption
<1>1. /\ left \in Seq(Pair) /\ Distinct(left)
      /\ \A i \in DOMAIN left : left[i] = <<k, v>> \/ \E j \in DOMAIN map : left[i] = map[j]
      /\ \A j \in DOMAIN map : \E i \in DOMAIN left : left[i] = map[j]
      /\ \E i \in DOMAIN left : left[i] = <<k, v>>
  BY DEF Grown
<1>2. <<k, v>>[1] = k /\ <<k, v>>[2] = v
  OBVIOUS
<1>3. KeysOf(left) = KeysOf(map) \cup {k}
  <2>1. ASSUME NEW x \in KeysOf(left) PROVE x \in KeysOf(map) \cup {k}
    BY <1>1, <1>2 DEF KeysOf
  <2>2. ASSUME NEW x \in KeysOf(map) PROVE x \in KeysOf(left)
    BY <1>1 DEF KeysOf
  <2>3. k \in KeysOf(left)
    BY <1>1, <1>2 DEF KeysOf
  <2> QED BY <2>1, <2>2, <2>3
<1>4. ASSUME NEW l \in Key, last[l] # Nothing, lastN[l] = last[l], late[l] \subseteq lateN[l]
      PROVE  StoreHolds(left, lastN, lateN, l)
  <2>1. PICK j \in DOMAIN map :
          /\ MayBe(l, map[j][1])
          /\ map[j][2] = last[l] \/ \E m \in late[l] : MayBe(m, map[j][1])
    BY <1>4 DEF Kept, StoreHolds
  <2>2. PICK i \in DOMAIN left : left[i] = map[j]
    BY <1>1
  <2> QED BY <1>4, <2>1, <2>2 DEF StoreHolds
<1>5. ASSUME NEW l \in Key, lastN[l] # Nothing PROVE StoreHolds(left, lastN, lateN, l)
  <2>1. CASE l = k /\ v # Nothing
    <3>1. PICK i \in DOMAIN left : left[i] = <<k, v>>
      BY <1>1
    <3>2. left[i][1] = k /\ left[i][2] = lastN[k]
      BY <1>2, <2>1, <3>1
    <3>3. MayBe(k, left[i][1])
      BY <3>2 DEF MayBe
    <3> QED BY <2>1, <3>2, <3>3 DEF StoreHolds
  <2> QED BY <1>4, <1>5, <2>1
<1>6. ASSUME NEW l \in Key, Alone(l) PROVE AloneIs(left, lastN, missN, l)
  <2>1. AloneIs(map, last, miss, l)
    BY <1>6 DEF Kept
  <2>2. CASE l = k
    <3>1. last[k] = Nothing /\ k \notin miss
      BY <2>1, <2>2 DEF AloneIs
    <3>2. lastN[k] = v
      BY <3>1
    <3>3. \A i \in DOMAIN left : left[i][1] = k => left[i][2] = v
      BY <1>1, <1>2 DEF Distinct
    <3>4. k \in KeysOf(left) /\ (lastN[k] # Nothing \/ k \in missN)
      BY <1>3, <3>2
    <3> QED BY <2>2, <3>2, <3>3, <3>4 DEF AloneIs
  <2>3. CASE l # k
    <3>1. lastN[l] = last[l]
      BY <2>3
    <3>2. ASSUME NEW i \in DOMAIN left, left[i][1] = l PROVE left[i][2] = lastN[l]
      <4>1. PICK j \in DOMAIN map : left[i] = map[j]
        BY <1>1, <1>2, <2>3, <3>2
      <4> QED BY <2>1, <3>1, <3>2, <4>1 DEF AloneIs
    <3>3. lastN[l] # Nothing \/ l \in missN => l \in KeysOf(left)
      BY <1>3, <2>1, <2>3, <3>1 DEF AloneIs
    <3>4. l \in KeysOf(left) => lastN[l] # Nothing \/ l \in missN
      <4> SUFFICES ASSUME NEW i \in DOMAIN left, left[i][1] = l, lastN[l] = Nothing
                   PROVE  l \in missN
        BY DEF KeysOf
      <4>1. left[i][2] = Nothing
        BY <3>2
      <4>2. l \in KeysOf(map)
        BY <1>3, <2>3 DEF KeysOf
      <4>3. l \in miss
        BY <2>1, <3>1, <4>2 DEF AloneIs
      <4> QED BY <4>1, <4>3
    <3> QED BY <3>2, <3>3, <3>4 DEF AloneIs
  <2> QED BY <2>2, <2>3
<1>7. ASSUME NEW i \in DOMAIN left, left[i][2] = Nothing PROVE left[i][1] \in missN
  <2>1. CASE left[i] = <<k, v>>
    BY <1>2, <1>7, <2>1
  <2>2. ASSUME NEW j \in DOMAIN map, left[i] = map[j] PROVE left[i][1] \in missN
    BY <1>7, <2>2 DEF Kept
  <2> QED BY <1>1, <2>1, <2>2
<1> QED BY <1>1, <1>5, <1>6, <1>7 DEF Kept

\* Whatever a store leaves.
LEMMA StoreKeeps ==
  ASSUME NEW map, NEW last, NEW late, NEW miss, Kept(map, last, late, miss), NEW place,
         NEW k \in Key, NEW v \in Datum, NEW new \in insert_or_assign(map, place, k, v)
  PROVE  Kept(new.pairs, LastAfter(last, k, v), LaterAfter(last, late, k),
              MissedAfter(miss, new.pairs))
<1> USE DictionaryAssumption
<1> DEFINE left == new.pairs
           lastN == LastAfter(last, k, v)
           lateN == LaterAfter(last, late, k)
           missN == MissedAfter(miss, left)
<1>1. map \in Seq(Pair) /\ Distinct(map) /\ last \in [Key -> Datum \cup {Nothing}]
      /\ late \in [Key -> SUBSET Key] /\ miss \subseteq Key
  BY DEF Kept
<1>2. CASE Assigned(left, map, k, v)
  BY <1>2, AssignedKeeps
<1>3. CASE k \notin KeysOf(map) /\ Grown(left, map, k, v)
  <2>1. left \in Seq(Pair) /\ Distinct(left)
    BY <1>3 DEF Grown
  <2> HIDE DEF left
  <2>2. /\ lastN \in [Key -> Datum \cup {Nothing}] /\ lastN[k] = v
        /\ \A l \in Key : l # k => lastN[l] = last[l]
    BY <1>1 DEF LastAfter
  <2>3. /\ lateN \in [Key -> SUBSET Key]
        /\ \A l \in Key : l # k => late[l] \subseteq lateN[l]
    BY <1>1 DEF LaterAfter
  <2>4. missN \subseteq Key /\ missN \subseteq miss \cup {k}
    BY <1>1 DEF MissedAfter
  <2>5. \A i \in DOMAIN left :
          left[i][2] = Nothing /\ left[i][1] \in miss \cup {k} => left[i][1] \in missN
    <3> SUFFICES ASSUME NEW i \in DOMAIN left, left[i][2] = Nothing, left[i][1] \in miss \cup {k}
                 PROVE  left[i][1] \in missN
      OBVIOUS
    <3>1. \A j \in DOMAIN left : left[j][1] = left[i][1] => left[j][2] = Nothing
      BY <2>1 DEF Distinct
    <3>2. PICK at \in DOMAIN left : left[at] = <<k, v>>
      BY <1>3 DEF Grown
    <3>3. left[at][1] = k /\ left[at][2] = v
      BY <3>2
    <3>4. left[i][1] # k
      BY <3>1, <3>3
    <3> QED BY <3>1, <3>4 DEF MissedAfter
  <2> HIDE DEF lastN, lateN, missN
  <2>6. Kept(left, lastN, lateN, missN)
    BY <1>3, <2>2, <2>3, <2>4, <2>5, GrownKeeps
  <2> QED BY <2>6 DEF lastN, lateN, missN, left
<1>4. Assigned(left, map, k, v) \/ (k \notin KeysOf(map) /\ Grown(left, map, k, v))
  BY <1>1, AssignKeeps
<1> QED BY <1>2, <1>3, <1>4

NoneLater == [k \in Key |-> {}]

LEMMA EmptyKept == Kept(<<>>, Forget, NoneLater, {})
<1> DEFINE map == <<>>
<1>1. map \in Seq(Pair) /\ DOMAIN map = {}
  OBVIOUS
<1>2. /\ Forget \in [Key -> Datum \cup {Nothing}] /\ \A k \in Key : Forget[k] = Nothing
      /\ NoneLater \in [Key -> SUBSET Key]
  BY DEF Forget, NoneLater
<1> HIDE DEF map
<1>3. Kept(map, Forget, NoneLater, {})
  BY <1>1, <1>2 DEF Kept, Distinct, KeysOf, AloneIs
<1> QED BY <1>3 DEF map

LEMMA DictInitially == DictInit => DictInv
BY EmptyKept DEF DictInit, DictInv, Met, NoneLater

\* An entry that comes disturbs a loop, and an assigned one leaves the keys.
LEMMA MetStays ==
  ASSUME DictInv, Disturbs, position' = position,
         Len(entries') = Len(entries) => \A i \in 1..Len(entries) : entries'[i][1] = entries[i][1]
  PROVE  Met'
<1> SUFFICES ASSUME position # Nothing, ~disturbed' PROVE Met'
  BY DEF Met
<1>1. ~disturbed /\ Len(entries') = Len(entries) /\ met' = met
  BY DEF Disturbs, Size
<1>2. /\ position \in Nat /\ met \in Seq(Key) /\ Len(met) = position /\ position <= Len(entries)
      /\ \A i \in 1..position : met[i] = entries[i][1]
  BY <1>1 DEF DictInv, Met
<1>3. Len(entries) \in Nat
  BY DEF DictInv, Kept
<1>4. \A i \in 1..position : i \in 1..Len(entries)
  BY <1>2, <1>3
<1> QED BY <1>1, <1>2, <1>4 DEF Met

\* dict[k] = v
LEMMA SetItemKeeps ==
  ASSUME DictInv, NEW k \in Key, NEW v \in Datum, DictSetItem(k, v)
  PROVE  DictInv' \/ UNCHANGED dictVars
<1> SUFFICES ASSUME ~UNCHANGED dictVars PROVE DictInv'
  OBVIOUS
<1>1. PICK new \in insert_or_assign(entries, bucket, k, v) : entries' = new.pairs
  BY DEF DictSetItem, Leaves
<1>2. /\ lastStored' = LastAfter(lastStored, k, v) /\ later' = LaterAfter(lastStored, later, k)
      /\ missed' = MissedAfter(missed, entries') /\ Disturbs /\ position' = position
  BY DEF DictSetItem, LastAfter, LaterAfter, MissedAfter
<1>3. Kept(entries', lastStored', later', missed')
  BY <1>1, <1>2, StoreKeeps DEF DictInv
<1>4. entries \in Seq(Pair) /\ Distinct(entries)
  BY DEF DictInv, Kept
<1>5. Len(entries') = Len(entries) => \A i \in 1..Len(entries) : entries'[i][1] = entries[i][1]
  <2>1. Assigned(entries', entries, k, v) \/ Grown(entries', entries, k, v)
    BY <1>1, <1>4, AssignKeeps
  <2>2. CASE Assigned(entries', entries, k, v)
    <3>1. PICK at \in DOMAIN entries : entries' = [entries EXCEPT ![at] = <<entries[at][1], v>>]
      BY <2>2 DEF Assigned
    <3>2. \A i \in DOMAIN entries : entries'[i][1] = entries[i][1]
      BY <1>4, <3>1, AssignedIs
    <3> QED BY <1>4, <3>2
  <2> QED BY <2>1, <2>2 DEF Grown
<1>6. Met'
  BY <1>2, <1>5, MetStays
<1> QED BY <1>3, <1>6 DEF DictInv

\* dict[k]
LEMMA GetItemKeeps ==
  ASSUME DictInv, NEW k \in Key, DictGetItem(k)
  PROVE  DictInv' \/ UNCHANGED dictVars
<1> SUFFICES ASSUME ~UNCHANGED dictVars PROVE DictInv'
  OBVIOUS
<1>1. /\ NotFound(entries, bucket, k) /\ missed' = missed \cup {k} /\ Disturbs
      /\ UNCHANGED <<position, lastStored, later>>
  BY DEF DictGetItem
<1>2. PICK new \in Inserted(entries, k, Nothing) : entries' = new.pairs
  BY DEF DictGetItem, Leaves
<1>3. /\ entries \in Seq(Pair) /\ Distinct(entries) /\ missed \subseteq Key
      /\ lastStored \in [Key -> Datum \cup {Nothing}] /\ later \in [Key -> SUBSET Key]
  BY DEF DictInv, Kept
<1>4. k \notin KeysOf(entries) /\ Grown(entries', entries, k, Nothing)
  BY <1>1, <1>2, <1>3, InsertedGrows
<1>5. Kept(entries', lastStored, later, missed \cup {k})
  <2>1. missed \cup {k} \subseteq Key
    BY <1>3
  <2>2. Kept(entries, lastStored, later, missed)
    BY DEF DictInv
  <2> QED BY <1>3, <1>4, <2>1, <2>2, GrownKeeps
<1>6. Met'
  BY <1>1, <1>4, MetStays DEF Grown
<1> QED BY <1>1, <1>5, <1>6 DEF DictInv

\* {k: v, l: w}
LEMMA BuildMapKeeps ==
  ASSUME NEW first \in Key \X Datum, NEW second \in Key \X Datum, BuildMap(first, second)
  PROVE  DictInv' \/ UNCHANGED dictVars
<1> USE DictionaryAssumption
<1> SUFFICES ASSUME ~UNCHANGED dictVars PROVE DictInv'
  OBVIOUS
<1> DEFINE k == first[1]
           v == first[2]
           l == second[1]
           w == second[2]
<1>1. /\ k \in Key /\ v \in Datum /\ l \in Key /\ w \in Datum
  OBVIOUS
<1>2. PICK one \in Inserted(<<>>, k, v) :
        \E new \in insert_or_assign(one.pairs, one.place, l, w) : entries' = new.pairs
  BY DEF BuildMap, Leaves
<1>3. /\ lastStored' = [Forget EXCEPT ![k] = v, ![l] = w]
      /\ later' = [NoneLater EXCEPT ![k] = {m \in {l} : m # k /\ Confused(k, m)}]
      /\ missed' = {} /\ position' = Nothing
  BY DEF BuildMap, NoneLater
<1> HIDE DEF k, v, l, w
<1>4. PICK new \in insert_or_assign(one.pairs, one.place, l, w) : entries' = new.pairs
  BY <1>2
<1> DEFINE lastOne == LastAfter(Forget, k, v)
<1>5. Kept(one.pairs, lastOne, NoneLater, {})
  <2> DEFINE none == <<>>
  <2>1. Kept(none, Forget, NoneLater, {}) /\ one \in Inserted(none, k, v) /\ DOMAIN none = {}
    BY <1>2, EmptyKept
  <2> HIDE DEF none
  <2>2. none \in Seq(Pair) /\ Distinct(none)
    BY <2>1 DEF Kept
  <2>3. NotFound(none, one.place, k)
    BY <2>1 DEF NotFound, BucketOf
  <2>4. k \notin KeysOf(none) /\ Grown(one.pairs, none, k, v)
    BY <1>1, <2>1, <2>2, <2>3, InsertedGrows
  <2>5. /\ lastOne \in [Key -> Datum \cup {Nothing}] /\ lastOne[k] = v
        /\ \A m \in Key : m # k => lastOne[m] = Forget[m]
    BY <1>1 DEF LastAfter, Forget
  <2>6. NoneLater \in [Key -> SUBSET Key]
    BY DEF NoneLater
  <2>7. \A i \in DOMAIN one.pairs : one.pairs[i][2] # Nothing
    <3>1. \A i \in DOMAIN one.pairs : one.pairs[i] = <<k, v>>
      BY <2>1, <2>4 DEF Grown
    <3> QED BY <1>1, <3>1
  <2> HIDE DEF lastOne
  <2> QED BY <1>1, <2>1, <2>4, <2>5, <2>6, <2>7, GrownKeeps
<1>6. Kept(entries', LastAfter(lastOne, l, w), LaterAfter(lastOne, NoneLater, l), MissedAfter({}, entries'))
  BY <1>1, <1>4, <1>5, StoreKeeps
<1>7. LastAfter(lastOne, l, w) = lastStored'
  BY <1>3 DEF LastAfter
<1>8. LaterAfter(lastOne, NoneLater, l) = later'
  <2>1. /\ \A m \in Key : NoneLater[m] = {} /\ lastOne[m] = IF m = k THEN v ELSE Nothing
        /\ v # Nothing
    BY <1>1 DEF NoneLater, LastAfter, Forget
  <2> HIDE DEF lastOne
  <2>2. later' = [m \in Key |-> IF m = k THEN {x \in {l} : x # k /\ Confused(k, x)} ELSE {}]
    BY <1>1, <1>3 DEF NoneLater
  <2>3. ASSUME NEW m \in Key
        PROVE  (IF m = l THEN {}
                ELSE NoneLater[m] \cup {x \in {l} : lastOne[m] # Nothing /\ Confused(m, x)})
               = IF m = k THEN {x \in {l} : x # k /\ Confused(k, x)} ELSE {}
    <3>1. CASE m # k
      <4>1. lastOne[m] = Nothing /\ NoneLater[m] = {}
        BY <2>1, <3>1
      <4>2. {x \in {l} : lastOne[m] # Nothing /\ Confused(m, x)} = {}
        BY <4>1
      <4> QED BY <3>1, <4>1, <4>2
    <3>2. CASE m = k /\ m = l
      <4>1. {x \in {l} : x # k /\ Confused(k, x)} = {}
        BY <3>2
      <4> QED BY <3>2, <4>1
    <3>3. CASE m = k /\ m # l
      <4>1. lastOne[m] # Nothing /\ NoneLater[m] = {} /\ \A x \in {l} : x # k
        BY <2>1, <3>3
      <4> QED BY <3>3, <4>1
    <3> QED BY <3>1, <3>2, <3>3
  <2> QED BY <2>2, <2>3 DEF LaterAfter
<1>9. MissedAfter({}, entries') = missed'
  BY <1>3 DEF MissedAfter
<1>10. Kept(entries', lastStored', later', missed')
  BY <1>6, <1>7, <1>8, <1>9
<1> QED BY <1>3, <1>10 DEF DictInv, Met

LEMMA DictNextKeeps ==
  ASSUME DictInv, [DictNext]_dictVars
  PROVE  DictInv'
<1> USE DictionaryAssumption
<1>1. CASE DictClear
  <2>1. entries' = <<>> /\ lastStored' = Forget /\ later' = NoneLater /\ missed' = {}
    BY <1>1 DEF DictClear, NoneLater
  <2>2. Kept(entries', lastStored', later', missed')
    BY <2>1, EmptyKept
  <2>3. Len(entries) \in Nat /\ Len(entries') = 0
    BY <2>1 DEF DictInv, Kept
  <2>4. Len(entries') = Len(entries) => \A i \in 1..Len(entries) : entries'[i][1] = entries[i][1]
    BY <2>3
  <2>5. Met'
    BY <1>1, <2>4, MetStays DEF DictClear
  <2> QED BY <2>2, <2>5 DEF DictInv
<1>2. CASE Iter
  <2>1. position' = 0 /\ met' = <<>> /\ UNCHANGED <<entries, lastStored, later, missed>>
    BY <1>2 DEF Iter
  <2>2. Len(entries) \in Nat
    BY DEF DictInv, Kept
  <2>3. Met'
    BY <2>1, <2>2 DEF Met
  <2> QED BY <2>1, <2>3 DEF DictInv
<1>3. CASE NextItem
  <2>1. /\ position # Nothing /\ position < Len(entries)
        /\ position' = position + 1 /\ UNCHANGED <<entries, lastStored, later, missed, disturbed>>
    BY <1>3 DEF NextItem, Size
  <2>2. Met'
    <3> SUFFICES ASSUME ~disturbed PROVE Met'
      BY <2>1 DEF Met
    <3>1. /\ position \in Nat /\ met \in Seq(Key) /\ Len(met) = position
          /\ \A i \in 1..position : met[i] = entries[i][1]
          /\ entries \in Seq(Pair) /\ met' = Append(met, entries[position + 1][1])
      BY <1>3, <2>1 DEF DictInv, Met, Kept, NextItem
    <3>2. position + 1 \in 1..Len(entries) /\ position + 1 <= Len(entries)
      BY <2>1, <3>1
    <3>3. entries[position + 1] \in Pair
      BY <3>1, <3>2
    <3>4. entries[position + 1][1] \in Key
      BY <3>3 DEF Pair
    <3>5. /\ met' \in Seq(Key) /\ Len(met') = position + 1
          /\ met'[position + 1] = entries[position + 1][1]
          /\ \A i \in 1..position : met'[i] = met[i]
      BY <3>1, <3>4
    <3>6. \A i \in 1..position + 1 : i = position + 1 \/ i \in 1..position
      BY <3>1
    <3> QED BY <2>1, <3>1, <3>2, <3>5, <3>6 DEF Met
  <2> QED BY <2>1, <2>2 DEF DictInv
<1>4. ASSUME UNCHANGED dictVars PROVE DictInv'
  BY <1>4 DEF dictVars, DictInv, Met
<1>5. ASSUME NEW k \in Key, DictGetItem(k) \/ \E v \in Datum : DictSetItem(k, v)
      PROVE  DictInv'
  BY <1>4, <1>5, GetItemKeeps, SetItemKeeps
<1>6. ASSUME NEW first \in Displayed, NEW second \in Displayed, BuildMap(first, second)
      PROVE  DictInv'
  BY <1>4, <1>6, BuildMapKeeps
<1> QED BY <1>1, <1>2, <1>3, <1>4, <1>5, <1>6 DEF DictNext

LEMMA DictInvImplies == DictInv => DictionaryKept
<1> SUFFICES ASSUME DictInv PROVE DictionaryKept
  OBVIOUS
<1>1. Keys = KeysOf(entries) /\ Size = Len(entries)
  BY DEF Keys, Size, KeysOf
<1>2. \A i, j \in DOMAIN entries : entries[i][1] = entries[j][1] => i = j
  BY DEF DictInv, Kept, Distinct
<1>3. ASSUME position # Nothing, ~disturbed
      PROVE  /\ \A i, j \in DOMAIN met : met[i] = met[j] => i = j
             /\ position >= Len(entries) => {met[i] : i \in DOMAIN met} = KeysOf(entries)
  <2>1. /\ position \in Nat /\ DOMAIN met = 1..position /\ position <= Len(entries)
        /\ \A i \in 1..position : met[i] = entries[i][1]
        /\ Len(entries) \in Nat /\ DOMAIN entries = 1..Len(entries) /\ Distinct(entries)
    BY <1>3 DEF DictInv, Met, Kept
  <2>2. \A i \in 1..position : i \in 1..Len(entries)
    BY <2>1
  <2>3. \A i, j \in DOMAIN met : met[i] = met[j] => i = j
    BY <2>1, <2>2 DEF Distinct
  <2>4. ASSUME position >= Len(entries) PROVE {met[i] : i \in DOMAIN met} = KeysOf(entries)
    <3>1. position = Len(entries)
      <4>1. position \in Nat /\ Len(entries) \in Nat /\ position <= Len(entries)
        BY <2>1
      <4> QED BY <2>4, <4>1
    <3> QED BY <2>1, <3>1 DEF KeysOf
  <2> QED BY <2>3, <2>4
<1>4. \A k \in Key : lastStored[k] # Nothing => StoredIs(k)
  BY DEF DictInv, Kept, StoreHolds, StoredIs
<1>5. \A k \in Key : Alone(k) =>
        /\ k \in Keys <=> lastStored[k] # Nothing \/ k \in missed
        /\ \A i \in DOMAIN entries : entries[i][1] = k => entries[i][2] = lastStored[k]
  BY <1>1 DEF DictInv, Kept, AloneIs
<1>6. \A i \in DOMAIN entries : entries[i][2] = Nothing => entries[i][1] \in missed
  BY DEF DictInv, Kept
<1>7. position # Nothing /\ ~disturbed =>
        /\ \A i, j \in DOMAIN met : met[i] = met[j] => i = j
        /\ position >= Size => {met[i] : i \in DOMAIN met} = Keys
  BY <1>1, <1>3
<1> QED BY <1>2, <1>4, <1>5, <1>6, <1>7 DEF DictionaryKept

\* No object is a key twice, no store is lost whatever == says of the keys and
\* wherever they meet, a key that nothing else is equal to has the value last
\* stored under it, and a loop that nothing disturbed gives every key once: for
\* any keys and values, and whatever order and buckets an insertion leaves.
THEOREM DictionaryIsKept == DictSpec => []DictionaryKept
<1> QED BY DictNextKeeps, DictInitially, DictInvImplies, PTL DEF DictSpec

-----------------------------------------------------------------------------
(* Induction on numbers, and functions that are defined by it.              *)

LEMMA Least ==
  ASSUME NEW S, S \subseteq Nat, S # {}
  PROVE  \E n \in S : \A m \in S : n <= m
<1> DEFINE R == OpToRel(<, Nat)
<1>1. PICK n \in S : \A m \in S : <<m, n>> \notin R
  BY NatLessThanWellFounded, WFMin
<1>2. \A m \in S : ~(m < n)
  BY <1>1 DEF OpToRel
<1>3. \A m \in S : n <= m
  BY <1>2
<1> QED BY <1>3

LEMMA Induct ==
  ASSUME NEW S, 0 \in S, NEW n \in Nat,
         \A i \in 0..n - 1 : i \in S => i + 1 \in S
  PROVE  0..n \subseteq S
<1> DEFINE T == (0..n) \ S
<1>1. T \subseteq Nat
  OBVIOUS
<1>2. ASSUME T # {} PROVE FALSE
  <2>1. PICK i \in T : \A m \in T : i <= m
    <3> HIDE DEF T
    <3> QED BY <1>1, <1>2, Least
  <2>2. i # 0 /\ i - 1 \in 0..n - 1 /\ i - 1 \notin T
    BY <2>1
  <2> QED BY <2>1, <2>2
<1> QED BY <1>2

StepFunctions(n, S) == [(1..n) \X S -> S]

\* The functions of the numbers up to n that follow `step` from `first`.
Followers(n, S, first, step) ==
  {f \in [0..n -> S] : f[0] = first /\ \A i \in 1..n : f[i] = step[<<i, f[i - 1]>>]}

LEMMA Recursion ==
  ASSUME NEW n \in Nat, NEW S, NEW first \in S, NEW step \in StepFunctions(n, S)
  PROVE  \E f : f \in Followers(n, S, first, step)
<1> DEFINE Follows(f, k) == f[0] = first /\ \A i \in 1..k : f[i] = step[<<i, f[i - 1]>>]
           T == {k \in 0..n : \E f \in [0..k -> S] : Follows(f, k)}
<1> USE DEF StepFunctions
<1>1. 0 \in T
  <2> DEFINE f == [i \in 0..0 |-> first]
  <2>1. f \in [0..0 -> S] /\ f[0] = first /\ 1..0 = {} /\ 0 \in 0..n
    OBVIOUS
  <2> HIDE DEF f
  <2> QED
    BY <2>1
<1>2. ASSUME NEW k \in 0..n - 1, k \in T PROVE k + 1 \in T
  <2>1. PICK f \in [0..k -> S] : Follows(f, k)
    BY <1>2
  <2> DEFINE last == step[<<k + 1, f[k]>>]
             g == [i \in 0..k + 1 |-> IF i = k + 1 THEN last ELSE f[i]]
  <2>2. last \in S
    OBVIOUS
  <2> HIDE DEF last
  <2>3. g \in [0..k + 1 -> S] /\ g[k + 1] = last /\ \A i \in 0..k : g[i] = f[i]
    BY <2>2
  <2>4. \A i \in 1..k + 1 : i = k + 1 \/ (i \in 1..k /\ i - 1 \in 0..k /\ i \in 0..k)
    OBVIOUS
  <2> HIDE DEF g
  <2>5. Follows(g, k + 1)
    <3>1. g[0] = first
      BY <2>1, <2>3
    <3>2. ASSUME NEW i \in 1..k + 1 PROVE g[i] = step[<<i, g[i - 1]>>]
      <4>1. CASE i = k + 1
        <5>1. i - 1 = k /\ g[k] = f[k]
          BY <2>3, <4>1
        <5> QED
          BY <2>3, <4>1, <5>1 DEF last
      <4>2. CASE i \in 1..k /\ i - 1 \in 0..k /\ i \in 0..k
        BY <2>1, <2>3, <4>2
      <4> QED
        BY <2>4, <4>1, <4>2
    <3> QED
      BY <3>1, <3>2
  <2> QED
    BY <2>3, <2>5
<1> HIDE DEF T
<1>3. n \in 0..n /\ 0..n \subseteq T
  BY <1>1, <1>2, Induct
<1> QED
  BY <1>3 DEF T, Followers

-----------------------------------------------------------------------------
(* The order of a class.                                                    *)

LEMMA FirstPlacesFollow ==
  ASSUME NEW T, NEW m \in Seq(T)
  PROVE  \E f \in [0..Len(m) -> Seq(T)] :
           /\ f[0] = << >>
           /\ \A i \in 1..Len(m) :
                f[i] = IF Among(m[i], f[i - 1]) THEN f[i - 1] ELSE Append(f[i - 1], m[i])
           /\ FirstPlaces(m) = f[Len(m)]
<1> DEFINE n == Len(m)
           next(i, list) == IF Among(m[i], list) THEN list ELSE Append(list, m[i])
           step == [q \in (1..n) \X Seq(T) |-> next(q[1], q[2])]
           body(f) == [i \in 0..n |-> IF i = 0 THEN << >> ELSE next(i, f[i - 1])]
           first == CHOOSE f : f = body(f)
<1>1. n \in Nat /\ \A i \in 1..n : m[i] \in T
  OBVIOUS
<1>2. ASSUME NEW i \in 1..n, NEW list \in Seq(T) PROVE next(i, list) \in Seq(T)
  BY <1>1
<1>3. FirstPlaces(m) = first[n]
  BY DEF FirstPlaces
<1> HIDE DEF n, next
<1>4. step \in [(1..n) \X Seq(T) -> Seq(T)]
  BY <1>2
<1>5. \A i \in 1..n, list \in Seq(T) : step[<<i, list>>] = next(i, list)
  OBVIOUS
<1> HIDE DEF step
<1>6. << >> \in Seq(T)
  OBVIOUS
<1>7. PICK f \in [0..n -> Seq(T)] : f[0] = << >> /\ \A i \in 1..n : f[i] = step[<<i, f[i - 1]>>]
  <2> DEFINE S == Seq(T)
             none == << >>
  <2>1. n \in Nat /\ none \in S /\ step \in StepFunctions(n, S)
    BY <1>1, <1>4, <1>6 DEF StepFunctions
  <2> HIDE DEF S, none
  <2>2. \E f : f \in Followers(n, S, none, step)
    BY ONLY <2>1, Recursion
  <2> QED BY <2>2 DEF S, none, Followers
<1>8. \A i \in 1..n : f[i] = next(i, f[i - 1])
  <2>1. \A i \in 1..n : f[i - 1] \in Seq(T)
    BY <1>1
  <2> QED BY <1>5, <1>7, <2>1
<1>9. f = body(f)
  BY <1>1, <1>7, <1>8
<1>10. first = body(first)
  BY <1>9
<1> HIDE DEF first
<1>11. \A i \in 0..n : first[i] = IF i = 0 THEN << >> ELSE next(i, first[i - 1])
  BY <1>10
<1> DEFINE Same == {i \in 0..n : first[i] = f[i]}
<1>12. 0..n \subseteq Same
  <2>1. 0 \in Same
    BY <1>1, <1>7, <1>11
  <2>2. \A i \in 0..n - 1 : i \in Same => i + 1 \in Same
    <3> SUFFICES ASSUME NEW i \in 0..n - 1, first[i] = f[i] PROVE first[i + 1] = f[i + 1]
      <4>1. \A i \in 0..n - 1 : i + 1 \in 0..n
        BY <1>1
      <4> QED BY <4>1
    <3>1. i + 1 \in 1..n /\ i + 1 - 1 = i /\ i + 1 # 0 /\ i + 1 \in 0..n
      BY <1>1
    <3> QED BY <1>8, <1>11, <3>1
  <2> HIDE DEF Same
  <2> QED BY <1>1, <2>1, <2>2, Induct
<1>13. first[n] = f[n]
  BY <1>1, <1>12
<1> QED BY <1>3, <1>7, <1>8, <1>13 DEF n, next

\* The position where an order first names a class of G.
FirstOf(order, G, p) ==
  /\ p \in 1..Len(order) /\ order[p] \in G
  /\ \A q \in 1..Len(order) : q < p => order[q] \notin G

\* Leaving out the later places of the classes leaves the first one of a set.
LEMMA FirstPlacesKeep ==
  ASSUME NEW T, NEW m \in Seq(T), NEW G
  PROVE  /\ FirstPlaces(m) \in Seq(T)
         /\ \A p \in 1..Len(FirstPlaces(m)) : \E q \in 1..Len(m) : FirstPlaces(m)[p] = m[q]
         /\ \A q : FirstOf(m, G, q) =>
              \E p : FirstOf(FirstPlaces(m), G, p) /\ FirstPlaces(m)[p] = m[q]
<1>1. PICK f \in [0..Len(m) -> Seq(T)] :
        /\ f[0] = << >>
        /\ \A i \in 1..Len(m) :
             f[i] = IF Among(m[i], f[i - 1]) THEN f[i - 1] ELSE Append(f[i - 1], m[i])
        /\ FirstPlaces(m) = f[Len(m)]
  BY FirstPlacesFollow
<1> DEFINE n == Len(m)
           Taken(i) == \A p \in 1..Len(f[i]) : \E q \in 1..i : f[i][p] = m[q]
           Found(i) == \A q \in 1..i : FirstOf(m, G, q) =>
                         \E p : FirstOf(f[i], G, p) /\ f[i][p] = m[q]
           GoodOnes == {i \in 0..n : Taken(i) /\ Found(i)}
<1>2. n \in Nat /\ \A i \in 1..n : m[i] \in T
  OBVIOUS
<1>3. 0 \in GoodOnes
  <2>1. Len(f[0]) = 0 /\ 1..0 = {} /\ 0 \in 0..n
    BY <1>1, <1>2
  <2>2. Taken(0) /\ Found(0)
    BY <2>1
  <2> QED BY <2>1, <2>2
<1>4. ASSUME NEW i \in 0..n - 1, i \in GoodOnes PROVE i + 1 \in GoodOnes
  <2> DEFINE k == i + 1
  <2>1. k \in 1..n /\ k - 1 = i /\ k \in 0..n /\ i \in 0..n /\ 1..k = 1..i \cup {k} /\ k \notin 1..i
    BY <1>2
  <2>2. Taken(i) /\ Found(i)
    BY <1>4
  <2>3. f[k] = IF Among(m[k], f[i]) THEN f[i] ELSE Append(f[i], m[k])
    BY <1>1, <2>1
  <2>4. f[i] \in Seq(T) /\ f[k] \in Seq(T) /\ m[k] \in T
    BY <1>2, <2>1
  <2> DEFINE a == f[i]
             b == f[k]
  <2>5. Len(a) \in Nat /\ DOMAIN a = 1..Len(a)
    BY <2>4
  <2> HIDE DEF k, a, b
  <2>6. CASE Among(m[k], a)
    <3>1. b = a
      BY <2>3, <2>6 DEF a, b
    <3>2. Taken(k)
      BY <2>1, <2>2, <3>1 DEF a, b
    <3>3. ASSUME FirstOf(m, G, k) PROVE FALSE
      <4>1. PICK p \in 1..Len(a) : a[p] = m[k]
        BY <2>5, <2>6 DEF Among
      <4>2. PICK q \in 1..i : a[p] = m[q]
        BY <2>2 DEF a
      <4>3. q < k /\ q \in 1..n
        BY <1>2, <2>1
      <4> QED BY <3>3, <4>1, <4>2, <4>3 DEF FirstOf
    <3>4. Found(k)
      BY <2>1, <2>2, <3>1, <3>3 DEF a, b
    <3> QED BY <2>1, <3>2, <3>4 DEF k
  <2>7. CASE ~Among(m[k], a)
    <3>1. b = Append(a, m[k])
      BY <2>3, <2>7 DEF a, b
    <3>2. /\ Len(b) = Len(a) + 1 /\ b[Len(a) + 1] = m[k] /\ \A p \in 1..Len(a) : b[p] = a[p]
          /\ 1..Len(b) = 1..Len(a) \cup {Len(a) + 1}
      BY <2>4, <2>5, <3>1 DEF a
    <3>3. Taken(k)
      BY <2>1, <2>2, <3>2 DEF a, b
    <3>4. ASSUME NEW q \in 1..i, FirstOf(m, G, q)
          PROVE  \E p : FirstOf(b, G, p) /\ b[p] = m[q]
      <4>1. PICK p : FirstOf(a, G, p) /\ a[p] = m[q]
        BY <2>2, <3>4 DEF a
      <4>2. p \in 1..Len(a) /\ p \in 1..Len(b) /\ b[p] = a[p]
        BY <3>2, <4>1 DEF FirstOf
      <4>3. \A r \in 1..Len(b) : r < p => r \in 1..Len(a)
        BY <2>5, <3>2, <4>2
      <4> QED BY <3>2, <4>1, <4>2, <4>3 DEF FirstOf
    <3>5. ASSUME FirstOf(m, G, k)
          PROVE  \E p : FirstOf(b, G, p) /\ b[p] = m[k]
      <4> DEFINE l == Len(a) + 1
      <4>1. l \in 1..Len(b) /\ b[l] = m[k] /\ m[k] \in G
        BY <2>5, <3>2, <3>5 DEF FirstOf
      <4>2. ASSUME NEW r \in 1..Len(b), r < l PROVE b[r] \notin G
        <5>1. r \in 1..Len(a) /\ b[r] = a[r]
          BY <2>5, <3>2, <4>2
        <5>2. PICK q \in 1..i : a[r] = m[q]
          BY <2>2, <5>1 DEF a
        <5>3. q < k /\ q \in 1..n
          BY <1>2, <2>1
        <5> QED BY <3>5, <5>1, <5>2, <5>3 DEF FirstOf
      <4> HIDE DEF l
      <4> QED BY <4>1, <4>2 DEF FirstOf
    <3>6. Found(k)
      BY <2>1, <3>4, <3>5 DEF b
    <3> QED BY <2>1, <3>3, <3>6 DEF k
  <2> QED BY <2>6, <2>7
<1>5. n \in GoodOnes
  <2> HIDE DEF GoodOnes, n
  <2>1. \A i \in 0..n - 1 : i \in GoodOnes => i + 1 \in GoodOnes
    BY <1>4
  <2>2. 0..n \subseteq GoodOnes
    BY <1>2, <1>3, <2>1, Induct
  <2> QED BY <1>2, <2>2
<1>6. Taken(n) /\ Found(n)
  BY <1>5 DEF GoodOnes
<1>7. FirstPlaces(m) = f[n] /\ f[n] \in Seq(T)
  BY <1>1, <1>2
<1> QED BY <1>6, <1>7 DEF FirstOf

\* What an order says of the attribute is what its first class that says
\* something does, and nothing if none does.
Saying == {c \in DOMAIN classes : Own(c, "x") # Absent}

LEMMA FirstInSays ==
  ASSUME NEW T, NEW order \in Seq(T)
  PROVE  /\ \A p : FirstOf(order, Saying, p) => FirstIn(order, "x") = Own(order[p], "x")
         /\ (\A p : ~FirstOf(order, Saying, p)) => FirstIn(order, "x") = Absent
<1> DEFINE found == {i \in DOMAIN order : Own(order[i], "x") # Absent}
           n == Len(order)
<1>1. n \in Nat /\ DOMAIN order = 1..n
  OBVIOUS
<1>2. found \subseteq Nat /\ found \subseteq 1..n
  BY <1>1
<1>3. \A i \in 1..n : i \in found <=> order[i] \in Saying
  BY <1>1 DEF Saying, Own
<1>4. FirstIn(order, "x") =
        IF found = {} THEN Absent
        ELSE Own(order[CHOOSE i \in found : \A j \in found : i <= j], "x")
  BY DEF FirstIn
<1> HIDE DEF found, n
<1>5. ASSUME NEW p, FirstOf(order, Saying, p)
      PROVE  FirstIn(order, "x") = Own(order[p], "x")
  <2>1. p \in 1..n /\ p \in found
    BY <1>3, <1>5 DEF FirstOf, n
  <2>2. \A j \in found : p <= j
    <3> SUFFICES ASSUME NEW j \in found, j < p PROVE FALSE
      BY <1>1, <1>2, <2>1
    <3> QED BY <1>2, <1>3, <1>5 DEF FirstOf, n
  <2>3. \A i \in found : (\A j \in found : i <= j) => i = p
    BY <1>2, <2>1, <2>2
  <2>4. (CHOOSE i \in found : \A j \in found : i <= j) = p
    BY <2>1, <2>2, <2>3
  <2> QED BY <1>4, <2>1, <2>4
<1>6. ASSUME \A p : ~FirstOf(order, Saying, p) PROVE found = {}
  <2> SUFFICES ASSUME found # {} PROVE FALSE
    OBVIOUS
  <2>1. PICK p \in found : \A j \in found : p <= j
    BY <1>2, Least
  <2>2. FirstOf(order, Saying, p)
    BY <1>1, <1>2, <1>3, <2>1 DEF FirstOf, n
  <2> QED BY <1>6, <2>2
<1> QED BY <1>4, <1>5, <1>6

LEMMA FirstPlacesSay ==
  ASSUME NEW T, NEW m \in Seq(T)
  PROVE  FirstIn(FirstPlaces(m), "x") = FirstIn(m, "x")
<1> DEFINE first == FirstPlaces(m)
<1>1. /\ first \in Seq(T)
      /\ \A p \in 1..Len(first) : \E q \in 1..Len(m) : first[p] = m[q]
      /\ \A q : FirstOf(m, Saying, q) => \E p : FirstOf(first, Saying, p) /\ first[p] = m[q]
  BY FirstPlacesKeep
<1> HIDE DEF first
<1>2. CASE \E q : FirstOf(m, Saying, q)
  <2>1. PICK q : FirstOf(m, Saying, q)
    BY <1>2
  <2>2. PICK p : FirstOf(first, Saying, p) /\ first[p] = m[q]
    BY <1>1, <2>1
  <2> QED BY <1>1, <2>1, <2>2, FirstInSays DEF first
<1>3. CASE \A q : ~FirstOf(m, Saying, q)
  <2> DEFINE found == {q \in 1..Len(m) : m[q] \in Saying}
  <2>1. found = {}
    <3> SUFFICES ASSUME found # {} PROVE FALSE
      OBVIOUS
    <3>1. PICK q \in found : \A j \in found : q <= j
      <4>1. found \subseteq Nat
        OBVIOUS
      <4> HIDE DEF found
      <4> QED BY <4>1, Least
    <3>2. FirstOf(m, Saying, q)
      BY <3>1 DEF FirstOf
    <3> QED BY <1>3, <3>2
  <2>2. \A p : ~FirstOf(first, Saying, p)
    BY <1>1, <2>1 DEF FirstOf
  <2> QED BY <1>1, <1>3, <2>2, FirstInSays DEF first
<1> QED BY <1>2, <1>3

-----------------------------------------------------------------------------
(* Lists of classes that are not empty, and what the merge's functions of   *)
(* them follow.                                                             *)

NotEmpty  == {list \in Seq(Int) : list # << >>}
Lists == Seq(NotEmpty)

LEMMA FullIs ==
  ASSUME NEW list \in NotEmpty
  PROVE  /\ list \in Seq(Int) /\ Len(list) \in Nat \ {0} /\ DOMAIN list = 1..Len(list)
         /\ \A p \in 1..Len(list) : list[p] \in Int
         /\ Len(list) # 1 => Tail(list) \in NotEmpty
         /\ Tail(list) \in Seq(Int) /\ Len(Tail(list)) = Len(list) - 1
         /\ \A p \in 1..Len(list) - 1 : Tail(list)[p] = list[p + 1]
<1>1. list \in Seq(Int) /\ list # << >>
  BY DEF NotEmpty
<1>2. Len(list) \in Nat \ {0} /\ DOMAIN list = 1..Len(list) /\ \A p \in 1..Len(list) : list[p] \in Int
  BY <1>1
<1>3. /\ Tail(list) \in Seq(Int) /\ Len(Tail(list)) = Len(list) - 1
      /\ \A p \in 1..Len(list) - 1 : Tail(list)[p] = list[p + 1]
  BY <1>1
<1>4. ASSUME Len(list) # 1 PROVE Tail(list) # << >>
  <2>1. Len(list) - 1 # 0 /\ Len(<< >>) = 0
    BY <1>2, <1>4
  <2> DEFINE tail == Tail(list)
  <2>2. Len(tail) # 0
    BY <1>3, <2>1
  <2> HIDE DEF tail
  <2>3. tail # << >>
    BY <2>1, <2>2
  <2> QED BY <2>3 DEF tail
<1> QED BY <1>1, <1>2, <1>3, <1>4 DEF NotEmpty

LEMMA ListsAre ==
  ASSUME NEW mros \in Lists
  PROVE  /\ Len(mros) \in Nat /\ DOMAIN mros = 1..Len(mros)
         /\ \A i \in 1..Len(mros) : mros[i] \in NotEmpty
BY DEF Lists

\* No list is empty, and none is taken out.
LEMMA NothingToClean ==
  ASSUME NEW mros \in Lists
  PROVE  CleanMros(mros) = mros
<1> DEFINE n == Len(mros)
           next(i, list) == IF mros[i] = << >> THEN list ELSE Append(list, mros[i])
           body(f) == [i \in 0..n |-> IF i = 0 THEN << >> ELSE next(i, f[i - 1])]
           clean == CHOOSE f : f = body(f)
           f == [i \in 0..n |-> SubSeq(mros, 1, i)]
<1>1. n \in Nat /\ \A i \in 1..n : mros[i] \in NotEmpty /\ mros[i] # << >>
  BY ListsAre DEF NotEmpty
<1>2. CleanMros(mros) = clean[n]
  BY DEF CleanMros
<1>3. ASSUME NEW i \in 1..n PROVE next(i, SubSeq(mros, 1, i - 1)) = SubSeq(mros, 1, i)
  <2>1. mros \in Seq(NotEmpty) /\ i \in 1..Len(mros)
    BY DEF Lists
  <2>2. SubSeq(mros, 1, i) = Append(SubSeq(mros, 1, i - 1), mros[i])
    BY <2>1
  <2> QED BY <1>1, <2>2
<1>4. SubSeq(mros, 1, 0) = << >> /\ SubSeq(mros, 1, n) = mros
  BY DEF Lists
<1> HIDE DEF next
<1>5. f = body(f)
  <2>1. f[0] = << >>
    BY <1>1, <1>4
  <2>2. ASSUME NEW i \in 1..n PROVE f[i] = next(i, f[i - 1])
    <3>1. i \in 0..n /\ i - 1 \in 0..n
      BY <1>1
    <3>2. f[i] = SubSeq(mros, 1, i) /\ f[i - 1] = SubSeq(mros, 1, i - 1)
      BY <3>1
    <3> QED BY <1>3, <3>2
  <2>3. f = [i \in 0..n |-> f[i]]
    OBVIOUS
  <2> HIDE DEF f, n
  <2>4. \A i \in 0..n : i = 0 \/ i \in 1..n
    BY <1>1 DEF n
  <2>5. \A i \in 0..n : f[i] = IF i = 0 THEN << >> ELSE next(i, f[i - 1])
    BY <2>1, <2>2, <2>4
  <2> QED BY <2>3, <2>5
<1>6. clean = body(clean)
  BY <1>5
<1> HIDE DEF clean
<1> DEFINE Same == {i \in 0..n : clean[i] = SubSeq(mros, 1, i)}
<1>7. 0..n \subseteq Same
  <2>1. 0 \in Same
    BY <1>1, <1>4, <1>6
  <2>2. ASSUME NEW i \in 0..n - 1, i \in Same PROVE i + 1 \in Same
    <3> DEFINE k == i + 1
    <3>1. k \in 1..n /\ k - 1 = i /\ k # 0 /\ k \in 0..n
      BY <1>1
    <3> HIDE DEF k
    <3>2. clean[k] = next(k, clean[k - 1])
      BY <1>6, <3>1
    <3>3. clean[k] = SubSeq(mros, 1, k)
      BY <1>3, <2>2, <3>1, <3>2
    <3> QED BY <3>1, <3>3 DEF k
  <2> HIDE DEF Same
  <2> QED BY <1>1, <2>1, <2>2, Induct
<1> QED BY <1>1, <1>2, <1>4, <1>7

\* A list that loses its head, or is taken out with it.
LEMMA DropHeadFull ==
  ASSUME NEW mros \in Lists, NEW j \in 1..Len(mros)
  PROVE  /\ DropHead(mros, j) \in Lists
         /\ Len(mros[j]) # 1 =>
              /\ Len(DropHead(mros, j)) = Len(mros)
              /\ \A i \in 1..Len(mros) :
                   DropHead(mros, j)[i] = IF i = j THEN Tail(mros[j]) ELSE mros[i]
         /\ Len(mros[j]) = 1 =>
              /\ Len(DropHead(mros, j)) = Len(mros) - 1
              /\ \A i \in 1..Len(mros) - 1 :
                   DropHead(mros, j)[i] = IF i < j THEN mros[i] ELSE mros[i + 1]
<1> DEFINE n == Len(mros)
           D == DropHead(mros, j)
<1>1. mros \in Seq(NotEmpty) /\ n \in Nat /\ j \in 1..Len(mros) /\ mros[j] \in NotEmpty
  BY ListsAre DEF Lists
<1>2. CASE Len(mros[j]) # 1
  <2>1. D = [mros EXCEPT ![j] = Tail(@)] /\ Tail(mros[j]) \in NotEmpty
    BY <1>1, <1>2, FullIs DEF DropHead
  <2> HIDE DEF D
  <2>2. D \in Seq(NotEmpty) /\ Len(D) = n /\ \A i \in 1..n : D[i] = IF i = j THEN Tail(mros[j]) ELSE mros[i]
    BY <1>1, <2>1
  <2> QED BY <1>2, <2>2 DEF Lists, D
<1>3. CASE Len(mros[j]) = 1
  <2> DEFINE a == SubSeq(mros, 1, j - 1)
             b == SubSeq(mros, j + 1, n)
  <2>1. D = a \o b
    BY <1>3 DEF DropHead, Sequence!RemoveAt
  <2>2. a \in Seq(NotEmpty) /\ Len(a) = j - 1 /\ \A i \in 1..j - 1 : a[i] = mros[i]
    BY <1>1
  <2>3. b \in Seq(NotEmpty) /\ Len(b) = n - j /\ \A i \in 1..n - j : b[i] = mros[j + i]
    BY <1>1
  <2> HIDE DEF a, b, D, n
  <2>4. D \in Seq(NotEmpty) /\ Len(D) = n - 1
    BY <1>1, <2>1, <2>2, <2>3 DEF n
  <2>5. ASSUME NEW i \in 1..n - 1 PROVE D[i] = IF i < j THEN mros[i] ELSE mros[i + 1]
    <3>1. D[i] = IF i <= Len(a) THEN a[i] ELSE b[i - Len(a)]
      BY <1>1, <2>1, <2>2, <2>3 DEF n
    <3>2. CASE i < j
      <4>1. i <= Len(a) /\ i \in 1..j - 1
        BY <1>1, <2>2, <3>2 DEF n
      <4> QED BY <2>2, <3>1, <3>2, <4>1
    <3>3. CASE ~(i < j)
      <4>1. ~(i <= Len(a)) /\ i - Len(a) \in 1..n - j /\ j + (i - Len(a)) = i + 1
        BY <1>1, <2>2, <3>3 DEF n
      <4> QED BY <2>3, <3>1, <3>3, <4>1
    <3> QED BY <3>2, <3>3
  <2> QED BY <1>3, <2>4, <2>5 DEF Lists, D, n
<1> QED BY <1>2, <1>3

LEMMA DropHeadAtFull ==
  ASSUME NEW mros \in Lists, NEW j \in Nat \ {0}, NEW exclude, NEW head
  PROVE  /\ DropHeadAt(mros, j, exclude, head) \in Lists
         /\ DropHeadAt(mros, j, exclude, head) =
              IF j > Len(mros) \/ j = exclude \/ mros[j][1] # head THEN mros ELSE DropHead(mros, j)
<1>1. Len(mros) \in Nat
  BY ListsAre
<1>2. DropHeadAt(mros, j, exclude, head) =
        IF j > Len(mros) \/ j = exclude \/ mros[j][1] # head THEN mros ELSE DropHead(mros, j)
  BY DEF DropHeadAt, DropHead
<1>3. ~(j > Len(mros)) => j \in 1..Len(mros)
  BY <1>1
<1> QED BY <1>2, <1>3, DropHeadFull

\* What becomes of the other lists, from position to position.
LEMMA RemoveHeadFollows ==
  ASSUME NEW mros \in Lists, NEW exclude, NEW head
  PROVE  \E f \in [0..Len(mros) -> Lists] :
           /\ f[0] = mros
           /\ \A j \in 1..Len(mros) : f[j] = DropHeadAt(f[j - 1], j, exclude, head)
           /\ RemoveHeadFromMros(mros, exclude, head) = f[Len(mros)]
<1> DEFINE n == Len(mros)
           next(j, list) == DropHeadAt(list, j, exclude, head)
           step == [q \in (1..n) \X Lists |-> next(q[1], q[2])]
           body(f) == [j \in 0..n |-> IF j = 0 THEN mros ELSE next(j, f[j - 1])]
           after == CHOOSE f : f = body(f)
<1>1. n \in Nat
  BY ListsAre
<1>2. ASSUME NEW j \in 1..n, NEW list \in Lists PROVE next(j, list) \in Lists
  BY <1>1, DropHeadAtFull
<1>3. RemoveHeadFromMros(mros, exclude, head) = after[n]
  BY DEF RemoveHeadFromMros
<1> HIDE DEF n, next
<1>4. step \in StepFunctions(n, Lists) /\ \A j \in 1..n, list \in Lists : step[<<j, list>>] = next(j, list)
  BY <1>2 DEF StepFunctions
<1> HIDE DEF step
<1>5. PICK f \in [0..n -> Lists] : f[0] = mros /\ \A j \in 1..n : f[j] = step[<<j, f[j - 1]>>]
  BY <1>1, <1>4, Recursion DEF Followers
<1>6. \A j \in 1..n : f[j] = next(j, f[j - 1])
  <2>1. \A j \in 1..n : f[j - 1] \in Lists
    BY <1>1
  <2> QED BY <1>4, <1>5, <2>1
<1>7. f = body(f)
  BY <1>1, <1>5, <1>6
<1>8. after = body(after)
  BY <1>7
<1> HIDE DEF after
<1>9. \A j \in 0..n : after[j] = IF j = 0 THEN mros ELSE next(j, after[j - 1])
  BY <1>8
<1> DEFINE Same == {j \in 0..n : after[j] = f[j]}
<1>10. 0..n \subseteq Same
  <2>1. 0 \in Same
    BY <1>1, <1>5, <1>9
  <2>2. ASSUME NEW i \in 0..n - 1, i \in Same PROVE i + 1 \in Same
    <3> DEFINE k == i + 1
    <3>1. k \in 1..n /\ k - 1 = i /\ k # 0 /\ k \in 0..n
      BY <1>1
    <3> HIDE DEF k
    <3>2. after[k] = f[k]
      BY <1>6, <1>9, <2>2, <3>1
    <3> QED BY <3>1, <3>2 DEF k
  <2> HIDE DEF Same
  <2> QED BY <1>1, <2>1, <2>2, Induct
<1>11. after[n] = f[n]
  BY <1>1, <1>10
<1> QED BY <1>3, <1>5, <1>6, <1>11 DEF n, next

LEMMA RemoveHeadFull ==
  ASSUME NEW mros \in Lists, NEW exclude, NEW head
  PROVE  RemoveHeadFromMros(mros, exclude, head) \in Lists
<1>1. PICK f \in [0..Len(mros) -> Lists] : RemoveHeadFromMros(mros, exclude, head) = f[Len(mros)]
  BY RemoveHeadFollows
<1> QED BY <1>1, ListsAre

\* The first candidate is one of them.
LEMMA FirstCandidate ==
  ASSUME NEW mros \in Lists, Candidates(mros) # {}
  PROVE  /\ FindCandidateBase(mros) \in Candidates(mros)
         /\ \A j \in Candidates(mros) : FindCandidateBase(mros) <= j
         /\ FindCandidateBase(mros) \in 1..Len(mros)
<1>1. Candidates(mros) \subseteq Nat /\ Candidates(mros) \subseteq 1..Len(mros)
  BY ListsAre DEF Candidates
<1>2. \E i \in Candidates(mros) : \A j \in Candidates(mros) : i <= j
  BY <1>1, Least
<1> QED BY <1>1, <1>2 DEF FindCandidateBase

RoundsAre == [mros : Lists, order : Seq(Int), state : {"on", "left", "thrown"}]

LEMMA MergeRoundIs ==
  ASSUME NEW x \in RoundsAre
  PROVE  /\ MergeRound(x) \in RoundsAre
         /\ x.state # "on" \/ Len(x.mros) <= 1 => MergeRound(x) = x
         /\ x.state = "on" /\ Len(x.mros) > 1 /\ Candidates(x.mros) = {} =>
              MergeRound(x) = [mros |-> x.mros, order |-> x.order, state |-> "left"]
         /\ x.state = "on" /\ Len(x.mros) > 1 /\ Candidates(x.mros) # {} =>
              LET i    == FindCandidateBase(x.mros)
                  head == x.mros[i][1]
                  rest == RemoveHeadFromMros(x.mros, i, head)
              IN MergeRound(x) =
                   IF i > Len(rest) THEN [mros |-> rest, order |-> x.order, state |-> "thrown"]
                   ELSE [mros |-> DropHead(rest, i), order |-> Append(x.order, head), state |-> "on"]
<1> DEFINE mros == x.mros
           i    == FindCandidateBase(mros)
           head == mros[i][1]
           rest == RemoveHeadFromMros(mros, i, head)
<1>1. /\ mros \in Lists /\ x.order \in Seq(Int) /\ x.state \in {"on", "left", "thrown"}
      /\ Len(mros) \in Nat
  BY ListsAre DEF RoundsAre
<1>2. CleanMros(mros) = mros
  BY <1>1, NothingToClean
<1>3. MergeRound(x) =
        IF x.state # "on" \/ Len(mros) <= 1 THEN x
        ELSE IF Candidates(mros) = {} THEN [mros |-> mros, order |-> x.order, state |-> "left"]
        ELSE IF i > Len(rest) THEN [mros |-> rest, order |-> x.order, state |-> "thrown"]
        ELSE [mros |-> DropHead(rest, i), order |-> Append(x.order, head), state |-> "on"]
  BY <1>2 DEF MergeRound
<1>4. rest \in Lists /\ Len(rest) \in Nat
  BY <1>1, RemoveHeadFull, ListsAre
<1>5. ASSUME Candidates(mros) # {} PROVE i \in 1..Len(mros) /\ head \in Int
  <2>1. i \in 1..Len(mros)
    BY <1>1, <1>5, FirstCandidate
  <2>2. mros[i] \in NotEmpty
    BY <1>1, <2>1, ListsAre
  <2>3. mros[i] \in Seq(Int) /\ 1 \in 1..Len(mros[i])
    BY <2>2, FullIs
  <2> QED BY <2>1, <2>3
<1> HIDE DEF mros, i, head, rest
<1>6. ASSUME Candidates(mros) # {}, ~(i > Len(rest)) PROVE DropHead(rest, i) \in Lists
  <2>1. i \in 1..Len(rest)
    BY <1>1, <1>4, <1>5, <1>6
  <2> QED BY <1>4, <2>1, DropHeadFull
<1>7. MergeRound(x) \in RoundsAre
  BY <1>1, <1>3, <1>4, <1>5, <1>6 DEF RoundsAre
<1> QED BY <1>1, <1>3, <1>7 DEF mros, i, head, rest

LEMMA TotalFollows ==
  ASSUME NEW mros \in Lists
  PROVE  \E t \in [0..Len(mros) -> Nat] :
           /\ t[0] = 0
           /\ \A i \in 1..Len(mros) : t[i] = t[i - 1] + Len(mros[i])
           /\ Total(mros) = t[Len(mros)]
<1> DEFINE n == Len(mros)
           step == [q \in (1..n) \X Nat |-> q[2] + Len(mros[q[1]])]
           body(f) == [i \in 0..n |-> IF i = 0 THEN 0 ELSE f[i - 1] + Len(mros[i])]
           total == CHOOSE f : f = body(f)
<1>1. n \in Nat /\ \A i \in 1..n : Len(mros[i]) \in Nat
  BY ListsAre, FullIs
<1>2. Total(mros) = total[n]
  BY DEF Total
<1>3. step \in StepFunctions(n, Nat)
  BY <1>1 DEF StepFunctions
<1>4. \A i \in 1..n, x \in Nat : step[<<i, x>>] = x + Len(mros[i])
  OBVIOUS
<1> HIDE DEF n, step
<1>5. PICK f \in [0..n -> Nat] : f[0] = 0 /\ \A i \in 1..n : f[i] = step[<<i, f[i - 1]>>]
  <2>1. 0 \in Nat
    OBVIOUS
  <2>2. \E f : f \in Followers(n, Nat, 0, step)
    BY ONLY <1>1, <1>3, <2>1, Recursion
  <2> QED BY <2>2 DEF Followers
<1>6. \A i \in 1..n : f[i] = f[i - 1] + Len(mros[i])
  <2>1. \A i \in 1..n : f[i - 1] \in Nat
    BY <1>1
  <2> QED BY <1>4, <1>5, <2>1
<1>7. f = body(f)
  BY <1>1, <1>5, <1>6
<1>8. total = body(total)
  BY <1>7
<1> HIDE DEF total
<1>9. \A i \in 0..n : total[i] = IF i = 0 THEN 0 ELSE total[i - 1] + Len(mros[i])
  BY <1>8
<1> DEFINE Same == {i \in 0..n : total[i] = f[i]}
<1>10. 0..n \subseteq Same
  <2>1. 0 \in Same
    BY <1>1, <1>5, <1>9
  <2>2. ASSUME NEW i \in 0..n - 1, i \in Same PROVE i + 1 \in Same
    <3> DEFINE k == i + 1
    <3>1. k \in 1..n /\ k - 1 = i /\ k # 0 /\ k \in 0..n
      BY <1>1
    <3> HIDE DEF k
    <3>2. total[k] = f[k]
      BY <1>6, <1>9, <2>2, <3>1
    <3> QED BY <3>1, <3>2 DEF k
  <2> HIDE DEF Same
  <2> QED BY <1>1, <2>1, <2>2, Induct
<1>11. total[n] = f[n]
  BY <1>1, <1>10
<1> QED BY <1>2, <1>5, <1>6, <1>11 DEF n

\* There are as many classes as there are, and no fewer than in lists that are
\* no longer, one of them shorter.
LEMMA TotalLess ==
  ASSUME NEW a \in Lists, NEW b \in Lists, Len(a) = Len(b),
         \A i \in 1..Len(a) : Len(b[i]) <= Len(a[i]),
         NEW j \in 1..Len(a), Len(b[j]) < Len(a[j])
  PROVE  Total(a) \in Nat /\ Total(b) \in Nat \ {0} /\ Total(b) < Total(a)
<1> DEFINE n == Len(a)
<1>1. /\ n \in Nat /\ j \in 1..n /\ Len(b) = n
      /\ \A i \in 1..n : Len(a[i]) \in Nat /\ Len(b[i]) \in Nat \ {0} /\ Len(b[i]) <= Len(a[i])
  BY ListsAre, FullIs
<1>2. PICK t \in [0..n -> Nat] :
        /\ t[0] = 0
        /\ \A i \in 1..n : t[i] = t[i - 1] + Len(a[i])
        /\ Total(a) = t[n]
  BY TotalFollows
<1>3. PICK u \in [0..n -> Nat] :
        /\ u[0] = 0
        /\ \A i \in 1..n : u[i] = u[i - 1] + Len(b[i])
        /\ Total(b) = u[n]
  BY <1>1, TotalFollows
<1> HIDE DEF n
<1> DEFINE S == {i \in 0..n : /\ u[i] <= t[i]
                              /\ i >= 1 => u[i] >= 1
                              /\ i >= j => u[i] < t[i]}
<1>4. 0..n \subseteq S
  <2>1. 0 \in S
    BY <1>1, <1>2, <1>3
  <2>2. ASSUME NEW i \in 0..n - 1, i \in S PROVE i + 1 \in S
    <3> DEFINE k == i + 1
    <3>1. k \in 1..n /\ k - 1 = i /\ k \in 0..n /\ k >= 1 /\ (k >= j => i >= j \/ k = j) /\ i \in 0..n
      BY <1>1
    <3>2. u[i] <= t[i] /\ (i >= j => u[i] < t[i])
      BY <2>2
    <3> HIDE DEF k
    <3>3. t[k] = t[i] + Len(a[k]) /\ u[k] = u[i] + Len(b[k])
      BY <1>2, <1>3, <3>1
    <3>4. /\ t[i] \in Nat /\ u[i] \in Nat /\ Len(a[k]) \in Nat /\ Len(b[k]) \in Nat \ {0}
          /\ Len(b[k]) <= Len(a[k]) /\ (k = j => Len(b[k]) < Len(a[k]))
      BY <1>1, <3>1
    <3> DEFINE x == Len(a[k])
               y == Len(b[k])
    <3> HIDE DEF x, y
    <3>5. /\ t[k] = t[i] + x /\ u[k] = u[i] + y /\ x \in Nat /\ y \in Nat /\ y >= 1 /\ y <= x
          /\ k = j => y < x
      BY <3>3, <3>4 DEF x, y
    <3> DEFINE p == t[i]
               q == u[i]
    <3>8. p \in Nat /\ q \in Nat /\ q <= p /\ (i >= j => q < p)
      BY <3>2, <3>4
    <3>9. t[k] = p + x /\ u[k] = q + y
      BY <3>5
    <3> HIDE DEF p, q
    <3>6. u[k] <= t[k] /\ u[k] >= 1
      BY <3>5, <3>8, <3>9
    <3>7. k >= j => u[k] < t[k]
      BY <3>1, <3>5, <3>8, <3>9
    <3> QED BY <3>1, <3>6, <3>7 DEF k
  <2> HIDE DEF S
  <2> QED BY <1>1, <2>1, <2>2, Induct
<1>5. n \in 0..n /\ n >= 1 /\ n >= j /\ t[n] \in Nat /\ u[n] \in Nat
  BY <1>1
<1> QED BY <1>2, <1>3, <1>4, <1>5

LEMMA TotalNat ==
  ASSUME NEW mros \in Lists
  PROVE  Total(mros) \in Nat
<1>1. PICK t \in [0..Len(mros) -> Nat] : Total(mros) = t[Len(mros)]
  BY TotalFollows
<1> QED BY <1>1, ListsAre

LEMMA MergeRoundsFollow ==
  ASSUME NEW mros \in Lists
  PROVE  \E f \in [0..Total(mros) -> RoundsAre] :
           /\ f[0] = [mros |-> mros, order |-> << >>, state |-> "on"]
           /\ \A k \in 1..Total(mros) : f[k] = MergeRound(f[k - 1])
           /\ MergeRounds(mros)[Total(mros)] = f[Total(mros)]
<1> DEFINE n == Total(mros)
           first == [mros |-> mros, order |-> << >>, state |-> "on"]
           step == [q \in (1..n) \X RoundsAre |-> MergeRound(q[2])]
           body(f) == [k \in 0..n |-> IF k = 0 THEN first ELSE MergeRound(f[k - 1])]
           rounds == CHOOSE f : f = body(f)
<1>1. n \in Nat
  BY TotalNat
<1>2. MergeRounds(mros) = rounds
  BY DEF MergeRounds
<1>3. first \in RoundsAre
  BY DEF RoundsAre
<1> HIDE DEF n, first
<1>4. step \in StepFunctions(n, RoundsAre) /\ \A k \in 1..n, x \in RoundsAre : step[<<k, x>>] = MergeRound(x)
  BY MergeRoundIs DEF StepFunctions
<1> HIDE DEF step
<1>5. PICK f \in [0..n -> RoundsAre] : f[0] = first /\ \A k \in 1..n : f[k] = step[<<k, f[k - 1]>>]
  BY <1>1, <1>3, <1>4, Recursion DEF Followers
<1>6. \A k \in 1..n : f[k] = MergeRound(f[k - 1])
  <2>1. \A k \in 1..n : f[k - 1] \in RoundsAre
    BY <1>1
  <2> QED BY <1>4, <1>5, <2>1
<1>7. f = body(f)
  BY <1>1, <1>5, <1>6
<1>8. rounds = body(rounds)
  BY <1>7
<1> HIDE DEF rounds
<1>9. \A k \in 0..n : rounds[k] = IF k = 0 THEN first ELSE MergeRound(rounds[k - 1])
  BY <1>8
<1> DEFINE Same == {k \in 0..n : rounds[k] = f[k]}
<1>10. 0..n \subseteq Same
  <2>1. 0 \in Same
    BY <1>1, <1>5, <1>9
  <2>2. ASSUME NEW i \in 0..n - 1, i \in Same PROVE i + 1 \in Same
    <3> DEFINE k == i + 1
    <3>1. k \in 1..n /\ k - 1 = i /\ k # 0 /\ k \in 0..n
      BY <1>1
    <3> HIDE DEF k
    <3>2. rounds[k] = f[k]
      BY <1>6, <1>9, <2>2, <3>1
    <3> QED BY <3>1, <3>2 DEF k
  <2> HIDE DEF Same
  <2> QED BY <1>1, <2>1, <2>2, Induct
<1>11. rounds[n] = f[n]
  BY <1>1, <1>10
<1> QED BY <1>2, <1>5, <1>6, <1>11 DEF n, first

-----------------------------------------------------------------------------
(* The merge as it is described.                                            *)

PlacedBy(lists, order) == \A j \in DOMAIN lists : Unplaced(lists[j], order) = {}

LEMMA MergeNextIs ==
  ASSUME NEW lists \in Seq(Seq(Int)), NEW order \in Seq(Int)
  PROVE  /\ MergeNext(lists, order) \in Seq(Int)
         /\ Among(Stuck, order) \/ PlacedBy(lists, order) => MergeNext(lists, order) = order
         /\ ~Among(Stuck, order) /\ ~PlacedBy(lists, order) /\ Mergeable(lists, order) = {} =>
              MergeNext(lists, order) = Append(order, Stuck)
         /\ ~Among(Stuck, order) /\ ~PlacedBy(lists, order) =>
              \A i \in Mergeable(lists, order) :
                (\A j \in Mergeable(lists, order) : i <= j) =>
                  \A p \in Foremost(lists[i], order) :
                    MergeNext(lists, order) = Append(order, lists[i][p])
<1> DEFINE good == Mergeable(lists, order)
           i    == CHOOSE i \in good : \A j \in good : i <= j
           p    == CHOOSE p \in Foremost(lists[i], order) : TRUE
<1>1. MergeNext(lists, order) =
        IF Among(Stuck, order) \/ PlacedBy(lists, order) THEN order
        ELSE IF good = {} THEN Append(order, Stuck)
        ELSE Append(order, lists[i][p])
  BY DEF MergeNext, PlacedBy
<1>2. good \subseteq Nat /\ good \subseteq 1..Len(lists)
  BY DEF Mergeable
<1>3. \A a \in good : lists[a] \in Seq(Int) /\ Foremost(lists[a], order) # {}
  <2>1. \A a \in good : Foremost(lists[a], order) # {}
    BY DEF Mergeable
  <2> QED BY <1>2, <2>1
<1>4. \A a \in good : Foremost(lists[a], order) \subseteq 1..Len(lists[a])
  BY <1>3 DEF Foremost, Unplaced
<1>5. \A a, b : a \in Foremost(lists[i], order) /\ b \in Foremost(lists[i], order) /\ i \in good => a = b
  <2>1. \A a, b : a \in Foremost(lists[i], order) /\ b \in Foremost(lists[i], order) => a <= b /\ b <= a
    BY DEF Foremost
  <2> SUFFICES ASSUME NEW a \in Foremost(lists[i], order), NEW b \in Foremost(lists[i], order),
                      i \in good
               PROVE  a = b
    OBVIOUS
  <2> HIDE DEF i, p, good
  <2>2. a \in 1..Len(lists[i]) /\ b \in 1..Len(lists[i]) /\ Len(lists[i]) \in Nat
    BY <1>3, <1>4
  <2>3. a <= b /\ b <= a
    BY <2>1
  <2> QED BY <2>2, <2>3
<1> HIDE DEF good
<1>6. ASSUME good # {} PROVE i \in good /\ \A j \in good : i <= j
  <2>1. \E a \in good : \A j \in good : a <= j
    BY <1>2, <1>6, Least
  <2> QED BY <2>1
<1>7. \A a \in good : (\A j \in good : a <= j) => a = i
  <2> SUFFICES ASSUME NEW a \in good, \A j \in good : a <= j PROVE a = i
    OBVIOUS
  <2>1. a <= i /\ i <= a /\ a \in Nat /\ i \in Nat
    BY <1>2, <1>6
  <2> HIDE DEF i
  <2> QED BY <2>1
<1> HIDE DEF i
<1>8. ASSUME good # {} PROVE p \in Foremost(lists[i], order) /\ lists[i][p] \in Int
  <2>1. p \in Foremost(lists[i], order)
    BY <1>3, <1>6, <1>8
  <2>2. p \in 1..Len(lists[i]) /\ lists[i] \in Seq(Int)
    BY <1>3, <1>4, <1>6, <1>8, <2>1
  <2> HIDE DEF p
  <2> QED BY <2>1, <2>2
<1>9. \A a \in good : (\A j \in good : a <= j) => \A q \in Foremost(lists[a], order) : a = i /\ q = p
  BY <1>5, <1>7, <1>8
<1> HIDE DEF p
<1>10. MergeNext(lists, order) \in Seq(Int)
  <2>1. Stuck \in Int
    BY DEF Stuck
  <2> QED BY <1>1, <1>8, <2>1
<1>11. ~Among(Stuck, order) /\ ~PlacedBy(lists, order) =>
         \A a \in good : (\A j \in good : a <= j) =>
           \A q \in Foremost(lists[a], order) : MergeNext(lists, order) = Append(order, lists[a][q])
  BY <1>1, <1>9
<1> QED BY <1>1, <1>10, <1>11 DEF good

LEMMA MergeFollows ==
  ASSUME NEW lists \in Seq(Seq(Int)), NEW n \in Nat
  PROVE  \E f \in [0..n -> Seq(Int)] :
           /\ f[0] = << >>
           /\ \A k \in 1..n : f[k] = MergeNext(lists, f[k - 1])
           /\ Merge(lists, n) = f[n]
<1> DEFINE first == << >>
           S == Seq(Int)
           step == [q \in (1..n) \X S |-> MergeNext(lists, q[2])]
           body(f) == [k \in 0..n |-> IF k = 0 THEN << >> ELSE MergeNext(lists, f[k - 1])]
           order == CHOOSE f : f = body(f)
<1>2. Merge(lists, n) = order[n]
  BY DEF Merge
<1>3. first \in S
  OBVIOUS
<1>4. step \in StepFunctions(n, S) /\ \A k \in 1..n, x \in S : step[<<k, x>>] = MergeNext(lists, x)
  BY MergeNextIs DEF StepFunctions
<1> HIDE DEF step, S, first
<1>5. PICK f \in [0..n -> S] : f[0] = first /\ \A k \in 1..n : f[k] = step[<<k, f[k - 1]>>]
  <2>1. \E f : f \in Followers(n, S, first, step)
    BY ONLY n \in Nat, <1>3, <1>4, Recursion
  <2> QED BY <2>1 DEF Followers
<1>6. \A k \in 1..n : f[k] = MergeNext(lists, f[k - 1])
  <2>1. \A k \in 1..n : f[k - 1] \in S
    OBVIOUS
  <2> QED BY <1>4, <1>5, <2>1
<1>7. f = body(f)
  BY <1>5, <1>6 DEF first
<1>8. order = body(order)
  BY <1>7
<1> HIDE DEF order
<1>9. \A k \in 0..n : order[k] = IF k = 0 THEN << >> ELSE MergeNext(lists, order[k - 1])
  BY <1>8
<1> DEFINE Same == {k \in 0..n : order[k] = f[k]}
<1>10. 0..n \subseteq Same
  <2>1. 0 \in Same
    <3>1. 0 \in 0..n
      OBVIOUS
    <3>2. f[0] = << >>
      BY <1>5 DEF first
    <3>3. order[0] = << >>
      BY <1>9, <3>1
    <3> QED BY <3>1, <3>2, <3>3
  <2>2. ASSUME NEW i \in 0..n - 1, i \in Same PROVE i + 1 \in Same
    <3> DEFINE k == i + 1
    <3>1. k \in 1..n /\ k - 1 = i /\ k # 0 /\ k \in 0..n
      OBVIOUS
    <3> HIDE DEF k
    <3>2. order[k] = f[k]
      BY <1>6, <1>9, <2>2, <3>1
    <3> QED BY <3>1, <3>2 DEF k
  <2> HIDE DEF Same
  <2> QED BY <2>1, <2>2, Induct
<1>11. order[n] = f[n]
  BY <1>10
<1> QED BY <1>2, <1>5, <1>6, <1>11 DEF first, S

-----------------------------------------------------------------------------
(* How far a merge has come: the order so far holds the first classes of    *)
(* every list.  An order names m classes, each once, and then object, once  *)
(* or more often.                                                           *)

Shaped(list, m, K) ==
  /\ list \in Seq(Int) /\ m \in Nat /\ m < Len(list)
  /\ \A p \in 1..m : list[p] \in 1..K
  /\ \A p \in m + 1..Len(list) : list[p] = 0
  /\ \A p, q \in 1..m : list[p] = list[q] => p = q

MroLists(L, m, K) ==
  /\ K \in Nat
  /\ L \in Seq(Seq(Int)) /\ Len(L) >= 1
  /\ m \in [1..Len(L) -> Nat]
  /\ \A i \in 1..Len(L) : Shaped(L[i], m[i], K)

Taken(L, m, K, d, order) ==
  /\ order \in Seq(Int)
  /\ \A p \in 1..Len(order) : order[p] \in 1..K
  /\ \A p, q \in 1..Len(order) : order[p] = order[q] => p = q
  /\ d \in [1..Len(L) -> Nat]
  /\ \A i \in 1..Len(L) :
       /\ d[i] <= m[i]
       /\ \A p \in 1..m[i] : Among(L[i][p], order) <=> p <= d[i]
  /\ Len(L) = 1 => d[1] = Len(order) /\ \A p \in 1..Len(order) : order[p] = L[1][p]

\* The lists that still have a class but object, the class they have first, and
\* those of them whose class is behind another one in no list.
Left(L, m, d) == {i \in 1..Len(L) : d[i] < m[i]}

FirstLeft(L, d, i) == L[i][d[i] + 1]

GoodOnes(L, m, d) ==
  {i \in Left(L, m, d) : \A j \in 1..Len(L) : \A q \in d[j] + 2..m[j] : L[j][q] # FirstLeft(L, d, i)}

Advanced(L, m, d, class) ==
  [j \in 1..Len(L) |-> IF j \in Left(L, m, d) /\ FirstLeft(L, d, j) = class THEN d[j] + 1 ELSE d[j]]

LEMMA OrdersAre ==
  ASSUME NEW L, NEW m, NEW K, MroLists(L, m, K)
  PROVE  /\ K \in Nat /\ Len(L) \in Nat \ {0} /\ DOMAIN L = 1..Len(L)
         /\ \A i \in 1..Len(L) :
              /\ L[i] \in Seq(Int) /\ Len(L[i]) \in Nat /\ m[i] \in Nat /\ m[i] < Len(L[i])
              /\ DOMAIN L[i] = 1..Len(L[i])
              /\ \A p \in 1..m[i] : L[i][p] \in 1..K
              /\ \A p \in m[i] + 1..Len(L[i]) : L[i][p] = 0
              /\ \A p, q \in 1..m[i] : L[i][p] = L[i][q] => p = q
<1>1. /\ K \in Nat /\ L \in Seq(Seq(Int)) /\ Len(L) >= 1 /\ m \in [1..Len(L) -> Nat]
      /\ \A i \in 1..Len(L) : Shaped(L[i], m[i], K)
  BY DEF MroLists
<1>2. Len(L) \in Nat \ {0} /\ DOMAIN L = 1..Len(L)
  BY <1>1
<1>3. ASSUME NEW i \in 1..Len(L)
      PROVE  /\ L[i] \in Seq(Int) /\ Len(L[i]) \in Nat /\ m[i] \in Nat /\ m[i] < Len(L[i])
             /\ DOMAIN L[i] = 1..Len(L[i])
             /\ \A p \in 1..m[i] : L[i][p] \in 1..K
             /\ \A p \in m[i] + 1..Len(L[i]) : L[i][p] = 0
             /\ \A p, q \in 1..m[i] : L[i][p] = L[i][q] => p = q
  <2>1. Shaped(L[i], m[i], K)
    BY <1>1
  <2>2. L[i] \in Seq(Int)
    BY <2>1 DEF Shaped
  <2>3. Len(L[i]) \in Nat /\ DOMAIN L[i] = 1..Len(L[i])
    BY <2>2
  <2> QED BY <2>1, <2>2, <2>3 DEF Shaped
<1> QED BY <1>1, <1>2, <1>3

LEMMA AmongAppended ==
  ASSUME NEW order \in Seq(Int), NEW class \in Int
  PROVE  /\ Append(order, class) \in Seq(Int) /\ Len(Append(order, class)) = Len(order) + 1
         /\ \A p \in 1..Len(order) : Append(order, class)[p] = order[p]
         /\ Append(order, class)[Len(order) + 1] = class
         /\ \A c : Among(c, Append(order, class)) <=> Among(c, order) \/ c = class
<1> DEFINE s == Append(order, class)
<1>1. /\ s \in Seq(Int) /\ Len(s) = Len(order) + 1 /\ Len(order) \in Nat
      /\ \A p \in 1..Len(order) : s[p] = order[p]
      /\ s[Len(order) + 1] = class
      /\ DOMAIN order = 1..Len(order)
  OBVIOUS
<1> HIDE DEF s
<1>2. DOMAIN s = 1..Len(order) \cup {Len(order) + 1}
  BY <1>1
<1>3. \A c : Among(c, s) <=> Among(c, order) \/ c = class
  BY <1>1, <1>2 DEF Among
<1> QED BY <1>1, <1>3 DEF s

\* A class that is behind another one in no list can be the next.
LEMMA TakenNext ==
  ASSUME NEW L, NEW m, NEW K, MroLists(L, m, K), NEW d, NEW order, Taken(L, m, K, d, order),
         NEW i \in GoodOnes(L, m, d)
  PROVE  /\ FirstLeft(L, d, i) \in 1..K /\ ~Among(FirstLeft(L, d, i), order)
         /\ Taken(L, m, K, Advanced(L, m, d, FirstLeft(L, d, i)), Append(order, FirstLeft(L, d, i)))
<1> DEFINE n == Len(L)
           class == FirstLeft(L, d, i)
           e == Advanced(L, m, d, class)
           s == Append(order, class)
<1>1. /\ K \in Nat /\ n \in Nat \ {0}
      /\ \A j \in 1..n :
           /\ m[j] \in Nat /\ d[j] \in Nat /\ d[j] <= m[j]
           /\ \A p \in 1..m[j] : L[j][p] \in 1..K /\ (Among(L[j][p], order) <=> p <= d[j])
           /\ \A p, q \in 1..m[j] : L[j][p] = L[j][q] => p = q
  <2>1. K \in Nat /\ n \in Nat \ {0}
    BY OrdersAre
  <2>2. ASSUME NEW j \in 1..n
        PROVE  /\ m[j] \in Nat
               /\ \A p \in 1..m[j] : L[j][p] \in 1..K
               /\ \A p, q \in 1..m[j] : L[j][p] = L[j][q] => p = q
    BY OrdersAre
  <2>3. ASSUME NEW j \in 1..n
        PROVE  d[j] \in Nat /\ d[j] <= m[j] /\ \A p \in 1..m[j] : Among(L[j][p], order) <=> p <= d[j]
    BY DEF Taken
  <2> QED BY <2>1, <2>2, <2>3
<1>0. /\ \A p \in 1..Len(order) : order[p] \in 1..K
      /\ \A p, q \in 1..Len(order) : order[p] = order[q] => p = q
      /\ order \in Seq(Int) /\ DOMAIN order = 1..Len(order)
  BY DEF Taken
<1>2. /\ i \in 1..n /\ d[i] < m[i]
      /\ \A j \in 1..n : \A q \in d[j] + 2..m[j] : L[j][q] # class
  BY DEF GoodOnes, Left
<1>3. d[i] + 1 \in 1..m[i] /\ ~(d[i] + 1 <= d[i])
  BY <1>1, <1>2
<1>4. class \in 1..K /\ ~Among(class, order)
  BY <1>1, <1>2, <1>3 DEF FirstLeft
<1>5. order \in Seq(Int) /\ class \in Int
  BY <1>1, <1>4 DEF Taken
<1>6. /\ s \in Seq(Int) /\ Len(s) = Len(order) + 1 /\ Len(order) \in Nat
      /\ \A p \in 1..Len(order) : s[p] = order[p]
      /\ s[Len(order) + 1] = class
      /\ \A c : Among(c, s) <=> Among(c, order) \/ c = class
  BY <1>5, AmongAppended
<1>7. \A j \in 1..n : e[j] = IF d[j] < m[j] /\ L[j][d[j] + 1] = class THEN d[j] + 1 ELSE d[j]
  BY DEF Advanced, Left, FirstLeft
<1>8. e \in [1..n -> Nat]
  BY <1>1 DEF Advanced
<1> HIDE DEF n, class, e, s
<1>9. \A p \in 1..Len(s) : p = Len(order) + 1 \/ p \in 1..Len(order)
  BY <1>6
<1>10. \A p \in 1..Len(s) : s[p] \in 1..K
  BY <1>0, <1>4, <1>6, <1>9
<1>11. \A p, q \in 1..Len(s) : s[p] = s[q] => p = q
  <2>1. \A p \in 1..Len(order) : s[p] # class
    <3>1. \A p \in 1..Len(order) : order[p] # class
      BY <1>0, <1>4 DEF Among
    <3> QED BY <1>6, <3>1
  <2> SUFFICES ASSUME NEW p \in 1..Len(s), NEW q \in 1..Len(s), s[p] = s[q] PROVE p = q
    OBVIOUS
  <2>2. (p \in 1..Len(order) /\ q \in 1..Len(order)) \/ (p = Len(order) + 1 /\ q = Len(order) + 1)
    BY <1>6, <1>9, <2>1
  <2>3. ASSUME p \in 1..Len(order), q \in 1..Len(order) PROVE p = q
    BY <1>0, <1>6, <2>3
  <2> QED BY <2>2, <2>3
<1>12. ASSUME NEW j \in 1..n
       PROVE  e[j] <= m[j] /\ \A p \in 1..m[j] : Among(L[j][p], s) <=> p <= e[j]
  <2>1. /\ m[j] \in Nat /\ d[j] \in Nat /\ d[j] <= m[j]
        /\ \A p \in 1..m[j] : Among(L[j][p], order) <=> p <= d[j]
        /\ \A p, q \in 1..m[j] : L[j][p] = L[j][q] => p = q
        /\ \A q \in d[j] + 2..m[j] : L[j][q] # class
    BY <1>1, <1>2
  <2>2. \A p \in 1..m[j] : L[j][p] = class => p = d[j] + 1
    <3> SUFFICES ASSUME NEW p \in 1..m[j], L[j][p] = class, p # d[j] + 1 PROVE FALSE
      OBVIOUS
    <3>1. p <= d[j] \/ p \in d[j] + 2..m[j]
      BY <2>1
    <3> QED BY <1>4, <2>1, <3>1
  <2>3. CASE d[j] < m[j] /\ L[j][d[j] + 1] = class
    <3>1. e[j] = d[j] + 1 /\ e[j] <= m[j]
      BY <1>7, <2>1, <2>3
    <3>2. ASSUME NEW p \in 1..m[j] PROVE Among(L[j][p], s) <=> p <= e[j]
      <4>1. p <= e[j] <=> p <= d[j] \/ p = d[j] + 1
        BY <2>1, <3>1
      <4> QED BY <1>6, <2>1, <2>2, <2>3, <4>1
    <3> QED BY <3>1, <3>2
  <2>4. CASE ~(d[j] < m[j] /\ L[j][d[j] + 1] = class)
    <3>1. e[j] = d[j]
      BY <1>7, <2>4
    <3>2. \A p \in 1..m[j] : L[j][p] # class
      BY <2>1, <2>2, <2>4
    <3> QED BY <1>6, <2>1, <3>1, <3>2
  <2> QED BY <2>3, <2>4
<1>13. ASSUME n = 1 PROVE e[1] = Len(s) /\ \A p \in 1..Len(s) : s[p] = L[1][p]
  <2>1. i = 1 /\ d[1] = Len(order) /\ \A p \in 1..Len(order) : order[p] = L[1][p]
    BY <1>2, <1>13 DEF Taken, n
  <2>2. L[1][d[1] + 1] = class /\ d[1] < m[1] /\ 1 \in 1..n
    BY <1>1, <1>2, <2>1 DEF class, FirstLeft
  <2>3. e[1] = Len(order) + 1
    BY <1>7, <2>1, <2>2
  <2> QED BY <1>6, <1>9, <2>1, <2>2, <2>3
<1>14. Taken(L, m, K, e, s)
  BY <1>6, <1>8, <1>10, <1>11, <1>12, <1>13 DEF Taken, n
<1> QED BY <1>4, <1>14 DEF class, e, s

\* A merge that goes on ends.
LEMMA TakenFew ==
  ASSUME NEW L, NEW m, NEW K \in Nat, NEW d, NEW order, Taken(L, m, K, d, order)
  PROVE  Len(order) <= K
<1> DEFINE S == 1..Len(order)
           T == 1..K
<1>1. order \in Seq(Int) /\ Len(order) \in Nat /\ DOMAIN order = S
  BY DEF Taken
<1>2. order \in [S -> T] /\ \A p, q \in S : order[p] = order[q] => p = q
  BY <1>1 DEF Taken
<1>3. IsFiniteSet(S) /\ Cardinality(S) = Len(order) /\ IsFiniteSet(T) /\ Cardinality(T) = K
  <2>1. 1 \in Int /\ K \in Int /\ Len(order) \in Int /\ K >= 0 /\ Len(order) >= 0
    BY <1>1
  <2>2. /\ IsFiniteSet(S) /\ Cardinality(S) = IF 1 > Len(order) THEN 0 ELSE Len(order) - 1 + 1
        /\ IsFiniteSet(T) /\ Cardinality(T) = IF 1 > K THEN 0 ELSE K - 1 + 1
    BY ONLY <2>1, FS_Interval
  <2>3. (IF 1 > Len(order) THEN 0 ELSE Len(order) - 1 + 1) = Len(order)
    BY <2>1
  <2>4. (IF 1 > K THEN 0 ELSE K - 1 + 1) = K
    BY <2>1
  <2> QED BY <2>2, <2>3, <2>4
<1> SUFFICES ASSUME ~(Len(order) <= K) PROVE FALSE
  OBVIOUS
<1>4. Cardinality(T) < Cardinality(S)
  BY <1>1, <1>3
<1> HIDE DEF S, T
<1>5. \E x, y \in S : x # y /\ order[x] = order[y]
  BY ONLY <1>2, <1>3, <1>4, FS_PigeonHole
<1> QED BY <1>2, <1>5

\* The lists the merge is described for: the classes of an order, each once.
Firsts(R, L, m) ==
  /\ R \in Seq(Seq(Int)) /\ Len(R) = Len(L)
  /\ \A i \in 1..Len(L) : Len(R[i]) = m[i] + 1 /\ \A p \in 1..m[i] + 1 : R[i][p] = L[i][p]

IsUnplaced(R, L, m, d, order, i) ==
  /\ Unplaced(R[i], order) = d[i] + 1..m[i] + 1
  /\ Foremost(R[i], order) = {d[i] + 1}
  /\ R[i][d[i] + 1] = FirstLeft(L, d, i)
  /\ d[i] \in Nat /\ m[i] \in Nat /\ d[i] <= m[i]
  /\ R[i][m[i] + 1] = 0
  /\ \A p \in 1..m[i] : R[i][p] = L[i][p] /\ R[i][p] # 0

LEMMA UnplacedIs ==
  ASSUME NEW L, NEW m, NEW K, MroLists(L, m, K), NEW d, NEW order, Taken(L, m, K, d, order),
         NEW R, Firsts(R, L, m), NEW i \in 1..Len(L)
  PROVE  IsUnplaced(R, L, m, d, order, i)
<1>1. /\ m[i] \in Nat /\ m[i] < Len(L[i]) /\ Len(L[i]) \in Nat
      /\ \A p \in 1..m[i] : L[i][p] \in 1..K
      /\ \A p \in m[i] + 1..Len(L[i]) : L[i][p] = 0
  BY OrdersAre
<1>2. d[i] \in Nat /\ d[i] <= m[i] /\ \A p \in 1..m[i] : Among(L[i][p], order) <=> p <= d[i]
  BY DEF Taken
<1>3. ~Among(0, order)
  <2>1. order \in Seq(Int) /\ DOMAIN order = 1..Len(order) /\ \A p \in 1..Len(order) : order[p] \in 1..K
    BY DEF Taken
  <2>2. 0 \notin 1..K
    OBVIOUS
  <2> QED BY <2>1, <2>2 DEF Among
<1>4. DOMAIN R[i] = 1..m[i] + 1 /\ \A p \in 1..m[i] + 1 : R[i][p] = L[i][p]
  <2>1. R[i] \in Seq(Int)
    BY DEF Firsts
  <2> QED BY <2>1 DEF Firsts
<1>5. L[i][m[i] + 1] = 0
  BY <1>1
<1>6. \A p \in 1..m[i] + 1 : p \in 1..m[i] \/ p = m[i] + 1
  BY <1>1
<1>7. \A p \in 1..m[i] + 1 : ~Among(R[i][p], order) <=> p > d[i]
  <2> SUFFICES ASSUME NEW p \in 1..m[i] + 1 PROVE ~Among(R[i][p], order) <=> p > d[i]
    OBVIOUS
  <2>1. CASE p \in 1..m[i]
    BY <1>1, <1>2, <1>4, <2>1
  <2>2. CASE p = m[i] + 1
    BY <1>1, <1>2, <1>3, <1>4, <1>5, <2>2
  <2> QED BY <1>6, <2>1, <2>2
<1>8. Unplaced(R[i], order) = d[i] + 1..m[i] + 1
  <2>1. Unplaced(R[i], order) = {p \in 1..m[i] + 1 : p > d[i]}
    BY <1>4, <1>7 DEF Unplaced
  <2>2. {p \in 1..m[i] + 1 : p > d[i]} = d[i] + 1..m[i] + 1
    BY <1>1, <1>2
  <2> QED BY <2>1, <2>2
<1>9. Foremost(R[i], order) = {d[i] + 1}
  <2>1. Foremost(R[i], order) = {p \in d[i] + 1..m[i] + 1 : \A q \in d[i] + 1..m[i] + 1 : p <= q}
    BY <1>8 DEF Foremost
  <2>2. d[i] + 1 \in d[i] + 1..m[i] + 1
    BY <1>1, <1>2
  <2> QED BY <1>1, <1>2, <2>1, <2>2
<1>10. R[i][d[i] + 1] = FirstLeft(L, d, i)
  <2>1. d[i] + 1 \in 1..m[i] + 1
    BY <1>1, <1>2
  <2> QED BY <1>4, <2>1 DEF FirstLeft
<1>11. R[i][m[i] + 1] = 0 /\ \A p \in 1..m[i] : R[i][p] = L[i][p] /\ R[i][p] # 0
  <2>1. K \in Nat
    BY OrdersAre
  <2> QED BY <1>1, <1>4, <1>5, <2>1
<1> QED BY <1>1, <1>2, <1>8, <1>9, <1>10, <1>11 DEF IsUnplaced

LEMMA MergeableIs ==
  ASSUME NEW L, NEW m, NEW K, MroLists(L, m, K), NEW d, NEW order, Taken(L, m, K, d, order),
         NEW R, Firsts(R, L, m)
  PROVE  /\ ~Among(Stuck, order) /\ ~PlacedBy(R, order)
         /\ Left(L, m, d) # {} => Mergeable(R, order) = GoodOnes(L, m, d)
         /\ Left(L, m, d) = {} => Mergeable(R, order) = 1..Len(L)
<1> DEFINE n == Len(L)
<1>1. n \in Nat \ {0} /\ DOMAIN R = 1..n /\ K \in Nat
  BY OrdersAre DEF Firsts
<1>2. ASSUME NEW i \in 1..n
      PROVE  /\ Unplaced(R[i], order) = d[i] + 1..m[i] + 1
             /\ Foremost(R[i], order) = {d[i] + 1}
             /\ R[i][d[i] + 1] = FirstLeft(L, d, i)
             /\ d[i] \in Nat /\ m[i] \in Nat /\ d[i] <= m[i]
             /\ R[i][m[i] + 1] = 0
             /\ \A p \in 1..m[i] : R[i][p] = L[i][p] /\ R[i][p] # 0
  <2>1. i \in 1..Len(L)
    OBVIOUS
  <2>2. IsUnplaced(R, L, m, d, order, i)
    BY <2>1, UnplacedIs
  <2> QED BY <2>2 DEF IsUnplaced
<1> HIDE DEF n
<1>3. ~Among(Stuck, order)
  BY <1>1 DEF Among, Taken, Stuck
<1>4. ~PlacedBy(R, order)
  <2>1. 1 \in 1..n /\ d[1] + 1 \in d[1] + 1..m[1] + 1
    BY <1>1, <1>2
  <2> QED BY <1>1, <1>2, <2>1 DEF PlacedBy
<1>5. \A i : i \in Mergeable(R, order) <=>
        /\ i \in 1..n
        /\ \A j \in 1..n : \A q \in d[j] + 1..m[j] + 1 : R[j][q] = FirstLeft(L, d, i) => q = d[j] + 1
  <2>1. ASSUME NEW i
        PROVE i \in Mergeable(R, order) <=>
                /\ i \in 1..n
                /\ \E p \in Foremost(R[i], order) :
                     \A j \in 1..n : \A q \in Unplaced(R[j], order) :
                       R[j][q] = R[i][p] => q \in Foremost(R[j], order)
    BY <1>1 DEF Mergeable
  <2>2. ASSUME NEW i \in 1..n
        PROVE i \in Mergeable(R, order) <=>
                \A j \in 1..n : \A q \in d[j] + 1..m[j] + 1 :
                  R[j][q] = FirstLeft(L, d, i) => q \in {d[j] + 1}
    <3>1. i \in Mergeable(R, order) <=>
            \A j \in 1..n : \A q \in Unplaced(R[j], order) :
              R[j][q] = R[i][d[i] + 1] => q \in Foremost(R[j], order)
      <4>1. Foremost(R[i], order) = {d[i] + 1}
        BY <1>2
      <4> QED BY <2>1, <4>1
    <3>2. \A j \in 1..n : Unplaced(R[j], order) = d[j] + 1..m[j] + 1
      BY <1>2
    <3>3. \A j \in 1..n : Foremost(R[j], order) = {d[j] + 1}
      BY <1>2
    <3>4. R[i][d[i] + 1] = FirstLeft(L, d, i)
      BY <1>2
    <3> QED BY ONLY <3>1, <3>2, <3>3, <3>4
  <2>3. ASSUME NEW i, NEW j \in 1..n, NEW q \in d[j] + 1..m[j] + 1
        PROVE  q \in {d[j] + 1} <=> q = d[j] + 1
    OBVIOUS
  <2> QED BY <2>1, <2>2, <2>3
<1>6. ASSUME NEW i \in Mergeable(R, order), Left(L, m, d) # {} PROVE i \in GoodOnes(L, m, d)
  <2>1. /\ i \in 1..n
        /\ \A j \in 1..n : \A q \in d[j] + 1..m[j] + 1 : R[j][q] = FirstLeft(L, d, i) => q = d[j] + 1
    BY <1>5, <1>6
  <2>2. d[i] < m[i]
    <3> SUFFICES ASSUME ~(d[i] < m[i]) PROVE FALSE
      BY <1>2, <2>1
    <3>1. d[i] + 1 = m[i] + 1 /\ FirstLeft(L, d, i) = 0
      BY <1>2, <2>1
    <3>2. PICK j \in 1..n : d[j] < m[j]
      BY <1>6 DEF Left, n
    <3>3. m[j] + 1 \in d[j] + 1..m[j] + 1 /\ R[j][m[j] + 1] = 0 /\ m[j] + 1 # d[j] + 1
      BY <1>2, <3>2
    <3> QED BY <2>1, <3>1, <3>3
  <2>3. ASSUME NEW j \in 1..n, NEW q \in d[j] + 2..m[j] PROVE L[j][q] # FirstLeft(L, d, i)
    <3>1. q \in d[j] + 1..m[j] + 1 /\ q # d[j] + 1 /\ q \in 1..m[j]
      BY <1>2
    <3>2. R[j][q] # FirstLeft(L, d, i)
      BY <2>1, <3>1
    <3>3. R[j][q] = L[j][q]
      BY <1>2, <3>1
    <3> QED BY <3>2, <3>3
  <2> QED BY <2>1, <2>2, <2>3 DEF GoodOnes, Left, n
<1>7. ASSUME NEW i \in GoodOnes(L, m, d) PROVE i \in Mergeable(R, order)
  <2>1. /\ i \in 1..n /\ d[i] < m[i]
        /\ \A j \in 1..n : \A q \in d[j] + 2..m[j] : L[j][q] # FirstLeft(L, d, i)
    BY <1>7 DEF GoodOnes, Left, n
  <2>2. FirstLeft(L, d, i) # 0
    <3>1. d[i] + 1 \in 1..m[i]
      BY <1>2, <2>1
    <3> QED BY <1>2, <2>1, <3>1
  <2>3. ASSUME NEW j \in 1..n, NEW q \in d[j] + 1..m[j] + 1, R[j][q] = FirstLeft(L, d, i), q # d[j] + 1
        PROVE  FALSE
    <3>1. q = m[j] + 1 \/ (q \in d[j] + 2..m[j] /\ q \in 1..m[j])
      BY <1>2, <2>3
    <3> QED BY <1>2, <2>1, <2>2, <2>3, <3>1
  <2> QED BY <1>5, <2>1, <2>3
<1>8. ASSUME Left(L, m, d) = {}, NEW i \in 1..n PROVE i \in Mergeable(R, order)
  <2>1. ASSUME NEW j \in 1..n PROVE d[j] = m[j]
    <3>1. ~(d[j] < m[j])
      BY <1>8 DEF Left, n
    <3> QED BY <1>2, <3>1
  <2>2. \A j \in 1..n : \A q \in d[j] + 1..m[j] + 1 : q = d[j] + 1
    BY <1>2, <2>1
  <2> QED BY <1>5, <2>2
<1>9. \A i : i \in Mergeable(R, order) => i \in 1..n
  BY <1>5
<1>10. Left(L, m, d) # {} => Mergeable(R, order) = GoodOnes(L, m, d)
  BY <1>6, <1>7
<1>11. Left(L, m, d) = {} => Mergeable(R, order) = 1..n
  BY <1>8, <1>9
<1> QED BY <1>3, <1>4, <1>10, <1>11 DEF n

\* What the next class of the merge is, and that nothing follows object.
LEMMA MergeGoesOn ==
  ASSUME NEW L, NEW m, NEW K, MroLists(L, m, K), NEW d, NEW order, Taken(L, m, K, d, order),
         NEW R, Firsts(R, L, m)
  PROVE  /\ \A i \in GoodOnes(L, m, d) : (\A j \in GoodOnes(L, m, d) : i <= j) =>
              MergeNext(R, order) = Append(order, FirstLeft(L, d, i))
         /\ Left(L, m, d) # {} /\ GoodOnes(L, m, d) = {} => MergeNext(R, order) = Append(order, Stuck)
         /\ Left(L, m, d) = {} =>
              /\ MergeNext(R, order) = Append(order, 0)
              /\ MergeNext(R, Append(order, 0)) = Append(order, 0)
<1> DEFINE n == Len(L)
           s == Append(order, 0)
<1>1. n \in Nat \ {0} /\ DOMAIN R = 1..n
  BY OrdersAre DEF Firsts
<1>2. /\ ~Among(Stuck, order) /\ ~PlacedBy(R, order)
      /\ Left(L, m, d) # {} => Mergeable(R, order) = GoodOnes(L, m, d)
      /\ Left(L, m, d) = {} => Mergeable(R, order) = 1..n
  BY MergeableIs
<1>3. order \in Seq(Int) /\ R \in Seq(Seq(Int))
  BY DEF Taken, Firsts
<1>4. /\ Mergeable(R, order) = {} => MergeNext(R, order) = Append(order, Stuck)
      /\ \A i \in Mergeable(R, order) :
           (\A j \in Mergeable(R, order) : i <= j) =>
             \A p \in Foremost(R[i], order) : MergeNext(R, order) = Append(order, R[i][p])
  BY <1>2, <1>3, MergeNextIs
<1>5. ASSUME NEW i \in 1..n
      PROVE  /\ Unplaced(R[i], order) = d[i] + 1..m[i] + 1
             /\ Foremost(R[i], order) = {d[i] + 1}
             /\ R[i][d[i] + 1] = FirstLeft(L, d, i)
             /\ d[i] \in Nat /\ m[i] \in Nat /\ d[i] <= m[i]
             /\ R[i][m[i] + 1] = 0
  <2>1. i \in 1..Len(L)
    OBVIOUS
  <2>2. IsUnplaced(R, L, m, d, order, i)
    BY <2>1, UnplacedIs
  <2> QED BY <2>2 DEF IsUnplaced
<1> HIDE DEF n, s
<1>6. ASSUME NEW i \in GoodOnes(L, m, d), \A j \in GoodOnes(L, m, d) : i <= j
      PROVE  MergeNext(R, order) = Append(order, FirstLeft(L, d, i))
  <2>1. i \in 1..n /\ Left(L, m, d) # {}
    BY <1>6 DEF GoodOnes, Left, n
  <2>2. i \in Mergeable(R, order) /\ \A j \in Mergeable(R, order) : i <= j
    BY <1>2, <1>6, <2>1
  <2>3. d[i] + 1 \in Foremost(R[i], order) /\ R[i][d[i] + 1] = FirstLeft(L, d, i)
    BY <1>5, <2>1
  <2> QED BY <1>4, <2>2, <2>3
<1>7. ASSUME Left(L, m, d) = {}
      PROVE  MergeNext(R, order) = s /\ MergeNext(R, s) = s
  <2>1. \A j \in 1..n : d[j] = m[j]
    <3> SUFFICES ASSUME NEW j \in 1..n PROVE d[j] = m[j]
      OBVIOUS
    <3>1. ~(d[j] < m[j])
      BY <1>7 DEF Left, n
    <3> QED BY <1>5, <3>1
  <2>2. 1 \in 1..n /\ \A j \in 1..n : 1 <= j
    BY <1>1
  <2>3. MergeNext(R, order) = Append(order, FirstLeft(L, d, 1)) /\ FirstLeft(L, d, 1) = 0
    <3>1. 1 \in Mergeable(R, order) /\ \A j \in Mergeable(R, order) : 1 <= j
      BY <1>2, <1>7, <2>2
    <3>2. /\ d[1] + 1 \in Foremost(R[1], order) /\ R[1][d[1] + 1] = FirstLeft(L, d, 1)
          /\ R[1][d[1] + 1] = 0
      BY <1>5, <2>1, <2>2
    <3> QED BY <1>4, <3>1, <3>2
  <2>4. s \in Seq(Int) /\ \A c : Among(c, s) <=> Among(c, order) \/ c = 0
    BY <1>3, AmongAppended DEF s
  <2>5. ASSUME NEW j \in 1..n PROVE Unplaced(R[j], s) = {}
    <3> SUFFICES ASSUME NEW p \in DOMAIN R[j], ~Among(R[j][p], s) PROVE FALSE
      BY DEF Unplaced
    <3>1. p \in Unplaced(R[j], order)
      BY <2>4 DEF Unplaced
    <3>2. p = m[j] + 1
      BY <1>5, <2>1, <3>1
    <3> QED BY <1>5, <2>4, <3>2
  <2>6. PlacedBy(R, s)
    BY <1>1, <2>5 DEF PlacedBy
  <2>7. MergeNext(R, s) = s
    BY <1>3, <2>4, <2>6, MergeNextIs
  <2> QED BY <2>3, <2>7 DEF s
<1> QED BY <1>2, <1>4, <1>6, <1>7 DEF s

-----------------------------------------------------------------------------
(* The merge as the code does it: as long as a list has a class but object  *)
(* left, no list is taken out.                                              *)

LEMMA RemoveHeadKeeps ==
  ASSUME NEW mros \in Lists, NEW exclude, NEW head,
         \A l \in 1..Len(mros) : mros[l][1] = head => Len(mros[l]) # 1
  PROVE  /\ RemoveHeadFromMros(mros, exclude, head) \in Lists
         /\ Len(RemoveHeadFromMros(mros, exclude, head)) = Len(mros)
         /\ \A l \in 1..Len(mros) :
              RemoveHeadFromMros(mros, exclude, head)[l] =
                IF l # exclude /\ mros[l][1] = head THEN Tail(mros[l]) ELSE mros[l]
<1> DEFINE n == Len(mros)
           kept(l, j) == IF l <= j /\ l # exclude /\ mros[l][1] = head THEN Tail(mros[l]) ELSE mros[l]
<1>1. n \in Nat
  BY ListsAre
<1>2. PICK f \in [0..n -> Lists] :
        /\ f[0] = mros
        /\ \A j \in 1..n : f[j] = DropHeadAt(f[j - 1], j, exclude, head)
        /\ RemoveHeadFromMros(mros, exclude, head) = f[n]
  BY RemoveHeadFollows
<1> DEFINE S == {j \in 0..n : Len(f[j]) = n /\ \A l \in 1..n : f[j][l] = kept(l, j)}
<1>3. 0 \in S
  BY <1>1, <1>2
<1>4. ASSUME NEW j \in 0..n - 1, j \in S PROVE j + 1 \in S
  <2> DEFINE k == j + 1
             a == f[j]
             b == f[k]
  <2>1. k \in 1..n /\ k - 1 = j /\ k \in 0..n /\ j \in 0..n /\ k \in Nat \ {0} /\ ~(k <= j)
    BY <1>1
  <2>2. a \in Lists /\ Len(a) = n /\ \A l \in 1..n : a[l] = kept(l, j)
    BY <1>2, <1>4, <2>1
  <2>3. b = DropHeadAt(a, k, exclude, head)
    BY <1>2, <2>1
  <2>4. a[k] = mros[k]
    BY <2>1, <2>2
  <2> HIDE DEF n, k, a, b
  <2>5. b = IF k = exclude \/ mros[k][1] # head THEN a ELSE DropHead(a, k)
    <3>1. b = IF k > n \/ k = exclude \/ a[k][1] # head THEN a ELSE DropHead(a, k)
      BY <2>1, <2>2, <2>3, DropHeadAtFull
    <3> QED BY <1>1, <2>1, <2>4, <3>1
  <2>6. Len(b) = n /\ \A l \in 1..n : b[l] = kept(l, k)
    <3>1. \A l \in 1..n : l <= k <=> l <= j \/ l = k
      BY <1>1, <2>1
    <3>2. CASE k = exclude \/ mros[k][1] # head
      <4>1. \A l \in 1..n : kept(l, k) = kept(l, j)
        BY <3>1, <3>2
      <4> HIDE DEF kept
      <4> QED BY <2>2, <2>5, <3>2, <4>1
    <3>3. CASE ~(k = exclude \/ mros[k][1] # head)
      <4>1. Len(a[k]) # 1 /\ k \in 1..Len(a)
        BY <2>1, <2>2, <2>4, <3>3 DEF n
      <4>2. b = DropHead(a, k)
        BY <2>5, <3>3
      <4>3. Len(b) = n /\ \A l \in 1..n : b[l] = IF l = k THEN Tail(a[k]) ELSE a[l]
        BY <2>2, <4>1, <4>2, DropHeadFull
      <4>4. ASSUME NEW l \in 1..n PROVE b[l] = kept(l, k)
        <5>1. CASE l = k
          <6>1. kept(l, k) = Tail(mros[k])
            BY <2>1, <3>3, <5>1
          <6> QED BY <2>4, <4>3, <5>1, <6>1
        <5>2. CASE l # k
          <6>1. kept(l, k) = kept(l, j)
            BY <3>1, <5>2
          <6> HIDE DEF kept
          <6> QED BY <2>2, <4>3, <5>2, <6>1
        <5> QED BY <5>1, <5>2
      <4> QED BY <4>3, <4>4
    <3> QED BY <3>2, <3>3
  <2> HIDE DEF kept
  <2> QED BY <2>1, <2>6 DEF k, b
<1>5. n \in S
  <2> HIDE DEF S, n
  <2>1. 0..n \subseteq S
    BY <1>1, <1>3, <1>4, Induct
  <2> QED BY <1>1, <2>1
<1>6. f[n] \in Lists
  BY <1>1, <1>2
<1>7. \A l \in 1..n : kept(l, n) = IF l # exclude /\ mros[l][1] = head THEN Tail(mros[l]) ELSE mros[l]
  BY <1>1
<1> QED BY <1>2, <1>5, <1>6, <1>7

\* What is left of the lists.
Remaining(mros, L, d) ==
  /\ mros \in Lists /\ Len(mros) = Len(L)
  /\ \A i \in 1..Len(L) :
       /\ Len(mros[i]) = Len(L[i]) - d[i]
       /\ \A p \in 1..Len(L[i]) - d[i] : mros[i][p] = L[i][p + d[i]]

IsRemaining(mros, L, m, d, j) ==
  /\ d[j] \in Nat /\ m[j] \in Nat /\ d[j] <= m[j] /\ m[j] < Len(L[j]) /\ Len(L[j]) \in Nat
  /\ mros[j] \in NotEmpty /\ Len(mros[j]) = Len(L[j]) - d[j]
  /\ \A p \in 1..Len(L[j]) - d[j] : mros[j][p] = L[j][p + d[j]]
  /\ mros[j][1] = FirstLeft(L, d, j)
  /\ \A c : Among(c, Tail(mros[j])) <=> \E q \in d[j] + 2..Len(L[j]) : L[j][q] = c
  /\ d[j] < m[j] => Len(mros[j]) # 1
  /\ FirstLeft(L, d, j) = 0 <=> ~(d[j] < m[j])
  /\ \A p \in 1..m[j] : L[j][p] # 0
  /\ \A p \in m[j] + 1..Len(L[j]) : L[j][p] = 0
  /\ \A p, q \in 1..m[j] : L[j][p] = L[j][q] => p = q

LEMMA RemainingIs ==
  ASSUME NEW L, NEW m, NEW K, MroLists(L, m, K), NEW d, NEW order, Taken(L, m, K, d, order),
         NEW mros, Remaining(mros, L, d), NEW j \in 1..Len(L)
  PROVE  IsRemaining(mros, L, m, d, j)
<1> DEFINE list == mros[j]
           base == L[j]
           n == Len(base)
           e == d[j]
           t == Tail(list)
<1>1. /\ m[j] \in Nat /\ m[j] < n /\ n \in Nat /\ K \in Nat
      /\ \A p \in 1..m[j] : base[p] \in 1..K
      /\ \A p \in m[j] + 1..n : base[p] = 0
      /\ \A p, q \in 1..m[j] : base[p] = base[q] => p = q
  <2>1. Shaped(base, m[j], K) /\ K \in Nat
    BY DEF MroLists
  <2> HIDE DEF base
  <2> QED BY <2>1 DEF Shaped
<1>2. e \in Nat /\ e <= m[j]
  BY DEF Taken
<1>3. Len(list) = n - e /\ \A p \in 1..n - e : list[p] = base[p + e]
  BY DEF Remaining
<1>4. list \in NotEmpty
  BY ListsAre DEF Remaining
<1>5. /\ t \in Seq(Int) /\ Len(t) = n - e - 1
      /\ \A p \in 1..n - e - 1 : t[p] = list[p + 1]
  <2> HIDE DEF list
  <2> QED BY <1>3, <1>4, FullIs
<1>6. DOMAIN t = 1..n - e - 1
  BY <1>5
<1>7. FirstLeft(L, d, j) = base[e + 1]
  BY DEF FirstLeft
<1> HIDE DEF list, base, n, e, t
<1>8. list[1] = base[e + 1]
  <2>1. 1 \in 1..n - e /\ 1 + e = e + 1
    BY <1>1, <1>2
  <2> QED BY <1>3, <2>1
<1>9. ASSUME NEW c PROVE Among(c, t) <=> \E q \in e + 2..n : base[q] = c
  <2>1. ASSUME NEW p \in 1..n - e - 1
        PROVE  p + 1 + e \in e + 2..n /\ t[p] = base[p + 1 + e]
    <3>1. p + 1 \in 1..n - e /\ p + 1 + e \in e + 2..n
      BY <1>1, <1>2
    <3> QED BY <1>3, <1>5, <3>1
  <2>2. ASSUME NEW q \in e + 2..n
        PROVE  q - 1 - e \in 1..n - e - 1 /\ t[q - 1 - e] = base[q]
    <3>1. q - 1 - e \in 1..n - e - 1 /\ (q - 1 - e) + 1 + e = q
      BY <1>1, <1>2
    <3> QED BY <2>1, <3>1
  <2> QED BY <1>6, <2>1, <2>2 DEF Among
<1>10. e < m[j] => Len(list) # 1
  BY <1>1, <1>2, <1>3
<1>11. base[e + 1] = 0 <=> ~(e < m[j])
  <2>1. CASE e < m[j]
    <3>1. e + 1 \in 1..m[j]
      BY <1>1, <1>2, <2>1
    <3> QED BY <1>1, <2>1, <3>1
  <2>2. CASE ~(e < m[j])
    <3>1. e + 1 \in m[j] + 1..n
      BY <1>1, <1>2, <2>2
    <3> QED BY <1>1, <2>2, <3>1
  <2> QED BY <2>1, <2>2
<1>12. \A p \in 1..m[j] : base[p] # 0
  BY <1>1
<1> QED
  BY <1>1, <1>2, <1>3, <1>4, <1>7, <1>8, <1>9, <1>10, <1>11, <1>12
     DEF IsRemaining, list, base, n, e, t

\* The candidates are the lists whose first class the merge can take.
LEMMA CandidatesAre ==
  ASSUME NEW L, NEW m, NEW K, MroLists(L, m, K), NEW d, NEW order, Taken(L, m, K, d, order),
         NEW mros, Remaining(mros, L, d), Left(L, m, d) # {}
  PROVE  Candidates(mros) = GoodOnes(L, m, d)
<1> DEFINE n == Len(L)
<1>1. ASSUME NEW j \in 1..n PROVE IsRemaining(mros, L, m, d, j)
  BY RemainingIs
<1>2. DOMAIN mros = 1..n
  BY ListsAre DEF Remaining
<1>3. \A i : i \in Left(L, m, d) <=> i \in 1..n /\ d[i] < m[i]
  BY DEF Left
<1> HIDE DEF n
<1>4. \A i : i \in Candidates(mros) <=>
        /\ i \in 1..n
        /\ \A j \in 1..n \ {i} :
             \/ FirstLeft(L, d, j) = FirstLeft(L, d, i)
             \/ \A q \in d[j] + 2..Len(L[j]) : L[j][q] # FirstLeft(L, d, i)
  <2>1. ASSUME NEW i \in 1..n, NEW j \in 1..n
        PROVE  FirstOrNotInMro(mros[j], mros[i][1]) <=>
                 \/ FirstLeft(L, d, j) = FirstLeft(L, d, i)
                 \/ \A q \in d[j] + 2..Len(L[j]) : L[j][q] # FirstLeft(L, d, i)
    <3>1. /\ mros[i][1] = FirstLeft(L, d, i) /\ mros[j][1] = FirstLeft(L, d, j)
          /\ \A c : Among(c, Tail(mros[j])) <=> \E q \in d[j] + 2..Len(L[j]) : L[j][q] = c
      BY <1>1 DEF IsRemaining
    <3> QED BY <3>1 DEF FirstOrNotInMro
  <2> QED BY <1>2, <2>1 DEF Candidates, CouldTypePlaceAhead
<1>5. ASSUME NEW i \in Candidates(mros) PROVE i \in GoodOnes(L, m, d)
  <2>1. /\ i \in 1..n
        /\ \A j \in 1..n \ {i} :
             \/ FirstLeft(L, d, j) = FirstLeft(L, d, i)
             \/ \A q \in d[j] + 2..Len(L[j]) : L[j][q] # FirstLeft(L, d, i)
    BY <1>4, <1>5
  <2>2. d[i] < m[i]
    <3> SUFFICES ASSUME ~(d[i] < m[i]) PROVE FALSE
      OBVIOUS
    <3>1. FirstLeft(L, d, i) = 0
      BY <1>1, <2>1 DEF IsRemaining
    <3>2. PICK j \in 1..n : d[j] < m[j]
      BY <1>3
    <3>3. FirstLeft(L, d, j) # 0 /\ j # i
      BY <1>1, <3>2 DEF IsRemaining
    <3>4. Len(L[j]) \in d[j] + 2..Len(L[j]) /\ Len(L[j]) \in m[j] + 1..Len(L[j])
      BY <1>1, <3>2 DEF IsRemaining
    <3>5. L[j][Len(L[j])] = 0
      BY <1>1, <3>4 DEF IsRemaining
    <3> QED BY <2>1, <3>1, <3>3, <3>4, <3>5
  <2>3. ASSUME NEW j \in 1..n, NEW q \in d[j] + 2..m[j], L[j][q] = FirstLeft(L, d, i)
        PROVE  FALSE
    <3>1. /\ d[j] \in Nat /\ m[j] \in Nat /\ d[j] <= m[j] /\ m[j] < Len(L[j]) /\ Len(L[j]) \in Nat
          /\ \A p, r \in 1..m[j] : L[j][p] = L[j][r] => p = r
      BY <1>1 DEF IsRemaining
    <3>2. q \in d[j] + 2..Len(L[j]) /\ q \in 1..m[j] /\ d[j] + 1 \in 1..m[j] /\ q # d[j] + 1
      BY <3>1
    <3>3. FirstLeft(L, d, j) = FirstLeft(L, d, i)
      BY <2>1, <2>3, <3>2
    <3>4. L[j][d[j] + 1] = L[j][q]
      BY <2>3, <3>3 DEF FirstLeft
    <3> QED BY <3>1, <3>2, <3>4
  <2> QED BY <1>3, <2>1, <2>2, <2>3 DEF GoodOnes, n
<1>6. ASSUME NEW i \in GoodOnes(L, m, d) PROVE i \in Candidates(mros)
  <2>1. /\ i \in 1..n /\ d[i] < m[i]
        /\ \A j \in 1..n : \A q \in d[j] + 2..m[j] : L[j][q] # FirstLeft(L, d, i)
    BY <1>3, <1>6 DEF GoodOnes, n
  <2>2. FirstLeft(L, d, i) # 0
    BY <1>1, <2>1 DEF IsRemaining
  <2>3. ASSUME NEW j \in 1..n, NEW q \in d[j] + 2..Len(L[j]), L[j][q] = FirstLeft(L, d, i)
        PROVE  FALSE
    <3>1. /\ d[j] \in Nat /\ m[j] \in Nat /\ Len(L[j]) \in Nat
          /\ \A p \in m[j] + 1..Len(L[j]) : L[j][p] = 0
      BY <1>1 DEF IsRemaining
    <3>2. q \in d[j] + 2..m[j] \/ q \in m[j] + 1..Len(L[j])
      BY <3>1
    <3> QED BY <2>1, <2>2, <2>3, <3>1, <3>2
  <2> QED BY <1>4, <2>1, <2>3
<1> QED BY <1>5, <1>6

\* A round takes the class that the merge takes.
LEMMA RoundTakes ==
  ASSUME NEW L, NEW m, NEW K, MroLists(L, m, K), Len(L) >= 2,
         NEW d, NEW order, Taken(L, m, K, d, order),
         NEW x \in RoundsAre, x.state = "on", x.order = order, Remaining(x.mros, L, d),
         Left(L, m, d) # {}
  PROVE  /\ GoodOnes(L, m, d) = {} =>
              MergeRound(x) = [mros |-> x.mros, order |-> order, state |-> "left"]
         /\ \A i \in GoodOnes(L, m, d) : (\A j \in GoodOnes(L, m, d) : i <= j) =>
              LET class == FirstLeft(L, d, i)
                  y     == MergeRound(x)
              IN /\ y.state = "on" /\ y.order = Append(order, class)
                 /\ Remaining(y.mros, L, Advanced(L, m, d, class))
                 /\ Total(y.mros) \in Nat \ {0} /\ Total(y.mros) < Total(x.mros)
<1> DEFINE n == Len(L)
           mros == x.mros
<1>1. mros \in Lists /\ Len(mros) = n /\ n \in Nat /\ Len(mros) > 1 /\ n >= 2
  BY OrdersAre DEF Remaining
<1>2. Candidates(mros) = GoodOnes(L, m, d)
  BY CandidatesAre
<1>3. ASSUME GoodOnes(L, m, d) = {}
      PROVE  MergeRound(x) = [mros |-> mros, order |-> order, state |-> "left"]
  BY <1>1, <1>2, <1>3, MergeRoundIs
<1>4. ASSUME NEW i \in GoodOnes(L, m, d), \A j \in GoodOnes(L, m, d) : i <= j
      PROVE  LET class == FirstLeft(L, d, i)
                 y     == MergeRound(x)
             IN /\ y.state = "on" /\ y.order = Append(order, class)
                /\ Remaining(y.mros, L, Advanced(L, m, d, class))
                /\ Total(y.mros) \in Nat \ {0} /\ Total(y.mros) < Total(mros)
  <2> DEFINE class == FirstLeft(L, d, i)
             y == MergeRound(x)
             e == Advanced(L, m, d, class)
             rest == RemoveHeadFromMros(mros, i, class)
             after == DropHead(rest, i)
  <2>1. /\ i \in 1..n /\ d[i] < m[i] /\ i \in Nat
    BY <1>1 DEF GoodOnes, Left
  <2>2. ASSUME NEW j \in 1..n PROVE IsRemaining(mros, L, m, d, j)
    BY RemainingIs
  <2>3. FindCandidateBase(mros) = i
    <3>1. /\ FindCandidateBase(mros) \in GoodOnes(L, m, d)
          /\ \A j \in GoodOnes(L, m, d) : FindCandidateBase(mros) <= j
          /\ FindCandidateBase(mros) \in 1..n
      BY <1>1, <1>2, <1>4, FirstCandidate
    <3>2. FindCandidateBase(mros) <= i /\ i <= FindCandidateBase(mros)
      BY <1>4, <3>1
    <3> QED BY <2>1, <3>1, <3>2
  <2>4. mros[i][1] = class /\ class # 0
    BY <2>1, <2>2 DEF IsRemaining
  <2>5. y = IF i > Len(rest) THEN [mros |-> rest, order |-> order, state |-> "thrown"]
            ELSE [mros |-> after, order |-> Append(order, class), state |-> "on"]
    BY <1>1, <1>2, <1>4, <2>3, <2>4, MergeRoundIs
  <2> HIDE DEF n, mros, class, y, e, after
  <2>6. \A j \in 1..n : mros[j][1] = class => Len(mros[j]) # 1
    BY <2>2, <2>4 DEF IsRemaining
  <2>7. /\ rest \in Lists /\ Len(rest) = n
        /\ \A j \in 1..n : rest[j] = IF j # i /\ mros[j][1] = class THEN Tail(mros[j]) ELSE mros[j]
    BY <1>1, <2>6, RemoveHeadKeeps
  <2> HIDE DEF rest
  <2>8. rest[i] = mros[i] /\ Len(rest[i]) # 1
    BY <2>1, <2>4, <2>6, <2>7
  <2>9. /\ after \in Lists /\ Len(after) = n
        /\ \A j \in 1..n : after[j] = IF mros[j][1] = class THEN Tail(mros[j]) ELSE mros[j]
    <3>1. /\ DropHead(rest, i) \in Lists /\ Len(DropHead(rest, i)) = n
          /\ \A j \in 1..n : DropHead(rest, i)[j] = IF j = i THEN Tail(rest[i]) ELSE rest[j]
      BY <2>1, <2>7, <2>8, DropHeadFull
    <3> QED BY <2>4, <2>7, <2>8, <3>1 DEF after
  <2>10. y = [mros |-> after, order |-> Append(order, class), state |-> "on"]
    BY <1>1, <2>1, <2>5, <2>7
  <2>11. \A j \in 1..n : e[j] = IF d[j] < m[j] /\ FirstLeft(L, d, j) = class THEN d[j] + 1 ELSE d[j]
    BY DEF Advanced, Left, n, e
  <2>12. ASSUME NEW j \in 1..n
         PROVE  /\ Len(after[j]) = Len(L[j]) - e[j]
                /\ \A p \in 1..Len(L[j]) - e[j] : after[j][p] = L[j][p + e[j]]
                /\ Len(after[j]) <= Len(mros[j])
                /\ j = i => Len(after[j]) < Len(mros[j])
    <3>1. /\ d[j] \in Nat /\ m[j] \in Nat /\ Len(L[j]) \in Nat /\ d[j] < Len(L[j])
          /\ mros[j] \in NotEmpty /\ Len(mros[j]) = Len(L[j]) - d[j]
          /\ \A p \in 1..Len(L[j]) - d[j] : mros[j][p] = L[j][p + d[j]]
          /\ mros[j][1] = FirstLeft(L, d, j)
          /\ FirstLeft(L, d, j) = 0 <=> ~(d[j] < m[j])
      <4>1. IsRemaining(mros, L, m, d, j)
        BY <2>2
      <4>2. d[j] \in Nat /\ m[j] \in Nat /\ Len(L[j]) \in Nat /\ d[j] <= m[j] /\ m[j] < Len(L[j])
        BY <4>1 DEF IsRemaining
      <4>3. d[j] < Len(L[j])
        BY <4>2
      <4> QED BY ONLY <4>1, <4>2, <4>3 DEF IsRemaining
    <3>2. CASE mros[j][1] = class
      <4>1. e[j] = d[j] + 1 /\ after[j] = Tail(mros[j])
        BY <2>4, <2>9, <2>11, <3>1, <3>2
      <4>2. /\ Len(after[j]) = Len(mros[j]) - 1
            /\ \A p \in 1..Len(mros[j]) - 1 : after[j][p] = mros[j][p + 1]
        <5> DEFINE list == mros[j]
        <5>1. list \in NotEmpty
          BY <3>1
        <5> HIDE DEF list
        <5>2. Len(Tail(list)) = Len(list) - 1 /\ \A p \in 1..Len(list) - 1 : Tail(list)[p] = list[p + 1]
          BY <5>1, FullIs
        <5> QED BY <4>1, <5>2 DEF list
      <4>3. ASSUME NEW p \in 1..Len(L[j]) - e[j] PROVE after[j][p] = L[j][p + e[j]]
        <5> DEFINE w == Len(L[j])
                   v == Len(mros[j])
                   u == d[j]
        <5>4. w \in Nat /\ u \in Nat /\ v = w - u /\ e[j] = u + 1 /\ p \in 1..w - (u + 1)
          BY <3>1, <4>1
        <5> HIDE DEF w, v, u
        <5>5. p \in 1..v - 1 /\ p + 1 \in 1..w - u /\ p + 1 + u = p + e[j]
          BY <5>4
        <5>1. p \in 1..Len(mros[j]) - 1 /\ p + 1 \in 1..Len(L[j]) - d[j] /\ p + 1 + d[j] = p + e[j]
          BY <5>5 DEF w, v, u
        <5>2. after[j][p] = mros[j][p + 1]
          BY <4>2, <5>1
        <5>3. mros[j][p + 1] = L[j][p + 1 + d[j]]
          BY <3>1, <5>1
        <5> QED BY <5>1, <5>2, <5>3
      <4>4. Len(after[j]) = Len(L[j]) - e[j] /\ Len(after[j]) < Len(mros[j])
        <5> DEFINE w == Len(L[j])
                   v == Len(mros[j])
                   u == d[j]
        <5>1. w \in Nat /\ u \in Nat /\ v = w - u /\ e[j] = u + 1 /\ Len(after[j]) = v - 1
          BY <3>1, <4>1, <4>2
        <5> HIDE DEF w, v, u
        <5>2. Len(after[j]) = w - e[j] /\ Len(after[j]) < v
          BY <5>1
        <5> QED BY <5>2 DEF w, v
      <4> QED BY <3>1, <4>2, <4>3, <4>4
    <3>3. CASE mros[j][1] # class
      <4>1. e[j] = d[j] /\ after[j] = mros[j] /\ j # i
        BY <2>4, <2>9, <2>11, <3>1, <3>3
      <4> QED BY <3>1, <4>1
    <3> QED BY <3>2, <3>3
  <2>13. Remaining(after, L, e)
    BY <2>9, <2>12 DEF Remaining, n
  <2>14. Total(after) \in Nat \ {0} /\ Total(after) < Total(mros)
    BY <1>1, <2>1, <2>9, <2>12, TotalLess
  <2> QED BY <2>10, <2>13, <2>14 DEF class, y, e
<1> QED BY <1>3, <1>4

\* When only object is left, it is taken as often as the code finds it.
OnlyObject(mros) == \A j \in 1..Len(mros) : \A p \in 1..Len(mros[j]) : mros[j][p] = 0

Ending(x, order) ==
  /\ x \in RoundsAre /\ x.state = "on"
  /\ Len(order) <= Len(x.order)
  /\ \A p \in 1..Len(order) : x.order[p] = order[p]
  /\ \A p \in Len(order) + 1..Len(x.order) : x.order[p] = 0
  /\ OnlyObject(x.mros)
  /\ Len(order) < Len(x.order) \/ x.mros # << >>

LEMMA DropHeadOnlyObject ==
  ASSUME NEW mros \in Lists, NEW j \in 1..Len(mros), OnlyObject(mros)
  PROVE  /\ DropHead(mros, j) \in Lists /\ OnlyObject(DropHead(mros, j))
         /\ Len(DropHead(mros, j)) >= Len(mros) - 1
<1> DEFINE n == Len(mros)
           D == DropHead(mros, j)
<1>1. /\ D \in Lists /\ n \in Nat
      /\ Len(mros[j]) # 1 =>
           Len(D) = n /\ \A i \in 1..n : D[i] = IF i = j THEN Tail(mros[j]) ELSE mros[i]
      /\ Len(mros[j]) = 1 =>
           Len(D) = n - 1 /\ \A i \in 1..n - 1 : D[i] = IF i < j THEN mros[i] ELSE mros[i + 1]
  BY DropHeadFull, ListsAre
<1>2. \A p \in 1..Len(Tail(mros[j])) : Tail(mros[j])[p] = 0
  <2> DEFINE list == mros[j]
  <2>1. list \in NotEmpty /\ \A p \in 1..Len(list) : list[p] = 0
    BY ListsAre DEF OnlyObject
  <2> HIDE DEF list
  <2>2. /\ Len(list) \in Nat /\ Len(Tail(list)) = Len(list) - 1
        /\ \A p \in 1..Len(list) - 1 : Tail(list)[p] = list[p + 1]
    BY <2>1, FullIs
  <2>3. \A p \in 1..Len(list) - 1 : p + 1 \in 1..Len(list)
    BY <2>2
  <2> QED BY <2>1, <2>2, <2>3 DEF list
<1> HIDE DEF n, D
<1>3. CASE Len(mros[j]) # 1
  <2>1. \A i \in 1..n : \A p \in 1..Len(D[i]) : D[i][p] = 0
    <3>1. ASSUME NEW i \in 1..n, i # j PROVE \A p \in 1..Len(D[i]) : D[i][p] = 0
      <4>1. D[i] = mros[i]
        BY <1>1, <1>3, <3>1
      <4> QED BY <4>1 DEF OnlyObject, n
    <3>2. j \in 1..n /\ D[j] = Tail(mros[j])
      BY <1>1, <1>3 DEF n
    <3>3. \A p \in 1..Len(D[j]) : D[j][p] = 0
      BY <1>2, <3>2
    <3> QED BY <3>1, <3>3
  <2> QED BY <1>1, <1>3, <2>1 DEF OnlyObject, n, D
<1>4. CASE Len(mros[j]) = 1
  <2>1. \A i \in 1..n - 1 : i \in 1..n /\ i + 1 \in 1..n
    BY <1>1
  <2>2. \A i \in 1..n - 1 : \A p \in 1..Len(D[i]) : D[i][p] = 0
    <3> SUFFICES ASSUME NEW i \in 1..n - 1 PROVE \A p \in 1..Len(D[i]) : D[i][p] = 0
      OBVIOUS
    <3>1. i \in 1..n /\ i + 1 \in 1..n /\ (D[i] = mros[i] \/ D[i] = mros[i + 1])
      BY <1>1, <1>4, <2>1
    <3> QED BY <3>1 DEF OnlyObject, n
  <2> QED BY <1>1, <1>4, <2>2 DEF OnlyObject, n, D
<1> QED BY <1>3, <1>4

LEMMA RemoveHeadOnlyObject ==
  ASSUME NEW mros \in Lists, Len(mros) >= 1, OnlyObject(mros)
  PROVE  /\ RemoveHeadFromMros(mros, 1, 0) \in Lists /\ OnlyObject(RemoveHeadFromMros(mros, 1, 0))
         /\ Len(RemoveHeadFromMros(mros, 1, 0)) >= 1
<1> DEFINE n == Len(mros)
<1>1. n \in Nat
  BY ListsAre
<1>2. PICK f \in [0..n -> Lists] :
        /\ f[0] = mros
        /\ \A j \in 1..n : f[j] = DropHeadAt(f[j - 1], j, 1, 0)
        /\ RemoveHeadFromMros(mros, 1, 0) = f[n]
  BY RemoveHeadFollows
<1> DEFINE S == {j \in 0..n : Len(f[j]) >= 1 /\ OnlyObject(f[j])}
<1>3. 0 \in S
  BY <1>1, <1>2
<1>4. ASSUME NEW j \in 0..n - 1, j \in S PROVE j + 1 \in S
  <2> DEFINE k == j + 1
             a == f[j]
             b == f[k]
  <2>1. k \in 1..n /\ k - 1 = j /\ k \in 0..n /\ j \in 0..n /\ k \in Nat \ {0}
    BY <1>1
  <2>2. a \in Lists /\ Len(a) >= 1 /\ OnlyObject(a)
    BY <1>2, <1>4, <2>1
  <2>3. b = DropHeadAt(a, k, 1, 0)
    BY <1>2, <2>1
  <2> HIDE DEF n, k, a, b
  <2>4. b = IF k > Len(a) \/ k = 1 \/ a[k][1] # 0 THEN a ELSE DropHead(a, k)
    BY <2>1, <2>2, <2>3, DropHeadAtFull
  <2>5. Len(a) \in Nat
    BY <2>2, ListsAre
  <2>6. Len(b) >= 1 /\ OnlyObject(b)
    <3>1. CASE k > Len(a) \/ k = 1 \/ a[k][1] # 0
      BY <2>2, <2>4, <3>1
    <3>2. CASE ~(k > Len(a) \/ k = 1 \/ a[k][1] # 0)
      <4>1. k \in 1..Len(a) /\ Len(a) >= 2
        BY <2>1, <2>5, <3>2
      <4>2. b \in Lists /\ OnlyObject(b) /\ Len(b) >= Len(a) - 1
        BY <2>2, <2>4, <3>2, <4>1, DropHeadOnlyObject
      <4>3. Len(b) \in Nat
        BY <4>2, ListsAre
      <4> QED BY <2>5, <4>1, <4>2, <4>3
    <3> QED BY <3>1, <3>2
  <2> QED BY <2>1, <2>6 DEF k, b
<1>5. n \in S /\ f[n] \in Lists
  <2> HIDE DEF S, n
  <2>1. 0..n \subseteq S
    BY <1>1, <1>3, <1>4, Induct
  <2> QED BY <1>1, <1>2, <2>1
<1> QED BY <1>2, <1>5

LEMMA EndingStays ==
  ASSUME NEW order \in Seq(Int), NEW x, Ending(x, order)
  PROVE  Ending(MergeRound(x), order)
<1> DEFINE mros == x.mros
<1>1. /\ x \in RoundsAre /\ x.state = "on" /\ x.order \in Seq(Int) /\ mros \in Lists
      /\ OnlyObject(mros) /\ Len(mros) \in Nat
  BY ListsAre DEF Ending, RoundsAre
<1>2. CASE Len(mros) <= 1
  BY <1>1, <1>2, MergeRoundIs
<1>3. CASE Len(mros) > 1
  <2> DEFINE n == Len(mros)
             rest == RemoveHeadFromMros(mros, 1, 0)
             after == DropHead(rest, 1)
             longer == Append(x.order, 0)
  <2>1. \A j \in 1..n : mros[j][1] = 0
    <3> SUFFICES ASSUME NEW j \in 1..n PROVE mros[j][1] = 0
      OBVIOUS
    <3>1. mros[j] \in NotEmpty
      BY <1>1, ListsAre
    <3>2. 1 \in 1..Len(mros[j])
      BY <3>1, FullIs
    <3> QED BY <1>1, <3>2 DEF OnlyObject
  <2>2. Candidates(mros) = 1..n
    <3>1. DOMAIN mros = 1..n
      BY <1>1, ListsAre
    <3>2. \A i, j \in 1..n : FirstOrNotInMro(mros[j], mros[i][1])
      BY <2>1 DEF FirstOrNotInMro
    <3> QED BY <3>1, <3>2 DEF Candidates, CouldTypePlaceAhead
  <2>3. 1 \in 1..n
    BY <1>1, <1>3
  <2>4. FindCandidateBase(mros) = 1 /\ Candidates(mros) # {}
    <3>1. Candidates(mros) # {}
      BY <2>2, <2>3
    <3>2. FindCandidateBase(mros) <= 1 /\ FindCandidateBase(mros) \in 1..n
      BY <1>1, <2>2, <2>3, <3>1, FirstCandidate
    <3> QED BY <3>1, <3>2
  <2>5. MergeRound(x) = IF 1 > Len(rest) THEN [mros |-> rest, order |-> x.order, state |-> "thrown"]
                        ELSE [mros |-> after, order |-> longer, state |-> "on"]
    <3>1. mros[1][1] = 0
      BY <2>1, <2>3
    <3>2. LET i    == FindCandidateBase(mros)
              head == mros[i][1]
              left == RemoveHeadFromMros(mros, i, head)
          IN MergeRound(x) =
               IF i > Len(left) THEN [mros |-> left, order |-> x.order, state |-> "thrown"]
               ELSE [mros |-> DropHead(left, i), order |-> Append(x.order, head), state |-> "on"]
      BY <1>1, <1>3, <2>4, MergeRoundIs
    <3> QED BY <2>4, <3>1, <3>2
  <2>6. rest \in Lists /\ OnlyObject(rest) /\ Len(rest) >= 1 /\ Len(rest) \in Nat
    BY <1>1, <1>3, RemoveHeadOnlyObject, ListsAre
  <2> HIDE DEF rest
  <2>7. after \in Lists /\ OnlyObject(after)
    <3>1. 1 \in 1..Len(rest)
      BY <2>6
    <3> QED BY <2>6, <3>1, DropHeadOnlyObject
  <2>8. /\ longer \in Seq(Int) /\ Len(longer) = Len(x.order) + 1
        /\ \A p \in 1..Len(x.order) : longer[p] = x.order[p]
        /\ longer[Len(x.order) + 1] = 0
    BY <1>1, AmongAppended
  <2> HIDE DEF n, after, longer
  <2> DEFINE y == [mros |-> after, order |-> longer, state |-> "on"]
  <2>9. MergeRound(x) = y
    BY <2>5, <2>6
  <2>10. y \in RoundsAre /\ y.mros = after /\ y.order = longer /\ y.state = "on"
    BY <2>7, <2>8 DEF RoundsAre
  <2> HIDE DEF y
  <2>11. /\ Len(order) \in Nat /\ Len(x.order) \in Nat /\ Len(order) <= Len(x.order)
         /\ \A p \in 1..Len(order) : x.order[p] = order[p]
         /\ \A p \in Len(order) + 1..Len(x.order) : x.order[p] = 0
    BY <1>1 DEF Ending
  <2>12. \A p \in 1..Len(order) : longer[p] = order[p]
    BY <2>8, <2>11
  <2>13. ASSUME NEW p \in Len(order) + 1..Len(longer) PROVE longer[p] = 0
    <3> DEFINE a == Len(order)
               b == Len(x.order)
    <3>2. a \in Nat /\ b \in Nat /\ a <= b /\ p \in a + 1..b + 1
      BY <2>8, <2>11
    <3> HIDE DEF a, b
    <3>3. p = b + 1 \/ (p \in a + 1..b /\ p \in 1..b)
      BY <3>2
    <3>1. p = Len(x.order) + 1 \/ (p \in Len(order) + 1..Len(x.order) /\ p \in 1..Len(x.order))
      BY <3>3 DEF a, b
    <3> QED BY <2>8, <2>11, <3>1
  <2>14. Len(order) <= Len(longer) /\ Len(order) < Len(longer)
    <3> DEFINE a == Len(order)
               b == Len(x.order)
    <3>1. a \in Nat /\ b \in Nat /\ a <= b /\ Len(longer) = b + 1
      BY <2>8, <2>11
    <3> HIDE DEF a, b
    <3>2. a <= Len(longer) /\ a < Len(longer)
      BY <3>1
    <3> QED BY <3>2 DEF a
  <2> QED BY <2>7, <2>9, <2>10, <2>12, <2>13, <2>14 DEF Ending
<1> QED BY <1>1, <1>2, <1>3

-----------------------------------------------------------------------------
(* The two merges, together.                                                *)

\* An order has its classes first and object once at the end of them.
LEMMA FirstPlacesShaped ==
  ASSUME NEW list, NEW m, NEW K \in Nat, Shaped(list, m, K)
  PROVE  /\ FirstPlaces(list) \in Seq(Int) /\ Len(FirstPlaces(list)) = m + 1
         /\ \A p \in 1..m + 1 : FirstPlaces(list)[p] = list[p]
<1> DEFINE n == Len(list)
<1>1. /\ list \in Seq(Int) /\ n \in Nat /\ m \in Nat /\ m < n
      /\ \A p \in 1..m : list[p] \in 1..K
      /\ \A p \in m + 1..n : list[p] = 0
      /\ \A p, q \in 1..m : list[p] = list[q] => p = q
  BY DEF Shaped
<1>2. PICK f \in [0..n -> Seq(Int)] :
        /\ f[0] = << >>
        /\ \A i \in 1..n :
             f[i] = IF Among(list[i], f[i - 1]) THEN f[i - 1] ELSE Append(f[i - 1], list[i])
        /\ FirstPlaces(list) = f[n]
  BY <1>1, FirstPlacesFollow
<1> HIDE DEF n
<1> DEFINE upto(i) == IF i <= m THEN i ELSE m + 1
           S == {i \in 0..n : Len(f[i]) = upto(i) /\ \A p \in 1..upto(i) : f[i][p] = list[p]}
<1>3. 0 \in S
  <2>1. upto(0) = 0 /\ 1..0 = {} /\ Len(f[0]) = 0 /\ 0 \in 0..n
    BY <1>1, <1>2
  <2> QED BY <2>1
<1>4. ASSUME NEW i \in 0..n - 1, i \in S PROVE i + 1 \in S
  <2> DEFINE k == i + 1
             a == f[i]
             b == f[k]
             u == upto(i)
  <2>1. k \in 1..n /\ k - 1 = i /\ k \in 0..n /\ i \in 0..n /\ u \in Nat
    BY <1>1
  <2>2. a \in Seq(Int) /\ Len(a) = u /\ \A p \in 1..u : a[p] = list[p]
    BY <1>2, <1>4, <2>1
  <2>3. b = IF Among(list[k], a) THEN a ELSE Append(a, list[k])
    BY <1>2, <2>1
  <2>4. list[k] \in Int
    BY <1>1, <2>1 DEF n
  <2>5. CASE k <= m + 1
    <3>1. u = i /\ upto(k) = k /\ i <= m
      BY <1>1, <2>1, <2>5
    <3>2. ASSUME NEW p \in 1..i PROVE list[p] # list[k]
      <4>1. p \in 1..m /\ list[p] \in 1..K
        BY <1>1, <3>1
      <4>2. CASE k = m + 1
        <5>1. list[k] = 0
          BY <1>1, <4>2
        <5> QED BY <4>1, <5>1
      <4>3. CASE k # m + 1
        <5>1. k \in 1..m /\ p # k
          BY <1>1, <2>1, <2>5, <4>3
        <5> QED BY <1>1, <4>1, <5>1
      <4> QED BY <4>2, <4>3
    <3> HIDE DEF k, a, b, u, upto
    <3>3. ~Among(list[k], a)
      <4>1. DOMAIN a = 1..i
        BY <2>2, <3>1
      <4> QED BY <2>2, <3>1, <3>2, <4>1 DEF Among
    <3>4. b = Append(a, list[k])
      BY <2>3, <3>3
    <3>5. /\ Len(b) = i + 1 /\ b[i + 1] = list[k]
          /\ \A p \in 1..i : b[p] = a[p]
      BY <2>2, <2>4, <3>1, <3>4
    <3>6. k = i + 1
      BY <2>1
    <3>7. \A p \in 1..k : p \in 1..i \/ p = k
      BY <2>1
    <3>8. \A p \in 1..k : b[p] = list[p]
      BY <2>2, <3>1, <3>5, <3>6, <3>7
    <3> QED BY <2>1, <3>1, <3>5, <3>6, <3>8 DEF k, b
  <2>6. CASE ~(k <= m + 1)
    <3>1. u = m + 1 /\ upto(k) = m + 1 /\ k \in m + 1..n /\ m + 1 \in m + 1..n /\ m + 1 \in 1..m + 1
      BY <1>1, <2>1, <2>6
    <3>2. list[k] = 0 /\ list[m + 1] = 0
      BY <1>1, <3>1
    <3> HIDE DEF k, a, b, u, upto
    <3>3. Among(list[k], a)
      <4>1. DOMAIN a = 1..m + 1 /\ a[m + 1] = 0
        BY <2>2, <3>1, <3>2
      <4> QED BY <3>1, <3>2, <4>1 DEF Among
    <3>4. b = a
      BY <2>3, <3>3
    <3> QED BY <2>1, <2>2, <3>1, <3>4 DEF k, b
  <2> QED BY <2>5, <2>6
<1>5. n \in S
  <2> HIDE DEF S
  <2>1. 0..n \subseteq S
    BY <1>1, <1>3, <1>4, Induct
  <2> QED BY <1>1, <2>1
<1>6. upto(n) = m + 1 /\ f[n] \in Seq(Int)
  BY <1>1, <1>2
<1> QED BY <1>2, <1>5, <1>6

LEMMA TotalPositive ==
  ASSUME NEW mros \in Lists, Len(mros) >= 1
  PROVE  Total(mros) >= 1
<1>1. PICK t \in [0..Len(mros) -> Nat] :
        /\ \A i \in 1..Len(mros) : t[i] = t[i - 1] + Len(mros[i])
        /\ Total(mros) = t[Len(mros)]
  BY TotalFollows
<1> DEFINE n == Len(mros)
           x == Len(mros[n])
           y == t[n - 1]
<1>2. n \in 1..n /\ n - 1 \in 0..n
  BY ListsAre
<1>3. mros[n] \in NotEmpty
  BY <1>2, ListsAre
<1>4. x \in Nat \ {0} /\ y \in Nat /\ Total(mros) = y + x
  BY <1>1, <1>2, <1>3, FullIs
<1> HIDE DEF x, y
<1> QED BY <1>4

\* Orders that are merged are lists of classes, and none of them is empty.
LEMMA OrdersAreLists ==
  ASSUME NEW L, NEW m, NEW K, MroLists(L, m, K)
  PROVE  L \in Lists
<1>1. L \in Seq(Seq(Int)) /\ Len(L) \in Nat
  BY DEF MroLists
<1>2. ASSUME NEW i \in 1..Len(L) PROVE L[i] \in NotEmpty
  <2> DEFINE list == L[i]
  <2>1. list \in Seq(Int) /\ m[i] \in Nat /\ m[i] < Len(list)
    BY OrdersAre
  <2> HIDE DEF list
  <2>2. list # << >>
    <3>1. Len(list) # 0 /\ Len(<< >>) = 0
      BY <2>1
    <3> QED BY <3>1
  <2> QED BY <2>1, <2>2 DEF NotEmpty, list
<1> DEFINE n == Len(L)
<1>3. L = [i \in 1..n |-> L[i]] /\ n \in Nat
  BY <1>1
<1>4. L \in [1..n -> NotEmpty]
  BY <1>2, <1>3
<1> HIDE DEF n
<1>5. L \in Seq(NotEmpty)
  BY <1>3, <1>4, SeqDef
<1> QED BY <1>5 DEF Lists

\* At first nothing is taken.
LEMMA NothingTaken ==
  ASSUME NEW L, NEW m, NEW K, MroLists(L, m, K)
  PROVE  LET d == [i \in 1..Len(L) |-> 0]
         IN Taken(L, m, K, d, << >>) /\ Remaining(L, L, d)
<1> DEFINE d == [i \in 1..Len(L) |-> 0]
<1>1. Len(<< >>) = 0 /\ << >> \in Seq(Int) /\ 1..0 = {} /\ DOMAIN << >> = {}
  OBVIOUS
<1>2. \A c : ~Among(c, << >>)
  BY <1>1 DEF Among
<1>3. d \in [1..Len(L) -> Nat] /\ \A i \in 1..Len(L) : d[i] = 0
  OBVIOUS
<1> HIDE DEF d
<1>4. Taken(L, m, K, d, << >>)
  <2>1. ASSUME NEW i \in 1..Len(L)
        PROVE  d[i] <= m[i] /\ \A p \in 1..m[i] : Among(L[i][p], << >>) <=> p <= d[i]
    <3>1. m[i] \in Nat
      BY OrdersAre
    <3> QED BY <1>2, <1>3, <3>1
  <2>2. Len(L) = 1 => d[1] = Len(<< >>)
    BY <1>1, <1>3
  <2> QED BY <1>1, <1>3, <2>1, <2>2 DEF Taken
<1>5. Remaining(L, L, d)
  <2>1. ASSUME NEW i \in 1..Len(L)
        PROVE  /\ Len(L[i]) = Len(L[i]) - d[i]
               /\ \A p \in 1..Len(L[i]) - d[i] : L[i][p] = L[i][p + d[i]]
    <3>1. Len(L[i]) \in Nat
      BY OrdersAre
    <3> QED BY <1>3, <3>1
  <2> QED BY <2>1, OrdersAreLists DEF Remaining
<1> QED BY <1>4, <1>5 DEF d

LEMMA InductFrom ==
  ASSUME NEW S, NEW n \in Nat, NEW k \in 0..n, k \in S,
         \A i \in k..n - 1 : i \in S => i + 1 \in S
  PROVE  n \in S
<1> DEFINE T == {i \in 0..n : i >= k => i \in S}
<1>1. 0 \in T
  OBVIOUS
<1>2. ASSUME NEW i \in 0..n - 1, i \in T PROVE i + 1 \in T
  <2>1. CASE i + 1 = k
    BY <2>1
  <2>2. CASE i + 1 < k
    BY <2>2
  <2>3. CASE i + 1 > k
    <3>1. i \in k..n - 1 /\ i \in S
      BY <1>2, <2>3
    <3> QED BY <3>1
  <2> QED BY <2>1, <2>2, <2>3
<1>3. 0..n \subseteq T
  <2> HIDE DEF T
  <2> QED BY <1>1, <1>2, Induct
<1> QED BY <1>3

\* k rounds of both merges take the same k classes; with one list the code has
\* no rounds.
Together(L, m, K, d, order, k, g, f, T) ==
  /\ Taken(L, m, K, d, order) /\ Len(order) = k /\ g[k] = order
  /\ Len(L) >= 2 =>
       /\ f[k].state = "on" /\ f[k].order = order /\ Remaining(f[k].mros, L, d)
       /\ k <= T /\ Total(f[k].mros) + k <= T

\* The rounds of both merges.
MergesOf(L, R, n, g, f) ==
  /\ g \in [0..n -> Seq(Int)] /\ g[0] = << >>
  /\ \A k \in 1..n : g[k] = MergeNext(R, g[k - 1])
  /\ f \in [0..Total(L) -> RoundsAre]
  /\ f[0] = [mros |-> L, order |-> << >>, state |-> "on"]
  /\ \A k \in 1..Total(L) : f[k] = MergeRound(f[k - 1])

LEMMA TogetherMore ==
  ASSUME NEW L, NEW m, NEW K, MroLists(L, m, K), NEW R, Firsts(R, L, m),
         NEW n \in Nat, n > K, NEW g, NEW f, MergesOf(L, R, n, g, f),
         NEW k \in 0..n, NEW d, NEW order, Together(L, m, K, d, order, k, g, f, Total(L))
  PROVE  /\ k + 1 \in 1..n /\ g[k + 1] = MergeNext(R, order)
         /\ Len(L) >= 2 => k + 1 \in 1..Total(L) /\ f[k + 1] = MergeRound(f[k]) /\ f[k] \in RoundsAre
         /\ Left(L, m, d) # {} /\ GoodOnes(L, m, d) # {} =>
              \E e, longer : Together(L, m, K, e, longer, k + 1, g, f, Total(L))
<1> DEFINE T == Total(L)
<1>1. /\ Taken(L, m, K, d, order) /\ Len(order) = k /\ g[k] = order
      /\ Len(L) >= 2 =>
           /\ f[k].state = "on" /\ f[k].order = order /\ Remaining(f[k].mros, L, d)
           /\ k <= T /\ Total(f[k].mros) + k <= T
  BY DEF Together
<1>2. K \in Nat /\ T \in Nat
  BY OrdersAre, OrdersAreLists, TotalNat
<1>3. k <= K
  BY <1>1, <1>2, TakenFew
<1>4. k + 1 \in 1..n /\ k + 1 - 1 = k
  BY <1>2, <1>3
<1>5. g[k + 1] = MergeNext(R, order)
  BY <1>1, <1>4 DEF MergesOf
<1> HIDE DEF T
<1>6. ASSUME Len(L) >= 2
      PROVE  /\ k + 1 \in 1..T /\ f[k + 1] = MergeRound(f[k]) /\ f[k] \in RoundsAre
             /\ Total(f[k].mros) \in Nat
  <2>1. f[k].mros \in Lists /\ Len(f[k].mros) >= 1
    BY <1>1, <1>6 DEF Remaining
  <2>2. Total(f[k].mros) \in Nat /\ Total(f[k].mros) >= 1
    BY <2>1, TotalNat, TotalPositive
  <2>3. k + 1 \in 1..T /\ k \in 0..T
    BY <1>1, <1>2, <1>6, <2>2
  <2>4. f \in [0..T -> RoundsAre] /\ \A l \in 1..T : f[l] = MergeRound(f[l - 1])
    BY DEF MergesOf, T
  <2>5. f[k + 1] = MergeRound(f[k + 1 - 1])
    BY <2>3, <2>4
  <2>6. f[k + 1] = MergeRound(f[k])
    BY <1>4, <2>5
  <2> QED BY <2>2, <2>3, <2>4, <2>6
<1>7. ASSUME Left(L, m, d) # {}, GoodOnes(L, m, d) # {}
      PROVE  \E e, longer : Together(L, m, K, e, longer, k + 1, g, f, T)
  <2>1. GoodOnes(L, m, d) \subseteq Nat
    BY DEF GoodOnes, Left
  <2>2. PICK i \in GoodOnes(L, m, d) : \A j \in GoodOnes(L, m, d) : i <= j
    BY <1>7, <2>1, Least
  <2> DEFINE class == FirstLeft(L, d, i)
             e == Advanced(L, m, d, class)
             longer == Append(order, class)
  <2>3. class \in 1..K /\ Taken(L, m, K, e, longer)
    BY <1>1, TakenNext
  <2>4. g[k + 1] = longer
    BY <1>1, <1>5, <2>2, MergeGoesOn
  <2>5. Len(longer) = k + 1
    <3>1. order \in Seq(Int) /\ class \in Int
      BY <1>1, <1>2, <2>3 DEF Taken
    <3> HIDE DEF class
    <3>2. Len(longer) = Len(order) + 1
      BY <3>1, AmongAppended
    <3> QED BY <1>1, <3>2
  <2>6. ASSUME Len(L) >= 2
        PROVE  /\ f[k + 1].state = "on" /\ f[k + 1].order = longer
               /\ Remaining(f[k + 1].mros, L, e)
               /\ k + 1 <= T /\ Total(f[k + 1].mros) + (k + 1) <= T
    <3> DEFINE x == f[k]
               y == f[k + 1]
    <3>1. x \in RoundsAre /\ x.state = "on" /\ x.order = order /\ Remaining(x.mros, L, d) /\ y = MergeRound(x)
      BY <1>1, <1>6, <2>6
    <3> HIDE DEF x, y
    <3>2. /\ y.state = "on" /\ y.order = longer /\ Remaining(y.mros, L, e)
          /\ Total(y.mros) \in Nat \ {0} /\ Total(y.mros) < Total(x.mros)
      BY <1>1, <1>7, <2>2, <2>6, <3>1, RoundTakes
    <3>3. Total(x.mros) \in Nat /\ Total(x.mros) + k <= T
      BY <1>1, <1>6, <2>6 DEF x
    <3> DEFINE a == Total(y.mros)
               b == Total(x.mros)
    <3>4. a \in Nat \ {0} /\ b \in Nat /\ a < b /\ b + k <= T
      BY <3>2, <3>3
    <3> HIDE DEF a, b
    <3>5. a + (k + 1) <= T /\ k + 1 <= T
      BY <1>2, <3>4
    <3> QED BY <3>2, <3>5 DEF y, a
  <2> HIDE DEF e, longer, class
  <2>7. Together(L, m, K, e, longer, k + 1, g, f, T)
    BY <2>3, <2>4, <2>5, <2>6 DEF Together
  <2> QED BY <2>7
<1> QED BY <1>4, <1>5, <1>6, <1>7 DEF T

\* They go on together until no list has a class that can be taken.
LEMMA TogetherEnds ==
  ASSUME NEW L, NEW m, NEW K, MroLists(L, m, K), NEW R, Firsts(R, L, m),
         NEW n \in Nat, n > K, NEW g, NEW f, MergesOf(L, R, n, g, f)
  PROVE  \E k \in 0..n : \E d, order :
           /\ Together(L, m, K, d, order, k, g, f, Total(L))
           /\ Left(L, m, d) = {} \/ GoodOnes(L, m, d) = {}
<1> SUFFICES ASSUME \A k \in 0..n : \A d, order :
                      Together(L, m, K, d, order, k, g, f, Total(L)) =>
                        Left(L, m, d) # {} /\ GoodOnes(L, m, d) # {}
             PROVE  FALSE
  OBVIOUS
<1> DEFINE S == {k \in 0..n : \E d, order : Together(L, m, K, d, order, k, g, f, Total(L))}
<1>1. 0 \in S
  <2> DEFINE d == [i \in 1..Len(L) |-> 0]
  <2>1. Taken(L, m, K, d, << >>) /\ Remaining(L, L, d)
    BY NothingTaken
  <2> HIDE DEF d
  <2>2. Total(L) \in Nat /\ Len(<< >>) = 0
    BY OrdersAreLists, TotalNat
  <2>3. f[0].mros = L /\ f[0].state = "on" /\ f[0].order = << >> /\ g[0] = << >>
    BY DEF MergesOf
  <2>4. Together(L, m, K, d, << >>, 0, g, f, Total(L))
    BY <2>1, <2>2, <2>3 DEF Together
  <2> QED BY <2>4
<1>2. ASSUME NEW k \in 0..n - 1, k \in S PROVE k + 1 \in S
  <2>1. PICK d, order : Together(L, m, K, d, order, k, g, f, Total(L))
    BY <1>2
  <2>2. k \in 0..n /\ k + 1 \in 0..n
    OBVIOUS
  <2>3. Left(L, m, d) # {} /\ GoodOnes(L, m, d) # {}
    BY <2>1, <2>2
  <2>4. \E e, longer : Together(L, m, K, e, longer, k + 1, g, f, Total(L))
    BY <2>1, <2>2, <2>3, TogetherMore
  <2> QED BY <2>2, <2>4
<1>3. n \in S
  <2> HIDE DEF S
  <2>1. 0..n \subseteq S
    BY <1>1, <1>2, Induct
  <2> QED BY <2>1
<1>4. PICK d, order : Together(L, m, K, d, order, n, g, f, Total(L))
  BY <1>3
<1>5. n <= K
  BY <1>4, OrdersAre, TakenFew DEF Together
<1> QED BY <1>5, OrdersAre

\* What comes of a merge: the classes that were taken, then object.
Continues(list, order) ==
  /\ list \in Seq(Int) /\ Len(order) < Len(list)
  /\ \A p \in 1..Len(order) : list[p] = order[p]
  /\ \A p \in Len(order) + 1..Len(list) : list[p] = 0

StartsAs(list, n, merge) == Len(merge) = n /\ \A p \in 1..n : merge[p] = list[p]

LEMMA ShapedFrom ==
  ASSUME NEW L, NEW m, NEW K \in Nat, NEW d, NEW order, Taken(L, m, K, d, order),
         NEW list, Continues(list, order)
  PROVE  /\ Shaped(list, Len(order), K)
         /\ StartsAs(list, Len(order) + 1, Append(order, 0))
<1>1. /\ order \in Seq(Int) /\ Len(order) \in Nat /\ Len(list) \in Nat
      /\ \A p \in 1..Len(order) : order[p] \in 1..K
      /\ \A p, q \in 1..Len(order) : order[p] = order[q] => p = q
      /\ list \in Seq(Int) /\ Len(order) < Len(list)
      /\ \A p \in 1..Len(order) : list[p] = order[p]
      /\ \A p \in Len(order) + 1..Len(list) : list[p] = 0
  BY DEF Taken, Continues
<1>2. Shaped(list, Len(order), K)
  BY <1>1 DEF Shaped
<1> DEFINE s == Append(order, 0)
<1>3. Len(s) = Len(order) + 1 /\ s[Len(order) + 1] = 0 /\ \A p \in 1..Len(order) : s[p] = order[p]
  BY <1>1, AmongAppended
<1> HIDE DEF s
<1>4. \A p \in 1..Len(order) + 1 : p \in 1..Len(order) \/ p = Len(order) + 1
  BY <1>1
<1>5. Len(order) + 1 \in Len(order) + 1..Len(list)
  BY <1>1
<1>6. \A p \in 1..Len(order) + 1 : s[p] = list[p]
  BY <1>1, <1>3, <1>4, <1>5
<1> QED BY <1>2, <1>3, <1>6 DEF s, StartsAs

\* What comes of a merge that gets stuck: the classes that were taken, and what
\* is left of the first list.
LEMMA ShapedStuck ==
  ASSUME NEW L, NEW m, NEW K, MroLists(L, m, K), NEW d, NEW order, Taken(L, m, K, d, order),
         NEW mros, Remaining(mros, L, d)
  PROVE  Shaped(order \o mros[1], Len(order) + (m[1] - d[1]), K)
<1> DEFINE a == Len(order)
           list == mros[1]
           base == L[1]
           b == Len(list)
           e == d[1]
           u == m[1]
           s == order \o list
<1>1. 1 \in 1..Len(L) /\ K \in Nat
  BY OrdersAre
<1>2. IsRemaining(mros, L, m, d, 1)
  BY <1>1, RemainingIs
<1>3. /\ e \in Nat /\ u \in Nat /\ e <= u /\ u < Len(base) /\ Len(base) \in Nat /\ b = Len(base) - e
      /\ \A p \in 1..Len(base) - e : list[p] = base[p + e]
      /\ \A p \in u + 1..Len(base) : base[p] = 0
      /\ \A p, q \in 1..u : base[p] = base[q] => p = q
  BY <1>2 DEF IsRemaining
<1>4. list \in Seq(Int) /\ order \in Seq(Int) /\ a \in Nat /\ DOMAIN order = 1..a
  <2>1. list \in NotEmpty
    BY <1>2 DEF IsRemaining
  <2> HIDE DEF list
  <2>2. list \in Seq(Int)
    BY <2>1, FullIs
  <2> QED BY <2>2 DEF Taken
<1>5. /\ \A p \in 1..a : order[p] \in 1..K
      /\ \A p, q \in 1..a : order[p] = order[q] => p = q
      /\ \A p \in 1..u : Among(base[p], order) <=> p <= e
  BY <1>1 DEF Taken
<1>6. \A p \in 1..u : base[p] \in 1..K
  BY <1>1, OrdersAre
<1> HIDE DEF list, base, b, e, u
<1>7. /\ s \in Seq(Int) /\ Len(s) = a + b
      /\ \A p \in 1..a + b : s[p] = IF p <= a THEN order[p] ELSE list[p - a]
  <2>1. b \in Nat /\ b = Len(list)
    BY <1>3 DEF b
  <2> QED BY <1>4, <2>1
<1> HIDE DEF a, s
<1> DEFINE k == a + (u - e)
<1>8. k \in Nat /\ k < a + b
  BY <1>3, <1>4
<1>9. ASSUME NEW p \in 1..a PROVE s[p] = order[p]
  <2>1. p \in 1..a + b /\ p <= a
    BY <1>3, <1>4
  <2> QED BY <1>7, <2>1
<1>10. ASSUME NEW p \in a + 1..a + b PROVE s[p] = base[p - a + e]
  <2>1. p \in 1..a + b /\ ~(p <= a) /\ p - a \in 1..Len(base) - e
    BY <1>3, <1>4
  <2> QED BY <1>3, <1>7, <2>1
<1>11. ASSUME NEW p \in 1..k
       PROVE  p \in 1..a \/ (p \in a + 1..a + b /\ p - a + e \in 1..u /\ ~(p - a + e <= e))
  BY <1>3, <1>4
<1>12. ASSUME NEW p \in 1..k PROVE s[p] \in 1..K
  BY <1>5, <1>6, <1>9, <1>10, <1>11
<1>13. ASSUME NEW p \in k + 1..a + b PROVE s[p] = 0
  <2>1. p \in a + 1..a + b /\ p - a + e \in u + 1..Len(base)
    BY <1>3, <1>4
  <2> QED BY <1>3, <1>10, <2>1
<1>14. ASSUME NEW p \in 1..a, NEW q \in 1..k, q \notin 1..a PROVE s[p] # s[q]
  <2>1. q \in a + 1..a + b /\ q - a + e \in 1..u /\ ~(q - a + e <= e)
    BY <1>11, <1>14
  <2>2. s[q] = base[q - a + e] /\ ~Among(base[q - a + e], order)
    BY <1>5, <1>10, <2>1
  <2>3. s[p] = order[p]
    BY <1>9
  <2> QED BY <1>4, <2>2, <2>3 DEF Among
<1>15. ASSUME NEW p \in 1..k, NEW q \in 1..k, s[p] = s[q] PROVE p = q
  <2>1. CASE p \in 1..a /\ q \in 1..a
    BY <1>5, <1>9, <1>15, <2>1
  <2>2. CASE p \notin 1..a /\ q \notin 1..a
    <3>1. /\ p \in a + 1..a + b /\ p - a + e \in 1..u
          /\ q \in a + 1..a + b /\ q - a + e \in 1..u
      BY <1>11, <2>2
    <3>2. base[p - a + e] = base[q - a + e]
      BY <1>10, <1>15, <3>1
    <3>3. p - a + e = q - a + e
      BY <1>3, <3>1, <3>2
    <3> QED BY <1>3, <1>4, <3>1, <3>3
  <2>3. CASE p \in 1..a /\ q \notin 1..a
    BY <1>14, <1>15, <2>3
  <2>4. CASE p \notin 1..a /\ q \in 1..a
    BY <1>14, <1>15, <2>4
  <2> QED BY <2>1, <2>2, <2>3, <2>4
<1>16. Shaped(s, k, K)
  BY <1>7, <1>8, <1>12, <1>13, <1>15 DEF Shaped
<1> QED BY <1>16 DEF s, a, u, e, list

\* What comes of rounds that find object alone.
Outcome(x) == IF x.mros = << >> THEN x.order ELSE x.order \o x.mros[1]

LEMMA EndingShaped ==
  ASSUME NEW L, NEW m, NEW K \in Nat, NEW d, NEW order, Taken(L, m, K, d, order),
         NEW x, Ending(x, order)
  PROVE  Continues(Outcome(x), order)
<1> DEFINE a == Len(order)
           b == Len(x.order)
<1>1. /\ x.mros \in Lists /\ x.order \in Seq(Int) /\ order \in Seq(Int) /\ a \in Nat /\ b \in Nat
      /\ a <= b
      /\ \A p \in 1..a : x.order[p] = order[p]
      /\ \A p \in a + 1..b : x.order[p] = 0
      /\ OnlyObject(x.mros)
      /\ a < b \/ x.mros # << >>
  BY DEF Ending, RoundsAre, Taken
<1>2. CASE x.mros = << >>
  <2>1. Outcome(x) = x.order /\ a < b
    BY <1>1, <1>2 DEF Outcome
  <2>2. Continues(x.order, order)
    BY <1>1, <2>1 DEF Continues
  <2> QED BY <2>1, <2>2
<1>3. CASE x.mros # << >>
  <2> DEFINE last == x.mros[1]
             c == Len(last)
             list == x.order \o last
  <2>1. 1 \in 1..Len(x.mros)
    <3>1. Len(x.mros) \in Nat /\ Len(x.mros) # 0
      BY <1>1, <1>3 DEF Lists
    <3> QED BY <3>1
  <2>2. last \in NotEmpty /\ \A p \in 1..c : last[p] = 0
    BY <1>1, <2>1, ListsAre DEF OnlyObject
  <2> HIDE DEF last
  <2>3. last \in Seq(Int) /\ c \in Nat \ {0}
    BY <2>2, FullIs
  <2>4. /\ list \in Seq(Int) /\ Len(list) = b + c
        /\ \A p \in 1..b + c : list[p] = IF p <= b THEN x.order[p] ELSE last[p - b]
    BY <1>1, <2>3
  <2> HIDE DEF list, a, b, c
  <2>5. a < Len(list)
    BY <1>1, <2>3, <2>4
  <2>6. ASSUME NEW p \in 1..a PROVE list[p] = order[p]
    <3>1. p \in 1..b + c /\ p <= b
      BY <1>1, <2>3
    <3> QED BY <1>1, <2>4, <3>1
  <2>7. ASSUME NEW p \in a + 1..b + c PROVE list[p] = 0
    <3>1. p \in 1..b + c /\ (p <= b => p \in a + 1..b) /\ (~(p <= b) => p - b \in 1..c)
      BY <1>1, <2>3
    <3> QED BY <1>1, <2>2, <2>4, <3>1
  <2>8. Outcome(x) = list
    BY <1>3 DEF list, last, Outcome
  <2>9. Continues(list, order)
    BY <2>4, <2>5, <2>6, <2>7 DEF a, Continues
  <2> QED BY <2>8, <2>9
<1> QED BY <1>2, <1>3

\* The code's merge has one outcome, an order, and it is the merge if there is
\* one.
IsMerged(L, K, merge, list, e) ==
  /\ MergeMro(L) = {list} /\ Shaped(list, e, K)
  /\ ~Among(Stuck, merge) => StartsAs(list, e + 1, merge)

LEMMA MergesExist ==
  ASSUME NEW L \in Lists, NEW R \in Seq(Seq(Int)), NEW n \in Nat
  PROVE  \E g, f : /\ MergesOf(L, R, n, g, f) /\ Merge(R, n) = g[n]
                  /\ MergeRounds(L)[Total(L)] = f[Total(L)]
<1>1. PICK g \in [0..n -> Seq(Int)] :
        /\ g[0] = << >>
        /\ \A k \in 1..n : g[k] = MergeNext(R, g[k - 1])
        /\ Merge(R, n) = g[n]
  BY MergeFollows
<1>2. PICK f \in [0..Total(L) -> RoundsAre] :
        /\ f[0] = [mros |-> L, order |-> << >>, state |-> "on"]
        /\ \A k \in 1..Total(L) : f[k] = MergeRound(f[k - 1])
        /\ MergeRounds(L)[Total(L)] = f[Total(L)]
  BY MergeRoundsFollow
<1> QED BY <1>1, <1>2 DEF MergesOf

LEMMA MergeIs ==
  ASSUME NEW L, NEW m, NEW K, MroLists(L, m, K), NEW R, Firsts(R, L, m), NEW n \in Nat, n > K
  PROVE  Merge(R, n) \in Seq(Int) /\ \E list, e : IsMerged(L, K, Merge(R, n), list, e)
<1> DEFINE T == Total(L)
           merge == Merge(R, n)
<1>1. R \in Seq(Seq(Int)) /\ L \in Lists /\ T \in Nat /\ K \in Nat
  BY OrdersAre, OrdersAreLists, TotalNat DEF Firsts
<1>4. PICK g, f : MergesOf(L, R, n, g, f) /\ merge = g[n] /\ MergeRounds(L)[T] = f[T]
  BY <1>1, MergesExist
<1>2. /\ g \in [0..n -> Seq(Int)] /\ \A k \in 1..n : g[k] = MergeNext(R, g[k - 1])
      /\ merge = g[n]
  BY <1>4 DEF MergesOf
<1>3. /\ f \in [0..T -> RoundsAre] /\ f[0] = [mros |-> L, order |-> << >>, state |-> "on"]
      /\ \A k \in 1..T : f[k] = MergeRound(f[k - 1])
      /\ MergeRounds(L)[T] = f[T]
  BY <1>4 DEF MergesOf
<1>5. PICK k \in 0..n : \E d, order :
        /\ Together(L, m, K, d, order, k, g, f, T)
        /\ Left(L, m, d) = {} \/ GoodOnes(L, m, d) = {}
  BY <1>4, TogetherEnds
<1>6. PICK d, order :
        /\ Together(L, m, K, d, order, k, g, f, T)
        /\ Left(L, m, d) = {} \/ GoodOnes(L, m, d) = {}
  BY <1>5
<1>7. /\ k + 1 \in 1..n /\ g[k + 1] = MergeNext(R, order)
      /\ Len(L) >= 2 => k + 1 \in 1..T /\ f[k + 1] = MergeRound(f[k]) /\ f[k] \in RoundsAre
  <2>1. Together(L, m, K, d, order, k, g, f, Total(L))
    BY <1>6
  <2> HIDE DEF T
  <2>2. /\ k + 1 \in 1..n /\ g[k + 1] = MergeNext(R, order)
        /\ Len(L) >= 2 => k + 1 \in 1..Total(L) /\ f[k + 1] = MergeRound(f[k]) /\ f[k] \in RoundsAre
    BY ONLY MroLists(L, m, K), Firsts(R, L, m), n \in Nat, n > K, <1>4, k \in 0..n, <2>1, TogetherMore
  <2> QED BY <2>2 DEF T
<1>8. /\ Taken(L, m, K, d, order) /\ Len(order) = k /\ order \in Seq(Int)
      /\ Len(L) >= 2 => f[k].state = "on" /\ f[k].order = order /\ Remaining(f[k].mros, L, d)
  BY <1>6 DEF Together, Taken
<1>9. f[T].state # "thrown" => MergeMro(L) = {Outcome(f[T])}
  BY <1>3 DEF MergeMro, Outcome
<1>10. merge \in Seq(Int)
  BY <1>2
<1> HIDE DEF T, merge
<1>11. ASSUME NEW s, g[k + 1] = s, MergeNext(R, s) = s PROVE merge = s
  <2> DEFINE S == {i \in 0..n : g[i] = s}
  <2>1. k + 1 \in 0..n /\ k + 1 \in S
    BY <1>7, <1>11
  <2>2. ASSUME NEW i \in k + 1..n - 1, i \in S PROVE i + 1 \in S
    <3>1. i + 1 \in 1..n /\ i + 1 - 1 = i
      BY <1>7
    <3>2. g[i + 1] = MergeNext(R, g[i])
      BY <1>2, <3>1
    <3> QED BY <1>11, <2>2, <3>1, <3>2
  <2> HIDE DEF S
  <2>3. n \in S
    BY <2>1, <2>2, InductFrom
  <2> QED BY <1>2, <2>3 DEF S
<1>12. ASSUME Left(L, m, d) # {} PROVE Among(Stuck, merge)
  <2> DEFINE s == Append(order, Stuck)
  <2>1. s \in Seq(Int) /\ Among(Stuck, s)
    <3>1. Stuck \in Int
      BY DEF Stuck
    <3> QED BY <1>8, <3>1, AmongAppended
  <2>2. g[k + 1] = s
    <3>1. MergeNext(R, order) = Append(order, Stuck)
      BY ONLY MroLists(L, m, K), Firsts(R, L, m), <1>6, <1>8, <1>12, MergeGoesOn
    <3> QED BY <1>7, <3>1
  <2>3. MergeNext(R, s) = s
    BY <1>1, <2>1, MergeNextIs
  <2> HIDE DEF s
  <2>4. merge = s
    BY <1>11, <2>2, <2>3
  <2> QED BY <2>1, <2>4
<1>13. ASSUME Left(L, m, d) = {} PROVE merge = Append(order, 0)
  <2>1. MergeNext(R, order) = Append(order, 0) /\ MergeNext(R, Append(order, 0)) = Append(order, 0)
    BY <1>8, <1>13, MergeGoesOn
  <2> QED BY <1>7, <1>11, <2>1
<1>14. CASE Len(L) = 1
  <2> DEFINE list == L[1]
  <2>1. ASSUME NEW i \in 0..T PROVE f[i] = f[0]
    <3> DEFINE S == {j \in 0..T : f[j] = f[0]}
    <3>1. 0 \in S
      BY <1>1
    <3>2. ASSUME NEW j \in 0..T - 1, j \in S PROVE j + 1 \in S
      <4>1. j + 1 \in 1..T /\ j + 1 - 1 = j /\ 0 \in 0..T
        BY <1>1
      <4>2. f[j + 1] = MergeRound(f[0])
        BY <1>3, <3>2, <4>1
      <4>3. f[0] \in RoundsAre /\ Len(f[0].mros) <= 1
        <5>1. f[0] \in RoundsAre /\ f[0].mros = L
          BY <1>3, <4>1
        <5> DEFINE l == Len(f[0].mros)
        <5>2. l = 1
          BY <1>14, <5>1
        <5> HIDE DEF l
        <5>3. l <= 1
          BY <5>2
        <5> QED BY <5>1, <5>3 DEF l
      <4>4. MergeRound(f[0]) = f[0]
        BY <4>3, MergeRoundIs
      <4> QED BY <4>1, <4>2, <4>4
    <3>3. 0..T \subseteq S
      <4> HIDE DEF S
      <4> QED BY <1>1, <3>1, <3>2, Induct
    <3> QED BY <3>3
  <2>2. f[T].state = "on" /\ f[T].mros = L /\ f[T].order = << >>
    <3>1. f[T] = f[0]
      BY <1>1, <2>1
    <3> QED BY <1>3, <3>1
  <2>3. Shaped(list, m[1], K) /\ list \in Seq(Int) /\ L # << >>
    <3>1. Shaped(list, m[1], K) /\ Len(L) # 0
      BY <1>14 DEF MroLists
    <3>2. L # << >>
      BY <3>1
    <3> QED BY <3>1, <3>2 DEF Shaped
  <2>4. MergeMro(L) = {list}
    <3>1. << >> \o list = list
      <4> HIDE DEF list
      <4> QED BY <2>3
    <3> HIDE DEF list
    <3>2. Outcome(f[T]) = list
      BY <2>2, <2>3, <3>1 DEF Outcome, list
    <3> QED BY <1>9, <2>2, <3>2
  <2>5. ASSUME Left(L, m, d) = {}
        PROVE  StartsAs(list, m[1] + 1, merge)
    <3>1. d[1] = Len(order) /\ \A p \in 1..Len(order) : order[p] = list[p]
      BY <1>8, <1>14 DEF Taken
    <3>2. m[1] \in Nat /\ d[1] \in Nat /\ d[1] <= m[1] /\ ~(d[1] < m[1])
      BY <1>8, <1>14, <2>3, <2>5 DEF Taken, Left, Shaped
    <3>3. d[1] = m[1]
      BY <3>2
    <3>4. Len(order) = m[1]
      BY <3>1, <3>3
    <3>5. m[1] < Len(list) /\ \A p \in m[1] + 1..Len(list) : list[p] = 0
      BY <2>3 DEF Shaped
    <3> HIDE DEF list
    <3>6. Len(order) < Len(list) /\ \A p \in Len(order) + 1..Len(list) : list[p] = 0
      BY <3>4, <3>5
    <3>7. StartsAs(list, Len(order) + 1, Append(order, 0))
      <4>1. Continues(list, order)
        BY <2>3, <3>1, <3>6 DEF Continues
      <4>2. K \in Nat /\ Taken(L, m, K, d, order)
        BY <1>1, <1>8
      <4> QED BY ONLY <4>1, <4>2, ShapedFrom
    <3>8. merge = Append(order, 0)
      BY <1>13, <2>5
    <3> QED BY <3>4, <3>7, <3>8
  <2> HIDE DEF list
  <2>6. IsMerged(L, K, merge, list, m[1])
    BY <1>12, <2>3, <2>4, <2>5 DEF IsMerged
  <2> QED BY <1>10, <2>6 DEF merge
<1>15. CASE Len(L) >= 2 /\ Left(L, m, d) # {}
  <2> DEFINE mros == f[k].mros
             y == [mros |-> mros, order |-> order, state |-> "left"]
             list == order \o mros[1]
             e == Len(order) + (m[1] - d[1])
  <2>1. GoodOnes(L, m, d) = {} /\ Remaining(mros, L, d)
    BY <1>6, <1>8, <1>15
  <2>2. f[k + 1] = y
    <3> DEFINE x == f[k]
    <3>1. x \in RoundsAre /\ x.state = "on" /\ x.order = order /\ Remaining(x.mros, L, d)
      BY <1>7, <1>8, <1>15
    <3> HIDE DEF x
    <3>2. MergeRound(x) = [mros |-> x.mros, order |-> order, state |-> "left"]
      <4>1. GoodOnes(L, m, d) = {} /\ Taken(L, m, K, d, order)
        BY <1>8, <2>1
      <4> QED BY ONLY MroLists(L, m, K), <1>15, <3>1, <4>1, RoundTakes
    <3> QED BY <1>7, <1>15, <3>2 DEF x
  <2>3. f[T] = y
    <3> DEFINE S == {i \in 0..T : f[i] = y}
    <3>1. k + 1 \in 0..T /\ k + 1 \in S
      BY <1>7, <1>15, <2>2
    <3>2. y \in RoundsAre /\ y.state # "on"
      <4>1. k + 1 \in 0..T
        BY <3>1
      <4>2. f[k + 1] \in RoundsAre
        BY <1>3, <4>1
      <4>3. y.state # "on"
        OBVIOUS
      <4> HIDE DEF y
      <4> QED BY <2>2, <4>2, <4>3
    <3> HIDE DEF y
    <3>3. MergeRound(y) = y
      BY <3>2, MergeRoundIs
    <3>4. ASSUME NEW i \in k + 1..T - 1, i \in S PROVE i + 1 \in S
      <4>1. i + 1 \in 1..T /\ i + 1 - 1 = i
        BY <1>1, <3>1
      <4>2. f[i + 1] = MergeRound(f[i])
        BY <1>3, <4>1
      <4> QED BY <3>3, <3>4, <4>1, <4>2
    <3> HIDE DEF S
    <3>5. T \in S
      BY <1>1, <3>1, <3>4, InductFrom
    <3> QED BY <3>5 DEF S
  <2>4. mros # << >>
    <3>1. Len(mros) # 0
      BY <1>15, <2>1 DEF Remaining
    <3> HIDE DEF mros
    <3> QED BY <3>1
  <2>5. MergeMro(L) = {list}
    <3>1. f[T].state # "thrown" /\ Outcome(f[T]) = list
      BY <2>3, <2>4 DEF Outcome
    <3> QED BY <1>9, <3>1
  <2>6. Shaped(list, e, K)
    BY <1>8, <2>1, ShapedStuck
  <2>7. IsMerged(L, K, merge, list, e)
    BY <1>12, <1>15, <2>5, <2>6 DEF IsMerged
  <2> QED BY <1>10, <2>7 DEF merge
<1>16. CASE Len(L) >= 2 /\ Left(L, m, d) = {}
  <2>1. Ending(f[k], order)
    <3> DEFINE x == f[k]
    <3>1. x \in RoundsAre /\ x.state = "on" /\ x.order = order /\ Remaining(x.mros, L, d)
      BY <1>7, <1>8, <1>16
    <3> HIDE DEF x
    <3>2. ASSUME NEW j \in 1..Len(L) PROVE \A p \in 1..Len(x.mros[j]) : x.mros[j][p] = 0
      <4>1. IsRemaining(x.mros, L, m, d, j)
        BY <1>8, <3>1, RemainingIs
      <4>2. /\ d[j] \in Nat /\ m[j] \in Nat /\ d[j] <= m[j] /\ Len(L[j]) \in Nat
            /\ Len(x.mros[j]) = Len(L[j]) - d[j]
            /\ \A p \in 1..Len(L[j]) - d[j] : x.mros[j][p] = L[j][p + d[j]]
            /\ \A p \in m[j] + 1..Len(L[j]) : L[j][p] = 0
        BY <4>1 DEF IsRemaining
      <4>3. ~(d[j] < m[j])
        BY <1>16 DEF Left
      <4>4. \A p \in 1..Len(L[j]) - d[j] : p + d[j] \in m[j] + 1..Len(L[j])
        <5> DEFINE b == Len(L[j])
                   u == d[j]
                   v == m[j]
        <5>1. u \in Nat /\ v \in Nat /\ u = v /\ b \in Nat
          BY <4>2, <4>3
        <5> HIDE DEF b, u, v
        <5>2. \A p \in 1..b - u : p + u \in v + 1..b
          BY <5>1
        <5> QED BY <5>2 DEF b, u, v
      <4> QED BY <4>2, <4>4
    <3>3. OnlyObject(x.mros) /\ Len(x.mros) # 0
      <4>1. Len(x.mros) = Len(L)
        BY <3>1 DEF Remaining
      <4>2. Len(x.mros) # 0
        BY <1>16, <4>1
      <4>3. OnlyObject(x.mros)
        BY <3>2, <4>1 DEF OnlyObject
      <4> QED BY <4>2, <4>3
    <3>4. x.mros # << >>
      BY <3>3
    <3>5. \A p \in Len(order) + 1..Len(order) : FALSE
      BY <1>8
    <3> QED BY <1>8, <3>1, <3>3, <3>4, <3>5 DEF Ending, x
  <2>2. Ending(f[T], order)
    <3> DEFINE S == {i \in 0..T : Ending(f[i], order)}
    <3>1. k \in 0..T /\ k \in S
      <4>1. k + 1 \in 1..T /\ k \in 0..n
        BY <1>7, <1>16
      <4>2. k \in 0..T
        BY <1>1, <4>1
      <4> QED BY <2>1, <4>2
    <3>2. ASSUME NEW i \in k..T - 1, i \in S PROVE i + 1 \in S
      <4>1. i + 1 \in 1..T /\ i + 1 - 1 = i
        BY <1>1, <3>1
      <4>2. f[i + 1] = MergeRound(f[i])
        BY <1>3, <4>1
      <4> QED BY <1>8, <3>2, <4>1, <4>2, EndingStays
    <3> HIDE DEF S
    <3>3. T \in S
      BY <1>1, <3>1, <3>2, InductFrom
    <3> QED BY <3>3 DEF S
  <2> DEFINE list == Outcome(f[T])
  <2>3. Continues(list, order)
    <3>1. K \in Nat /\ Taken(L, m, K, d, order)
      BY <1>1, <1>8
    <3> QED BY ONLY <2>2, <3>1, EndingShaped
  <2>4. MergeMro(L) = {list}
    <3>1. f[T].state # "thrown"
      BY <2>2 DEF Ending
    <3> QED BY <1>9, <3>1
  <2> HIDE DEF list
  <2>5. Shaped(list, Len(order), K) /\ StartsAs(list, Len(order) + 1, merge)
    <3>1. merge = Append(order, 0)
      BY <1>13, <1>16
    <3>2. K \in Nat /\ Taken(L, m, K, d, order)
      BY <1>1, <1>8
    <3>3. Shaped(list, Len(order), K) /\ StartsAs(list, Len(order) + 1, Append(order, 0))
      BY ONLY <2>3, <3>2, ShapedFrom
    <3> QED BY <3>1, <3>3
  <2>6. IsMerged(L, K, merge, list, Len(order))
    BY <2>4, <2>5 DEF IsMerged
  <2> QED BY <1>10, <2>6 DEF merge
<1>17. Len(L) = 1 \/ Len(L) >= 2
  <2>1. Len(L) \in Nat \ {0}
    BY OrdersAre
  <2> DEFINE l == Len(L)
  <2>2. l \in Nat \ {0}
    BY <2>1
  <2> HIDE DEF l
  <2>3. l = 1 \/ l >= 2
    BY ONLY <2>2
  <2> QED BY <2>3 DEF l
<1> QED BY <1>14, <1>15, <1>16, <1>17

-----------------------------------------------------------------------------
(* What an instance keeps.                                                  *)

AttributeOrNone == AttributeValue \cup {Absent}

IsEntry(r) ==
  /\ r = [bases |-> r.bases, mro |-> r.mro, x |-> r.x, magic |-> r.magic, typeX |-> r.typeX]
  /\ r.x \in AttributeOrNone

\* The classes are a sequence, and all that happens to one is that its
\* attribute changes.
ClassesSo ==
  /\ classes \in Seq({classes[c] : c \in DOMAIN classes})
  /\ \A c \in DOMAIN classes : IsEntry(classes[c])

\* What x was when it was last read or stored is what the instance holds: the
\* attribute, or if there is none the method.
Held(o) ==
  IF o.attribute # Absent THEN Plain(o.attribute)
  ELSE IF o.method # Absent THEN BoundMethod(o.method)
  ELSE Absent

IsInstance(o) ==
  /\ o = [class |-> o.class, attribute |-> o.attribute, method |-> o.method, last |-> o.last]
  /\ o.attribute \in AttributeOrNone /\ o.method \in AttributeOrNone
  /\ o.last = Held(o)

InstanceSo ==
  /\ ClassesSo
  /\ object # Absent => IsInstance(object) /\ object.class \in DOMAIN classes

LEMMA SelfTyped ==
  ASSUME NEW T, NEW s \in Seq(T)
  PROVE  /\ s \in Seq({s[i] : i \in DOMAIN s})
         /\ DOMAIN s = 1..Len(s) /\ Len(s) \in Nat
<1> DEFINE U == {s[i] : i \in DOMAIN s}
<1>1. DOMAIN s = 1..Len(s) /\ Len(s) \in Nat /\ s = [i \in 1..Len(s) |-> s[i]]
  OBVIOUS
<1>2. \A i \in 1..Len(s) : s[i] \in U
  BY <1>1
<1> HIDE DEF U
<1>3. s \in [1..Len(s) -> U]
  BY <1>1, <1>2
<1>4. s \in Seq(U)
  BY <1>1, <1>3, SeqDef
<1> QED BY <1>1, <1>4 DEF U

LEMMA ReadGives ==
  ASSUME ClassesSo, NEW order
  PROVE  FirstIn(order, "x") \in AttributeOrNone
<1>1. \A c : Own(c, "x") \in AttributeOrNone
  BY DEF ClassesSo, IsEntry, Own, AttributeOrNone
<1>2. Absent \in AttributeOrNone
  BY DEF AttributeOrNone
<1> QED BY <1>1, <1>2 DEF FirstIn

\* Reading an attribute makes what it gave what the instance holds.
LEMMA ReadKeeps ==
  ASSUME ClassesSo, NEW o, IsInstance(o)
  PROVE  /\ IsInstance(Touch(AfterRead(o), Reads(o)))
         /\ Touch(AfterRead(o), Reads(o)).class = o.class
<1> DEFINE v == GetAttr(o.class, "x")
           w == GetAttr(o.class, "__getattr__")
           p == AfterRead(o)
           q == Touch(p, Reads(o))
<1>1. v \in AttributeOrNone
  BY ReadGives DEF GetAttr
<1>2. Reads(o) = IF w # Absent THEN Called("__getattr__")
                 ELSE IF o.attribute # Absent THEN Plain(o.attribute)
                 ELSE IF o.method # Absent THEN BoundMethod(o.method)
                 ELSE IF v # Absent THEN BindSelf(v)
                 ELSE Raised
  BY DEF Reads
<1>3. p = IF w # Absent \/ o.attribute # Absent \/ o.method # Absent \/ v = Absent THEN o
          ELSE CacheAttr(o, v)
  BY DEF AfterRead
<1> HIDE DEF v, w, p
<1>4. q = IF Reads(o)[1] \in {"plain", "bound"} THEN [p EXCEPT !.last = Reads(o)] ELSE p
  BY DEF Touch
<1> HIDE DEF q
<1> USE DEF IsInstance, Plain, BoundMethod, Called, Raised, Held
<1>5. CASE w # Absent
  BY <1>2, <1>3, <1>4, <1>5 DEF p, q
<1>6. CASE w = Absent /\ o.attribute # Absent
  BY <1>2, <1>3, <1>4, <1>6 DEF p, q
<1>7. CASE w = Absent /\ o.attribute = Absent /\ o.method # Absent
  BY <1>2, <1>3, <1>4, <1>7 DEF p, q
<1>8. CASE w = Absent /\ o.attribute = Absent /\ o.method = Absent /\ v = Absent
  BY <1>2, <1>3, <1>4, <1>8 DEF p, q
<1>9. CASE w = Absent /\ o.attribute = Absent /\ o.method = Absent /\ v # Absent
  <2> DEFINE r == Reads(o)
             c == o.class
  <2>1. o = [class |-> c, attribute |-> Absent, method |-> Absent, last |-> o.last]
    BY <1>9
  <2>2. r = BindSelf(v) /\ p = CacheAttr(o, v)
    BY <1>2, <1>3, <1>9
  <2> HIDE DEF r, c
  <2>3. CASE v \in Function
    <3>1. r = <<"bound", v>> /\ r[1] = "bound"
      BY <2>2, <2>3 DEF BindSelf
    <3>2. p = [class |-> c, attribute |-> Absent, method |-> v, last |-> o.last]
      BY <2>1, <2>2, <2>3 DEF CacheAttr
    <3>3. q = [p EXCEPT !.last = r]
      BY <1>4, <3>1 DEF r
    <3>4. q = [class |-> c, attribute |-> Absent, method |-> v, last |-> r]
      BY <3>2, <3>3
    <3> QED BY <1>1, <1>9, <2>1, <3>1, <3>4 DEF p, q, AttributeOrNone, c
  <2>4. CASE v \notin Function
    <3>1. r = <<"plain", v>> /\ r[1] = "plain"
      BY <2>2, <2>4 DEF BindSelf
    <3>2. p = [class |-> c, attribute |-> v, method |-> Absent, last |-> o.last]
      BY <2>1, <2>2, <2>4 DEF CacheAttr
    <3>3. q = [p EXCEPT !.last = r]
      BY <1>4, <3>1 DEF r
    <3>4. q = [class |-> c, attribute |-> v, method |-> Absent, last |-> r]
      BY <3>2, <3>3
    <3> QED BY <1>1, <1>9, <2>1, <3>1, <3>4 DEF p, q, AttributeOrNone, c
  <2> QED BY <2>3, <2>4
<1> QED BY <1>5, <1>6, <1>7, <1>8, <1>9

LEMMA StoringKeeps ==
  ASSUME NEW o, IsInstance(o), NEW v \in AttributeValue
  PROVE  /\ IsInstance(Touch([o EXCEPT !.attribute = v], Plain(v)))
         /\ Touch([o EXCEPT !.attribute = v], Plain(v)).class = o.class
<1>1. Plain(v) = <<"plain", v>> /\ Plain(v)[1] = "plain"
  BY DEF Plain
<1>2. v # Absent /\ v \in AttributeOrNone
  BY ClassesAssumption DEF AttributeValue, AttributeOrNone
<1>3. Touch([o EXCEPT !.attribute = v], Plain(v))
        = [class |-> o.class, attribute |-> v, method |-> o.method, last |-> Plain(v)]
  BY <1>1 DEF Touch, IsInstance
<1>4. IsInstance([class |-> o.class, attribute |-> v, method |-> o.method, last |-> Plain(v)])
  BY <1>1, <1>2 DEF IsInstance, Held
<1> QED
  BY <1>3, <1>4

LEMMA InstanceInitially == ClassInit => InstanceSo
BY DEF ClassInit, InstanceSo, ClassesSo

\* What an action says of a class changes one field of it.
LEMMA ClassChanged ==
  ASSUME ClassesSo, NEW c \in DOMAIN classes, NEW r, IsEntry(r),
         classes' = [classes EXCEPT ![c] = r]
  PROVE  ClassesSo' /\ DOMAIN classes' = DOMAIN classes
<1> DEFINE U == {classes[i] : i \in DOMAIN classes} \cup {r}
<1>1. DOMAIN classes = 1..Len(classes) /\ Len(classes) \in Nat
  BY SelfTyped DEF ClassesSo
<1>2. \A i \in 1..Len(classes) : classes'[i] \in U /\ (i # c => classes'[i] = classes[i])
  BY <1>1
<1>3. DOMAIN classes' = 1..Len(classes) /\ classes'[c] = r
      /\ classes' = [i \in 1..Len(classes) |-> classes'[i]]
  BY <1>1
<1>4. \A i \in 1..Len(classes) : IsEntry(classes'[i])
  BY <1>1, <1>2, <1>3 DEF ClassesSo
<1> HIDE DEF U
<1>5. classes' \in Seq(U)
  <2> DEFINE n == Len(classes)
             s == classes'
  <2>1. n \in Nat /\ s \in [1..n -> U]
    BY <1>1, <1>2, <1>3
  <2> HIDE DEF n, s
  <2>2. s \in Seq(U)
    BY <2>1, SeqDef
  <2> QED BY <2>2 DEF s
<1>6. classes' \in Seq({classes'[i] : i \in DOMAIN classes'})
  <2> DEFINE s == classes'
  <2>1. s \in Seq(U)
    BY <1>5
  <2> HIDE DEF s
  <2>2. s \in Seq({s[i] : i \in DOMAIN s})
    BY <2>1, SelfTyped
  <2> QED BY <2>2 DEF s
<1>7. \A i \in DOMAIN classes' : IsEntry(classes'[i])
  BY <1>3, <1>4
<1>8. \A i \in DOMAIN classes' : IsEntry(classes[i])'
  BY <1>7 DEF IsEntry, AttributeOrNone, AttributeValue
<1> QED BY <1>1, <1>3, <1>6, <1>8 DEF ClassesSo

LEMMA ClassAdded ==
  ASSUME ClassesSo, NEW r, IsEntry(r), classes' = Append(classes, r)
  PROVE  ClassesSo' /\ DOMAIN classes \subseteq DOMAIN classes'
<1> DEFINE U == {classes[i] : i \in DOMAIN classes} \cup {r}
           V == {classes[i] : i \in DOMAIN classes}
<1>1. DOMAIN classes = 1..Len(classes) /\ Len(classes) \in Nat
  BY SelfTyped DEF ClassesSo
<1>2. V \subseteq U /\ r \in U /\ classes \in Seq(V)
  BY DEF ClassesSo
<1>3. \A i \in 1..Len(classes) : IsEntry(classes[i])
  BY <1>1 DEF ClassesSo
<1> HIDE DEF U, V
<1>4. classes \in Seq(U)
  BY <1>2
<1> DEFINE s == Append(classes, r)
<1>5. /\ s \in Seq(U) /\ DOMAIN s = 1..Len(classes) + 1
      /\ \A i \in 1..Len(classes) : s[i] = classes[i]
      /\ s[Len(classes) + 1] = r
  <2>1. s \in Seq(U) /\ Len(s) = Len(classes) + 1
    BY <1>2, <1>4
  <2>2. DOMAIN s = 1..Len(s)
    BY <2>1
  <2>3. \A i \in 1..Len(classes) + 1 : s[i] = IF i <= Len(classes) THEN classes[i] ELSE r
    BY <1>1, <1>2, <1>4
  <2> QED BY <1>1, <2>1, <2>2, <2>3
<1>9. classes' = s
  OBVIOUS
<1> HIDE DEF s
<1>6. classes' \in Seq({classes'[i] : i \in DOMAIN classes'})
  BY <1>5, <1>9, SelfTyped
<1>7. \A i \in 1..Len(classes) + 1 : i \in 1..Len(classes) \/ i = Len(classes) + 1
  BY <1>1
<1>8. \A i \in DOMAIN classes' : IsEntry(classes'[i])
  BY <1>3, <1>5, <1>7, <1>9
<1> QED BY <1>1, <1>5, <1>6, <1>8, <1>9 DEF ClassesSo, IsEntry, AttributeOrNone, AttributeValue

LEMMA InstanceInductive == InstanceSo /\ [ClassNext]_classVars => InstanceSo'
<1> SUFFICES ASSUME InstanceSo, [ClassNext]_classVars PROVE InstanceSo'
  OBVIOUS
<1>1. ClassesSo /\ (object # Absent => IsInstance(object) /\ object.class \in DOMAIN classes)
  BY DEF InstanceSo
<1>2. ASSUME UNCHANGED classes PROVE ClassesSo'
  BY <1>1, <1>2 DEF ClassesSo
<1>3. ASSUME UNCHANGED object, ClassesSo', DOMAIN classes \subseteq DOMAIN classes'
      PROVE  InstanceSo'
  BY <1>1, <1>3 DEF InstanceSo
<1>4. ASSUME NEW o, IsInstance(o), o.class \in DOMAIN classes, object' = o, UNCHANGED classes
      PROVE  InstanceSo'
  BY <1>2, <1>4 DEF InstanceSo
<1>5. ASSUME NEW x \in AttributeOrNone, NEW magic \in Magics, NEW bases, BuildClass(bases, x, magic)
      PROVE  InstanceSo'
  <2>1. CASE UNCHANGED classes
    BY <1>2, <1>3, <1>5, <2>1 DEF BuildClass
  <2>2. CASE ~UNCHANGED classes
    <3>1. PICK mro : classes' = Append(classes, [bases |-> bases, mro |-> mro, x |-> x,
                                                 magic |-> magic, typeX |-> Absent])
      BY <1>5, <2>2 DEF BuildClass
    <3> DEFINE r == [bases |-> bases, mro |-> mro, x |-> x, magic |-> magic, typeX |-> Absent]
    <3>2. IsEntry(r)
      BY DEF IsEntry
    <3> HIDE DEF r
    <3>3. ClassesSo' /\ DOMAIN classes \subseteq DOMAIN classes'
      BY <1>1, <3>1, <3>2, ClassAdded DEF r
    <3> QED BY <1>3, <1>5, <3>3 DEF BuildClass
  <2> QED BY <2>1, <2>2
<1>6. ASSUME LoadAttr \/ Invoke PROVE InstanceSo'
  <2> DEFINE o == Touch(AfterRead(object), Reads(object))
  <2>1. object # Absent /\ object' = o /\ UNCHANGED classes
    BY <1>6 DEF LoadAttr, Invoke
  <2>2. IsInstance(o) /\ o.class = object.class
    BY <1>1, <2>1, ReadKeeps
  <2> HIDE DEF o
  <2> QED BY <1>1, <1>4, <2>1, <2>2
<1>7. ASSUME Repr PROVE InstanceSo'
  BY <1>2, <1>3, <1>7 DEF Repr
<1>8. ASSUME NEW v \in AttributeValue, StoreAttr(v) PROVE InstanceSo'
  <2> DEFINE o == Touch([object EXCEPT !.attribute = v], Plain(v))
  <2>1. object # Absent /\ (object' = o \/ UNCHANGED object) /\ UNCHANGED classes
    BY <1>8 DEF StoreAttr
  <2>2. IsInstance(o) /\ o.class = object.class
    BY <1>1, <2>1, StoringKeeps
  <2> HIDE DEF o
  <2> QED BY <1>1, <1>2, <1>3, <1>4, <2>1, <2>2
<1>9. ASSUME NEW c \in Used PROVE c \in DOMAIN classes
  BY <1>9 DEF Used
<1>10. ASSUME NEW c \in Used, Instantiate(c) PROVE InstanceSo'
  <2> DEFINE o == [class |-> c, attribute |-> Absent, method |-> Absent, last |-> Absent]
  <2>1. IsInstance(o) /\ o.class = c
    BY DEF IsInstance, Held, AttributeOrNone
  <2>2. object' = o /\ UNCHANGED classes
    BY <1>10 DEF Instantiate
  <2> HIDE DEF o
  <2> QED BY <1>4, <1>9, <2>1, <2>2
<1>11. ASSUME NEW c \in Used, LoadClassAttr(c) \/ LoadTypeAttr(c) PROVE InstanceSo'
  BY <1>2, <1>3, <1>11 DEF LoadClassAttr, LoadTypeAttr
<1>12. ASSUME NEW c \in Used, NEW v \in AttributeValue, StoreClassAttr(c, v) \/ StoreTypeAttr(c, v)
       PROVE  InstanceSo'
  <2>1. c \in DOMAIN classes /\ IsEntry(classes[c])
    BY <1>1, <1>9 DEF ClassesSo
  <2>2. \E r : IsEntry(r) /\ classes' = [classes EXCEPT ![c] = r]
    <3>1. CASE StoreClassAttr(c, v)
      <4> DEFINE r == [classes[c] EXCEPT !.x = v]
      <4>1. IsEntry(r)
        BY <2>1 DEF IsEntry, AttributeOrNone
      <4>2. classes' = [classes EXCEPT ![c] = r]
        BY <3>1 DEF StoreClassAttr
      <4> HIDE DEF r
      <4> QED BY <4>1, <4>2
    <3>2. CASE StoreTypeAttr(c, v)
      <4> DEFINE r == [classes[c] EXCEPT !.typeX = v]
      <4>1. IsEntry(r)
        BY <2>1 DEF IsEntry
      <4>2. classes' = [classes EXCEPT ![c] = r]
        BY <3>2 DEF StoreTypeAttr
      <4> HIDE DEF r
      <4> QED BY <4>1, <4>2
    <3> QED BY <1>12, <3>1, <3>2
  <2>3. ClassesSo' /\ DOMAIN classes' = DOMAIN classes
    BY <1>1, <2>1, <2>2, ClassChanged
  <2>4. UNCHANGED object
    BY <1>12 DEF StoreClassAttr, StoreTypeAttr
  <2> QED BY <1>3, <2>3, <2>4
<1>13. CASE UNCHANGED classVars
  BY <1>2, <1>3, <1>13 DEF classVars
<1> QED
  BY <1>5, <1>6, <1>7, <1>8, <1>10, <1>11, <1>12, <1>13 DEF ClassNext, AttributeOrNone

-----------------------------------------------------------------------------
(* The orders of a hierarchy.                                               *)

MroIn(cs, c) == IF c = 0 THEN <<0>> ELSE cs[c].mro

BaseOrders(cs, bases) == [i \in DOMAIN bases |-> MroIn(cs, bases[i])]
BaseFirsts(cs, bases) == [i \in DOMAIN bases |-> FirstPlaces(MroIn(cs, bases[i]))]

OrderIn(cs, c) == IF c = 0 THEN <<0>> ELSE <<c>> \o Merge(BaseFirsts(cs, cs[c].bases), c)

IsBases(bases, n) == bases \in Seq(0..n) /\ bases # << >>

LEMMA BasesAre ==
  ASSUME NEW n, NEW bases, IsBases(bases, n)
  PROVE  \A i \in DOMAIN bases : bases[i] \in 0..n
<1> DEFINE S == 0..n
<1>1. bases \in Seq(S)
  BY DEF IsBases
<1> HIDE DEF S
<1>2. \A i \in DOMAIN bases : bases[i] \in S
  BY <1>1
<1> QED BY <1>2 DEF S

\* A class has bases that were declared before it, and an order: its classes,
\* the last of them declared, and object; which is the merge, if there is one.
IsOrdered(cs, c) ==
  /\ IsBases(cs[c].bases, c - 1)
  /\ \E m : Shaped(cs[c].mro, m, c)
  /\ ~Among(Stuck, OrderIn(cs, c)) => FirstPlaces(cs[c].mro) = OrderIn(cs, c)

AreOrdered(cs, n) == n \in Nat /\ \A c \in 1..n : IsOrdered(cs, c)

\* A class keeps its order while it and those before it keep their bases and
\* orders.
LEMMA OrdersStay ==
  ASSUME NEW cs, NEW ds, NEW n, AreOrdered(cs, n),
         \A c \in 1..n : ds[c].bases = cs[c].bases /\ ds[c].mro = cs[c].mro
  PROVE  AreOrdered(ds, n)
<1>1. n \in Nat /\ \A c \in 1..n : IsOrdered(cs, c)
  BY DEF AreOrdered
<1>2. ASSUME NEW c \in 1..n PROVE IsOrdered(ds, c)
  <2> DEFINE bases == cs[c].bases
  <2>1. IsOrdered(cs, c) /\ IsBases(bases, c - 1) /\ c # 0 /\ c \in Nat
    BY <1>1 DEF IsOrdered
  <2>2. ds[c].bases = bases /\ ds[c].mro = cs[c].mro
    BY <1>2
  <2> HIDE DEF bases
  <2>3. ASSUME NEW i \in DOMAIN bases PROVE MroIn(ds, bases[i]) = MroIn(cs, bases[i])
    <3>1. bases[i] \in 0..c - 1
      BY <2>1, BasesAre
    <3>2. bases[i] = 0 \/ bases[i] \in 1..n
      BY <1>1, <2>1, <3>1
    <3> QED BY <3>2 DEF MroIn
  <2>4. BaseFirsts(ds, bases) = BaseFirsts(cs, bases)
    BY <2>3 DEF BaseFirsts
  <2>5. OrderIn(ds, c) = OrderIn(cs, c)
    BY <2>1, <2>2, <2>4 DEF OrderIn, bases
  <2> QED BY <2>1, <2>2, <2>5 DEF IsOrdered, bases
<1> QED BY <1>1, <1>2 DEF AreOrdered

LEMMA BaseShaped ==
  ASSUME NEW cs, NEW n, AreOrdered(cs, n), NEW b \in 0..n
  PROVE  \E m : Shaped(MroIn(cs, b), m, n)
<1>1. n \in Nat /\ \A c \in 1..n : IsOrdered(cs, c)
  BY DEF AreOrdered
<1>2. CASE b = 0
  <2>1. Shaped(<<0>>, 0, n)
    <3> DEFINE s == <<0>>
    <3>1. s \in Seq(Int) /\ Len(s) = 1 /\ s[1] = 0
      OBVIOUS
    <3> HIDE DEF s
    <3>2. \A p \in 0 + 1..Len(s) : s[p] = 0
      BY <3>1
    <3>3. /\ \A p \in 1..0 : s[p] \in 1..n
          /\ \A p, q \in 1..0 : s[p] = s[q] => p = q
      OBVIOUS
    <3>4. Shaped(s, 0, n)
      BY <3>1, <3>2, <3>3 DEF Shaped
    <3> QED BY <3>4 DEF s
  <2> QED BY <1>2, <2>1 DEF MroIn
<1>3. CASE b # 0
  <2>1. b \in 1..n /\ MroIn(cs, b) = cs[b].mro
    BY <1>1, <1>3 DEF MroIn
  <2>2. PICK m : Shaped(cs[b].mro, m, b)
    BY <1>1, <2>1 DEF IsOrdered
  <2>3. \A v \in 1..b : v \in 1..n
    BY <1>1, <2>1
  <2>4. Shaped(cs[b].mro, m, n)
    BY <2>2, <2>3 DEF Shaped
  <2> QED BY <2>1, <2>4
<1> QED BY <1>2, <1>3

\* A class before its merged bases.
LEMMA AheadShaped ==
  ASSUME NEW list, NEW e, NEW n \in Nat, Shaped(list, e, n)
  PROVE  Shaped(<<n + 1>> \o list, e + 1, n + 1)
<1> DEFINE s == <<n + 1>> \o list
           l == Len(list)
<1>1. /\ list \in Seq(Int) /\ l \in Nat /\ e \in Nat /\ e < l
      /\ \A p \in 1..e : list[p] \in 1..n
      /\ \A p \in e + 1..l : list[p] = 0
      /\ \A p, q \in 1..e : list[p] = list[q] => p = q
  BY DEF Shaped
<1>2. /\ s \in Seq(Int) /\ Len(s) = l + 1 /\ s[1] = n + 1
      /\ \A p \in 2..l + 1 : s[p] = list[p - 1]
  BY <1>1
<1> HIDE DEF s, l
<1>3. \A p \in 2..e + 1 : p - 1 \in 1..e /\ p \in 2..l + 1
  BY <1>1
<1>4. ASSUME NEW p \in 1..e + 1 PROVE s[p] \in 1..n + 1 /\ (p # 1 => s[p] \in 1..n)
  <2>1. p = 1 \/ p \in 2..e + 1
    BY <1>1
  <2>2. CASE p = 1
    BY <1>2, <2>2
  <2>3. CASE p # 1
    <3>1. p - 1 \in 1..e /\ s[p] = list[p - 1]
      BY <1>2, <1>3, <2>1, <2>3
    <3>2. s[p] \in 1..n
      BY <1>1, <3>1
    <3> QED BY <3>2
  <2> QED BY <2>2, <2>3
<1>5. ASSUME NEW p \in e + 1 + 1..l + 1 PROVE s[p] = 0
  <2>1. p \in 2..l + 1 /\ p - 1 \in e + 1..l
    BY <1>1
  <2> QED BY <1>1, <1>2, <2>1
<1>6. ASSUME NEW p \in 1..e + 1, NEW q \in 1..e + 1, s[p] = s[q] PROVE p = q
  <2>1. CASE p = 1 \/ q = 1
    BY <1>2, <1>4, <1>6, <2>1
  <2>2. CASE p # 1 /\ q # 1
    <3>1. p \in 2..e + 1 /\ q \in 2..e + 1
      BY <1>1, <2>2
    <3>2. list[p - 1] = list[q - 1]
      BY <1>2, <1>3, <1>6, <3>1
    <3>3. p - 1 \in 1..e /\ q - 1 \in 1..e
      BY <1>3, <3>1
    <3>4. p - 1 = q - 1
      BY <1>1, <3>2, <3>3
    <3> QED BY <1>1, <3>4
  <2> QED BY <2>1, <2>2
<1>7. e + 1 \in Nat /\ e + 1 < Len(s)
  BY <1>1, <1>2
<1>8. Shaped(s, e + 1, n + 1)
  BY <1>2, <1>4, <1>5, <1>6, <1>7 DEF Shaped
<1> QED BY <1>8 DEF s

\* The bases' orders, and the lists the merge is described for.
LEMMA BasesMerge ==
  ASSUME NEW cs, NEW n, AreOrdered(cs, n), NEW bases, IsBases(bases, n)
  PROVE  \E m : /\ MroLists(BaseOrders(cs, bases), m, n)
                /\ Firsts(BaseFirsts(cs, bases), BaseOrders(cs, bases), m)
<1> DEFINE L == BaseOrders(cs, bases)
           R == BaseFirsts(cs, bases)
           l == Len(bases)
<1>1. n \in Nat
  BY DEF AreOrdered
<1>2. /\ bases \in Seq(0..n) /\ l \in Nat /\ l # 0 /\ DOMAIN bases = 1..l
      /\ \A i \in 1..l : bases[i] \in 0..n
  <2>1. bases \in Seq(0..n) /\ bases # << >>
    BY DEF IsBases
  <2>2. l \in Nat /\ DOMAIN bases = 1..l
    BY <2>1
  <2>3. l # 0
    BY <2>1
  <2>4. \A i \in DOMAIN bases : bases[i] \in 0..n
    BY BasesAre
  <2> HIDE DEF l
  <2>5. \A i \in 1..l : bases[i] \in 0..n
    BY <2>2, <2>4
  <2> QED BY <2>1, <2>2, <2>3, <2>5
<1>3. ASSUME NEW i \in 1..l
      PROVE  /\ bases[i] \in 0..n
             /\ L[i] = MroIn(cs, bases[i]) /\ R[i] = FirstPlaces(MroIn(cs, bases[i]))
             /\ \E k : Shaped(L[i], k, n)
  <2>1. bases[i] \in 0..n
    BY <1>2
  <2>2. \E k : Shaped(MroIn(cs, bases[i]), k, n)
    BY <2>1, BaseShaped
  <2> QED BY <1>2, <2>1, <2>2 DEF BaseOrders, BaseFirsts
<1>4. L = [i \in 1..l |-> L[i]] /\ R = [i \in 1..l |-> R[i]]
  BY <1>2 DEF BaseOrders, BaseFirsts
<1> HIDE DEF L, R, l
<1> DEFINE m == [i \in 1..l |-> CHOOSE k : Shaped(L[i], k, n)]
<1>5. ASSUME NEW i \in 1..l PROVE Shaped(L[i], m[i], n) /\ m[i] \in Nat /\ L[i] \in Seq(Int)
  <2>1. Shaped(L[i], CHOOSE k : Shaped(L[i], k, n), n)
    BY <1>3
  <2>2. m[i] = CHOOSE k : Shaped(L[i], k, n)
    OBVIOUS
  <2>3. Shaped(L[i], m[i], n)
    BY <2>1, <2>2
  <2> QED BY <2>3 DEF Shaped
<1>6. m \in [1..l -> Nat]
  BY <1>5
<1> HIDE DEF m
<1>7. ASSUME NEW i \in 1..l
      PROVE  R[i] \in Seq(Int) /\ Len(R[i]) = m[i] + 1 /\ \A p \in 1..m[i] + 1 : R[i][p] = L[i][p]
  BY <1>1, <1>3, <1>5, FirstPlacesShaped
<1>8. L \in Seq(Seq(Int)) /\ Len(L) = l
  <2>1. L \in [1..l -> Seq(Int)]
    BY <1>4, <1>5
  <2>2. L \in Seq(Seq(Int)) /\ DOMAIN L = 1..l
    BY <1>2, <2>1, SeqDef
  <2> QED BY <1>2, <2>2
<1>9. R \in Seq(Seq(Int)) /\ Len(R) = l
  <2>1. R \in [1..l -> Seq(Int)]
    BY <1>4, <1>7
  <2>2. R \in Seq(Seq(Int)) /\ DOMAIN R = 1..l
    BY <1>2, <2>1, SeqDef
  <2> QED BY <1>2, <2>2
<1>10. MroLists(L, m, n)
  BY <1>1, <1>2, <1>5, <1>6, <1>8 DEF MroLists
<1>11. Firsts(R, L, m)
  BY <1>7, <1>8, <1>9 DEF Firsts
<1> QED BY <1>10, <1>11 DEF L, R

\* A class statement's order, and that of the class it declares.
IsNewOrder(cs, n, bases, list) ==
  /\ MergeMro(BaseOrders(cs, bases)) = {list}
  /\ \E e : Shaped(<<n + 1>> \o list, e, n + 1)
  /\ LET order == <<n + 1>> \o Merge(BaseFirsts(cs, bases), n + 1)
     IN ~Among(Stuck, order) => FirstPlaces(<<n + 1>> \o list) = order

LEMMA NewOrder ==
  ASSUME NEW cs, NEW n, AreOrdered(cs, n), NEW bases, IsBases(bases, n)
  PROVE  \E list : IsNewOrder(cs, n, bases, list)
<1> DEFINE L == BaseOrders(cs, bases)
           R == BaseFirsts(cs, bases)
           merge == Merge(R, n + 1)
<1>1. n \in Nat /\ n + 1 \in Nat /\ n + 1 > n
  <2>1. n \in Nat
    BY DEF AreOrdered
  <2> QED BY <2>1
<1>2. PICK m : MroLists(L, m, n) /\ Firsts(R, L, m)
  BY BasesMerge
<1> HIDE DEF L, R
<1>3. merge \in Seq(Int) /\ \E list, e : IsMerged(L, n, merge, list, e)
  BY <1>1, <1>2, MergeIs
<1> HIDE DEF merge
<1>4. PICK list, e : IsMerged(L, n, merge, list, e)
  BY <1>3
<1>5. /\ MergeMro(L) = {list} /\ Shaped(list, e, n)
      /\ ~Among(Stuck, merge) => StartsAs(list, e + 1, merge)
  BY <1>4 DEF IsMerged
<1> DEFINE s == <<n + 1>> \o list
           t == <<n + 1>> \o merge
<1>6. Shaped(s, e + 1, n + 1)
  BY <1>1, <1>5, AheadShaped
<1>7. /\ list \in Seq(Int) /\ e \in Nat /\ e < Len(list) /\ Len(list) \in Nat
      /\ Len(merge) \in Nat
  BY <1>3, <1>5 DEF Shaped
<1>8. /\ t \in Seq(Int) /\ Len(t) = Len(merge) + 1 /\ t[1] = n + 1
      /\ \A p \in 1..Len(merge) : t[p + 1] = merge[p]
  BY <1>1, <1>3
<1>9. s[1] = n + 1 /\ \A p \in 1..Len(list) : s[p + 1] = list[p]
  BY <1>1, <1>7
<1> HIDE DEF s, t
<1>10. ASSUME ~Among(Stuck, t) PROVE FirstPlaces(s) = t
  <2>1. ~Among(Stuck, merge)
    <3> SUFFICES ASSUME NEW p \in DOMAIN merge, merge[p] = Stuck PROVE FALSE
      BY DEF Among
    <3>1. p \in 1..Len(merge) /\ p + 1 \in 1..Len(t) /\ DOMAIN t = 1..Len(t)
      BY <1>3, <1>7, <1>8
    <3>2. t[p + 1] = Stuck
      BY <1>8, <3>1
    <3> QED BY <1>10, <3>1, <3>2 DEF Among
  <2>2. Len(merge) = e + 1 /\ \A p \in 1..e + 1 : merge[p] = list[p]
    BY <1>5, <2>1 DEF StartsAs
  <2> DEFINE u == FirstPlaces(s)
  <2>3. u \in Seq(Int) /\ Len(u) = e + 1 + 1 /\ \A p \in 1..e + 1 + 1 : u[p] = s[p]
    BY <1>1, <1>6, FirstPlacesShaped
  <2> HIDE DEF u
  <2>4. ASSUME NEW p \in 1..e + 1 + 1 PROVE u[p] = t[p]
    <3>1. CASE p = 1
      BY <1>8, <1>9, <2>3, <3>1
    <3>2. CASE p # 1
      <4>1. p - 1 \in 1..e + 1 /\ p - 1 \in 1..Len(list) /\ p - 1 + 1 = p
        BY <1>7, <3>2
      <4>2. t[p] = merge[p - 1] /\ s[p] = list[p - 1]
        BY <1>8, <1>9, <2>2, <4>1
      <4> QED BY <2>2, <2>3, <4>1, <4>2
    <3> QED BY <3>1, <3>2
  <2>5. Len(t) = Len(u)
    BY <1>8, <2>2, <2>3
  <2>6. u = t
    <3>1. u = [p \in 1..Len(u) |-> u[p]] /\ t = [p \in 1..Len(u) |-> t[p]]
      BY <1>8, <2>3, <2>5
    <3> QED BY <2>3, <2>4, <3>1
  <2> QED BY <2>6 DEF u
<1> QED BY <1>5, <1>6, <1>10 DEF IsNewOrder, L, R, s, t, merge

\* Every class has an order, and no class statement failed.
OrdersSo ==
  /\ ClassesSo
  /\ result # "no order"
  /\ AreOrdered(classes, Len(classes))

LEMMA OrdersInitially == ClassInit => OrdersSo
<1> SUFFICES ASSUME ClassInit PROVE OrdersSo
  OBVIOUS
<1>1. ClassesSo /\ result # "no order" /\ classes = << >>
  BY InstanceInitially DEF ClassInit, InstanceSo
<1>2. Len(classes) = 0
  BY <1>1
<1>3. \A c \in 1..Len(classes) : IsOrdered(classes, c)
  BY <1>2
<1> QED BY <1>1, <1>2, <1>3 DEF OrdersSo, AreOrdered

LEMMA OrderAdded ==
  ASSUME NEW T, NEW cs \in Seq(T), AreOrdered(cs, Len(cs)),
         NEW bases, IsBases(bases, Len(cs)), NEW list, IsNewOrder(cs, Len(cs), bases, list),
         NEW r, r.bases = bases, r.mro = <<Len(cs) + 1>> \o list
  PROVE  AreOrdered(Append(cs, r), Len(Append(cs, r)))
<1> DEFINE n == Len(cs)
           ds == Append(cs, r)
           mro == r.mro
<1>1. n \in Nat /\ n + 1 # 0 /\ n + 1 - 1 = n /\ n + 1 \in Nat
  OBVIOUS
<1>2. Len(ds) = n + 1 /\ ds[n + 1] = r /\ \A c \in 1..n : ds[c] = cs[c]
  <2> DEFINE U == T \cup {r}
  <2>1. cs \in Seq(U) /\ r \in U
    OBVIOUS
  <2> HIDE DEF U
  <2>2. Len(ds) = n + 1 /\ ds[n + 1] = r
    BY <2>1
  <2>3. \A c \in 1..n : ds[c] = cs[c]
    BY <2>1
  <2> QED BY <2>2, <2>3
<1>3. /\ AreOrdered(cs, n) /\ IsBases(bases, n) /\ \E e : Shaped(mro, e, n + 1)
      /\ LET order == <<n + 1>> \o Merge(BaseFirsts(cs, bases), n + 1)
         IN ~Among(Stuck, order) => FirstPlaces(mro) = order
  BY DEF IsNewOrder
<1> HIDE DEF n, ds, mro
<1>4. AreOrdered(ds, n)
  BY <1>2, <1>3, OrdersStay
<1>5. BaseFirsts(ds, bases) = BaseFirsts(cs, bases)
  <2>1. ASSUME NEW i \in DOMAIN bases PROVE MroIn(ds, bases[i]) = MroIn(cs, bases[i])
    <3>1. bases[i] \in 0..n
      BY <1>3, BasesAre
    <3>2. bases[i] = 0 \/ bases[i] \in 1..n
      BY <1>1, <3>1
    <3> QED BY <1>2, <3>2 DEF MroIn
  <2> QED BY <2>1 DEF BaseFirsts
<1>6. IsOrdered(ds, n + 1)
  <2>1. ds[n + 1].bases = bases /\ ds[n + 1].mro = mro
    BY <1>2 DEF mro
  <2>2. OrderIn(ds, n + 1) = <<n + 1>> \o Merge(BaseFirsts(cs, bases), n + 1)
    BY <1>1, <1>5, <2>1 DEF OrderIn
  <2> DEFINE c == n + 1
  <2>3. c - 1 = n
    BY <1>1
  <2> HIDE DEF c
  <2>4. /\ ds[c].bases = bases /\ ds[c].mro = mro
        /\ OrderIn(ds, c) = <<c>> \o Merge(BaseFirsts(cs, bases), c)
    BY <2>1, <2>2 DEF c
  <2>5. /\ \E e : Shaped(mro, e, c)
        /\ LET order == <<c>> \o Merge(BaseFirsts(cs, bases), c)
           IN ~Among(Stuck, order) => FirstPlaces(mro) = order
    BY <1>3 DEF c
  <2>6. IsOrdered(ds, c)
    BY <1>3, <2>3, <2>4, <2>5 DEF IsOrdered
  <2> QED BY <2>6 DEF c
<1>7. \A c \in 1..n + 1 : c \in 1..n \/ c = n + 1
  BY <1>1
<1>8. AreOrdered(ds, n + 1)
  BY <1>1, <1>4, <1>6, <1>7 DEF AreOrdered
<1> QED BY <1>2, <1>8 DEF ds

\* The class a class statement declares.
LEMMA BuildsOrder ==
  ASSUME OrdersSo, NEW bases \in BaseLists, NEW x \in AttributeOrNone, NEW magic,
         BuildClass(bases, x, magic)
  PROVE  OrdersSo'
<1> DEFINE n == Len(classes)
<1>1. /\ ClassesSo /\ result # "no order" /\ AreOrdered(classes, n)
      /\ n \in Nat /\ DOMAIN classes = 1..n
  BY SelfTyped DEF OrdersSo, ClassesSo
<1>2. IsBases(bases, n)
  <2>1. bases \in UNION {[1..k -> 0..n] : k \in 0..n + 1} /\ bases # << >>
    BY DEF BaseLists, Declared, Sequence!SeqOf
  <2> HIDE DEF n
  <2>2. PICK k \in 0..n + 1 : bases \in [1..k -> 0..n]
    BY <2>1
  <2>3. k \in Nat
    <3>1. n \in Nat
      BY <1>1
    <3> QED BY <3>1
  <2>4. bases \in Seq(0..n)
    BY <2>2, <2>3, SeqDef
  <2> QED BY <2>1, <2>4 DEF IsBases
<1>3. PICK list : IsNewOrder(classes, n, bases, list)
  BY <1>1, <1>2, NewOrder
<1>4. BaseOrders(classes, bases) = [i \in DOMAIN bases |-> Mro(bases[i])]
  BY DEF BaseOrders, MroIn, Mro
<1>5. ComputeMro(n + 1, bases) = {<<n + 1>> \o list}
  BY <1>3, <1>4 DEF ComputeMro, IsNewOrder
<1> DEFINE mro == <<n + 1>> \o list
           r == [bases |-> bases, mro |-> mro, x |-> x, magic |-> magic, typeX |-> Absent]
<1>6. classes' = Append(classes, r) /\ UNCHANGED result
  BY <1>5 DEF BuildClass
<1>7. IsEntry(r) /\ r.bases = bases /\ r.mro = mro
  BY DEF IsEntry
<1> HIDE DEF r
<1>8. ClassesSo'
  BY <1>1, <1>6, <1>7, ClassAdded
<1> DEFINE ds == Append(classes, r)
<1>9. AreOrdered(ds, Len(ds))
  <2> DEFINE U == {classes[i] : i \in DOMAIN classes}
  <2>1. classes \in Seq(U)
    BY <1>1 DEF ClassesSo
  <2> HIDE DEF U
  <2>2. IsNewOrder(classes, Len(classes), bases, list) /\ AreOrdered(classes, Len(classes))
    BY <1>1, <1>3
  <2>3. r.bases = bases /\ r.mro = <<Len(classes) + 1>> \o list
    BY <1>7
  <2> QED BY <1>2, <2>1, <2>2, <2>3, OrderAdded
<1> HIDE DEF ds
<1>10. AreOrdered(classes, Len(classes))'
  <2>1. classes' = ds
    BY <1>6 DEF ds
  <2> QED BY <1>9, <2>1
<1> QED BY <1>1, <1>6, <1>8, <1>10 DEF OrdersSo

\* All that the other actions do to a class leaves its bases and its order.
LEMMA OrdersInductive == OrdersSo /\ [ClassNext]_classVars => OrdersSo'
<1> SUFFICES ASSUME OrdersSo, [ClassNext]_classVars PROVE OrdersSo'
  OBVIOUS
<1>1. /\ ClassesSo /\ result # "no order" /\ AreOrdered(classes, Len(classes))
      /\ DOMAIN classes = 1..Len(classes) /\ Len(classes) \in Nat
  BY SelfTyped DEF OrdersSo, ClassesSo
<1>2. ASSUME UNCHANGED classes, result' # "no order" PROVE OrdersSo'
  <2>1. ClassesSo'
    BY <1>1, <1>2 DEF ClassesSo
  <2> QED BY <1>1, <1>2, <2>1 DEF OrdersSo
<1>3. ASSUME NEW o, IsInstance(o) PROVE Reads(o)[1] # "no order"
  <2> DEFINE v == GetAttr(o.class, "x")
             w == GetAttr(o.class, "__getattr__")
  <2>1. Reads(o) = IF w # Absent THEN Called("__getattr__")
                   ELSE IF o.attribute # Absent THEN Plain(o.attribute)
                   ELSE IF o.method # Absent THEN BoundMethod(o.method)
                   ELSE IF v # Absent THEN BindSelf(v)
                   ELSE Raised
    BY DEF Reads
  <2> HIDE DEF v, w
  <2> QED BY <2>1 DEF Called, Plain, BoundMethod, BindSelf, Raised
<1>4. ASSUME NEW x \in AttributeOrNone, NEW magic \in Magics, NEW bases \in BaseLists,
             BuildClass(bases, x, magic)
      PROVE  OrdersSo'
  BY <1>4, BuildsOrder
<1>5. CASE LoadAttr
  <2>1. UNCHANGED classes /\ result' = Reads(object)[1]
    BY <1>5 DEF LoadAttr
  <2>2. Reads(object)[1] # "no order"
    BY DEF Reads, Called, Plain, BoundMethod, BindSelf, Raised
  <2> QED BY <1>2, <2>1, <2>2
<1>6. CASE Invoke \/ Repr
  BY <1>2, <1>6 DEF Invoke, Repr
<1>7. ASSUME NEW v \in AttributeValue, StoreAttr(v) PROVE OrdersSo'
  BY <1>2, <1>7 DEF StoreAttr
<1>8. ASSUME NEW c \in Used, Instantiate(c) \/ LoadClassAttr(c) \/ LoadTypeAttr(c) PROVE OrdersSo'
  BY <1>1, <1>2, <1>8 DEF Instantiate, LoadClassAttr, LoadTypeAttr
<1>9. ASSUME NEW c \in Used, NEW v \in AttributeValue, StoreClassAttr(c, v) \/ StoreTypeAttr(c, v)
      PROVE  OrdersSo'
  <2>1. c \in DOMAIN classes /\ IsEntry(classes[c])
    BY <1>1 DEF ClassesSo, Used
  <2>2. PICK r : /\ IsEntry(r) /\ classes' = [classes EXCEPT ![c] = r]
                 /\ r.bases = classes[c].bases /\ r.mro = classes[c].mro
    <3>1. CASE StoreClassAttr(c, v)
      <4> DEFINE r == [classes[c] EXCEPT !.x = v]
      <4>1. IsEntry(r) /\ r.bases = classes[c].bases /\ r.mro = classes[c].mro
        BY <2>1 DEF IsEntry, AttributeOrNone
      <4>2. classes' = [classes EXCEPT ![c] = r]
        BY <3>1 DEF StoreClassAttr
      <4> HIDE DEF r
      <4> QED BY <4>1, <4>2
    <3>2. CASE StoreTypeAttr(c, v)
      <4> DEFINE r == [classes[c] EXCEPT !.typeX = v]
      <4>1. IsEntry(r) /\ r.bases = classes[c].bases /\ r.mro = classes[c].mro
        BY <2>1 DEF IsEntry
      <4>2. classes' = [classes EXCEPT ![c] = r]
        BY <3>2 DEF StoreTypeAttr
      <4> HIDE DEF r
      <4> QED BY <4>1, <4>2
    <3> QED BY <1>9, <3>1, <3>2
  <2>3. ClassesSo' /\ DOMAIN classes' = DOMAIN classes
    BY <1>1, <2>1, <2>2, ClassChanged
  <2>4. Len(classes') = Len(classes)
    <3> DEFINE k == Len(classes)
               l == Len(classes')
    <3>1. DOMAIN classes' = 1..l /\ l \in Nat
      BY <2>3, SelfTyped DEF ClassesSo
    <3>2. 1..k = 1..l /\ k \in Nat
      BY <1>1, <2>3, <3>1
    <3> HIDE DEF k, l
    <3>3. k = l
      BY <3>1, <3>2
    <3> QED BY <3>3 DEF k, l
  <2>5. \A i \in 1..Len(classes) :
          classes'[i].bases = classes[i].bases /\ classes'[i].mro = classes[i].mro
    BY <1>1, <2>1, <2>2
  <2>6. AreOrdered(classes', Len(classes))
    BY <1>1, <2>5, OrdersStay
  <2>7. result' = "plain"
    BY <1>9 DEF StoreClassAttr, StoreTypeAttr
  <2> QED BY <2>3, <2>4, <2>6, <2>7 DEF OrdersSo
<1>10. CASE UNCHANGED classVars
  BY <1>1, <1>2, <1>10 DEF classVars
<1> QED
  BY <1>4, <1>5, <1>6, <1>7, <1>8, <1>9, <1>10 DEF ClassNext, AttributeOrNone

LEMMA OrdersMerge ==
  ASSUME OrdersSo
  PROVE  MroIsMerge
<1>1. result # "no order" /\ AreOrdered(classes, Len(classes))
  BY DEF OrdersSo
<1>2. ASSUME NEW c \in 1..Len(classes)
      PROVE  /\ Mro(c) \in Seq(0..c)
             /\ ~Among(Stuck, Order(c)) => FirstPlaces(Mro(c)) = Order(c)
  <2>1. c # 0 /\ c \in Nat /\ IsOrdered(classes, c)
    <3>1. IsOrdered(classes, c)
      BY <1>1 DEF AreOrdered
    <3>2. c # 0 /\ c \in Nat
      OBVIOUS
    <3> QED BY <3>1, <3>2
  <2>2. Mro(c) = classes[c].mro
    BY <2>1 DEF Mro
  <2>3. Order(c) = OrderIn(classes, c)
    BY <2>1 DEF Order, OrderIn, BaseFirsts, Mro, MroIn
  <2>4. Mro(c) \in Seq(0..c)
    <3> DEFINE s == classes[c].mro
    <3>1. PICK m : Shaped(s, m, c)
      BY <2>1 DEF IsOrdered
    <3> HIDE DEF s
    <3>2. s \in Seq(Int) /\ m \in Nat /\ Len(s) \in Nat
      BY <3>1 DEF Shaped
    <3>3. \A p \in 1..Len(s) : p \in 1..m \/ p \in m + 1..Len(s)
      BY <3>2
    <3>4. \A p \in 1..Len(s) : s[p] \in 0..c
      BY <2>1, <3>1, <3>3 DEF Shaped
    <3>5. s = [p \in 1..Len(s) |-> s[p]]
      BY <3>2
    <3>6. s \in [1..Len(s) -> 0..c]
      BY <3>4, <3>5
    <3>7. s \in Seq(0..c)
      BY <3>2, <3>6, SeqDef
    <3> QED BY <2>2, <3>7 DEF s
  <2> QED BY <2>1, <2>2, <2>3, <2>4 DEF IsOrdered
<1> QED BY <1>1, <1>2 DEF MroIsMerge

\* In hierarchies of any size and shape, a class has the merge of its bases'
\* orders for its order wherever there is one: the lists that are passed over
\* while they are shortened hold object alone, or lead to the merge all the
\* same, and the candidate's list is still at its position.
THEOREM OrdersAreMerges == ClassSpec => []MroIsMerge
<1>1. ClassInit => OrdersSo
  BY OrdersInitially
<1>2. OrdersSo /\ [ClassNext]_classVars => OrdersSo'
  BY OrdersInductive
<1>3. OrdersSo => MroIsMerge
  BY OrdersMerge
<1> QED
  BY <1>1, <1>2, <1>3, PTL DEF ClassSpec

-----------------------------------------------------------------------------
(* What an object sees.                                                     *)

\* An object that has neither read nor stored the attribute holds none.
LEMMA SticksInInstance ==
  ASSUME InstanceSo, MroIsMerge
  PROVE  AttributesStick
<1> SUFFICES ASSUME object # Absent, GetAttr(object.class, "__getattr__") = Absent
             PROVE  IF object.last # Absent THEN Reads(object) = object.last
                    ELSE ~Among(Stuck, Order(object.class)) =>
                           LET v == FirstIn(Order(object.class), "x")
                           IN Reads(object) = IF v = Absent THEN Raised ELSE BindSelf(v)
  BY DEF AttributesStick
<1> DEFINE c == object.class
           order == Order(c)
<1>1. IsInstance(object) /\ c \in DOMAIN classes
  BY DEF InstanceSo
<1>2. CASE object.last # Absent
  BY <1>1, <1>2 DEF IsInstance, Held, Reads
<1>3. CASE object.last = Absent /\ ~Among(Stuck, order)
  <2>1. object.attribute = Absent /\ object.method = Absent
    BY <1>1, <1>3, ClassesAssumption
       DEF IsInstance, Held, Plain, BoundMethod, AttributeOrNone, AttributeValue
  <2>2. c \in 1..Len(classes) /\ c # 0
    BY <1>1, SelfTyped DEF InstanceSo, ClassesSo
  <2>3. Mro(c) \in Seq(0..c) /\ FirstPlaces(Mro(c)) = order
    BY <1>3, <2>2 DEF MroIsMerge
  <2>4. FirstIn(order, "x") = GetAttr(c, "x")
    BY <2>3, FirstPlacesSay DEF GetAttr
  <2> HIDE DEF order
  <2> QED BY <1>3, <2>1, <2>4 DEF Reads, order
<1> QED BY <1>2, <1>3

\* An object sees what its classes say until it first reads or stores the
\* attribute, and what it then read or stored ever after, in hierarchies of any
\* size and shape.
THEOREM ObjectsStick == ClassSpec => []AttributesStick
<1>1. ClassInit => InstanceSo
  BY InstanceInitially
<1>2. InstanceSo /\ [ClassNext]_classVars => InstanceSo'
  BY InstanceInductive
<1>3. ClassSpec => []MroIsMerge
  BY OrdersAreMerges
<1>4. InstanceSo /\ MroIsMerge => AttributesStick
  BY SticksInInstance
<1> QED
  BY <1>1, <1>2, <1>3, <1>4, PTL DEF ClassSpec
=============================================================================
