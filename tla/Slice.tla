-------------------------------- MODULE Slice --------------------------------
(***************************************************************************)
(* Slice objects, and the positions they select in a list.                 *)
(*                                                                         *)
(* A slice is used by first binding it to the length of the list, which    *)
(* overwrites its three fields: afterwards it holds numbers for that list  *)
(* only.                                                                   *)
(***************************************************************************)
EXTENDS Integers

CONSTANT None       \* the object of that name: a field that was left out

ASSUME NoneAssumption == None \notin Int

Field  == Int \cup {None}
Slices == [start : Field, stop : Field, step : Field]

\* std::max(low, std::min(i, high)).
Clamp(i, low, high) ==
  IF (IF i <= high THEN i ELSE high) <= low THEN low
  ELSE IF i <= high THEN i ELSE high

\* A negative position counts from the end.
FromEnd(i, length) == IF i >= 0 THEN i ELSE length + i

Forward(slice) == slice.step = None \/ slice.step > 0

BoundStart(slice, length) ==
  IF slice.start = None THEN IF Forward(slice) THEN 0 ELSE length - 1
  ELSE Clamp(FromEnd(slice.start, length), 0, length - 1)

\* A faulty variant: stop is taken for the last position.
InclusiveStop(slice, length) ==
  IF slice.stop = None THEN IF Forward(slice) THEN length ELSE -1
  ELSE Clamp(FromEnd(slice.stop, length), 0, length - 1)

BoundStop(slice, length) ==
  IF slice.stop = None THEN IF Forward(slice) THEN length ELSE -1
  ELSE Clamp(FromEnd(slice.stop, length), 0, length)

BoundStep(slice) == IF slice.step = None THEN 1 ELSE slice.step

\* What BindLength leaves in the slice.
Bound(slice, length) ==
  [start |-> BoundStart(slice, length),
   stop  |-> BoundStop(slice, length),
   step  |-> BoundStep(slice)]

\* Nothing to select is an error, and leaves the slice as it was.
BindThrows(slice, length) ==
  LET bound == Bound(slice, length)
  IN \/ bound.step = 0
     \/ bound.step > 0 /\ bound.start >= bound.stop
     \/ bound.step < 0 /\ bound.start <= bound.stop

\* How many positions there are from start to stop, step by step.
Steps(start, stop, step) ==
  IF step > 0 THEN IF stop > start THEN (stop - start + step - 1) \div step ELSE 0
              ELSE IF start > stop THEN (start - stop - step - 1) \div (-step) ELSE 0

\* The positions a bound slice goes through, in a list of this length.
Positions(bound, length) ==
  IF bound.start >= length THEN << >>
  ELSE [k \in 1..Steps(bound.start, bound.stop, bound.step) |->
          bound.start + (k - 1) * bound.step]

-----------------------------------------------------------------------------
(* The positions Python selects: a start or stop outside the list is moved  *)
(* to the end the step comes from or goes to, which may select nothing.     *)

PythonBound(slice, length) ==
  LET step == BoundStep(slice)
      low  == IF step > 0 THEN 0 ELSE -1
      high == IF step > 0 THEN length ELSE length - 1
  IN [start |-> IF slice.start = None THEN IF step > 0 THEN low ELSE high
                ELSE Clamp(FromEnd(slice.start, length), low, high),
      stop  |-> IF slice.stop = None THEN IF step > 0 THEN high ELSE low
                ELSE Clamp(FromEnd(slice.stop, length), low, high),
      step  |-> step]

\* A backward slice cannot reach the first element with a stop in front of it.
StopsInFront(slice, length) ==
  BoundStep(slice) < 0 /\ slice.stop # None /\ slice.stop < -length

\* Of a list of this length, the slice selects what it selects in Python
\* (PySlice.cpp, BindLength), wherever that is something.
SelectsAsPython(slice, length) ==
  BoundStep(slice) # 0 /\ ~StopsInFront(slice, length)
    => LET python == Positions(PythonBound(slice, length), length)
       IN python # << >> =>
            ~BindThrows(slice, length) /\ Positions(Bound(slice, length), length) = python
=============================================================================
