------------------------------ MODULE Classes ------------------------------
(***************************************************************************)
(* Classes, their method resolution order, and the attributes of their     *)
(* instances: the merge of the bases' orders, which works on a list of     *)
(* lists it shortens while it goes through it, and the copies that reading *)
(* an attribute leaves in an instance.                                     *)
(*                                                                         *)
(* One attribute, x, stands for all; __getattr__ and __setattr__ are the   *)
(* two that change how it is read and stored.  Class 0 is object.          *)
(***************************************************************************)
EXTENDS Integers, Sequences

Sequence == INSTANCE SequencesExt

CONSTANTS
  Data,          \* attribute values that are not functions
  Function,      \* and those that are
  Absent,        \* no value
  MaxClasses,    \* bound: classes beside object
  MaxUsed        \* bound: classes, where attributes and instances are used

ASSUME ClassesAssumption ==
  /\ Data \cap Function = {}
  /\ Absent \notin Data \cup Function
  /\ \A v \in Data \cup Function : Absent \notin {<<"plain", v>>, <<"bound", v>>}
  /\ MaxClasses \in Nat /\ MaxUsed \in 0..MaxClasses

VARIABLES
  classes,       \* a sequence: [bases, mro, x, magic, typeX] of each class but object
  object,        \* an instance: [class, attribute, method, last], or Absent
  result         \* what the last operation on attributes gave: how, and not which value

classVars == <<classes, object, result>>

AttributeValue == Data \cup Function
Special == {"__getattr__", "__setattr__"}

Declared == 0..Len(classes)

Among(class, order) == \E i \in DOMAIN order : order[i] = class

\* The order of a declared class.
Mro(c) == IF c = 0 THEN <<0>> ELSE classes[c].mro

-----------------------------------------------------------------------------
(* MergeMro and its helpers: mros is a list of lists of classes.            *)

\* Without the lists that are empty.
CleanMros(mros) ==
  LET clean[i \in 0..Len(mros)] ==
        IF i = 0 THEN << >>
        ELSE IF mros[i] = << >> THEN clean[i - 1]
        ELSE Append(clean[i - 1], mros[i])
  IN clean[Len(mros)]

FirstOrNotInMro(mro, class) == mro[1] = class \/ ~Among(class, Tail(mro))

CouldTypePlaceAhead(mros, class, ignore) ==
  \A i \in DOMAIN mros \ {ignore} : FirstOrNotInMro(mros[i], class)

Candidates(mros) == {i \in DOMAIN mros : CouldTypePlaceAhead(mros, mros[i][1], i)}

\* A faulty variant: the last list that can give a class gives it.
FindLastCandidate(mros) ==
  CHOOSE i \in Candidates(mros) : \A j \in Candidates(mros) : i >= j

FindCandidateBase(mros) ==
  CHOOSE i \in Candidates(mros) : \A j \in Candidates(mros) : i <= j

\* What becomes of the list at position j, if it is not the candidate's.
DropHeadAt(mros, j, exclude, head) ==
  IF j > Len(mros) \/ j = exclude \/ mros[j][1] # head THEN mros
  ELSE IF Len(mros[j]) = 1 THEN Sequence!RemoveAt(mros, j)
  ELSE [mros EXCEPT ![j] = Tail(@)]

\* From one position to the next.  A list that becomes empty is taken out, and
\* the list that moves to its position is passed over.
RemoveHeadFromMros(mros, exclude, head) ==
  LET after[j \in 0..Len(mros)] ==
        IF j = 0 THEN mros ELSE DropHeadAt(after[j - 1], j, exclude, head)
  IN after[Len(mros)]

\* What becomes of the list the candidate came from, at its old position.
DropHead(mros, i) ==
  IF Len(mros[i]) = 1 THEN Sequence!RemoveAt(mros, i) ELSE [mros EXCEPT ![i] = Tail(@)]

\* One round of MergeMro, which takes a class from a list.  x.state says
\* whether the loop goes on, or why it does not.
MergeRound(x) ==
  LET mros == CleanMros(x.mros)
  IN IF x.state # "on" \/ Len(x.mros) <= 1 THEN x
     ELSE IF Candidates(mros) = {} THEN [mros |-> mros, order |-> x.order, state |-> "left"]
     ELSE LET i    == FindCandidateBase(mros)
              head == mros[i][1]
              rest == RemoveHeadFromMros(mros, i, head)
          IN IF i > Len(rest) THEN [mros |-> rest, order |-> x.order, state |-> "thrown"]
             ELSE [mros |-> DropHead(rest, i), order |-> Append(x.order, head), state |-> "on"]

Total(mros) ==
  LET total[i \in 0..Len(mros)] == IF i = 0 THEN 0 ELSE total[i - 1] + Len(mros[i])
  IN total[Len(mros)]

\* Round after round: as many as there are classes in the lists.
MergeRounds(mros) ==
  LET rounds[k \in 0..Total(mros)] ==
        IF k = 0 THEN [mros |-> mros, order |-> << >>, state |-> "on"]
        ELSE MergeRound(rounds[k - 1])
  IN rounds

\* The set of its outcomes: none if it throws.
MergeMro(mros) ==
  LET x == MergeRounds(mros)[Total(mros)]
  IN IF x.state = "thrown" THEN {}
     ELSE IF x.mros = << >> THEN {x.order}
     ELSE {x.order \o x.mros[1]}

\* ComputeMro of a new class.
ComputeMro(class, bases) ==
  {<<class>> \o mro : mro \in MergeMro([i \in DOMAIN bases |-> Mro(bases[i])])}

-----------------------------------------------------------------------------
(* Reading attributes.                                                      *)

\* What class c itself says of a name; object says nothing.
Own(c, name) ==
  IF c \notin DOMAIN classes THEN Absent
  ELSE IF name = "x" THEN classes[c].x
  ELSE IF name \in classes[c].magic THEN name ELSE Absent

\* The first class of an order that says something of the name.
FirstIn(order, name) ==
  LET found == {i \in DOMAIN order : Own(order[i], name) # Absent}
  IN IF found = {} THEN Absent
     ELSE Own(order[CHOOSE i \in found : \A j \in found : i <= j], name)

\* GetAttr of an object of class c.
GetAttr(c, name) == FirstIn(Mro(c), name)

Plain(v)  == <<"plain", v>>
BoundMethod(v) == <<"bound", v>>        \* a method: the object is its first argument
Called(v) == <<"called", v>>
Raised    == <<"raised">>

BindSelf(v) == IF v \in Function THEN BoundMethod(v) ELSE Plain(v)

\* A faulty variant: nothing is copied.
CacheNothing(o, v) == o

CacheAttr(o, v) ==
  IF v \in Function THEN [o EXCEPT !.method = v] ELSE [o EXCEPT !.attribute = v]

\* Klass::getattr: what reading x of the object o gives.
Reads(o) ==
  IF GetAttr(o.class, "__getattr__") # Absent THEN Called("__getattr__")
  ELSE IF o.attribute # Absent THEN Plain(o.attribute)
  ELSE IF o.method # Absent THEN BoundMethod(o.method)
  ELSE IF GetAttr(o.class, "x") # Absent THEN BindSelf(GetAttr(o.class, "x"))
  ELSE Raised

\* And what it leaves.
AfterRead(o) ==
  IF \/ GetAttr(o.class, "__getattr__") # Absent
     \/ o.attribute # Absent \/ o.method # Absent
     \/ GetAttr(o.class, "x") = Absent
    THEN o
    ELSE CacheAttr(o, GetAttr(o.class, "x"))

\* `last` is a history: what x was when it was last read or stored.
Touch(o, r) == IF r[1] \in {"plain", "bound"} THEN [o EXCEPT !.last = r] ELSE o

-----------------------------------------------------------------------------
ClassInit == classes = << >> /\ object = Absent /\ result = "raised"

\* Bound: a hierarchy of more than MaxUsed classes has no attributes.
CanBuild(x, magic) ==
  /\ Len(classes) < MaxClasses
  /\ Len(classes) >= MaxUsed =>
       /\ object = Absent /\ x = Absent /\ magic = {}
       /\ \A c \in DOMAIN classes : classes[c].x = Absent /\ classes[c].magic = {}

\* A class statement, after its body: one that inherits from nothing inherits
\* from object.  It fails where the merge does.
BuildClass(bases, x, magic) ==
  /\ LET order == ComputeMro(Len(classes) + 1, bases)
     IN IF order = {} THEN result' = "no order" /\ UNCHANGED classes
        ELSE /\ \E mro \in order :
                  classes' = Append(classes, [bases |-> bases, mro |-> mro, x |-> x,
                                              magic |-> magic, typeX |-> Absent])
             /\ UNCHANGED result
  /\ UNCHANGED object

\* Klass::init.  Bound: one object.
Instantiate(c) ==
  /\ object = Absent
  /\ object' = [class |-> c, attribute |-> Absent, method |-> Absent, last |-> Absent]
  /\ UNCHANGED <<classes, result>>

\* LOAD_ATTR of the object.
LoadAttr ==
  /\ object # Absent
  /\ object' = Touch(AfterRead(object), Reads(object))
  /\ result' = Reads(object)[1]
  /\ UNCHANGED classes

\* STORE_ATTR of the object.
StoreAttr(v) ==
  /\ object # Absent
  /\ IF GetAttr(object.class, "__setattr__") # Absent
       THEN UNCHANGED object /\ result' = "called"
       ELSE /\ object' = Touch([object EXCEPT !.attribute = v], Plain(v))
            /\ result' = "plain"
  /\ UNCHANGED classes

\* An operator of a user's class: its method is read as any attribute is, and
\* called; what is not a function cannot be.
Invoke ==
  /\ object # Absent
  /\ object' = Touch(AfterRead(object), Reads(object))
  /\ result' = IF Reads(object)[1] \in {"plain", "bound"}
                  /\ Reads(object)[2] \in Function
                 THEN "called" ELSE "raised"
  /\ UNCHANGED classes

\* Klass::repr looks the method up in the classes, and keeps nothing.
Repr ==
  /\ object # Absent
  /\ LET v == GetAttr(object.class, "x")
     IN result' = IF v \in Function THEN "called" ELSE "raised"
  /\ UNCHANGED <<classes, object>>

\* C.x = v: the type object that a class statement leaves has the dictionary of
\* its class.  C.x: inherited attributes are not looked for.
StoreClassAttr(c, v) ==
  /\ classes' = [classes EXCEPT ![c].x = v]
  /\ result' = "plain"
  /\ UNCHANGED object

LoadClassAttr(c) ==
  /\ result' = IF classes[c].x = Absent THEN "raised" ELSE "plain"
  /\ UNCHANGED <<classes, object>>

\* type(o).x: this type object was made before its class had a dictionary, and
\* has one of its own.
StoreTypeAttr(c, v) ==
  /\ classes' = [classes EXCEPT ![c].typeX = v]
  /\ result' = "plain"
  /\ UNCHANGED object

LoadTypeAttr(c) ==
  /\ result' = IF classes[c].typeX = Absent THEN "raised" ELSE "plain"
  /\ UNCHANGED <<classes, object>>

\* Bounds: base lists without repetition; one class with a special method.
Magics == {{}} \cup IF \A c \in DOMAIN classes : classes[c].magic = {} THEN {{name} : name \in Special} ELSE {}

BaseLists ==
  {bases \in Sequence!SeqOf(Declared, Len(classes) + 1) :
     bases # << >> /\ Sequence!IsInjective(bases)}

Used == IF Len(classes) <= MaxUsed THEN DOMAIN classes ELSE {}

ClassNext ==
  \/ \E x \in AttributeValue \cup {Absent}, magic \in Magics :
       CanBuild(x, magic) /\ \E bases \in BaseLists : BuildClass(bases, x, magic)
  \/ LoadAttr \/ Invoke \/ Repr
  \/ \E v \in AttributeValue : StoreAttr(v)
  \/ \E c \in Used :
       \/ Instantiate(c) \/ LoadClassAttr(c) \/ LoadTypeAttr(c)
       \/ \E v \in AttributeValue : StoreClassAttr(c, v) \/ StoreTypeAttr(c, v)

ClassSpec == ClassInit /\ [][ClassNext]_classVars

-----------------------------------------------------------------------------
(* The order as it is described: that of the C3 merge of the bases' orders. *)
(* Python merges the list of the bases with them; nothing does that here.   *)

\* The classes of an order, each at its first place.
FirstPlaces(order) ==
  LET first[i \in 0..Len(order)] ==
        IF i = 0 THEN << >>
        ELSE IF Among(order[i], first[i - 1]) THEN first[i - 1]
        ELSE Append(first[i - 1], order[i])
  IN first[Len(order)]

\* The last class of a merge that gets stuck.
Stuck == -1

\* The positions of a list whose classes have no place in the order yet, and
\* the first of them.
Unplaced(list, order) == {p \in DOMAIN list : ~Among(list[p], order)}
Foremost(list, order) == {p \in Unplaced(list, order) : \A q \in Unplaced(list, order) : p <= q}

\* The lists whose foremost class is behind another one in no list.
Mergeable(lists, order) ==
  {i \in DOMAIN lists : \E p \in Foremost(lists[i], order) :
     \A j \in DOMAIN lists : \A q \in Unplaced(lists[j], order) :
       lists[j][q] = lists[i][p] => q \in Foremost(lists[j], order)}

MergeNext(lists, order) ==
  LET good == Mergeable(lists, order)
      i    == CHOOSE i \in good : \A j \in good : i <= j
  IN IF Among(Stuck, order) \/ \A j \in DOMAIN lists : Unplaced(lists[j], order) = {} THEN order
     ELSE IF good = {} THEN Append(order, Stuck)
     ELSE Append(order, lists[i][CHOOSE p \in Foremost(lists[i], order) : TRUE])

\* The merge of lists of n classes or fewer.
Merge(lists, n) ==
  LET order[k \in 0..n] == IF k = 0 THEN << >> ELSE MergeNext(lists, order[k - 1])
  IN order[n]

Order(c) ==
  IF c = 0 THEN <<0>>
  ELSE LET bases == classes[c].bases
       IN <<c>> \o Merge([i \in DOMAIN bases |-> FirstPlaces(Mro(bases[i]))], c)

\* Where the bases' orders can be merged, a class has the merge for its order,
\* so that every base's order is kept; the lists that are passed over while they
\* are shortened only have a class named again, and the candidate's list is
\* still at its position after that (CoreHelper.cpp:224, :249).
MroIsMerge ==
  /\ result # "no order"
  /\ \A c \in 1..Len(classes) :
       /\ Mro(c) \in Seq(0..c)
       /\ LET order == Order(c)
          IN ~Among(Stuck, order) => FirstPlaces(Mro(c)) = order

\* An object sees what its classes say now until it first reads or stores the
\* attribute, and from then on what it then read or stored, whatever becomes
\* of the classes (Klass.cpp:246).
AttributesStick ==
  object # Absent /\ GetAttr(object.class, "__getattr__") = Absent =>
    IF object.last # Absent THEN Reads(object) = object.last
    ELSE LET v == FirstIn(Order(object.class), "x")
         IN ~Among(Stuck, Order(object.class)) =>
              Reads(object) = IF v = Absent THEN Raised ELSE BindSelf(v)
=============================================================================
