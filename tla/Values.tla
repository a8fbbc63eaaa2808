---- MODULE Values ----
(* The objects programs compute with, as far as control depends on them: a      *)
(* value is a pair of its Klass and a payload.  Integers, booleans and None are *)
(* concrete; what an operator makes of other operands is the term of the method *)
(* and its operands, which tells apart every method and every order of operands *)
(* (and leaves out that some of those methods throw).                           *)
EXTENDS Integers, SequencesExt

None    == <<"none", 0>>
Num(n)  == <<"int", n>>
Bool(b) == <<"bool", b>>
Str(s)  == <<"str", s>>
IterDone == <<"iterdone", 0>>
Term(method, operands) == <<"term", <<method>> \o operands>>

(* Objects with state are references into a heap of records.                    *)
Ref(h)      == <<"ref", h>>
IsRef(v)    == v[1] = "ref"
IsInt(v)    == v[1] = "int"

(* Klass::add ... of two operands.                                              *)
Binary2(method, l, r) ==
  CASE IsInt(l) /\ IsInt(r) /\ method = "add" -> Num(l[2] + r[2])
    [] IsInt(l) /\ IsInt(r) /\ method = "sub" -> Num(l[2] - r[2])
    [] IsInt(l) /\ IsInt(r) /\ method = "eq"  -> Bool(l[2] = r[2])
    [] IsInt(l) /\ IsInt(r) /\ method = "ne"  -> Bool(l[2] # r[2])
    [] IsInt(l) /\ IsInt(r) /\ method = "lt"  -> Bool(l[2] < r[2])
    [] IsInt(l) /\ IsInt(r) /\ method = "le"  -> Bool(l[2] <= r[2])
    [] IsInt(l) /\ IsInt(r) /\ method = "gt"  -> Bool(l[2] > r[2])
    [] IsInt(l) /\ IsInt(r) /\ method = "ge"  -> Bool(l[2] >= r[2])
    [] OTHER                                  -> Term(method, <<l, r>>)

Unary1(method, v) ==
  IF method = "neg" /\ IsInt(v) THEN Num(-v[2]) ELSE Term(method, <<v>>)

(* IsTrue: what `boolean` answers of the values a program branches on.          *)
IsTrue(v) == CASE v[1] = "bool" -> v[2]
               [] v[1] = "int"  -> v[2] # 0
               [] v[1] = "none" -> FALSE

(* Lists and their iterators.  An iterator asks how long its list is now.       *)
ListObj(es)       == [kind |-> "list", elems |-> es]
ListIterator(l)   == [kind |-> "listiter", list |-> l, index |-> 0]

ListNext(heap, h) ==
  LET it == heap[h]
      es == heap[it.list].elems
  IN IF it.index >= Len(es) THEN [heap |-> heap, value |-> IterDone]
     ELSE [heap |-> [heap EXCEPT ![h].index = @ + 1], value |-> es[it.index + 1]]

(* What print shows of a value; of functions and methods, that it is one.  A    *)
(* list in more lists than there are objects is inside itself.                  *)
Plain(v) == IF v[1] \in {"func", "method"} THEN <<"object", v[1]>> ELSE v

Shown(heap, v) ==
  LET shown[depth \in 0..Len(heap), h \in DOMAIN heap] ==
        IF heap[h].kind # "list" \/ depth = 0 THEN <<"object", heap[h].kind>>
        ELSE <<"list", [i \in DOMAIN heap[h].elems |->
                          LET w == heap[h].elems[i]
                          IN IF IsRef(w) THEN shown[depth - 1, w[2]] ELSE Plain(w)]>>
  IN IF IsRef(v) THEN shown[Len(heap), v[2]] ELSE Plain(v)
====
