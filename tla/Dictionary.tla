----------------------------- MODULE Dictionary -----------------------------
(***************************************************************************)
(* Dictionaries, and iterators that go through them by counting.           *)
(*                                                                         *)
(* A dictionary is a std::unordered_map from pointers to pointers.  It     *)
(* hashes the pointer, so the address of a key decides which keys it is in *)
(* a bucket with; there it compares by the operator == of objects, which   *)
(* for two objects of a class asks what the class says: two objects can be *)
(* one key, and the comparison can raise.  The order of the entries is not *)
(* specified, and after an insertion it is another one, as are the buckets.*)
(***************************************************************************)
EXTENDS Integers, Sequences, Functions

CONSTANTS
  Key,        \* objects used as keys
  Datum,      \* objects used as values
  Nothing,    \* the null pointer, and what is not there
  Displayed,  \* pairs of a key and a value that are written in a display
  Placement,  \* what addresses and sizes can make of the buckets: which one a key is
              \* in, named by one of the keys in it
  Comparison  \* what == may say of a key that is sought and another one that is
              \* there; nothing if it does not return.  It leaves the dictionary
              \* alone.  Of objects of different classes it says "different".

ASSUME DictionaryAssumption ==
  /\ Nothing \notin Datum
  /\ Displayed \subseteq Key \X Datum
  /\ Placement \subseteq [Key -> Key]
  /\ Comparison \in [Key \X Key -> SUBSET {"equal", "different", "raised"}]

VARIABLES
  entries,    \* the keys and values, in the order they are gone through
  bucket,     \* the bucket of every key, there or not
  position,   \* index of an iterator, or Nothing
  lastStored, \* history: the value last stored under each key
  later,      \* history: the keys stored under since that == may confuse with it
  missed,     \* history: keys that were added by a read, and got no value since
  met,        \* history: the keys the iterator gave, while nothing came or went
  disturbed   \* history: whether entries came or went since the loop began

dictVars == <<entries, bucket, position, lastStored, later, missed, met, disturbed>>

Keys == {entries[i][1] : i \in DOMAIN entries}
Size == Len(entries)

Forget == [k \in Key |-> Nothing]

DictInit ==
  /\ entries = << >> /\ bucket \in Placement /\ position = Nothing
  /\ lastStored = Forget /\ later = [k \in Key |-> {}] /\ missed = {}
  /\ met = << >> /\ disturbed = FALSE

-----------------------------------------------------------------------------
(* operator == of a key k that is sought and a key l that is there.         *)

MayBe(k, l) == k = l \/ "equal" \in Comparison[k, l]
Differs(k, l) == k # l /\ "different" \in Comparison[k, l]
MayRaise(k, l) == k # l /\ "raised" \in Comparison[k, l]

-----------------------------------------------------------------------------
(* std::unordered_map: a list of pairs and the buckets their keys are in.   *)

BucketOf(map, place, k) == {i \in DOMAIN map : place[map[i][1]] = place[k]}

\* The entries that a search for k compares with: those of its bucket, from the
\* first one to one that is not different.
ComparedWith(map, place, k) ==
  {i \in BucketOf(map, place, k) :
    \A j \in BucketOf(map, place, k) : j < i => Differs(k, map[j][1])}

Finds(map, place, k) == {i \in ComparedWith(map, place, k) : MayBe(k, map[i][1])}
NotFound(map, place, k) == \A i \in BucketOf(map, place, k) : Differs(k, map[i][1])
Raises(map, place, k) == \E i \in ComparedWith(map, place, k) : MayRaise(k, map[i][1])

\* The orders an insertion may leave.
Orders(list) == {[i \in DOMAIN list |-> list[p[i]]] : p \in Bijection(DOMAIN list, DOMAIN list)}

Inserted(map, k, v) == [pairs : Orders(Append(map, <<k, v>>)), place : Placement]

\* A faulty variant: an entry that is found keeps its value.
insert(map, place, k, v) ==
  {[pairs |-> map, place |-> place] : i \in Finds(map, place, k)}
  \cup IF NotFound(map, place, k) THEN Inserted(map, k, v) ELSE {}

\* An entry that is found keeps its key.
insert_or_assign(map, place, k, v) ==
  {[pairs |-> [map EXCEPT ![i] = <<map[i][1], v>>], place |-> place] : i \in Finds(map, place, k)}
  \cup IF NotFound(map, place, k) THEN Inserted(map, k, v) ELSE {}

-----------------------------------------------------------------------------
Leaves(map) == entries' = map.pairs /\ bucket' = map.place

Disturbs ==
  /\ disturbed' = (disturbed \/ Len(entries') # Size)
  /\ met' = IF disturbed' THEN << >> ELSE met

\* Whether == may take an object for both.
Confused(k, l) == \E m \in Key : MayBe(k, m) /\ MayBe(l, m)

\* dict[k] = v
DictSetItem(k, v) ==
  \/ Raises(entries, bucket, k) /\ UNCHANGED dictVars
  \/ /\ \E map \in insert_or_assign(entries, bucket, k, v) : Leaves(map)
     /\ lastStored' = [lastStored EXCEPT ![k] = v]
     /\ later' = [l \in Key |->
                   IF l = k THEN {}
                   ELSE later[l] \cup {m \in {k} : lastStored[l] # Nothing /\ Confused(l, m)}]
     /\ missed' = missed \ {entries'[i][1] : i \in {j \in DOMAIN entries' : entries'[j][2] # Nothing}}
     /\ Disturbs
     /\ UNCHANGED position

\* dict[k], dict.get(k): a key that is not found is added, with a null value.
DictGetItem(k) ==
  \/ Raises(entries, bucket, k) /\ UNCHANGED dictVars
  \/ Finds(entries, bucket, k) # {} /\ UNCHANGED dictVars
  \/ /\ NotFound(entries, bucket, k)
     /\ \E map \in Inserted(entries, k, Nothing) : Leaves(map)
     /\ missed' = missed \cup {k}
     /\ Disturbs
     /\ UNCHANGED <<position, lastStored, later>>

DictClear ==
  /\ entries' = << >>
  /\ lastStored' = Forget /\ later' = [k \in Key |-> {}] /\ missed' = {}
  /\ Disturbs
  /\ UNCHANGED <<bucket, position>>

\* {k: v, l: w}, in place of the old one, which stays if a comparison raises.
\* The pairs are pushed from the last to the first, so the first is stored first.
BuildMap(first, second) ==
  LET one == Inserted(<< >>, first[1], first[2])
  IN
  \/ (\E map \in one : Raises(map.pairs, map.place, second[1])) /\ UNCHANGED dictVars
  \/ /\ \E map \in UNION {insert_or_assign(map.pairs, map.place, second[1], second[2]) :
                             map \in one} : Leaves(map)
     /\ lastStored' = [Forget EXCEPT ![first[1]] = first[2], ![second[1]] = second[2]]
     /\ later' = [[k \in Key |-> {}] EXCEPT ![first[1]] =
                   {k \in {second[1]} : k # first[1] /\ Confused(first[1], k)}]
     /\ missed' = {} /\ position' = Nothing /\ met' = << >> /\ disturbed' = FALSE

\* A loop begins, and asks for the next entry.
Iter ==
  /\ position' = 0 /\ met' = << >> /\ disturbed' = FALSE
  /\ UNCHANGED <<entries, bucket, lastStored, later, missed>>

NextItem ==
  /\ position # Nothing /\ position < Size
  /\ met' = IF disturbed THEN << >> ELSE Append(met, entries[position + 1][1])
  /\ position' = position + 1
  /\ UNCHANGED <<entries, bucket, lastStored, later, missed, disturbed>>

DictNext ==
  \/ DictClear \/ Iter \/ NextItem
  \/ \E k \in Key : DictGetItem(k) \/ \E v \in Datum : DictSetItem(k, v)
  \/ \E first, second \in Displayed : BuildMap(first, second)

DictSpec == DictInit /\ [][DictNext]_dictVars

-----------------------------------------------------------------------------
\* Nothing is ever equal to k but k.
Alone(k) == \A l \in Key \ {k} : "equal" \notin Comparison[k, l] \cup Comparison[l, k]

\* A value that was stored is under a key that was taken for its own, unless it
\* has been overwritten under one that was.
StoredIs(k) ==
  \E i \in DOMAIN entries :
    /\ MayBe(k, entries[i][1])
    /\ \/ entries[i][2] = lastStored[k]
       \/ \E l \in later[k] : MayBe(l, entries[i][1])

\* No object is a key twice; no store is lost, whatever == says, where the keys
\* meet and in which order a display stores its pairs; a key that nothing else
\* is equal to is there if it was stored under or missed, with the value last
\* stored under it, the last one of a display; null values are only where a key
\* was missed; a loop during which no entry came or went gives every key once
\* (PyDictionary.cpp:13-49, PyObject.cpp:69-78, Map.cpp:12-15, Iterator.cpp:71-80).
DictionaryKept ==
  /\ \A i, j \in DOMAIN entries : entries[i][1] = entries[j][1] => i = j
  /\ \A k \in Key : lastStored[k] # Nothing => StoredIs(k)
  /\ \A k \in Key : Alone(k) =>
       /\ k \in Keys <=> lastStored[k] # Nothing \/ k \in missed
       /\ \A i \in DOMAIN entries : entries[i][1] = k => entries[i][2] = lastStored[k]
  /\ \A i \in DOMAIN entries : entries[i][2] = Nothing => entries[i][1] \in missed
  /\ position # Nothing /\ ~disturbed =>
       /\ \A i, j \in DOMAIN met : met[i] = met[j] => i = j
       /\ position >= Size => {met[i] : i \in DOMAIN met} = Keys
=============================================================================
