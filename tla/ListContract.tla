---------------------------- MODULE ListContract ----------------------------
(***************************************************************************)
(* What the users of Collections::List rely on: a finite sequence.  There  *)
(* is no array, no capacity and no garbage behind the last element.        *)
(***************************************************************************)
EXTENDS Integers, Sequences

Seqs == INSTANCE SequencesExt

CONSTANTS
  Value,      \* the elements
  Argument,   \* the sequences that are passed as arguments
  MaxSize     \* bound: elements in the list

VARIABLES
  seq,        \* the list
  ret         \* what the last operation returned

svars == <<seq, ret>>

Done     == <<"done">>
Threw    == <<"threw">>
Item(v)  == <<"item", v>>
Items(s) == <<"items", s>>

Returns(r) == ret' = r
Throws     == ret' = Threw /\ UNCHANGED seq
Becomes(s) == Len(s) <= MaxSize /\ seq' = s

\* Sequences of one element again and again.
Repeat(n, e) == [i \in 1..n |-> e]

Init == seq \in {<<>>} \cup Argument /\ ret = Done

Push(e)    == Becomes(Append(seq, e)) /\ Returns(Done)
Unshift(e) == Becomes(<<e>> \o seq) /\ Returns(Done)

Shift ==
  IF seq = <<>> THEN Throws ELSE seq' = Tail(seq) /\ Returns(Item(Head(seq)))

Pop ==
  IF seq = <<>> THEN Throws ELSE seq' = Seqs!Front(seq) /\ Returns(Item(Seqs!Last(seq)))

PopMany(k) ==
  IF k > Len(seq) THEN Throws
  ELSE /\ seq' = SubSeq(seq, 1, Len(seq) - k)
       /\ Returns(Items(SubSeq(seq, Len(seq) - k + 1, Len(seq))))

Concat(list) == Becomes(seq \o list) /\ Returns(Done)
Clear        == seq' = <<>> /\ Returns(Done)

Insert(index, e) ==
  IF index > Len(seq) THEN Throws
  ELSE /\ Becomes(SubSeq(seq, 1, index) \o <<e>> \o SubSeq(seq, index + 1, Len(seq)))
       /\ Returns(Done)

\* start and everything up to end, which is not included, is replaced.
Spliced(start, end, list) ==
  SubSeq(seq, 1, start) \o list \o SubSeq(seq, end + 1, Len(seq))

RemoveAt(index) ==
  IF index >= Len(seq) THEN Throws
  ELSE seq' = Spliced(index, index + 1, <<>>) /\ Returns(Done)

RemoveRange(start, length) ==
  IF start >= Len(seq) \/ start + length > Len(seq) THEN Throws
  ELSE seq' = Spliced(start, start + length, <<>>) /\ Returns(Done)

InsertAndReplace(start, end, list) ==
  IF start > Len(seq) \/ end > Len(seq) \/ start > end THEN Throws
  ELSE Becomes(Spliced(start, end, list)) /\ Returns(Done)

ReverseList == seq' = Seqs!Reverse(seq) /\ Returns(Done)

Set(index, e) ==
  IF index >= Len(seq) THEN Throws
  ELSE seq' = [seq EXCEPT ![index + 1] = e] /\ Returns(Done)

\* Nothing is promised about how much longer the list becomes.
Fill(e) ==
  \/ Throws
  \/ Len(seq') >= Len(seq) /\ seq' = Repeat(Len(seq'), e) /\ Returns(Done)

ExpandWithElement(n, e) ==
  Becomes(seq \o Repeat(n - Len(seq), e)) /\ Returns(Done)

Assign(list) == seq' = list /\ Returns(Done)

\* Changes of the capacity only.
Reallocate == UNCHANGED seq /\ Returns(Done)

Next ==
  \/ Shift \/ Pop \/ Clear \/ ReverseList \/ Reallocate
  \/ \E e \in Value : Push(e) \/ Unshift(e) \/ Fill(e)
  \/ \E list \in Argument \cup {seq} : Concat(list)
  \/ \E list \in Argument : Assign(list)
  \/ \E index \in 0..MaxSize + 1 :
       \/ RemoveAt(index) \/ PopMany(index)
       \/ \E e \in Value : Insert(index, e) \/ Set(index, e)
       \/ \E length \in 0..MaxSize + 1 :
            \/ RemoveRange(index, length)
            \/ \E list \in Argument : InsertAndReplace(index, length, list)
  \/ \E n \in Len(seq)..MaxSize, e \in Value : ExpandWithElement(n, e)

Spec == Init /\ [][Next]_svars
=============================================================================
