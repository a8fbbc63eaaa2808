---------------------------- MODULE InputProofs ----------------------------
(***************************************************************************)
(* Proofs about the event bus (module Input), for any number of calls of   *)
(* input(), host callbacks and lines, and any width of the counter.        *)
(*                                                                         *)
(* The last three theorems rest on the same fact, TurnsInv: one of the two *)
(* threads interprets and the other only reads or waits, unless a history  *)
(* flag says that the schedule let them overlap.  From it follow where a   *)
(* publication may stand (StrayInv), which line an input() waits for       *)
(* (LineInv) and who owns an answer that has arrived (TurnsInv itself).    *)
(***************************************************************************)
EXTENDS Input, FiniteSetTheorems, TLAPS

Subscription == [id : 0..IdLimit - 1, who : Prompt \cup Host]

-----------------------------------------------------------------------------
(* Erasing: what is left was there, in the same order, each element once.   *)

LEMMA WithoutIsPart ==
  ASSUME NEW list \in Seq(Subscription), NEW id, NEW left \in Without(list, id)
  PROVE  /\ left \in Seq(Subscription)
         /\ \E f \in [1..Len(left) -> 1..Len(list)] :
              /\ \A k \in 1..Len(left) : left[k] = list[f[k]]
              /\ \A k, l \in 1..Len(left) : f[k] = f[l] => k = l
              /\ \A k, l \in 1..Len(left) : k < l => f[k] < f[l]
<1> DEFINE kept == {i \in DOMAIN list : list[i].id # id}
           n == Cardinality(kept)
<1>1. kept \subseteq 1..Len(list) /\ Len(list) \in Nat
  OBVIOUS
<1>2. n \in Nat
  <2>1. IsFiniteSet(1..Len(list))
    BY <1>1, FS_Interval
  <2>2. IsFiniteSet(kept)
    BY <1>1, <2>1, FS_Subset
  <2> QED BY <2>2, FS_CardinalityType
<1>3. PICK f \in [1..n -> kept] :
        /\ \A k, l \in DOMAIN f : k < l => f[k] < f[l]
        /\ left = [k \in DOMAIN f |-> list[f[k]]]
  BY DEF Without
<1> HIDE DEF kept, n
<1>4. f \in [1..n -> 1..Len(list)]
  BY <1>1, <1>3
<1>5. \A k \in 1..n : list[f[k]] \in Subscription
  BY <1>4
<1>6. left \in Seq(Subscription) /\ Len(left) = n
  BY <1>2, <1>3, <1>5
<1>7. \A k, l \in 1..n : (f[k] = f[l] => k = l) /\ (k < l => f[k] < f[l])
  BY <1>2, <1>3, <1>4
<1> QED BY <1>3, <1>4, <1>6, <1>7

-----------------------------------------------------------------------------
(* IdsUnique is not inductive alone: a new id differs from the others       *)
(* because the counter, as long as it has not gone round, is the number of  *)
(* subscriptions made, and no id is larger than it.                         *)

Fresh(list, made) ==
  /\ \A i \in 1..Len(list) : list[i].id \in 1..made
  /\ \A i, j \in 1..Len(list) : list[i].id = list[j].id => i = j

IdInv ==
  /\ subscriptions \in Seq(Subscription)
  /\ nextId \in 0..IdLimit - 1 /\ issued \in Nat
  /\ issued < IdLimit => nextId = issued /\ Fresh(subscriptions, issued)

LEMMA IdInvInit == Init => IdInv
BY InputAssumption DEF Init, IdInv, Fresh

LEMMA IdInvImplies == IdInv => IdsUnique
BY DEF IdInv, IdsUnique, Fresh

LEMMA SubscribeKeepsIds ==
  ASSUME IdInv, NEW who \in Prompt \cup Host, subscribe(who)
  PROVE  IdInv'
<1> DEFINE s == [id |-> generate_id, who |-> who]
<1>1. IdLimit \in Nat \ {0}
  BY InputAssumption
<1>2. generate_id \in 0..IdLimit - 1
  BY <1>1 DEF generate_id, IdInv
<1>3. s \in Subscription
  BY <1>2 DEF Subscription
<1>4. /\ subscriptions' = Append(subscriptions, s)
      /\ nextId' = generate_id /\ issued' = issued + 1
  BY DEF subscribe, push_back
<1>5. /\ subscriptions' \in Seq(Subscription)
      /\ Len(subscriptions') = Len(subscriptions) + 1
      /\ Len(subscriptions) \in Nat
      /\ subscriptions'[Len(subscriptions) + 1] = s
      /\ \A i \in 1..Len(subscriptions) : subscriptions'[i] = subscriptions[i]
  BY <1>3, <1>4 DEF IdInv
<1>6. ASSUME issued + 1 < IdLimit
      PROVE  nextId' = issued' /\ Fresh(subscriptions', issued')
  <2>1. nextId = issued /\ issued \in Nat /\ Fresh(subscriptions, issued)
    BY <1>1, <1>6 DEF IdInv
  <2>2. generate_id = issued + 1
    BY <1>1, <1>6, <2>1 DEF generate_id
  <2>3. s.id = issued + 1
    BY <2>2
  <2> HIDE DEF s
  <2>4. \A i \in 1..Len(subscriptions') : i \in 1..Len(subscriptions) \/ i = Len(subscriptions) + 1
    BY <1>5
  <2>5. \A i \in 1..Len(subscriptions) :
          subscriptions'[i].id = subscriptions[i].id /\ subscriptions[i].id \in 1..issued
    BY <1>5, <2>1 DEF Fresh
  <2>6. \A i \in 1..Len(subscriptions') : subscriptions'[i].id \in 1..issued + 1
    BY <1>5, <2>1, <2>3, <2>4, <2>5
  <2>7. ASSUME NEW i \in 1..Len(subscriptions'), NEW j \in 1..Len(subscriptions'),
               subscriptions'[i].id = subscriptions'[j].id
        PROVE  i = j
    <3>1. CASE i \in 1..Len(subscriptions) /\ j \in 1..Len(subscriptions)
      BY <2>1, <2>5, <2>7, <3>1 DEF Fresh
    <3>2. CASE i = Len(subscriptions) + 1 /\ j \in 1..Len(subscriptions)
      BY <1>5, <2>1, <2>3, <2>5, <2>7, <3>2
    <3>3. CASE i \in 1..Len(subscriptions) /\ j = Len(subscriptions) + 1
      BY <1>5, <2>1, <2>3, <2>5, <2>7, <3>3
    <3> QED BY <2>4, <3>1, <3>2, <3>3
  <2> QED BY <1>4, <2>2, <2>6, <2>7 DEF Fresh
<1> QED BY <1>2, <1>4, <1>5, <1>6 DEF IdInv

LEMMA PartStaysFresh ==
  ASSUME NEW list, NEW left, NEW made, NEW n, NEW m, n = Len(list), m = Len(left),
         NEW f \in [1..m -> 1..n],
         \A k \in 1..m : left[k] = list[f[k]],
         \A k, l \in 1..m : f[k] = f[l] => k = l,
         Fresh(list, made)
  PROVE  Fresh(left, made)
<1>1. \A k \in 1..m : f[k] \in 1..n
  OBVIOUS
<1>2. \A i \in 1..n : list[i].id \in 1..made
  BY DEF Fresh
<1>3. \A i, j \in 1..n : list[i].id = list[j].id => i = j
  BY DEF Fresh
<1>4. \A k \in 1..m : left[k].id \in 1..made
  BY <1>1, <1>2
<1>5. \A k, l \in 1..m : left[k].id = left[l].id => k = l
  BY <1>1, <1>3
<1> QED BY <1>4, <1>5 DEF Fresh

LEMMA UnsubscribeKeepsIds ==
  ASSUME IdInv, NEW id, unsubscribe(id)
  PROVE  IdInv'
<1>1. /\ subscriptions' \in Without(subscriptions, id)
      /\ nextId' = nextId /\ issued' = issued
  BY DEF unsubscribe
<1>2. subscriptions' \in Seq(Subscription)
  BY <1>1, WithoutIsPart DEF IdInv
<1>3. PICK f \in [1..Len(subscriptions') -> 1..Len(subscriptions)] :
        /\ \A k \in 1..Len(subscriptions') : subscriptions'[k] = subscriptions[f[k]]
        /\ \A k, l \in 1..Len(subscriptions') : f[k] = f[l] => k = l
  BY <1>1, WithoutIsPart DEF IdInv
<1>4. ASSUME Fresh(subscriptions, issued) PROVE Fresh(subscriptions', issued)
  <2>1. PICK n, m, list, left, made :
          /\ list = subscriptions /\ left = subscriptions' /\ made = issued
          /\ n = Len(list) /\ m = Len(left)
    OBVIOUS
  <2>2. /\ f \in [1..m -> 1..n]
        /\ \A k \in 1..m : left[k] = list[f[k]]
        /\ \A k, l \in 1..m : f[k] = f[l] => k = l
        /\ Fresh(list, made)
    BY <1>3, <1>4, <2>1
  <2>3. Fresh(left, made)
    BY <2>1, <2>2, PartStaysFresh
  <2> QED BY <2>1, <2>3
<1> QED BY <1>1, <1>2, <1>4 DEF IdInv

LEMMA IdInvNext ==
  ASSUME IdInv, [Next]_vars
  PROVE  IdInv'
<1>0. ASSUME UNCHANGED bus PROVE IdInv'
  BY <1>0 DEF bus, IdInv
<1>1. ASSUME NEW h \in Host, HostSubscribes(h) PROVE IdInv'
  BY <1>1, SubscribeKeepsIds DEF HostSubscribes
<1>2. ASSUME NEW t \in Thread, NEW p \in Prompt, Input(t, p) PROVE IdInv'
  BY <1>2, SubscribeKeepsIds DEF Input
<1>3. ASSUME NEW t \in Thread, NEW h \in Host, HostUnsubscribes(t, h) PROVE IdInv'
  BY <1>3, UnsubscribeKeepsIds DEF HostUnsubscribes
<1>4. CASE Starts \/ Stops \/ ModuleThrows \/ ReaderChecks \/ ReaderAtEof \/ ReaderGetsLine
  BY <1>0, <1>4 DEF Starts, Stops, ModuleThrows, ReaderChecks, ReaderAtEof, ReaderGetsLine
<1>5. ASSUME NEW t \in Thread, Steps(t) PROVE IdInv'
  <2>1. CASE PublishEnds(t) \/ PublishStrays(t)
    BY <1>0, <2>1 DEF PublishEnds, PublishStrays
  <2>2. ASSUME NEW p \in Prompt, PublishResolves(t, p) \/ Then(t, p) PROVE IdInv'
    BY <1>0, <2>2 DEF PublishResolves, Then
  <2>3. ASSUME NEW h \in Host, PublishCalls(t, h) PROVE IdInv'
    BY <1>0, <2>3 DEF PublishCalls
  <2>4. CASE SetValue(t) \/ Registers(t) \/ Resolves(t) \/ Wakes(t) \/ CodeReturns(t)
    BY <1>0, <2>4 DEF SetValue, Registers, Resolves, Wakes, CodeReturns
  <2>5. CASE RunEnters(t) \/ RunTests(t) \/ RunMicroTask(t) \/ RunFindsNothing(t)
             \/ RunStops(t) \/ RunEnds(t)
    BY <1>0, <2>5 DEF RunEnters, RunTests, RunMicroTask, RunFindsNothing, RunStops, RunEnds
  <2> QED BY <1>2, <1>3, <1>5, <2>1, <2>2, <2>3, <2>4, <2>5 DEF Steps
<1>6. CASE UNCHANGED vars
  BY <1>0, <1>6 DEF vars
<1> QED BY <1>1, <1>4, <1>5, <1>6 DEF Next

\* An id is that of one subscription, and not 0, as long as the counter has not
\* gone round, whoever subscribes and unsubscribes on either thread.
THEOREM IdsAreUnique == Spec => []IdsUnique
<1>1. Spec => []IdInv
  BY IdInvInit, IdInvNext, PTL DEF Spec
<1> QED BY <1>1, IdInvImplies, PTL

-----------------------------------------------------------------------------
(* The stacks of the two threads.  In what follows s is the stack of the    *)
(* thread t that takes a step.                                              *)

RunAt == {"enter", "top", "drain", "stop", "end"}

Activation ==
  [fn : {"Code"}, of : Prompt \cup Host \cup {Module, Setup}]
    \cup [fn : {"Registering"}, of : Prompt]
    \cup [fn : {"Resolving"}, of : Prompt, at : {"value", "callbacks"}]
    \cup [fn : {"Waking"}] \cup [fn : {"Run"}, at : RunAt]
    \cup [fn : {"Reading"}, at : {"check", "getline"}]
    \cup [fn : {"Publishing"}, at : Nat \ {0}, end : Nat, buffer : Nat]

LEMMA Activations ==
  /\ \A c \in Prompt \cup Host \cup {Module, Setup} :
       Code(c) \in Activation /\ Code(c).fn = "Code" /\ Code(c).of = c
  /\ \A p \in Prompt : /\ Registering(p) \in Activation
                       /\ Registering(p).fn = "Registering" /\ Registering(p).of = p
  /\ \A p \in Prompt : \A at \in {"value", "callbacks"} :
       /\ Resolving(p, at) \in Activation /\ Resolving(p, at).fn = "Resolving"
       /\ Resolving(p, at).of = p /\ Resolving(p, at).at = at
  /\ Waking \in Activation /\ Waking.fn = "Waking"
  /\ \A at \in RunAt : Run(at) \in Activation /\ Run(at).fn = "Run" /\ Run(at).at = at
  /\ \A at \in {"check", "getline"} : Reading(at) \in Activation /\ Reading(at).fn = "Reading"
  /\ \A end, buffer \in Nat :
       /\ Publishing(1, end, buffer) \in Activation
       /\ Publishing(1, end, buffer).fn = "Publishing" /\ Publishing(1, end, buffer).at = 1
       /\ Publishing(1, end, buffer).end = end /\ Publishing(1, end, buffer).buffer = buffer
<1>1. \A c \in Prompt \cup Host \cup {Module, Setup} :
        Code(c) \in Activation /\ Code(c).fn = "Code" /\ Code(c).of = c
  BY DEF Activation, Code
<1>2. \A p \in Prompt : /\ Registering(p) \in Activation
                        /\ Registering(p).fn = "Registering" /\ Registering(p).of = p
  BY DEF Activation, Registering
<1>3. \A p \in Prompt : \A at \in {"value", "callbacks"} :
       /\ Resolving(p, at) \in Activation /\ Resolving(p, at).fn = "Resolving"
       /\ Resolving(p, at).of = p /\ Resolving(p, at).at = at
  BY DEF Activation, Resolving
<1>4. Waking \in Activation /\ Waking.fn = "Waking"
  BY DEF Activation, Waking
<1>5. \A at \in RunAt : Run(at) \in Activation /\ Run(at).fn = "Run" /\ Run(at).at = at
  BY DEF Activation, Run
<1>6. \A at \in {"check", "getline"} : Reading(at) \in Activation /\ Reading(at).fn = "Reading"
  BY DEF Activation, Reading
<1>7. \A end, buffer \in Nat :
       /\ Publishing(1, end, buffer) \in Activation
       /\ Publishing(1, end, buffer).fn = "Publishing" /\ Publishing(1, end, buffer).at = 1
       /\ Publishing(1, end, buffer).end = end /\ Publishing(1, end, buffer).buffer = buffer
  BY DEF Activation, Publishing
<1> QED BY <1>1, <1>2, <1>3, <1>4, <1>5, <1>6, <1>7

LEMMA ActivationParts ==
  ASSUME NEW a \in Activation
  PROVE  /\ a.fn \in {"Code", "Registering", "Resolving", "Waking", "Run", "Reading", "Publishing"}
         /\ a.fn = "Code" => a.of \in Prompt \cup Host \cup {Module, Setup} /\ a = Code(a.of)
         /\ a.fn \in {"Registering", "Resolving"} => a.of \in Prompt
         /\ a.fn = "Run" => a.at \in RunAt
         /\ a.fn = "Publishing" =>
              /\ a.at \in Nat \ {0} /\ a.end \in Nat /\ a.buffer \in Nat
              /\ [a EXCEPT !.at = @ + 1] \in Activation
              /\ [a EXCEPT !.at = @ + 1].fn = "Publishing"
              /\ [a EXCEPT !.at = @ + 1].at = a.at + 1
              /\ [a EXCEPT !.at = @ + 1].end = a.end
              /\ [a EXCEPT !.at = @ + 1].buffer = a.buffer
<1>1. CASE a \in [fn : {"Publishing"}, at : Nat \ {0}, end : Nat, buffer : Nat]
  <2>1. /\ a.fn = "Publishing" /\ a.at \in Nat \ {0} /\ a.end \in Nat /\ a.buffer \in Nat
        /\ [a EXCEPT !.at = @ + 1] \in [fn : {"Publishing"}, at : Nat \ {0}, end : Nat, buffer : Nat]
        /\ [a EXCEPT !.at = @ + 1].at = a.at + 1
        /\ [a EXCEPT !.at = @ + 1].end = a.end
        /\ [a EXCEPT !.at = @ + 1].buffer = a.buffer
    BY <1>1
  <2>2. [a EXCEPT !.at = @ + 1] \in Activation /\ [a EXCEPT !.at = @ + 1].fn = "Publishing"
    BY <2>1 DEF Activation
  <2> QED BY <2>1, <2>2
<1>2. CASE a \notin [fn : {"Publishing"}, at : Nat \ {0}, end : Nat, buffer : Nat]
  <2>1. CASE a \in [fn : {"Code"}, of : Prompt \cup Host \cup {Module, Setup}]
    BY <2>1 DEF Code
  <2>2. CASE a \notin [fn : {"Code"}, of : Prompt \cup Host \cup {Module, Setup}]
    BY <1>2, <2>2 DEF Activation
  <2> QED BY <2>1, <2>2
<1> QED BY <1>1, <1>2

Others(t) ==
  /\ stack' \in [Thread -> Seq(Activation)]
  /\ \A u \in Thread \ {t} : stack'[u] = stack[u]

Popped(t) ==
  /\ Others(t) /\ Len(stack'[t]) = Len(stack[t]) - 1
  /\ \A i \in 1..Len(stack'[t]) : stack'[t][i] = stack[t][i + 1]

Pushed(t, a) ==
  /\ Others(t) /\ Len(stack'[t]) = Len(stack[t]) + 1
  /\ stack'[t][1] = a /\ \A i \in 1..Len(stack[t]) : stack'[t][i + 1] = stack[t][i]

Swapped(t, a) ==
  /\ Others(t) /\ Len(stack'[t]) = Len(stack[t])
  /\ stack'[t][1] = a /\ \A i \in 2..Len(stack[t]) : stack'[t][i] = stack[t][i]

\* The top becomes b, which calls a.
SwappedAndPushed(t, a, b) ==
  /\ Others(t) /\ Len(stack'[t]) = Len(stack[t]) + 1
  /\ stack'[t][1] = a /\ stack'[t][2] = b
  /\ \A i \in 2..Len(stack[t]) : stack'[t][i + 1] = stack[t][i]

LEMMA SeqShapes ==
  ASSUME NEW S, NEW s \in Seq(S), s # <<>>, NEW a \in S, NEW b \in S
  PROVE  /\ Len(s) \in Nat /\ Len(s) > 0 /\ Head(s) = s[1] /\ s[1] \in S
         /\ Tail(s) \in Seq(S) /\ Len(Tail(s)) = Len(s) - 1
         /\ \A i \in 1..Len(Tail(s)) : Tail(s)[i] = s[i + 1]
         /\ <<a>> \o s \in Seq(S) /\ Len(<<a>> \o s) = Len(s) + 1
         /\ (<<a>> \o s)[1] = a /\ \A i \in 1..Len(s) : (<<a>> \o s)[i + 1] = s[i]
         /\ <<a>> \o Tail(s) \in Seq(S) /\ Len(<<a>> \o Tail(s)) = Len(s)
         /\ (<<a>> \o Tail(s))[1] = a /\ \A i \in 2..Len(s) : (<<a>> \o Tail(s))[i] = s[i]
         /\ <<a, b>> \o Tail(s) \in Seq(S) /\ Len(<<a, b>> \o Tail(s)) = Len(s) + 1
         /\ (<<a, b>> \o Tail(s))[1] = a /\ (<<a, b>> \o Tail(s))[2] = b
         /\ \A i \in 2..Len(s) : (<<a, b>> \o Tail(s))[i + 1] = s[i]
<1>1. /\ Len(s) \in Nat /\ Len(s) > 0 /\ Head(s) = s[1] /\ s[1] \in S
      /\ Tail(s) \in Seq(S) /\ Len(Tail(s)) = Len(s) - 1
      /\ \A i \in 1..Len(Tail(s)) : Tail(s)[i] = s[i + 1]
  OBVIOUS
<1>2. /\ <<a>> \o s \in Seq(S) /\ Len(<<a>> \o s) = Len(s) + 1
      /\ (<<a>> \o s)[1] = a /\ \A i \in 1..Len(s) : (<<a>> \o s)[i + 1] = s[i]
  OBVIOUS
<1>3. /\ <<a>> \o Tail(s) \in Seq(S) /\ Len(<<a>> \o Tail(s)) = Len(s)
      /\ (<<a>> \o Tail(s))[1] = a /\ \A i \in 2..Len(s) : (<<a>> \o Tail(s))[i] = s[i]
  OBVIOUS
<1>4. /\ <<a, b>> \o Tail(s) \in Seq(S) /\ Len(<<a, b>> \o Tail(s)) = Len(s) + 1
      /\ (<<a, b>> \o Tail(s))[1] = a /\ (<<a, b>> \o Tail(s))[2] = b
      /\ \A i \in 2..Len(s) : (<<a, b>> \o Tail(s))[i + 1] = s[i]
  OBVIOUS
<1> QED BY <1>1, <1>2, <1>3, <1>4

LEMMA StackOps ==
  ASSUME stack \in [Thread -> Seq(Activation)], NEW t \in Thread, stack[t] # <<>>,
         NEW a \in Activation, NEW b \in Activation
  PROVE  /\ Len(stack[t]) \in Nat /\ Len(stack[t]) > 0
         /\ Top(t) = stack[t][1] /\ Top(t) \in Activation
         /\ Return(t) => Popped(t)
         /\ Become(t, a) => Swapped(t, a)
         /\ Call(t, a) => Pushed(t, a)
         /\ stack' = [stack EXCEPT ![t] = <<a, b>> \o Tail(@)] => SwappedAndPushed(t, a, b)
<1> DEFINE s == stack[t]
<1>1. s \in Seq(Activation) /\ s # <<>>
  OBVIOUS
<1>2. /\ Len(s) \in Nat /\ Len(s) > 0 /\ Head(s) = s[1] /\ s[1] \in Activation
      /\ Tail(s) \in Seq(Activation) /\ Len(Tail(s)) = Len(s) - 1
      /\ \A i \in 1..Len(Tail(s)) : Tail(s)[i] = s[i + 1]
  BY <1>1, SeqShapes
<1>3. /\ <<a>> \o s \in Seq(Activation) /\ Len(<<a>> \o s) = Len(s) + 1
      /\ (<<a>> \o s)[1] = a /\ \A i \in 1..Len(s) : (<<a>> \o s)[i + 1] = s[i]
  BY <1>1, SeqShapes
<1>4. /\ <<a>> \o Tail(s) \in Seq(Activation) /\ Len(<<a>> \o Tail(s)) = Len(s)
      /\ (<<a>> \o Tail(s))[1] = a /\ \A i \in 2..Len(s) : (<<a>> \o Tail(s))[i] = s[i]
  BY <1>1, SeqShapes
<1>5. /\ <<a, b>> \o Tail(s) \in Seq(Activation) /\ Len(<<a, b>> \o Tail(s)) = Len(s) + 1
      /\ (<<a, b>> \o Tail(s))[1] = a /\ (<<a, b>> \o Tail(s))[2] = b
      /\ \A i \in 2..Len(s) : (<<a, b>> \o Tail(s))[i + 1] = s[i]
  BY <1>1, SeqShapes
<1>6. ASSUME NEW new \in Seq(Activation), stack' = [stack EXCEPT ![t] = new]
      PROVE  Others(t) /\ stack'[t] = new
  BY <1>6 DEF Others
<1>7. Return(t) => Popped(t)
  BY <1>2, <1>6 DEF Return, Popped
<1>8. Become(t, a) => Swapped(t, a)
  BY <1>4, <1>6 DEF Become, Swapped
<1>9. Call(t, a) => Pushed(t, a)
  BY <1>3, <1>6 DEF Call, Pushed
<1>10. stack' = [stack EXCEPT ![t] = <<a, b>> \o Tail(@)] => SwappedAndPushed(t, a, b)
  BY <1>5, <1>6 DEF SwappedAndPushed
<1> QED BY <1>2, <1>7, <1>8, <1>9, <1>10 DEF Top

-----------------------------------------------------------------------------
(* Types, and what the two stacks may look like: only the reader publishes, *)
(* from its loop, and what waits for a callee to return is code, a          *)
(* publication or the event loop that runs a task.                          *)

Typed ==
  /\ stack \in [Thread -> Seq(Activation)]
  /\ pstate \in [Prompt -> {"unasked", "pending", "fulfilled"}]
  /\ answer \in [Prompt -> Nat] /\ asked \in [Prompt -> Nat]
  /\ lines \in Nat /\ capacity \in Nat
  /\ handled \subseteq Prompt
  /\ microTaskQueue \in Seq(Prompt) /\ started \in Seq(Prompt)
  /\ loopState \in {"Stopped", "Running"}

Suspended(a) == a.fn \in {"Code", "Publishing", "Reading"} \/ (a.fn = "Run" /\ a.at = "drain")

OfReader(s) ==
  \A i \in 1..Len(s) : /\ s[i].fn = "Reading" <=> i = Len(s)
                       /\ s[i].fn = "Publishing" <=> i = Len(s) - 1

InSetup(a) == a.fn = "Code" /\ a.of = Setup

OfMain(s) ==
  \A i \in 1..Len(s) : /\ s[i].fn \notin {"Reading", "Publishing", "Resolving"}
                       /\ s[i].fn = "Code" => s[i].of \notin Host

Shape ==
  /\ \A t \in Thread : \A i \in 2..Len(stack[t]) : Suspended(stack[t][i])
  /\ OfReader(stack["reader"]) /\ OfMain(stack["main"])
  /\ \A i \in 1..Len(stack["main"]) : InSetup(stack["main"][i]) =>
       Len(stack["main"]) = 1 /\ stack["reader"] = <<>> /\ Stopped

\* What t may call or turn into.
Callee(t, a) ==
  /\ a.fn \notin {"Reading", "Publishing"} /\ ~InSetup(a)
  /\ a.fn = "Code" /\ a.of \in Host => Top(t).fn = "Publishing"
  /\ a.fn = "Resolving" => Top(t).fn \in {"Publishing", "Resolving"}

Cleared(t) == Others(t) /\ stack'[t] = <<>>

\* What a step of the program, of a publication or of the loop does to a stack.
StackMove(t) ==
  \/ UNCHANGED stack
  \/ Popped(t)
  \/ Cleared(t) /\ Top(t).fn = "Publishing"
  \/ \E a \in Activation : Pushed(t, a) /\ Suspended(Top(t)) /\ Callee(t, a)
  \/ \E a \in Activation : Swapped(t, a) /\ Top(t).fn # "Publishing" /\ Callee(t, a)
  \/ Swapped(t, PublishNext(t)) /\ Top(t).fn = "Publishing"
  \/ \E a \in Activation : /\ SwappedAndPushed(t, a, PublishNext(t))
                           /\ Top(t).fn = "Publishing" /\ Callee(t, a)

LEMMA StepsMove ==
  ASSUME Typed, NEW t \in Thread, Steps(t)
  PROVE  /\ stack[t] # <<>> /\ Top(t).fn # "Reading" /\ ~InSetup(Top(t))
         /\ StackMove(t)
<1>0. Setup # Module /\ Module \notin Prompt \cup Host /\ Setup \notin Prompt \cup Host
      /\ Prompt \cap Host = {}
  BY InputAssumption DEF Setup, Module
<1> USE DEF Typed
<1>1. CASE PublishEnds(t)
  BY <1>1, StackOps, Activations DEF PublishEnds, In, StackMove, InSetup
<1>2. CASE PublishStrays(t)
  <2>1. CASE stack' = [stack EXCEPT ![t] = <<>>]
    BY <1>2, <2>1 DEF PublishStrays, In, StackMove, InSetup, Cleared, Others
  <2> QED BY <1>2, <2>1 DEF PublishStrays, In, StackMove, InSetup
<1>3. ASSUME stack[t] # <<>>, Top(t).fn = "Publishing" PROVE PublishNext(t) \in Activation
  BY <1>3, StackOps, Activations, ActivationParts DEF PublishNext
<1>4. ASSUME NEW p \in Prompt, PublishResolves(t, p)
      PROVE  stack[t] # <<>> /\ Top(t).fn = "Publishing" /\ StackMove(t)
  <2>1. stack[t] # <<>> /\ Top(t).fn = "Publishing" /\ PublishNext(t) \in Activation
    BY <1>3, <1>4 DEF PublishResolves, In
  <2>2. /\ Resolving(p, "value") \in Activation
        /\ Callee(t, Resolving(p, "value"))
    BY <2>1, Activations DEF Callee, InSetup
  <2>3. CASE stack' = [stack EXCEPT ![t] = <<Resolving(p, "value"), PublishNext(t)>> \o Tail(@)]
    BY <2>1, <2>2, <2>3, StackOps DEF StackMove
  <2>4. CASE Become(t, PublishNext(t))
    BY <2>1, <2>4, StackOps DEF StackMove
  <2> QED BY <1>4, <2>1, <2>3, <2>4 DEF PublishResolves
<1>5. ASSUME NEW p \in Prompt, Input(t, p) \/ Then(t, p)
      PROVE  stack[t] # <<>> /\ Top(t).fn = "Code" /\ ~InSetup(Top(t)) /\ StackMove(t)
  <2>1. stack[t] # <<>> /\ Top(t).fn = "Code" /\ ~InSetup(Top(t)) /\ Suspended(Top(t))
    BY <1>0, <1>5 DEF Input, Then, InProgram, In, InSetup, Suspended
  <2>2. /\ Registering(p) \in Activation /\ Callee(t, Registering(p))
        /\ Waking \in Activation /\ Callee(t, Waking)
    BY Activations DEF Callee, InSetup
  <2>3. CASE Input(t, p)
    BY <2>1, <2>3 DEF Input, StackMove
  <2>4. CASE Call(t, Registering(p)) \/ Call(t, Waking)
    BY <2>1, <2>2, <2>4, StackOps DEF StackMove
  <2> QED BY <1>5, <2>1, <2>3, <2>4 DEF Then
<1>6. ASSUME NEW h \in Host, PublishCalls(t, h)
      PROVE  stack[t] # <<>> /\ Top(t).fn = "Publishing" /\ StackMove(t)
  <2>1. stack[t] # <<>> /\ Top(t).fn = "Publishing" /\ PublishNext(t) \in Activation
    BY <1>3, <1>6 DEF PublishCalls, In
  <2>2. Code(h) \in Activation /\ Callee(t, Code(h))
    BY <1>0, <2>1, Activations DEF Callee, InSetup
  <2> QED BY <1>6, <2>1, <2>2, StackOps DEF PublishCalls, StackMove
<1>7. ASSUME NEW h \in Host, HostUnsubscribes(t, h)
      PROVE  stack[t] # <<>> /\ Top(t).fn = "Code" /\ ~InSetup(Top(t)) /\ StackMove(t)
  BY <1>0, <1>7, Activations DEF HostUnsubscribes, In, InSetup, StackMove
<1>8. CASE SetValue(t)
  <2>1. stack[t] # <<>> /\ Top(t).fn = "Resolving" /\ Become(t, Resolving(Top(t).of, "callbacks"))
    BY <1>8 DEF SetValue, In
  <2>2. /\ Top(t).of \in Prompt /\ Resolving(Top(t).of, "callbacks") \in Activation
        /\ Callee(t, Resolving(Top(t).of, "callbacks"))
    BY <2>1, StackOps, Activations, ActivationParts DEF Callee, InSetup
  <2> QED BY <2>1, <2>2, StackOps DEF StackMove, InSetup
<1>9. CASE Registers(t)
  BY <1>9, StackOps, Activations DEF Registers, In, StackMove, InSetup
<1>10. CASE Resolves(t)
  <2>1. stack[t] # <<>> /\ Top(t).fn = "Resolving" /\ (Become(t, Waking) \/ Return(t))
    BY <1>10 DEF Resolves, In
  <2>2. Waking \in Activation /\ Callee(t, Waking)
    BY Activations DEF Callee, InSetup
  <2> QED BY <2>1, <2>2, StackOps DEF StackMove, InSetup
<1>11. CASE Wakes(t) \/ CodeReturns(t)
  <2>1. /\ stack[t] # <<>> /\ Top(t).fn \in {"Waking", "Code"} /\ Top(t) # Code(Setup)
        /\ Become(t, Run("enter")) \/ Return(t)
    BY <1>11, Activations DEF Wakes, CodeReturns, In
  <2>2. Run("enter") \in Activation /\ Callee(t, Run("enter"))
    BY Activations DEF Callee, InSetup, RunAt
  <2>3. Top(t) \in Activation
    BY <2>1, <2>2, StackOps
  <2>4. ~InSetup(Top(t))
    BY <2>1, <2>3, ActivationParts DEF InSetup
  <2> QED BY <2>1, <2>2, <2>4, StackOps DEF StackMove
<1>12. CASE RunEnters(t) \/ RunTests(t) \/ RunMicroTask(t) \/ RunFindsNothing(t)
            \/ RunStops(t) \/ RunEnds(t)
  <2>1. stack[t] # <<>> /\ Top(t).fn = "Run"
    BY <1>12 DEF RunEnters, RunTests, RunMicroTask, RunFindsNothing, RunStops, RunEnds, InRun, In
  <2>2. \A at \in RunAt : Run(at) \in Activation /\ Callee(t, Run(at))
    BY Activations DEF Callee, InSetup
  <2>3. CASE RunEnds(t)
    BY <2>1, <2>3, StackOps, <2>2 DEF RunEnds, StackMove, InSetup, RunAt
  <2>4. CASE RunMicroTask(t)
    <3>1. Head(microTaskQueue) \in Prompt
      BY <2>4 DEF RunMicroTask
    <3>2. Code(Head(microTaskQueue)) \in Activation /\ Callee(t, Code(Head(microTaskQueue)))
      BY <1>0, <3>1, Activations DEF Callee, InSetup
    <3>3. Suspended(Top(t)) /\ Call(t, Code(Head(microTaskQueue)))
      BY <2>1, <2>4 DEF Suspended, RunMicroTask, InRun
    <3> QED BY <2>1, <3>2, <3>3, StackOps DEF StackMove, InSetup
  <2>5. CASE RunEnters(t) \/ RunTests(t) \/ RunFindsNothing(t) \/ RunStops(t)
    <3>1. \E at \in RunAt : Become(t, Run(at))
      BY <2>5 DEF RunEnters, RunTests, RunFindsNothing, RunStops, RunAt
    <3> QED BY <2>1, <2>2, <3>1, StackOps DEF StackMove, InSetup
  <2> QED BY <1>12, <2>3, <2>4, <2>5
<1> QED BY <1>1, <1>2, <1>4, <1>5, <1>6, <1>7, <1>8, <1>9, <1>10, <1>11, <1>12
        DEF Steps, InSetup

LEMMA SuspendedStay ==
  ASSUME Typed, Shape, NEW t \in Thread, stack[t] # <<>>, Top(t).fn # "Reading", StackMove(t)
  PROVE  \A u \in Thread : \A i \in 2..Len(stack'[u]) : Suspended(stack'[u][i])
<1>0. \A u \in Thread : \A i \in 2..Len(stack[u]) : Suspended(stack[u][i])
  BY DEF Shape
<1>1. Len(stack[t]) \in Nat /\ Len(stack[t]) > 0 /\ Top(t) = stack[t][1]
  BY Activations, StackOps DEF Typed
<1>2. CASE UNCHANGED stack
  BY <1>0, <1>2
<1>3. CASE Popped(t)
  BY <1>0, <1>1, <1>3 DEF Popped, Others
<1>4. CASE Cleared(t)
  BY <1>0, <1>4 DEF Cleared, Others
<1>5. ASSUME NEW a \in Activation, Pushed(t, a), Suspended(Top(t))
      PROVE  \A u \in Thread : \A i \in 2..Len(stack'[u]) : Suspended(stack'[u][i])
  <2>1. \A i \in 2..Len(stack'[t]) : i - 1 \in 1..Len(stack[t]) /\ stack'[t][i] = stack[t][i - 1]
    BY <1>1, <1>5 DEF Pushed
  <2>2. \A i \in 1..Len(stack[t]) : Suspended(stack[t][i])
    BY <1>0, <1>1, <1>5
  <2>3. \A u \in Thread \ {t} : stack'[u] = stack[u]
    BY <1>5 DEF Pushed, Others
  <2>4. \A i \in 2..Len(stack'[t]) : Suspended(stack'[t][i])
    BY <2>1, <2>2
  <2>5. \A u \in Thread \ {t} : \A i \in 2..Len(stack'[u]) : Suspended(stack'[u][i])
    BY <1>0, <2>3
  <2> QED BY <2>4, <2>5
<1>6. ASSUME NEW a, Swapped(t, a)
      PROVE  \A u \in Thread : \A i \in 2..Len(stack'[u]) : Suspended(stack'[u][i])
  BY <1>0, <1>1, <1>6 DEF Swapped, Others
<1>7. ASSUME NEW a \in Activation, SwappedAndPushed(t, a, PublishNext(t)), Top(t).fn = "Publishing"
      PROVE  \A u \in Thread : \A i \in 2..Len(stack'[u]) : Suspended(stack'[u][i])
  <2>1. Top(t) \in Activation
    BY Activations, StackOps DEF Typed
  <2>2. Suspended(PublishNext(t))
    BY <1>7, <2>1, ActivationParts DEF PublishNext, Suspended
  <2>3. \A i \in 3..Len(stack'[t]) : i - 1 \in 2..Len(stack[t]) /\ stack'[t][i] = stack[t][i - 1]
    <3>1. /\ Len(stack'[t]) = Len(stack[t]) + 1
          /\ \A i \in 2..Len(stack[t]) : stack'[t][i + 1] = stack[t][i]
      BY <1>7 DEF SwappedAndPushed
    <3>2. \A i \in 3..Len(stack[t]) + 1 : i - 1 \in 2..Len(stack[t]) /\ (i - 1) + 1 = i
      BY <1>1
    <3> QED BY <3>1, <3>2
  <2>4. stack'[t][2] = PublishNext(t) /\ \A i \in 2..Len(stack'[t]) : i = 2 \/ i \in 3..Len(stack'[t])
    BY <1>7 DEF SwappedAndPushed
  <2>5. \A u \in Thread \ {t} : stack'[u] = stack[u]
    BY <1>7 DEF SwappedAndPushed, Others
  <2>6. \A i \in 2..Len(stack'[t]) : Suspended(stack'[t][i])
    BY <1>0, <2>2, <2>3, <2>4
  <2>7. \A u \in Thread \ {t} : \A i \in 2..Len(stack'[u]) : Suspended(stack'[u][i])
    BY <1>0, <2>5
  <2> QED BY <2>6, <2>7
<1> QED BY <1>2, <1>3, <1>4, <1>5, <1>6, <1>7 DEF StackMove

LEMMA ReaderStays ==
  ASSUME Typed, Shape, stack["reader"] # <<>>, Top("reader").fn # "Reading", StackMove("reader")
  PROVE  OfReader(stack'["reader"])
<1> DEFINE R == stack["reader"]
           n == Len(R)
<1>0. "reader" \in Thread
  BY DEF Thread
<1>1. n \in Nat /\ n > 0 /\ Top("reader") = R[1] /\ R[1] \in Activation
  <2>1. stack \in [Thread -> Seq(Activation)] /\ Waking \in Activation
    BY Activations DEF Typed
  <2> QED BY <1>0, <2>1, StackOps
<1>2. \A i \in 1..n : (R[i].fn = "Reading" <=> i = n) /\ (R[i].fn = "Publishing" <=> i = n - 1)
  BY DEF Shape, OfReader
<1>3. n >= 2 /\ (R[1].fn = "Publishing" <=> n = 2)
  <2>1. 1 \in 1..n /\ R[1].fn # "Reading"
    BY <1>1
  <2> HIDE DEF n, R
  <2> QED BY <1>1, <1>2, <2>1
<1>4. CASE UNCHANGED stack
  BY <1>4 DEF Shape
<1>5. CASE Popped("reader")
  BY <1>1, <1>2, <1>5 DEF Popped, OfReader
<1>6. CASE Cleared("reader")
  BY <1>6 DEF Cleared, OfReader
<1>7. ASSUME NEW a \in Activation, Pushed("reader", a), a.fn \notin {"Reading", "Publishing"}
      PROVE  OfReader(stack'["reader"])
  <2>1. \A i \in 2..n + 1 : i - 1 \in 1..n /\ stack'["reader"][i] = R[i - 1]
    BY <1>1, <1>7 DEF Pushed
  <2>2. Len(stack'["reader"]) = n + 1 /\ stack'["reader"][1] = a
    BY <1>7 DEF Pushed
  <2> HIDE DEF n, R
  <2> QED BY <1>1, <1>2, <1>3, <1>7, <2>1, <2>2 DEF OfReader
<1>8. ASSUME NEW a, Swapped("reader", a), a.fn = "Publishing" <=> R[1].fn = "Publishing", a.fn # "Reading"
      PROVE  OfReader(stack'["reader"])
  <2>1. Len(stack'["reader"]) = n /\ stack'["reader"][1] = a
        /\ \A i \in 2..n : stack'["reader"][i] = R[i]
    BY <1>8 DEF Swapped
  <2> HIDE DEF n, R
  <2> QED BY <1>1, <1>2, <1>3, <1>8, <2>1 DEF OfReader
<1>9. ASSUME R[1].fn = "Publishing" PROVE PublishNext("reader").fn = "Publishing"
  BY <1>1, <1>9, ActivationParts DEF PublishNext
<1>10. ASSUME NEW a \in Activation, SwappedAndPushed("reader", a, PublishNext("reader")),
              R[1].fn = "Publishing", a.fn \notin {"Reading", "Publishing"}
       PROVE  OfReader(stack'["reader"])
  <2>1. \A i \in 3..n + 1 : i - 1 \in 2..n /\ stack'["reader"][i] = R[i - 1]
    BY <1>1, <1>10 DEF SwappedAndPushed
  <2>2. /\ Len(stack'["reader"]) = n + 1 /\ stack'["reader"][1] = a
        /\ stack'["reader"][2].fn = "Publishing"
    BY <1>9, <1>10 DEF SwappedAndPushed
  <2>3. n = 2 /\ \A i \in 1..n + 1 : i = 1 \/ i = 2 \/ i \in 3..n + 1
    BY <1>3, <1>10
  <2> HIDE DEF n, R
  <2> QED BY <1>1, <1>2, <1>10, <2>1, <2>2, <2>3 DEF OfReader
<1> QED BY <1>1, <1>4, <1>5, <1>6, <1>7, <1>8, <1>9, <1>10 DEF StackMove, Callee

LEMMA MainStays ==
  ASSUME Typed, Shape, stack["main"] # <<>>, Top("main").fn # "Reading", StackMove("main")
  PROVE  OfMain(stack'["main"])
<1> DEFINE M == stack["main"]
           n == Len(M)
<1>0. "main" \in Thread
  BY DEF Thread
<1>1. n \in Nat /\ n > 0 /\ Top("main") = M[1]
  BY <1>0, Activations, StackOps DEF Typed
<1>2. \A i \in 1..n : /\ M[i].fn \notin {"Reading", "Publishing", "Resolving"}
                      /\ M[i].fn = "Code" => M[i].of \notin Host
  BY DEF Shape, OfMain
<1>3. Top("main").fn \notin {"Publishing", "Resolving"}
  BY <1>1, <1>2
<1>4. CASE UNCHANGED stack
  BY <1>4 DEF Shape
<1>5. CASE Popped("main")
  BY <1>1, <1>2, <1>5 DEF Popped, OfMain
<1>6. CASE Cleared("main")
  BY <1>6 DEF Cleared, OfMain
<1>7. ASSUME NEW a \in Activation, Pushed("main", a), Callee("main", a)
      PROVE  OfMain(stack'["main"])
  <2>1. \A i \in 2..n + 1 : i - 1 \in 1..n /\ stack'["main"][i] = M[i - 1]
    BY <1>1, <1>7 DEF Pushed
  <2>2. Len(stack'["main"]) = n + 1 /\ stack'["main"][1] = a
    BY <1>7 DEF Pushed
  <2>3. \A i \in 1..n + 1 : i = 1 \/ i \in 2..n + 1
    BY <1>1
  <2> HIDE DEF n, M
  <2> QED BY <1>2, <1>3, <1>7, <2>1, <2>2, <2>3 DEF OfMain, Callee
<1>8. ASSUME NEW a \in Activation, Swapped("main", a), Callee("main", a)
      PROVE  OfMain(stack'["main"])
  <2>1. Len(stack'["main"]) = n /\ stack'["main"][1] = a
        /\ \A i \in 2..n : stack'["main"][i] = M[i]
    BY <1>8 DEF Swapped
  <2>2. \A i \in 1..n : i = 1 \/ i \in 2..n
    BY <1>1
  <2> HIDE DEF n, M
  <2> QED BY <1>2, <1>3, <1>8, <2>1, <2>2 DEF OfMain, Callee
<1> QED BY <1>3, <1>4, <1>5, <1>6, <1>7, <1>8 DEF StackMove

LEMMA StepKeepsShape ==
  ASSUME Typed, Shape, NEW t \in Thread, Steps(t)
  PROVE  Shape'
<1>1. stack[t] # <<>> /\ Top(t).fn # "Reading" /\ ~InSetup(Top(t)) /\ StackMove(t)
  BY StepsMove
<1>2. \A u \in Thread : \A i \in 2..Len(stack'[u]) : Suspended(stack'[u][i])
  BY <1>1, SuspendedStay
<1>3. Thread = {"main", "reader"}
  BY DEF Thread
<1>4. \A u \in Thread \ {t} : stack'[u] = stack[u]
  BY <1>1 DEF StackMove, Popped, Pushed, Swapped, SwappedAndPushed, Cleared, Others
<1>5. OfReader(stack'["reader"]) /\ OfMain(stack'["main"])
  <2>1. CASE t = "main"
    BY <1>1, <1>3, <1>4, <2>1, MainStays DEF Shape
  <2>2. CASE t = "reader"
    BY <1>1, <1>3, <1>4, <2>2, ReaderStays DEF Shape
  <2> QED BY <1>3, <2>1, <2>2
<1>6. \A i \in 1..Len(stack["main"]) : ~InSetup(stack["main"][i])
  <2>1. Len(stack[t]) \in Nat /\ Len(stack[t]) > 0 /\ Top(t) = stack[t][1]
    BY <1>1, Activations, StackOps DEF Typed
  <2>2. CASE t = "main"
    BY <1>1, <2>1, <2>2 DEF Shape
  <2>3. CASE t = "reader"
    BY <1>1, <2>3 DEF Shape
  <2> QED BY <1>3, <2>2, <2>3
<1>7. \A i \in 1..Len(stack'["main"]) : ~InSetup(stack'["main"][i])
  <2>1. CASE t = "reader"
    BY <1>3, <1>4, <1>6, <2>1
  <2>2. CASE t = "main"
    <3> DEFINE M == stack["main"]
               n == Len(M)
    <3>1. n \in Nat /\ n > 0
      BY <1>1, <2>2, Activations, StackOps DEF Typed
    <3>2. Top(t).fn # "Publishing"
      <4>1. Top(t) = M[1]
        BY <1>1, <2>2, Activations, StackOps DEF Typed
      <4> QED BY <3>1, <4>1 DEF Shape, OfMain
    <3>3. CASE UNCHANGED stack
      BY <1>6, <3>3
    <3>4. CASE Popped(t)
      BY <1>6, <2>2, <3>1, <3>4 DEF Popped
    <3>5. CASE Cleared(t)
      BY <2>2, <3>5 DEF Cleared
    <3>6. ASSUME NEW a \in Activation, Pushed(t, a), Callee(t, a)
          PROVE  \A i \in 1..Len(stack'["main"]) : ~InSetup(stack'["main"][i])
      <4>1. /\ \A i \in 2..n + 1 : i - 1 \in 1..n /\ stack'["main"][i] = M[i - 1]
            /\ Len(stack'["main"]) = n + 1 /\ stack'["main"][1] = a
            /\ \A i \in 1..n + 1 : i = 1 \/ i \in 2..n + 1
        <5>1. /\ Len(stack'["main"]) = n + 1 /\ stack'["main"][1] = a
              /\ \A i \in 1..n : stack'["main"][i + 1] = M[i]
          BY <2>2, <3>6 DEF Pushed
        <5> HIDE DEF M, n
        <5>2. /\ \A i \in 2..n + 1 : i - 1 \in 1..n /\ (i - 1) + 1 = i
              /\ \A i \in 1..n + 1 : i = 1 \/ i \in 2..n + 1
          BY <3>1
        <5> QED BY <5>1, <5>2
      <4> QED BY <1>6, <3>6, <4>1 DEF Callee
    <3>7. ASSUME NEW a \in Activation, Swapped(t, a), Callee(t, a)
          PROVE  \A i \in 1..Len(stack'["main"]) : ~InSetup(stack'["main"][i])
      <4>1. /\ \A i \in 2..n : stack'["main"][i] = M[i]
            /\ Len(stack'["main"]) = n /\ stack'["main"][1] = a
            /\ \A i \in 1..n : i = 1 \/ i \in 2..n
        BY <2>2, <3>1, <3>7 DEF Swapped
      <4> QED BY <1>6, <3>7, <4>1 DEF Callee
    <3> QED BY <1>1, <3>2, <3>3, <3>4, <3>5, <3>6, <3>7 DEF StackMove
  <2> QED BY <1>3, <2>1, <2>2
<1> QED BY <1>2, <1>5, <1>7 DEF Shape

\* The steps of main and of the reader outside the interpreter.
LEMMA OutsideStacks ==
  ASSUME Typed, IdInv
  PROVE  /\ Starts => /\ stack' \in [Thread -> Seq(Activation)]
                      /\ stack["main"] # <<>> /\ InSetup(Top("main"))
                      /\ stack'["main"] = <<Code(Module)>>
                      /\ stack'["reader"] = <<Reading("check")>>
         /\ ReaderChecks \/ ReaderAtEof =>
              /\ stack' \in [Thread -> Seq(Activation)]
              /\ stack'["main"] = stack["main"]
              /\ stack["reader"] # <<>> /\ Top("reader").fn = "Reading"
              /\ Popped("reader") \/ \E at \in {"check", "getline"} : Swapped("reader", Reading(at))
         /\ ReaderGetsLine =>
              /\ stack' \in [Thread -> Seq(Activation)]
              /\ stack'["main"] = stack["main"]
              /\ stack["reader"] # <<>> /\ Top("reader").fn = "Reading"
              /\ stack'["reader"] = <<Publishing(1, Len(subscriptions), capacity), Reading("check")>>
<1>0. Thread = {"main", "reader"} /\ "main" # "reader"
  BY DEF Thread
<1>1. ASSUME Starts
      PROVE  /\ stack' \in [Thread -> Seq(Activation)]
             /\ stack["main"] # <<>> /\ InSetup(Top("main"))
             /\ stack'["main"] = <<Code(Module)>>
             /\ stack'["reader"] = <<Reading("check")>>
  <2>1. Code(Module) \in Activation /\ Reading("check") \in Activation
    BY Activations
  <2>2. <<Code(Module)>> \in Seq(Activation) /\ <<Reading("check")>> \in Seq(Activation)
    BY <2>1
  <2>3. stack' = [main |-> <<Code(Module)>>, reader |-> <<Reading("check")>>]
    BY <1>1 DEF Starts
  <2>4. stack["main"] # <<>> /\ InSetup(Top("main"))
    BY <1>1, Activations DEF Starts, In, InSetup
  <2>5. stack'["main"] = <<Code(Module)>> /\ stack'["reader"] = <<Reading("check")>>
    BY <2>3
  <2>6. stack' \in [Thread -> Seq(Activation)]
    <3>1. stack' = [t \in Thread |-> stack'[t]]
      BY <1>0, <2>3
    <3> QED BY <1>0, <2>2, <2>5, <3>1
  <2> QED BY <2>4, <2>5, <2>6
<1>2. ASSUME ReaderChecks \/ ReaderAtEof
      PROVE  /\ stack["reader"] # <<>> /\ Top("reader").fn = "Reading"
             /\ Popped("reader") \/ \E at \in {"check", "getline"} : Swapped("reader", Reading(at))
  <2>1. Reading("getline") \in Activation
    BY Activations
  <2>2. /\ stack["reader"] # <<>> /\ Top("reader").fn = "Reading"
        /\ Return("reader") \/ Become("reader", Reading("getline"))
    BY <1>2 DEF ReaderChecks, ReaderAtEof, In
  <2> QED BY <1>0, <2>1, <2>2, StackOps DEF Typed
<1>3. Popped("reader") \/ (\E at \in {"check", "getline"} : Swapped("reader", Reading(at)))
        => stack' \in [Thread -> Seq(Activation)] /\ stack'["main"] = stack["main"]
  BY <1>0 DEF Popped, Swapped, Others
<1>4. ASSUME ReaderGetsLine
      PROVE  /\ stack' \in [Thread -> Seq(Activation)]
             /\ stack'["main"] = stack["main"]
             /\ stack["reader"] # <<>> /\ Top("reader").fn = "Reading"
             /\ stack'["reader"] = <<Publishing(1, Len(subscriptions), capacity), Reading("check")>>
  <2>1. Len(subscriptions) \in Nat /\ capacity \in Nat
    BY DEF IdInv, Typed
  <2>2. Publishing(1, Len(subscriptions), capacity) \in Activation /\ Reading("check") \in Activation
    BY <2>1, Activations
  <2>3. <<Publishing(1, Len(subscriptions), capacity), Reading("check")>> \in Seq(Activation)
    BY <2>2
  <2> QED BY <1>0, <1>4, <2>3 DEF ReaderGetsLine, In, Typed
<1> QED BY <1>1, <1>2, <1>3, <1>4

LEMMA OutsideKeepsShape ==
  ASSUME Typed, IdInv, Shape,
         \/ Starts \/ Stops \/ ModuleThrows \/ ReaderChecks \/ ReaderAtEof \/ ReaderGetsLine
         \/ (\E h \in Host : HostSubscribes(h)) \/ UNCHANGED vars
  PROVE  Shape'
<1>0. Thread = {"main", "reader"} /\ Setup # Module /\ Module \notin Host
  BY InputAssumption DEF Thread, Setup, Module
<1>1. CASE Starts
  <2>1. /\ stack'["main"] = <<Code(Module)>> /\ stack'["reader"] = <<Reading("check")>>
    BY <1>1, OutsideStacks
  <2>2. Code(Module).fn = "Code" /\ Code(Module).of = Module /\ Reading("check").fn = "Reading"
    BY Activations
  <2>3. OfReader(stack'["reader"]) /\ OfMain(stack'["main"])
    BY <1>0, <2>1, <2>2 DEF OfReader, OfMain
  <2>4. \A i \in 1..Len(stack'["main"]) : ~InSetup(stack'["main"][i])
    BY <1>0, <2>1, <2>2 DEF InSetup
  <2>5. \A u \in Thread : Len(stack'[u]) = 1
    BY <1>0, <2>1
  <2> QED BY <2>3, <2>4, <2>5 DEF Shape
<1>2. CASE ReaderChecks \/ ReaderAtEof \/ ReaderGetsLine
  <2>1. /\ stack'["main"] = stack["main"] /\ stack["reader"] # <<>> /\ Top("reader").fn = "Reading"
    BY <1>2, OutsideStacks
  <2>2. Len(stack["reader"]) = 1
    <3>1. /\ Len(stack["reader"]) \in Nat /\ Len(stack["reader"]) > 0
          /\ Top("reader") = stack["reader"][1]
      BY <1>0, <2>1, Activations, StackOps DEF Typed
    <3>2. 1 \in 1..Len(stack["reader"]) /\ stack["reader"][1].fn = "Reading"
      BY <2>1, <3>1
    <3>3. OfReader(stack["reader"])
      BY DEF Shape
    <3> QED BY <3>2, <3>3 DEF OfReader
  <2>3. \A i \in 1..Len(stack["main"]) : ~InSetup(stack["main"][i])
    BY <2>1 DEF Shape
  <2>4. CASE ReaderChecks \/ ReaderAtEof
    <3>1. Popped("reader") \/ \E at \in {"check", "getline"} : Swapped("reader", Reading(at))
      BY <2>4, OutsideStacks
    <3>2. CASE Popped("reader")
      <4>1. Len(stack'["reader"]) = 0
        BY <2>2, <3>2 DEF Popped
      <4> QED BY <1>0, <2>1, <2>3, <4>1 DEF Shape, OfReader
    <3>3. ASSUME NEW at \in {"check", "getline"}, Swapped("reader", Reading(at)) PROVE Shape'
      <4>1. /\ Len(stack'["reader"]) = 1 /\ stack'["reader"][1].fn = "Reading"
        BY <2>2, <3>3, Activations DEF Swapped
      <4>2. OfReader(stack'["reader"])
        BY <4>1 DEF OfReader
      <4> QED BY <1>0, <2>1, <2>3, <4>1, <4>2 DEF Shape
    <3> QED BY <3>1, <3>2, <3>3
  <2>5. CASE ReaderGetsLine
    <3>1. stack'["reader"] = <<Publishing(1, Len(subscriptions), capacity), Reading("check")>>
      BY <2>5, OutsideStacks
    <3>2. Publishing(1, Len(subscriptions), capacity).fn = "Publishing" /\ Reading("check").fn = "Reading"
      BY DEF Publishing, Reading
    <3>3. OfReader(stack'["reader"]) /\ Len(stack'["reader"]) = 2
          /\ stack'["reader"][2] = Reading("check")
      BY <3>1, <3>2 DEF OfReader
    <3>4. \A i \in 2..Len(stack'["reader"]) : Suspended(stack'["reader"][i])
      BY <3>2, <3>3 DEF Suspended
    <3> QED BY <1>0, <2>1, <2>3, <3>3, <3>4 DEF Shape
  <2> QED BY <1>2, <2>4, <2>5
<1>3. CASE Stops \/ ModuleThrows \/ (\E h \in Host : HostSubscribes(h)) \/ UNCHANGED vars
  BY <1>3 DEF Stops, ModuleThrows, HostSubscribes, vars, loop, Shape, Stopped
<1> QED BY <1>1, <1>2, <1>3

LEMMA TypedNext ==
  ASSUME IdInv, Typed, [Next]_vars
  PROVE  Typed'
<1>1. ASSUME NEW who \in Prompt \cup Host, subscribe(who) PROVE capacity' \in Nat
  <2>1. \A c \in GrownCapacity(capacity) : c \in Nat
    BY DEF GrownCapacity, Typed
  <2> QED BY <1>1, <2>1 DEF subscribe, push_back, MakeRoom, Typed
<1>2. ASSUME NEW t \in Thread, Steps(t) PROVE Typed'
  <2>1. stack' \in [Thread -> Seq(Activation)]
    BY <1>2, StepsMove DEF StackMove, Popped, Pushed, Swapped, SwappedAndPushed, Cleared, Others, Typed
  <2>2. CASE PublishEnds(t) \/ PublishStrays(t) \/ \E h \in Host : PublishCalls(t, h) \/ HostUnsubscribes(t, h)
    BY <2>1, <2>2 DEF PublishEnds, PublishStrays, PublishCalls, HostUnsubscribes, unsubscribe,
                      Typed, bus, promise, loop, rest
  <2>3. ASSUME NEW p \in Prompt, PublishResolves(t, p) PROVE Typed'
    BY <2>1, <2>3 DEF PublishResolves, Typed, bus, loop, rest
  <2>4. ASSUME NEW p \in Prompt, Input(t, p) PROVE Typed'
    BY <1>1, <2>1, <2>4 DEF Input, Typed, loop, rest
  <2>5. ASSUME NEW p \in Prompt, Then(t, p) PROVE Typed'
    <3>1. microTaskQueue' = microTaskQueue \/ microTaskQueue' = Append(microTaskQueue, p)
      BY <2>5 DEF Then
    <3>2. microTaskQueue' \in Seq(Prompt)
      <4>1. \A q \in Seq(Prompt) : Append(q, p) \in Seq(Prompt)
        OBVIOUS
      <4> QED BY <3>1, <4>1 DEF Typed
    <3> QED BY <2>1, <2>5, <3>2 DEF Then, Typed, bus, rest
  <2>6. CASE SetValue(t)
    BY <2>1, <2>6 DEF SetValue, Typed, bus, loop, rest
  <2>7. CASE Registers(t) \/ Wakes(t) \/ CodeReturns(t)
    BY <2>1, <2>7 DEF Registers, Wakes, CodeReturns, Typed, bus, promise, loop, rest
  <2>8. CASE Resolves(t)
    <3>1. stack[t] # <<>> /\ Top(t).fn = "Resolving"
      BY <2>8 DEF Resolves, In
    <3>2. Top(t).of \in Prompt
      BY <3>1, Activations, StackOps, ActivationParts DEF Typed
    <3>3. microTaskQueue' = microTaskQueue \/ microTaskQueue' = Append(microTaskQueue, Top(t).of)
      BY <2>8 DEF Resolves
    <3>4. microTaskQueue' \in Seq(Prompt)
      <4>1. \A q \in Seq(Prompt) : \A p \in Prompt : Append(q, p) \in Seq(Prompt)
        OBVIOUS
      <4> QED BY <3>2, <3>3, <4>1 DEF Typed
    <3> QED BY <2>1, <2>8, <3>4 DEF Resolves, Typed, bus, promise, rest
  <2>9. CASE RunEnters(t) \/ RunTests(t) \/ RunFindsNothing(t) \/ RunStops(t) \/ RunEnds(t)
    BY <2>1, <2>9 DEF RunEnters, RunTests, RunFindsNothing, RunStops, RunEnds, Typed,
                      bus, promise, loop, rest
  <2>10. CASE RunMicroTask(t)
    BY <2>1, <2>10 DEF RunMicroTask, Typed, bus, promise, rest
  <2> QED BY <1>2, <2>2, <2>3, <2>4, <2>5, <2>6, <2>7, <2>8, <2>9, <2>10 DEF Steps
<1>3. ASSUME NEW h \in Host, HostSubscribes(h) PROVE Typed'
  BY <1>1, <1>3 DEF HostSubscribes, Typed, promise, loop, rest
<1>4. CASE Starts \/ ReaderChecks \/ ReaderAtEof
  BY <1>4, OutsideStacks DEF Starts, ReaderChecks, ReaderAtEof, Typed, bus, promise, loop, rest
<1>5. CASE ReaderGetsLine
  BY <1>5, OutsideStacks DEF ReaderGetsLine, Typed, bus, promise, loop
<1>6. CASE Stops \/ ModuleThrows \/ UNCHANGED vars
  BY <1>6 DEF Stops, ModuleThrows, vars, Typed, bus, promise, loop, rest
<1> QED BY <1>2, <1>3, <1>4, <1>5, <1>6 DEF Next

LEMMA ShapeNext ==
  ASSUME IdInv, Typed, Shape, [Next]_vars
  PROVE  Shape'
BY StepKeepsShape, OutsideKeepsShape DEF Next

\* Who subscribes has asked, and so has a promise that has a handler.
Asked ==
  /\ \A i \in 1..Len(subscriptions) :
       subscriptions[i].who \in Prompt => pstate[subscriptions[i].who] # "unasked"
  /\ \A p \in handled : pstate[p] # "unasked"

LEMMA AskedNext ==
  ASSUME IdInv, Typed, Asked, [Next]_vars
  PROVE  Asked'
<1>0. Prompt \cap Host = {} /\ subscriptions \in Seq(Subscription)
  BY InputAssumption DEF IdInv
<1>1. ASSUME UNCHANGED subscriptions, UNCHANGED handled,
             \A p \in Prompt : pstate[p] # "unasked" => pstate'[p] # "unasked"
      PROVE  Asked'
  BY <1>1 DEF Asked, Typed
<1>2. ASSUME NEW who \in Prompt \cup Host, subscribe(who)
      PROVE  \A i \in 1..Len(subscriptions') :
               \/ i \in 1..Len(subscriptions) /\ subscriptions'[i] = subscriptions[i]
               \/ subscriptions'[i].who = who
  <2> DEFINE s == [id |-> generate_id, who |-> who]
  <2>1. subscriptions' = Append(subscriptions, s) /\ s.who = who
    BY <1>2 DEF subscribe, push_back
  <2> HIDE DEF s
  <2> QED BY <1>0, <2>1
<1>3. ASSUME NEW t \in Thread, NEW p \in Prompt, Input(t, p) PROVE Asked'
  BY <1>0, <1>2, <1>3 DEF Input, Asked, Typed
<1>4. ASSUME NEW h \in Host, HostSubscribes(h) PROVE Asked'
  <2>1. /\ subscribe(h) /\ UNCHANGED <<pstate, handled>> /\ h \notin Prompt /\ h \in Prompt \cup Host
    BY <1>0, <1>4 DEF HostSubscribes, promise
  <2>2. \A i \in 1..Len(subscriptions') :
          \/ i \in 1..Len(subscriptions) /\ subscriptions'[i] = subscriptions[i]
          \/ subscriptions'[i].who = h
    BY <1>2, <2>1
  <2> QED BY <2>1, <2>2 DEF Asked
<1>5. ASSUME NEW t \in Thread, NEW h \in Host, HostUnsubscribes(t, h) PROVE Asked'
  <2>1. subscriptions' \in Without(subscriptions, hostId[h]) /\ UNCHANGED <<pstate, handled>>
    BY <1>5 DEF HostUnsubscribes, unsubscribe, promise
  <2>2. PICK f \in [1..Len(subscriptions') -> 1..Len(subscriptions)] :
          \A k \in 1..Len(subscriptions') : subscriptions'[k] = subscriptions[f[k]]
    BY <1>0, <2>1, WithoutIsPart
  <2> QED BY <2>1, <2>2 DEF Asked
<1>6. ASSUME NEW t \in Thread, NEW p \in Prompt, Then(t, p) PROVE Asked'
  BY <1>6 DEF Then, bus, Asked
<1>7. ASSUME NEW t \in Thread, Steps(t) PROVE Asked'
  <2>1. CASE PublishEnds(t) \/ PublishStrays(t) \/ Registers(t) \/ Resolves(t) \/ Wakes(t) \/ CodeReturns(t)
    BY <1>1, <2>1 DEF PublishEnds, PublishStrays, Registers, Resolves, Wakes, CodeReturns, bus, promise
  <2>2. ASSUME NEW p \in Prompt, PublishResolves(t, p) PROVE Asked'
    BY <1>1, <2>2 DEF PublishResolves, bus, Typed
  <2>3. ASSUME NEW h \in Host, PublishCalls(t, h) PROVE Asked'
    BY <1>1, <2>3 DEF PublishCalls, bus, promise
  <2>4. CASE RunEnters(t) \/ RunTests(t) \/ RunMicroTask(t) \/ RunFindsNothing(t)
             \/ RunStops(t) \/ RunEnds(t) \/ SetValue(t)
    BY <1>1, <2>4 DEF RunEnters, RunTests, RunMicroTask, RunFindsNothing, RunStops, RunEnds,
                      SetValue, bus, promise
  <2> QED BY <1>3, <1>5, <1>6, <1>7, <2>1, <2>2, <2>3, <2>4 DEF Steps
<1>8. CASE Starts \/ Stops \/ ModuleThrows \/ ReaderChecks \/ ReaderAtEof \/ ReaderGetsLine
  BY <1>1, <1>8 DEF Starts, Stops, ModuleThrows, ReaderChecks, ReaderAtEof, ReaderGetsLine,
                    bus, promise
<1> QED BY <1>1, <1>4, <1>7, <1>8 DEF Next, vars, bus, promise

-----------------------------------------------------------------------------
(* AnswersHandled.  As long as no line comes while main interprets, the two *)
(* threads take turns: one of them acts, and the other has nothing to do    *)
(* but read.  Then Waking finds the loop as the task was left, and what has *)
(* been queued is run before the thread comes to rest.                      *)

Fn(t, f) == stack[t] # <<>> /\ Top(t).fn = f
Is(t, f, at) == Fn(t, f) /\ Top(t).at = at
InLoop(a) == a.fn = "Run" /\ a.at \in {"top", "drain", "stop"}
LoopBelow(t) == \E i \in 1..Len(stack[t]) : InLoop(stack[t][i])

\* The event loop, as the thread t that acts has it.
LoopPart(t) ==
  /\ microTaskQueue # <<>> /\ Stopped => Fn(t, "Waking") \/ Is(t, "Run", "enter")
  /\ ~Stopped => LoopBelow(t)
  /\ Is(t, "Run", "stop") => microTaskQueue = <<>>
  /\ Is(t, "Run", "end") => Stopped

\* Where a handler is, before and after the answer.
HandlerPart(t) ==
  /\ \A p \in handled : pstate[p] = "pending" =>
       (p \in callbacks) \/ (Fn(t, "Registering") /\ Top(t).of = p)
  /\ \A p \in handled : pstate[p] = "fulfilled" =>
       \/ Contains(started, p) \/ Contains(microTaskQueue, p)
       \/ (p \in callbacks) /\ Fn(t, "Resolving") /\ Top(t).of = p
  /\ Fn(t, "Registering") => pstate[Top(t).of] = "pending"

Waits(t) == stack[t] = <<>> \/ (Len(stack[t]) = 1 /\ Top(t).fn = "Reading")
Alone(t) == \A u \in Thread \ {t} : Waits(u)

TurnsInv ==
  ~strayed /\ ~overlap => \E t \in Thread : Alone(t) /\ LoopPart(t) /\ HandlerPart(t)

\* Nothing is left to do.
AtRest ==
  /\ Stopped /\ microTaskQueue = <<>>
  /\ \A p \in handled : /\ pstate[p] = "pending" => p \in callbacks
                        /\ pstate[p] = "fulfilled" => Contains(started, p)

LEMMA WaitingIsRest ==
  ASSUME Typed, NEW t \in Thread, Waits(t), LoopPart(t), HandlerPart(t)
  PROVE  AtRest
<1>1. ~Fn(t, "Waking") /\ ~Fn(t, "Run") /\ ~Fn(t, "Registering") /\ ~Fn(t, "Resolving")
  BY DEF Waits, Fn
<1>2. ~LoopBelow(t)
  <2>1. stack[t] = <<>> \/ (Len(stack[t]) = 1 /\ stack[t][1].fn = "Reading")
    <3>1. CASE stack[t] = <<>>
      BY <3>1
    <3>2. CASE stack[t] # <<>>
      <4>1. Top(t) = stack[t][1]
        BY <3>2, Activations, StackOps DEF Typed
      <4> QED BY <3>2, <4>1 DEF Waits
    <3> QED BY <3>1, <3>2
  <2>2. \A i \in 1..Len(stack[t]) : stack[t][i].fn = "Reading"
    BY <2>1
  <2> QED BY <2>2 DEF LoopBelow, InLoop
<1>3. Stopped /\ microTaskQueue = <<>>
  BY <1>1, <1>2 DEF LoopPart, Is
<1>4. \A p : ~Contains(microTaskQueue, p)
  BY <1>3 DEF Contains
<1> QED BY <1>1, <1>3, <1>4 DEF AtRest, HandlerPart

LEMMA RestIsEnough ==
  ASSUME AtRest, NEW t, ~Fn(t, "Registering")
  PROVE  LoopPart(t) /\ HandlerPart(t)
BY DEF AtRest, LoopPart, HandlerPart, Stopped

\* What t has on top after its step.
Resting(t) ==
  /\ \A f \in {"Waking", "Registering", "Resolving"} : ~Fn(t, f)
  /\ \A at \in {"enter", "stop", "end"} : ~Is(t, "Run", at)

LEMMA AfterPop ==
  ASSUME Typed, Shape, NEW t \in Thread, stack[t] # <<>>, Popped(t)
  PROVE  Resting(t)' /\ (LoopBelow(t) /\ ~InLoop(Top(t)) => LoopBelow(t)')
<1>1. Len(stack[t]) \in Nat /\ Len(stack[t]) > 0 /\ Top(t) = stack[t][1]
  BY Activations, StackOps DEF Typed
<1>2. Resting(t)'
  <2>1. CASE stack'[t] = <<>>
    BY <2>1 DEF Resting, Fn, Is
  <2>2. CASE stack'[t] # <<>>
    <3>1. stack'[t] \in Seq(Activation)
      BY DEF Popped, Others
    <3>2. Head(stack'[t]) = stack'[t][1] /\ 1 \in 1..Len(stack'[t])
      BY <2>2, <3>1, Activations, SeqShapes
    <3>3. Head(stack'[t]) = stack[t][2] /\ 2 \in 2..Len(stack[t])
      BY <1>1, <3>2 DEF Popped
    <3>4. Suspended(Head(stack'[t]))
      BY <3>3 DEF Shape
    <3> QED BY <3>4 DEF Resting, Fn, Is, Top, Suspended
  <2> QED BY <2>1, <2>2
<1>3. ASSUME LoopBelow(t), ~InLoop(Top(t)) PROVE LoopBelow(t)'
  <2>1. PICK i \in 1..Len(stack[t]) : InLoop(stack[t][i])
    BY <1>3 DEF LoopBelow
  <2>2. i - 1 \in 1..Len(stack'[t]) /\ stack'[t][i - 1] = stack[t][i]
    BY <1>1, <1>3, <2>1 DEF Popped
  <2> QED BY <2>1, <2>2 DEF LoopBelow
<1> QED BY <1>2, <1>3

LEMMA AfterOther ==
  ASSUME Typed, NEW t \in Thread, stack[t] # <<>>, NEW a, NEW b
  PROVE  /\ Pushed(t, a) => /\ stack'[t] # <<>> /\ Head(stack'[t]) = a
                            /\ LoopBelow(t) => LoopBelow(t)'
         /\ Swapped(t, a) => /\ stack'[t] # <<>> /\ Head(stack'[t]) = a
                             /\ InLoop(a) => LoopBelow(t)'
                             /\ LoopBelow(t) /\ ~InLoop(Top(t)) => LoopBelow(t)'
         /\ SwappedAndPushed(t, a, b) =>
              /\ stack'[t] # <<>> /\ Head(stack'[t]) = a
              /\ LoopBelow(t) /\ ~InLoop(Top(t)) => LoopBelow(t)'
<1> DEFINE n == Len(stack[t])
<1>1. n \in Nat /\ n > 0 /\ Top(t) = stack[t][1]
  BY Activations, StackOps DEF Typed
<1>2. ASSUME Others(t), Len(stack'[t]) > 0, stack'[t][1] = a
      PROVE  stack'[t] # <<>> /\ Head(stack'[t]) = a
  BY <1>2 DEF Others
<1>3. ASSUME Pushed(t, a)
      PROVE  /\ stack'[t] # <<>> /\ Head(stack'[t]) = a
             /\ LoopBelow(t) => LoopBelow(t)'
  <2>1. stack'[t] # <<>> /\ Head(stack'[t]) = a
    BY <1>1, <1>2, <1>3 DEF Pushed
  <2>2. \A i \in 1..n : i + 1 \in 1..Len(stack'[t]) /\ stack'[t][i + 1] = stack[t][i]
    BY <1>1, <1>3 DEF Pushed
  <2> QED BY <2>1, <2>2 DEF LoopBelow
<1>4. ASSUME Swapped(t, a)
      PROVE  /\ stack'[t] # <<>> /\ Head(stack'[t]) = a
             /\ InLoop(a) => LoopBelow(t)'
             /\ LoopBelow(t) /\ ~InLoop(Top(t)) => LoopBelow(t)'
  <2>1. stack'[t] # <<>> /\ Head(stack'[t]) = a
    BY <1>1, <1>2, <1>4 DEF Swapped
  <2>2. InLoop(a) => LoopBelow(t)'
    BY <1>1, <1>4 DEF Swapped, LoopBelow
  <2>3. ASSUME LoopBelow(t), ~InLoop(Top(t)) PROVE LoopBelow(t)'
    <3>1. PICK i \in 1..n : InLoop(stack[t][i])
      BY <2>3 DEF LoopBelow
    <3>2. i \in 1..Len(stack'[t]) /\ stack'[t][i] = stack[t][i]
      BY <1>1, <1>4, <2>3, <3>1 DEF Swapped
    <3> QED BY <3>1, <3>2 DEF LoopBelow
  <2> QED BY <2>1, <2>2, <2>3
<1>5. ASSUME SwappedAndPushed(t, a, b)
      PROVE  /\ stack'[t] # <<>> /\ Head(stack'[t]) = a
             /\ LoopBelow(t) /\ ~InLoop(Top(t)) => LoopBelow(t)'
  <2>1. stack'[t] # <<>> /\ Head(stack'[t]) = a
    BY <1>1, <1>2, <1>5 DEF SwappedAndPushed
  <2>2. ASSUME LoopBelow(t), ~InLoop(Top(t)) PROVE LoopBelow(t)'
    <3>1. PICK i \in 1..n : InLoop(stack[t][i])
      BY <2>2 DEF LoopBelow
    <3>2. i + 1 \in 1..Len(stack'[t]) /\ stack'[t][i + 1] = stack[t][i]
      BY <1>1, <1>5, <2>2, <3>1 DEF SwappedAndPushed
    <3> QED BY <3>1, <3>2 DEF LoopBelow
  <2> QED BY <2>1, <2>2
<1> QED BY <1>3, <1>4, <1>5

\* A step that leaves the loop alone, from neither Waking nor Run.
LEMMA LoopUntouched ==
  ASSUME Typed, Shape, NEW t \in Thread, stack[t] # <<>>, LoopPart(t),
         Top(t).fn \notin {"Waking", "Run"}, UNCHANGED <<microTaskQueue, loopState>>,
         \/ UNCHANGED stack
         \/ Popped(t)
         \/ \E a, b : /\ Pushed(t, a) \/ Swapped(t, a) \/ SwappedAndPushed(t, a, b)
                      /\ a.fn = "Run" => a.at = "enter"
  PROVE  LoopPart(t)'
<1>1. microTaskQueue = <<>> \/ ~Stopped
  BY DEF LoopPart, Fn, Is
<1>2. ~InLoop(Top(t)) /\ (~Stopped => LoopBelow(t))
  BY DEF InLoop, LoopPart
<1>3. CASE UNCHANGED stack
  BY <1>3 DEF LoopPart, Fn, Is, Top, LoopBelow, Stopped
<1>4. CASE Popped(t)
  <2>1. Resting(t)' /\ (LoopBelow(t) => LoopBelow(t)')
    BY <1>2, <1>4, AfterPop
  <2> QED BY <1>1, <1>2, <2>1 DEF LoopPart, Resting, Stopped
<1>5. ASSUME NEW a, NEW b, Pushed(t, a) \/ Swapped(t, a) \/ SwappedAndPushed(t, a, b),
             a.fn = "Run" => a.at = "enter"
      PROVE  LoopPart(t)'
  <2>1. /\ stack'[t] # <<>> /\ Head(stack'[t]) = a
        /\ LoopBelow(t) => LoopBelow(t)'
    BY <1>2, <1>5, AfterOther
  <2> QED BY <1>1, <1>2, <1>5, <2>1 DEF LoopPart, Fn, Is, Top, Stopped
<1> QED BY <1>3, <1>4, <1>5

LEMMA LoopPartKept ==
  ASSUME Typed, Shape, NEW t \in Thread, LoopPart(t), Steps(t), ~strayed'
  PROVE  LoopPart(t)'
<1>0. stack[t] # <<>> /\ Top(t) \in Activation
  <2>1. stack[t] # <<>>
    BY StepsMove
  <2> QED BY <2>1, Activations, StackOps DEF Typed
<1>1. PublishNext(t).fn # "Run" \/ Top(t).fn # "Publishing"
  BY <1>0, ActivationParts DEF PublishNext
<1>2. ASSUME NEW a \in Activation, Become(t, a) PROVE Swapped(t, a)
  BY <1>0, <1>2, StackOps DEF Typed
<1>3. ASSUME NEW a \in Activation, Call(t, a) PROVE Pushed(t, a)
  BY <1>0, <1>3, StackOps DEF Typed
<1>4. ASSUME Return(t) PROVE Popped(t)
  BY <1>0, <1>4, Activations, StackOps DEF Typed
<1>5. CASE PublishEnds(t) \/ PublishStrays(t) \/ Registers(t)
  BY <1>0, <1>4, <1>5, LoopUntouched DEF PublishEnds, PublishStrays, Registers, In, loop
<1>6. ASSUME NEW p \in Prompt, PublishResolves(t, p) PROVE LoopPart(t)'
  <2>1. Resolving(p, "value") \in Activation /\ Resolving(p, "value").fn = "Resolving"
    BY Activations
  <2>2. /\ Top(t).fn = "Publishing" /\ PublishNext(t) \in Activation /\ UNCHANGED <<microTaskQueue, loopState>>
    BY <1>0, <1>6, ActivationParts DEF PublishResolves, In, PublishNext, loop
  <2>3. CASE stack' = [stack EXCEPT ![t] = <<Resolving(p, "value"), PublishNext(t)>> \o Tail(@)]
    <3>1. SwappedAndPushed(t, Resolving(p, "value"), PublishNext(t))
      BY <1>0, <2>1, <2>2, <2>3, StackOps DEF Typed
    <3> QED BY <1>0, <2>1, <2>2, <3>1, LoopUntouched
  <2>4. CASE Become(t, PublishNext(t))
    BY <1>0, <1>1, <1>2, <2>2, <2>4, LoopUntouched
  <2> QED BY <1>6, <2>3, <2>4 DEF PublishResolves
<1>7. ASSUME NEW p \in Prompt, Input(t, p) PROVE LoopPart(t)'
  BY <1>0, <1>7, LoopUntouched DEF Input, InProgram, In, loop
<1>8. ASSUME NEW p \in Prompt, Then(t, p) PROVE LoopPart(t)'
  <2>1. Top(t).fn = "Code" /\ UNCHANGED loopState
    BY <1>8 DEF Then, InProgram, In
  <2>2. /\ Registering(p) \in Activation /\ Registering(p).fn = "Registering"
        /\ Waking \in Activation /\ Waking.fn = "Waking"
    BY Activations
  <2>3. CASE Call(t, Registering(p)) /\ UNCHANGED microTaskQueue
    BY <1>0, <1>3, <2>1, <2>2, <2>3, LoopUntouched
  <2>4. CASE Call(t, Waking)
    <3>1. /\ stack'[t] # <<>> /\ Head(stack'[t]) = Waking /\ (LoopBelow(t) => LoopBelow(t)')
      BY <1>0, <1>3, <2>2, <2>4, AfterOther
    <3> QED BY <2>1, <2>2, <3>1 DEF LoopPart, Fn, Is, Top, Stopped
  <2> QED BY <1>8, <2>3, <2>4 DEF Then
<1>9. ASSUME NEW h \in Host, PublishCalls(t, h) PROVE LoopPart(t)'
  <2>1. Code(h) \in Activation /\ Code(h).fn = "Code"
    BY Activations
  <2>2. /\ Top(t).fn = "Publishing" /\ PublishNext(t) \in Activation /\ UNCHANGED <<microTaskQueue, loopState>>
    BY <1>0, <1>9, ActivationParts DEF PublishCalls, In, PublishNext, loop
  <2>3. SwappedAndPushed(t, Code(h), PublishNext(t))
    BY <1>0, <1>9, <2>1, <2>2, StackOps DEF Typed, PublishCalls
  <2> QED BY <1>0, <2>1, <2>2, <2>3, LoopUntouched
<1>10. ASSUME NEW h \in Host, HostUnsubscribes(t, h) PROVE LoopPart(t)'
  BY <1>0, <1>10, Activations, LoopUntouched DEF HostUnsubscribes, In, loop
<1>11. CASE SetValue(t)
  <2>1. Top(t).fn = "Resolving" /\ Become(t, Resolving(Top(t).of, "callbacks"))
    BY <1>11 DEF SetValue, In
  <2>2. /\ Resolving(Top(t).of, "callbacks") \in Activation
        /\ Resolving(Top(t).of, "callbacks").fn = "Resolving"
    <3>1. Top(t).of \in Prompt
      BY <1>0, <2>1, ActivationParts
    <3> QED BY <3>1, Activations
  <2> QED BY <1>0, <1>2, <1>11, <2>1, <2>2, LoopUntouched DEF SetValue, loop
<1>12. CASE Resolves(t)
  <2>1. Top(t).fn = "Resolving" /\ UNCHANGED loopState
    BY <1>12 DEF Resolves, In
  <2>2. Waking \in Activation /\ Waking.fn = "Waking"
    BY Activations
  <2>3. CASE Return(t) /\ UNCHANGED microTaskQueue
    BY <1>0, <1>4, <2>1, <2>3, LoopUntouched
  <2>4. CASE Become(t, Waking)
    <3>1. /\ stack'[t] # <<>> /\ Head(stack'[t]) = Waking /\ (LoopBelow(t) => LoopBelow(t)')
      BY <1>0, <1>2, <2>1, <2>2, <2>4, AfterOther DEF InLoop
    <3> QED BY <2>1, <2>2, <3>1 DEF LoopPart, Fn, Is, Top, Stopped
  <2> QED BY <1>12, <2>3, <2>4 DEF Resolves
<1>13. \A at \in RunAt : Run(at) \in Activation /\ Run(at).fn = "Run" /\ Run(at).at = at
  BY Activations
<1>14. CASE Wakes(t)
  <2>1. Top(t).fn = "Waking" /\ UNCHANGED <<microTaskQueue, loopState>>
    BY <1>14 DEF Wakes, In, loop
  <2>2. CASE Stopped /\ Become(t, Run("enter"))
    <3>1. stack'[t] # <<>> /\ Head(stack'[t]) = Run("enter")
      BY <1>0, <1>2, <1>13, <2>2, AfterOther DEF RunAt
    <3> QED BY <1>13, <2>1, <2>2, <3>1 DEF LoopPart, Fn, Is, Top, Stopped, RunAt
  <2>3. CASE ~Stopped /\ Return(t)
    <3>1. Resting(t)' /\ (LoopBelow(t) => LoopBelow(t)')
      BY <1>0, <1>4, <2>1, <2>3, AfterPop DEF InLoop
    <3> QED BY <2>1, <2>3, <3>1 DEF LoopPart, Resting, Stopped
  <2> QED BY <1>14, <2>2, <2>3 DEF Wakes
<1>15. CASE CodeReturns(t)
  <2>1. /\ Top(t).fn = "Code" /\ UNCHANGED <<microTaskQueue, loopState>>
        /\ Become(t, Run("enter")) \/ Return(t)
    BY <1>15 DEF CodeReturns, In, loop
  <2> QED BY <1>0, <1>2, <1>4, <1>13, <2>1, LoopUntouched DEF RunAt
<1>16. CASE RunEnters(t)
  <2>1. /\ loopState' = "Running" /\ Become(t, Run("top"))
    BY <1>16 DEF RunEnters
  <2>2. /\ stack'[t] # <<>> /\ Head(stack'[t]) = Run("top") /\ LoopBelow(t)'
    BY <1>0, <1>2, <1>13, <2>1, AfterOther DEF RunAt, InLoop
  <2> QED BY <1>13, <2>1, <2>2 DEF LoopPart, Fn, Is, Top, Stopped, RunAt
<1>17. CASE RunTests(t)
  <2>1. /\ Top(t).fn = "Run" /\ Top(t).at = "top" /\ UNCHANGED <<microTaskQueue, loopState>>
    BY <1>17 DEF RunTests, InRun, In, loop
  <2>2. microTaskQueue = <<>> \/ ~Stopped
    BY <2>1 DEF LoopPart, Fn, Is
  <2>3. CASE Stopped /\ Become(t, Run("end"))
    <3>1. stack'[t] # <<>> /\ Head(stack'[t]) = Run("end")
      BY <1>0, <1>2, <1>13, <2>3, AfterOther DEF RunAt
    <3> QED BY <1>13, <2>1, <2>2, <2>3, <3>1 DEF LoopPart, Fn, Is, Top, Stopped, RunAt
  <2>4. CASE ~Stopped /\ Become(t, Run("drain"))
    <3>1. stack'[t] # <<>> /\ Head(stack'[t]) = Run("drain") /\ LoopBelow(t)'
      BY <1>0, <1>2, <1>13, <2>4, AfterOther DEF RunAt, InLoop
    <3> QED BY <1>13, <2>1, <2>4, <3>1 DEF LoopPart, Fn, Is, Top, Stopped, RunAt
  <2> QED BY <1>17, <2>3, <2>4 DEF RunTests
<1>18. CASE RunMicroTask(t)
  <2>1. /\ Top(t).fn = "Run" /\ Top(t).at = "drain" /\ UNCHANGED loopState
        /\ microTaskQueue # <<>> /\ Call(t, Code(Head(microTaskQueue)))
    BY <1>18 DEF RunMicroTask, InRun, In
  <2>2. Head(microTaskQueue) \in Prompt
    BY <2>1 DEF Typed
  <2>3. Code(Head(microTaskQueue)) \in Activation /\ Code(Head(microTaskQueue)).fn = "Code"
    BY <2>2, Activations
  <2>4. ~Stopped
    BY <2>1 DEF LoopPart, Fn, Is
  <2>5. /\ stack'[t] # <<>> /\ Head(stack'[t]) = Code(Head(microTaskQueue))
        /\ LoopBelow(t) => LoopBelow(t)'
    BY <1>0, <1>3, <2>1, <2>3, AfterOther
  <2> QED BY <2>1, <2>3, <2>4, <2>5 DEF LoopPart, Fn, Is, Top, Stopped
<1>19. CASE RunFindsNothing(t)
  <2>1. /\ microTaskQueue = <<>> /\ Become(t, Run("stop"))
        /\ UNCHANGED <<microTaskQueue, loopState>>
    BY <1>19 DEF RunFindsNothing, loop
  <2>2. /\ stack'[t] # <<>> /\ Head(stack'[t]) = Run("stop") /\ LoopBelow(t)'
    BY <1>0, <1>2, <1>13, <2>1, AfterOther DEF RunAt, InLoop
  <2> QED BY <1>13, <2>1, <2>2 DEF LoopPart, Fn, Is, Top, Stopped, RunAt
<1>20. CASE RunStops(t)
  <2>1. /\ Top(t).fn = "Run" /\ Top(t).at = "stop" /\ stack[t] # <<>>
        /\ loopState' = "Stopped" /\ Become(t, Run("top")) /\ UNCHANGED microTaskQueue
    BY <1>20 DEF RunStops, InRun, In
  <2>2. microTaskQueue = <<>>
    BY <2>1 DEF LoopPart, Fn, Is
  <2>3. stack'[t] # <<>> /\ Head(stack'[t]) = Run("top")
    BY <1>0, <1>2, <1>13, <2>1, AfterOther DEF RunAt
  <2> QED BY <1>13, <2>1, <2>2, <2>3 DEF LoopPart, Fn, Is, Top, Stopped, RunAt
<1>21. CASE RunEnds(t)
  <2>1. /\ Top(t).fn = "Run" /\ Top(t).at = "end" /\ stack[t] # <<>>
        /\ loopState' = "Stopped" /\ Return(t) /\ UNCHANGED microTaskQueue
    BY <1>21 DEF RunEnds, InRun, In
  <2>2. microTaskQueue = <<>>
    BY <2>1 DEF LoopPart, Fn, Is
  <2>3. Resting(t)'
    BY <1>0, <1>4, <2>1, AfterPop
  <2> QED BY <2>1, <2>2, <2>3 DEF LoopPart, Resting, Stopped
<1> QED BY <1>5, <1>6, <1>7, <1>8, <1>9, <1>10, <1>11, <1>12, <1>14, <1>15, <1>16, <1>17,
           <1>18, <1>19, <1>20, <1>21 DEF Steps

\* A step that leaves the handlers where they are.
LEMMA HandlersUntouched ==
  ASSUME Typed, Shape, NEW t \in Thread, stack[t] # <<>>, HandlerPart(t),
         Top(t).fn \notin {"Registering", "Resolving"}, UNCHANGED <<handled, pstate, callbacks>>,
         \A p \in Prompt : Contains(microTaskQueue, p) \/ Contains(started, p)
                             => Contains(microTaskQueue', p) \/ Contains(started', p),
         \/ UNCHANGED stack
         \/ Popped(t)
         \/ \E a, b : /\ Pushed(t, a) \/ Swapped(t, a) \/ SwappedAndPushed(t, a, b)
                      /\ a.fn # "Registering"
  PROVE  HandlerPart(t)'
<1>1. ~Fn(t, "Registering")'
  <2>1. CASE UNCHANGED stack
    BY <2>1 DEF Fn, Top
  <2>2. CASE Popped(t)
    BY <2>2, AfterPop DEF Resting
  <2>3. ASSUME NEW a, NEW b, Pushed(t, a) \/ Swapped(t, a) \/ SwappedAndPushed(t, a, b),
               a.fn # "Registering"
        PROVE  ~Fn(t, "Registering")'
    <3>1. Head(stack'[t]) = a
      BY <2>3, AfterOther
    <3> QED BY <2>3, <3>1 DEF Fn, Top
  <2> QED BY <2>1, <2>2, <2>3
<1>2. handled \subseteq Prompt
  BY DEF Typed
<1>3. ~Fn(t, "Registering") /\ ~Fn(t, "Resolving")
  BY DEF Fn
<1> QED BY <1>1, <1>2, <1>3 DEF HandlerPart

LEMMA QueueEnds ==
  ASSUME NEW q \in Seq(Prompt), NEW p \in Prompt
  PROVE  /\ Contains(Append(q, p), p)
         /\ \A r : Contains(q, r) => Contains(Append(q, p), r)
         /\ q # <<>> => /\ Head(q) \in Prompt
                        /\ \A r : Contains(q, r) => r = Head(q) \/ Contains(Tail(q), r)
<1>1. /\ Len(q) \in Nat /\ Len(Append(q, p)) = Len(q) + 1 /\ Append(q, p)[Len(q) + 1] = p
      /\ \A i \in 1..Len(q) : Append(q, p)[i] = q[i]
  OBVIOUS
<1>2. Contains(Append(q, p), p)
  BY <1>1 DEF Contains
<1>3. \A r : Contains(q, r) => Contains(Append(q, p), r)
  BY <1>1 DEF Contains
<1>4. ASSUME q # <<>>, NEW r, Contains(q, r) PROVE r = Head(q) \/ Contains(Tail(q), r)
  <2>1. PICK i \in 1..Len(q) : q[i] = r
    BY <1>4 DEF Contains
  <2>2. /\ Head(q) = q[1] /\ Len(Tail(q)) = Len(q) - 1
        /\ \A j \in 1..Len(Tail(q)) : Tail(q)[j] = q[j + 1]
    BY <1>4
  <2>3. CASE i = 1
    BY <2>1, <2>2, <2>3
  <2>4. CASE i # 1
    <3>1. i - 1 \in 1..Len(Tail(q)) /\ Tail(q)[i - 1] = q[i]
      BY <1>1, <2>1, <2>2, <2>4
    <3> QED BY <2>1, <3>1 DEF Contains
  <2> QED BY <2>3, <2>4
<1> QED BY <1>2, <1>3, <1>4

LEMMA HandlerPartKept ==
  ASSUME Typed, Shape, Asked, NEW t \in Thread, HandlerPart(t), Steps(t), ~strayed'
  PROVE  HandlerPart(t)'
<1>0. stack[t] # <<>> /\ Top(t) \in Activation
  <2>1. stack[t] # <<>>
    BY StepsMove
  <2> QED BY <2>1, Activations, StackOps DEF Typed
<1>2. ASSUME NEW a \in Activation, Become(t, a) PROVE Swapped(t, a)
  BY <1>0, <1>2, StackOps DEF Typed
<1>3. ASSUME NEW a \in Activation, Call(t, a) PROVE Pushed(t, a)
  BY <1>0, <1>3, StackOps DEF Typed
<1>4. ASSUME Return(t) PROVE Popped(t)
  BY <1>0, <1>4, Activations, StackOps DEF Typed
<1>5. CASE PublishEnds(t) \/ PublishStrays(t)
  BY <1>0, <1>4, <1>5, HandlersUntouched DEF PublishEnds, PublishStrays, In, loop, promise
<1>6. ASSUME NEW p \in Prompt, PublishResolves(t, p) PROVE HandlerPart(t)'
  <2>1. /\ Resolving(p, "value") \in Activation /\ Resolving(p, "value").fn = "Resolving"
        /\ Resolving(p, "value").of = p
    BY Activations
  <2>2. /\ Top(t).fn = "Publishing" /\ PublishNext(t) \in Activation /\ PublishNext(t).fn = "Publishing"
        /\ UNCHANGED <<microTaskQueue, started, handled, callbacks>>
    BY <1>0, <1>6, ActivationParts DEF PublishResolves, In, PublishNext, loop
  <2>3. CASE /\ stack' = [stack EXCEPT ![t] = <<Resolving(p, "value"), PublishNext(t)>> \o Tail(@)]
             /\ pstate[p] = "pending" /\ pstate' = [pstate EXCEPT ![p] = "fulfilled"]
    <3>1. SwappedAndPushed(t, Resolving(p, "value"), PublishNext(t))
      BY <1>0, <2>1, <2>2, <2>3, StackOps DEF Typed
    <3>2. stack'[t] # <<>> /\ Head(stack'[t]) = Resolving(p, "value")
      BY <1>0, <3>1, AfterOther
    <3>3. \A q \in Prompt : pstate'[q] = IF q = p THEN "fulfilled" ELSE pstate[q]
      BY <2>3 DEF Typed
    <3>4. \A q \in handled : pstate[q] = "pending" => q \in callbacks
      BY <2>2 DEF HandlerPart, Fn
    <3>5. \A q \in handled : pstate[q] = "fulfilled" => Contains(started, q) \/ Contains(microTaskQueue, q)
      BY <2>2 DEF HandlerPart, Fn
    <3>6. handled \subseteq Prompt
      BY DEF Typed
    <3>7. /\ \A q \in handled : pstate'[q] = "pending" => q \in callbacks
          /\ \A q \in handled : pstate'[q] = "fulfilled" =>
               \/ Contains(started, q) \/ Contains(microTaskQueue, q)
               \/ (q \in callbacks) /\ q = p
      BY <2>3, <3>3, <3>4, <3>5, <3>6
    <3>8. Fn(t, "Resolving")' /\ Top(t)'.of = p /\ ~Fn(t, "Registering")'
      BY <2>1, <3>2 DEF Fn, Top
    <3> QED BY <2>2, <3>7, <3>8 DEF HandlerPart
  <2>4. CASE Become(t, PublishNext(t)) /\ UNCHANGED pstate
    BY <1>0, <1>2, <2>2, <2>4, HandlersUntouched
  <2> QED BY <1>6, <2>3, <2>4 DEF PublishResolves, Pending
<1>7. ASSUME NEW p \in Prompt, Input(t, p) PROVE HandlerPart(t)'
  <2>1. /\ p \notin handled /\ Top(t).fn = "Code" /\ UNCHANGED <<handled, callbacks, stack>>
        /\ UNCHANGED <<microTaskQueue, started>>
    BY <1>7 DEF Input, InProgram, In, Asked, loop
  <2>2. \A q \in handled : pstate'[q] = pstate[q]
    BY <1>7, <2>1 DEF Input, Typed
  <2>3. ~Fn(t, "Registering") /\ ~Fn(t, "Resolving") /\ ~Fn(t, "Registering")'
    BY <2>1 DEF Fn, Top
  <2> QED BY <2>1, <2>2, <2>3 DEF HandlerPart
<1>8. ASSUME NEW p \in Prompt, Then(t, p) PROVE HandlerPart(t)'
  <2>1. /\ Top(t).fn = "Code" /\ handled' = handled \cup {p} /\ UNCHANGED <<pstate, callbacks, started>>
        /\ pstate[p] \in {"pending", "fulfilled"}
    BY <1>8 DEF Then, InProgram, In, Typed
  <2>2. /\ Registering(p) \in Activation /\ Registering(p).fn = "Registering" /\ Registering(p).of = p
        /\ Waking \in Activation /\ Waking.fn = "Waking"
    BY Activations
  <2>3. ~Fn(t, "Registering") /\ ~Fn(t, "Resolving")
    BY <2>1 DEF Fn
  <2>4. CASE Pending(p) /\ Call(t, Registering(p)) /\ UNCHANGED microTaskQueue
    <3>1. stack'[t] # <<>> /\ Head(stack'[t]) = Registering(p)
      BY <1>0, <1>3, <2>2, <2>4, AfterOther
    <3>2. Fn(t, "Registering")' /\ Top(t)'.of = p
      BY <2>2, <3>1 DEF Fn, Top
    <3> QED BY <2>1, <2>3, <2>4, <3>2 DEF HandlerPart, Pending
  <2>5. CASE ~Pending(p) /\ Call(t, Waking) /\ microTaskQueue' = Append(microTaskQueue, p)
    <3>1. stack'[t] # <<>> /\ Head(stack'[t]) = Waking
      BY <1>0, <1>3, <2>2, <2>5, AfterOther
    <3>2. ~Fn(t, "Registering")'
      BY <2>2, <3>1 DEF Fn, Top
    <3>3. Contains(microTaskQueue', p) /\ \A q : Contains(microTaskQueue, q) => Contains(microTaskQueue', q)
      BY <2>5, QueueEnds DEF Typed
    <3>4. pstate[p] = "fulfilled"
      BY <2>1, <2>5 DEF Pending
    <3> QED BY <2>1, <2>3, <3>2, <3>3, <3>4 DEF HandlerPart
  <2> QED BY <1>8, <2>4, <2>5 DEF Then
<1>9. ASSUME NEW h \in Host, PublishCalls(t, h) PROVE HandlerPart(t)'
  <2>1. Code(h) \in Activation /\ Code(h).fn = "Code"
    BY Activations
  <2>2. /\ Top(t).fn = "Publishing" /\ PublishNext(t) \in Activation
        /\ UNCHANGED <<microTaskQueue, started, handled, pstate, callbacks>>
    BY <1>0, <1>9, ActivationParts DEF PublishCalls, In, PublishNext, loop, promise
  <2>3. SwappedAndPushed(t, Code(h), PublishNext(t))
    BY <1>0, <1>9, <2>1, <2>2, StackOps DEF Typed, PublishCalls
  <2> QED BY <1>0, <2>1, <2>2, <2>3, HandlersUntouched
<1>10. ASSUME NEW h \in Host, HostUnsubscribes(t, h) PROVE HandlerPart(t)'
  BY <1>0, <1>10, Activations, HandlersUntouched DEF HostUnsubscribes, In, loop, promise
<1>11. CASE SetValue(t)
  <2>1. Top(t).fn = "Resolving" /\ Become(t, Resolving(Top(t).of, "callbacks"))
        /\ UNCHANGED <<handled, pstate, callbacks, microTaskQueue, started>>
    BY <1>11 DEF SetValue, In, loop
  <2>2. /\ Resolving(Top(t).of, "callbacks") \in Activation
        /\ Resolving(Top(t).of, "callbacks").fn = "Resolving"
        /\ Resolving(Top(t).of, "callbacks").of = Top(t).of
    <3>1. Top(t).of \in Prompt
      BY <1>0, <2>1, ActivationParts
    <3> QED BY <3>1, Activations
  <2>3. stack'[t] # <<>> /\ Head(stack'[t]) = Resolving(Top(t).of, "callbacks")
    BY <1>0, <1>2, <2>1, <2>2, AfterOther
  <2>4. Fn(t, "Resolving")' /\ Top(t)'.of = Top(t).of /\ ~Fn(t, "Registering")'
    BY <2>2, <2>3 DEF Fn, Top
  <2>5. ~Fn(t, "Registering")
    BY <2>1 DEF Fn
  <2> QED BY <2>1, <2>4, <2>5 DEF HandlerPart
<1>12. CASE Registers(t)
  <2>1. /\ Top(t).fn = "Registering" /\ callbacks' = callbacks \cup {Top(t).of} /\ Return(t)
        /\ UNCHANGED <<handled, pstate, microTaskQueue, started>>
    BY <1>12 DEF Registers, In, loop
  <2>2. Resting(t)'
    BY <1>0, <1>4, <2>1, AfterPop
  <2>3. ~Fn(t, "Resolving") /\ ~Fn(t, "Registering")'
    BY <2>1, <2>2 DEF Fn, Resting
  <2> QED BY <2>1, <2>3 DEF HandlerPart
<1>13. CASE Resolves(t)
  <2>1. Top(t).fn = "Resolving" /\ UNCHANGED <<handled, pstate, callbacks, started>>
    BY <1>13 DEF Resolves, In, promise
  <2>2. Waking \in Activation /\ Waking.fn = "Waking" /\ Top(t).of \in Prompt
    BY <1>0, <2>1, Activations, ActivationParts
  <2>3. ~Fn(t, "Registering")
    BY <2>1 DEF Fn
  <2>4. CASE Top(t).of \notin callbacks /\ Return(t) /\ UNCHANGED microTaskQueue
    <3>1. Resting(t)'
      BY <1>0, <1>4, <2>4, AfterPop
    <3>2. ~Fn(t, "Registering")'
      BY <3>1 DEF Resting
    <3> QED BY <2>1, <2>3, <2>4, <3>2 DEF HandlerPart
  <2>5. CASE Become(t, Waking) /\ microTaskQueue' = Append(microTaskQueue, Top(t).of)
    <3>1. stack'[t] # <<>> /\ Head(stack'[t]) = Waking
      BY <1>0, <1>2, <2>2, <2>5, AfterOther
    <3>2. ~Fn(t, "Registering")'
      BY <2>2, <3>1 DEF Fn, Top
    <3>3. Contains(microTaskQueue', Top(t).of) /\ \A q : Contains(microTaskQueue, q) => Contains(microTaskQueue', q)
      BY <2>2, <2>5, QueueEnds DEF Typed
    <3> QED BY <2>1, <2>3, <3>2, <3>3 DEF HandlerPart
  <2> QED BY <1>13, <2>4, <2>5 DEF Resolves, HasCallback
<1>14. \A at \in RunAt : Run(at) \in Activation /\ Run(at).fn = "Run"
  BY Activations
<1>15. CASE Wakes(t) \/ CodeReturns(t)
  <2>1. /\ Top(t).fn \in {"Waking", "Code"} /\ UNCHANGED <<handled, pstate, callbacks, microTaskQueue, started>>
        /\ Become(t, Run("enter")) \/ Return(t)
    BY <1>15 DEF Wakes, CodeReturns, In, loop, promise
  <2> QED BY <1>0, <1>2, <1>4, <1>14, <2>1, HandlersUntouched DEF RunAt
<1>16. CASE RunEnters(t) \/ RunTests(t) \/ RunFindsNothing(t) \/ RunStops(t) \/ RunEnds(t)
  <2>1. /\ Top(t).fn = "Run" /\ UNCHANGED <<handled, pstate, callbacks, microTaskQueue, started>>
        /\ Return(t) \/ \E at \in RunAt : Become(t, Run(at))
    BY <1>16 DEF RunEnters, RunTests, RunFindsNothing, RunStops, RunEnds, InRun, In, loop, promise, RunAt
  <2> QED BY <1>0, <1>2, <1>4, <1>14, <2>1, HandlersUntouched
<1>17. CASE RunMicroTask(t)
  <2>1. /\ Top(t).fn = "Run" /\ UNCHANGED <<handled, pstate, callbacks>>
        /\ microTaskQueue # <<>> /\ Call(t, Code(Head(microTaskQueue)))
        /\ microTaskQueue' = Tail(microTaskQueue) /\ started' = Append(started, Head(microTaskQueue))
    BY <1>17 DEF RunMicroTask, InRun, In, promise
  <2>2. /\ microTaskQueue \in Seq(Prompt) /\ started \in Seq(Prompt) /\ Head(microTaskQueue) \in Prompt
    BY <2>1 DEF Typed
  <2>3. \A p \in Prompt : Contains(microTaskQueue, p) \/ Contains(started, p)
                            => Contains(microTaskQueue', p) \/ Contains(started', p)
    BY <2>1, <2>2, QueueEnds
  <2>4. Code(Head(microTaskQueue)) \in Activation /\ Code(Head(microTaskQueue)).fn = "Code"
    BY <2>2, Activations
  <2> QED BY <1>0, <1>3, <2>1, <2>3, <2>4, HandlersUntouched
<1> QED BY <1>5, <1>6, <1>7, <1>8, <1>9, <1>10, <1>11, <1>12, <1>13, <1>15, <1>16, <1>17
        DEF Steps

\* What the history has seen it does not forget.
LEMMA HistoryStays ==
  ASSUME [Next]_vars
  PROVE  (strayed => strayed') /\ (overlap => overlap') /\ (crowded => crowded') /\ (erased => erased')
<1>0. UNCHANGED rest => UNCHANGED <<strayed, overlap, crowded, erased>>
  BY DEF rest
<1>1. ASSUME NEW t \in Thread, Steps(t)
      PROVE (strayed => strayed') /\ (overlap => overlap') /\ (crowded => crowded') /\ (erased => erased')
  <2>1. CASE PublishStrays(t)
    BY <2>1 DEF PublishStrays
  <2>2. ASSUME NEW h \in Host, HostUnsubscribes(t, h)
        PROVE (strayed => strayed') /\ (overlap => overlap') /\ (crowded => crowded') /\ (erased => erased')
    BY <2>2 DEF HostUnsubscribes
  <2>3. CASE UNCHANGED rest
    BY <1>0, <2>3
  <2> QED BY <1>1, <2>1, <2>2, <2>3
          DEF Steps, PublishEnds, PublishResolves, Input, Then, PublishCalls, SetValue, Registers,
              Resolves, Wakes, CodeReturns, RunEnters, RunTests, RunMicroTask, RunFindsNothing,
              RunStops, RunEnds
<1>2. CASE UNCHANGED vars
  BY <1>2 DEF vars, rest
<1>3. CASE Starts \/ Stops \/ ModuleThrows \/ ReaderChecks \/ ReaderAtEof
  BY <1>0, <1>3 DEF Starts, Stops, ModuleThrows, ReaderChecks, ReaderAtEof
<1>4. CASE ReaderGetsLine
  BY <1>4, Zenon DEF ReaderGetsLine
<1>5. ASSUME NEW h \in Host, HostSubscribes(h)
      PROVE (strayed => strayed') /\ (overlap => overlap') /\ (crowded => crowded') /\ (erased => erased')
  BY <1>0, <1>5 DEF HostSubscribes
<1> QED BY <1>1, <1>2, <1>3, <1>4, <1>5 DEF Next

\* Who acts is the one who does not wait.
LEMMA ActsAlone ==
  ASSUME Typed, NEW t \in Thread, Alone(t), NEW u \in Thread, stack[u] # <<>>, Top(u).fn # "Reading"
  PROVE  u = t
BY DEF Alone, Waits

LEMMA TurnsNext ==
  ASSUME IdInv, Typed, Shape, Asked, TurnsInv, [Next]_vars
  PROVE  TurnsInv'
<1> SUFFICES ASSUME ~strayed', ~overlap'
             PROVE  \E t \in Thread : (Alone(t) /\ LoopPart(t) /\ HandlerPart(t))'
  BY DEF TurnsInv, Thread
<1>0. Thread = {"main", "reader"} /\ "main" # "reader"
  BY DEF Thread
<1>1. PICK t \in Thread : Alone(t) /\ LoopPart(t) /\ HandlerPart(t)
  BY HistoryStays DEF TurnsInv
<1>2. ASSUME NEW u \in Thread, Steps(u) PROVE (Alone(t) /\ LoopPart(t) /\ HandlerPart(t))'
  <2>1. u = t /\ StackMove(u)
    BY <1>1, <1>2, StepsMove, ActsAlone
  <2>2. \A w \in Thread \ {t} : stack'[w] = stack[w]
    BY <2>1 DEF StackMove, Popped, Pushed, Swapped, SwappedAndPushed, Cleared, Others
  <2>3. Alone(t)'
    BY <1>1, <2>2 DEF Alone, Waits, Top
  <2> QED BY <1>1, <1>2, <2>1, <2>3, LoopPartKept, HandlerPartKept
<1>3. CASE UNCHANGED <<stack, loop, pstate, callbacks, handled>>
  BY <1>1, <1>3 DEF Alone, Waits, Top, LoopPart, HandlerPart, Fn, Is, LoopBelow, Stopped, loop
<1>4. ASSUME AtRest, UNCHANGED <<loop, pstate, callbacks, handled>>, NEW u \in Thread,
             Alone(u)', ~Fn(u, "Registering")'
      PROVE  (Alone(u) /\ LoopPart(u) /\ HandlerPart(u))'
  BY <1>4 DEF AtRest, LoopPart, HandlerPart, Stopped, loop
<1>5. ASSUME Starts PROVE \E u \in Thread : (Alone(u) /\ LoopPart(u) /\ HandlerPart(u))'
  <2>1. /\ stack["main"] # <<>> /\ InSetup(Top("main"))
        /\ stack'["main"] = <<Code(Module)>> /\ stack'["reader"] = <<Reading("check")>>
    BY <1>5, OutsideStacks
  <2>2. t = "main"
    BY <1>0, <1>1, <2>1 DEF Alone, Waits, InSetup
  <2>3. AtRest
    <3>1. Len(stack["main"]) \in Nat /\ Len(stack["main"]) > 0 /\ Top("main") = stack["main"][1]
      BY <1>0, <2>1, Activations, StackOps DEF Typed
    <3>2. Stopped
      BY <2>1, <3>1 DEF Shape
    <3>3. ~Fn(t, "Waking") /\ ~Fn(t, "Run") /\ ~Fn(t, "Registering") /\ ~Fn(t, "Resolving")
      BY <2>1, <2>2 DEF Fn, InSetup
    <3>4. microTaskQueue = <<>>
      BY <1>1, <3>2, <3>3 DEF LoopPart, Is
    <3>5. \A p : ~Contains(microTaskQueue, p)
      BY <3>4 DEF Contains
    <3> QED BY <1>1, <3>2, <3>3, <3>4, <3>5 DEF AtRest, HandlerPart
  <2>4. Code(Module).fn = "Code" /\ Reading("check").fn = "Reading"
    BY DEF Code, Reading
  <2>5. Alone("main")' /\ ~Fn("main", "Registering")'
    <3>1. Head(stack'["main"]).fn = "Code"
      BY <2>1, <2>4
    <3>2. Len(stack'["reader"]) = 1 /\ Head(stack'["reader"]).fn = "Reading"
      BY <2>1, <2>4
    <3> QED BY <1>0, <3>1, <3>2 DEF Alone, Waits, Fn, Top
  <2>6. UNCHANGED <<loop, pstate, callbacks, handled>>
    BY <1>5 DEF Starts, promise
  <2> QED BY <1>0, <1>4, <2>3, <2>5, <2>6
<1>6. ASSUME ReaderChecks \/ ReaderAtEof \/ ReaderGetsLine
      PROVE  \E u \in Thread : (Alone(u) /\ LoopPart(u) /\ HandlerPart(u))'
  <2>1. /\ stack'["main"] = stack["main"] /\ stack["reader"] # <<>> /\ Top("reader").fn = "Reading"
    BY <1>6, OutsideStacks
  <2>2. UNCHANGED <<loop, pstate, callbacks, handled>>
    BY <1>6 DEF ReaderChecks, ReaderAtEof, ReaderGetsLine, promise
  <2>3. Waits("reader")
    <3>1. /\ Len(stack["reader"]) \in Nat /\ Len(stack["reader"]) > 0
          /\ Top("reader") = stack["reader"][1]
      BY <1>0, <2>1, Activations, StackOps DEF Typed
    <3>2. 1 \in 1..Len(stack["reader"]) /\ stack["reader"][1].fn = "Reading" /\ OfReader(stack["reader"])
      BY <2>1, <3>1 DEF Shape
    <3>3. Len(stack["reader"]) = 1
      BY <3>2 DEF OfReader
    <3> QED BY <2>1, <3>3 DEF Waits
  <2>4. CASE stack["main"] = <<>>
    <3>1. Waits(t)
      BY <1>0, <2>3, <2>4 DEF Waits
    <3>2. AtRest
      BY <1>1, <3>1, WaitingIsRest
    <3>3. Alone("reader")'
      BY <1>0, <2>1, <2>4 DEF Alone, Waits
    <3>4. ~Fn("reader", "Registering")'
      <4>1. CASE ReaderChecks \/ ReaderAtEof
        <5>1. CASE Popped("reader")
          BY <1>0, <2>1, <5>1, AfterPop DEF Resting
        <5>2. ASSUME NEW at \in {"check", "getline"}, Swapped("reader", Reading(at))
              PROVE  ~Fn("reader", "Registering")'
          <6>1. Head(stack'["reader"]) = Reading(at) /\ Reading(at).fn = "Reading"
            BY <1>0, <2>1, <5>2, AfterOther, Activations
          <6> QED BY <6>1 DEF Fn, Top
        <5> QED BY <4>1, <5>1, <5>2, OutsideStacks
      <4>2. CASE ReaderGetsLine
        <5>1. stack'["reader"] = <<Publishing(1, Len(subscriptions), capacity), Reading("check")>>
          BY <4>2, OutsideStacks
        <5>2. Head(stack'["reader"]).fn = "Publishing"
          BY <5>1 DEF Publishing
        <5> QED BY <5>2 DEF Fn, Top
      <4> QED BY <1>6, <4>1, <4>2
    <3> QED BY <1>0, <1>4, <2>2, <3>2, <3>3, <3>4
  <2>5. CASE stack["main"] # <<>>
    <3>1. ReaderChecks \/ ReaderAtEof
      BY <1>6, <2>5 DEF ReaderGetsLine
    <3>2. t = "main"
      <4>1. Top("main").fn # "Reading"
        <5>1. 1 \in 1..Len(stack["main"]) /\ Top("main") = stack["main"][1]
          <6>1. /\ Len(stack["main"]) \in Nat /\ Len(stack["main"]) > 0
                /\ Top("main") = stack["main"][1]
            BY <1>0, <2>5, Activations, StackOps DEF Typed
          <6> QED BY <6>1
        <5> QED BY <5>1 DEF Shape, OfMain
      <4> QED BY <1>0, <1>1, <2>5, <4>1, ActsAlone
    <3>3. Waits("reader")'
      <4>1. Len(stack["reader"]) = 1
        BY <2>1, <2>3 DEF Waits
      <4>2. CASE Popped("reader")
        <5>1. stack'["reader"] \in Seq(Activation) /\ Len(stack'["reader"]) = 0
          BY <1>0, <4>1, <4>2 DEF Popped, Others
        <5>2. stack'["reader"] = <<>>
          BY <5>1
        <5> QED BY <5>2 DEF Waits
      <4>3. ASSUME NEW at \in {"check", "getline"}, Swapped("reader", Reading(at))
            PROVE  Waits("reader")'
        <5>1. Head(stack'["reader"]) = Reading(at) /\ Reading(at).fn = "Reading"
          BY <1>0, <2>1, <4>3, AfterOther, Activations
        <5>2. Len(stack'["reader"]) = 1
          BY <4>1, <4>3 DEF Swapped
        <5> QED BY <5>1, <5>2 DEF Waits, Top
      <4> QED BY <3>1, <4>2, <4>3, OutsideStacks
    <3>4. Alone("main")'
      BY <1>0, <3>3 DEF Alone
    <3>5. (LoopPart("main") /\ HandlerPart("main"))'
      BY <1>1, <2>1, <2>2, <3>2 DEF LoopPart, HandlerPart, Fn, Is, Top, LoopBelow, Stopped, loop
    <3> QED BY <1>0, <3>4, <3>5
  <2> QED BY <2>4, <2>5
<1>7. CASE Stops \/ ModuleThrows \/ (\E h \in Host : HostSubscribes(h)) \/ UNCHANGED vars
  <2>1. UNCHANGED <<stack, loop, pstate, callbacks, handled>>
    BY <1>7 DEF Stops, ModuleThrows, HostSubscribes, vars, promise
  <2> QED BY <1>3, <2>1
<1> QED BY <1>2, <1>5, <1>6, <1>7 DEF Next

LEMMA InputInit == Init => Typed /\ Shape /\ Asked /\ TurnsInv
<1> SUFFICES ASSUME Init PROVE Typed /\ Shape /\ Asked /\ TurnsInv
  OBVIOUS
<1>0. Thread = {"main", "reader"} /\ "main" # "reader"
  BY DEF Thread
<1>1. stack["main"] = <<Code(Setup)>> /\ stack["reader"] = <<>>
  BY <1>0 DEF Init
<1>2. Code(Setup) \in Activation /\ Code(Setup).fn = "Code" /\ Code(Setup).of = Setup
  BY Activations
<1>3. Typed
  <2>1. <<>> \in Seq(Activation) /\ <<Code(Setup)>> \in Seq(Activation) /\ <<>> \in Seq(Prompt)
    BY <1>2
  <2> QED BY <2>1 DEF Init, Typed
<1>4. Shape
  <2>1. Setup \notin Host
    BY InputAssumption
  <2>2. OfMain(stack["main"]) /\ Len(stack["main"]) = 1
    BY <1>1, <1>2, <2>1 DEF OfMain
  <2>3. OfReader(stack["reader"]) /\ Len(stack["reader"]) = 0
    BY <1>1 DEF OfReader
  <2>4. Stopped
    BY DEF Init, Stopped
  <2> QED BY <1>0, <1>1, <2>2, <2>3, <2>4 DEF Shape
<1>5. Asked
  BY DEF Init, Asked
<1>6. TurnsInv
  <2>1. AtRest
    BY DEF Init, AtRest, Stopped
  <2>2. ~Fn("main", "Registering") /\ Alone("main")
    BY <1>0, <1>1, <1>2 DEF Fn, Top, Alone, Waits
  <2> QED BY <1>0, <2>1, <2>2, RestIsEnough DEF TurnsInv
<1> QED BY <1>3, <1>4, <1>5, <1>6

LEMMA InputInvariant == Spec => [](IdInv /\ Typed /\ Shape /\ Asked /\ TurnsInv)
<1>1. Init => IdInv /\ Typed /\ Shape /\ Asked /\ TurnsInv
  BY InputInit, IdInvInit
<1>2. IdInv /\ Typed /\ Shape /\ Asked /\ TurnsInv /\ [Next]_vars
        => (IdInv /\ Typed /\ Shape /\ Asked /\ TurnsInv)'
  BY IdInvNext, TypedNext, ShapeNext, AskedNext, TurnsNext
<1> QED BY <1>1, <1>2, PTL DEF Spec

\* If no line came while main was interpreting, no handler of an answered
\* input() is left behind when both threads have nothing to do.
THEOREM NoAnswerIsLeft == Spec => []AnswersHandled
<1>1. Typed /\ Shape /\ TurnsInv => AnswersHandled
  <2> SUFFICES ASSUME Typed, Shape, TurnsInv, ~strayed, ~overlap, stack["main"] = <<>>, BetweenLines
               PROVE  \A p \in handled : pstate[p] = "fulfilled" => Contains(started, p)
    BY DEF AnswersHandled
  <2>0. Thread = {"main", "reader"}
    BY DEF Thread
  <2>1. Waits("reader")
    <3>1. CASE stack["reader"] # <<>>
      <4>1. /\ Len(stack["reader"]) \in Nat /\ Len(stack["reader"]) > 0
            /\ Top("reader") = stack["reader"][1]
        BY <2>0, <3>1, Activations, StackOps DEF Typed
      <4>2. 1 \in 1..Len(stack["reader"]) /\ stack["reader"][1].fn = "Reading" /\ OfReader(stack["reader"])
        BY <3>1, <4>1 DEF Shape, BetweenLines
      <4>3. Len(stack["reader"]) = 1
        BY <4>2 DEF OfReader
      <4> QED BY <3>1, <4>3 DEF Waits, BetweenLines
    <3> QED BY <3>1 DEF Waits
  <2>2. PICK t \in Thread : LoopPart(t) /\ HandlerPart(t)
    BY DEF TurnsInv
  <2>3. Waits(t)
    BY <2>0, <2>1 DEF Waits
  <2> QED BY <2>2, <2>3, WaitingIsRest DEF AtRest
<1> QED BY <1>1, InputInvariant, PTL

-----------------------------------------------------------------------------
(* A publication, and how far it has come.                                  *)

InPublish == Len(stack["reader"]) >= 2
Pub == stack["reader"][Len(stack["reader"]) - 1]

LEMMA PublisherStack ==
  ASSUME Typed, Shape, NEW t \in Thread, stack[t] # <<>>, Top(t).fn = "Publishing"
  PROVE  /\ t = "reader" /\ Len(stack["reader"]) = 2 /\ Pub = Top("reader")
         /\ PublishNext(t) \in Activation
         /\ Pub.at \in Nat \ {0} /\ Pub.end \in Nat
         /\ PublishNext(t).at = Pub.at + 1 /\ PublishNext(t).end = Pub.end
         /\ PublishNext(t).buffer = Pub.buffer
         /\ Become(t, PublishNext(t)) =>
              /\ Len(stack'["reader"]) = 2 /\ stack'["reader"][1] = PublishNext(t)
              /\ InPublish' /\ Pub' = PublishNext(t) /\ Head(stack'["reader"]) = PublishNext(t)
         /\ \A a \in Activation : stack' = [stack EXCEPT ![t] = <<a, PublishNext(t)>> \o Tail(@)] =>
              /\ Len(stack'["reader"]) = 3 /\ Head(stack'["reader"]) = a
              /\ InPublish' /\ Pub' = PublishNext(t)
<1>0. Thread = {"main", "reader"}
  BY DEF Thread
<1>1. /\ Len(stack[t]) \in Nat /\ Len(stack[t]) > 0 /\ Top(t) = stack[t][1] /\ Top(t) \in Activation
  BY Activations, StackOps DEF Typed
<1>2. 1 \in 1..Len(stack[t])
  BY <1>1
<1>3. t = "reader"
  BY <1>0, <1>1, <1>2 DEF Shape, OfMain
<1>4. Len(stack["reader"]) = 2
  <2>1. OfReader(stack["reader"])
    BY DEF Shape
  <2>2. 1 \in 1..Len(stack["reader"]) /\ stack["reader"][1].fn = "Publishing" /\ Len(stack["reader"]) \in Nat
    BY <1>1, <1>2, <1>3
  <2>3. 1 = Len(stack["reader"]) - 1
    BY <2>1, <2>2 DEF OfReader
  <2> QED BY <2>2, <2>3
<1>5. Pub = Top("reader")
  BY <1>1, <1>3, <1>4 DEF Pub
<1>6. /\ PublishNext(t) \in Activation /\ Pub.at \in Nat \ {0} /\ Pub.end \in Nat
      /\ PublishNext(t).at = Pub.at + 1 /\ PublishNext(t).end = Pub.end
      /\ PublishNext(t).buffer = Pub.buffer
  BY <1>1, <1>3, <1>5, ActivationParts DEF PublishNext
<1>7. ASSUME Become(t, PublishNext(t))
      PROVE  /\ Len(stack'["reader"]) = 2 /\ stack'["reader"][1] = PublishNext(t)
             /\ InPublish' /\ Pub' = PublishNext(t) /\ Head(stack'["reader"]) = PublishNext(t)
  <2>1. Swapped(t, PublishNext(t))
    BY <1>6, <1>7, StackOps DEF Typed
  <2>2. Len(stack'["reader"]) = 2 /\ stack'["reader"][1] = PublishNext(t)
    BY <1>3, <1>4, <2>1 DEF Swapped
  <2>3. Head(stack'["reader"]) = PublishNext(t)
    BY <1>3, <2>1, AfterOther
  <2> QED BY <2>2, <2>3 DEF InPublish, Pub
<1>8. ASSUME NEW a \in Activation, stack' = [stack EXCEPT ![t] = <<a, PublishNext(t)>> \o Tail(@)]
      PROVE  /\ Len(stack'["reader"]) = 3 /\ Head(stack'["reader"]) = a
             /\ InPublish' /\ Pub' = PublishNext(t)
  <2>1. SwappedAndPushed(t, a, PublishNext(t))
    BY <1>6, <1>8, StackOps DEF Typed
  <2>2. Len(stack'["reader"]) = 3 /\ stack'["reader"][2] = PublishNext(t)
    <3>1. Len(stack'[t]) = Len(stack[t]) + 1 /\ stack'[t][2] = PublishNext(t)
      BY <2>1 DEF SwappedAndPushed
    <3>2. Len(stack[t]) = 2
      BY <1>3, <1>4
    <3>3. Len(stack'[t]) = 3 /\ stack'[t][2] = PublishNext(t)
      BY <3>1, <3>2
    <3> QED BY <1>3, <3>3
  <2>3. Head(stack'["reader"]) = a
    BY <1>3, <2>1, AfterOther
  <2> QED BY <2>2, <2>3 DEF InPublish, Pub
<1> QED BY <1>3, <1>4, <1>5, <1>6, <1>7, <1>8

\* A step of something else leaves the publication where it is.
LEMMA PubKept ==
  ASSUME Typed, Shape, NEW t \in Thread, Steps(t), Top(t).fn # "Publishing"
  PROVE  /\ InPublish' <=> InPublish
         /\ InPublish => Pub' = Pub
         /\ t = "main" => stack'["reader"] = stack["reader"]
<1>0. Thread = {"main", "reader"}
  BY DEF Thread
<1>1. stack[t] # <<>> /\ Top(t).fn # "Reading" /\ StackMove(t)
  BY StepsMove
<1>2. \A u \in Thread \ {t} : stack'[u] = stack[u]
  BY <1>1 DEF StackMove, Popped, Pushed, Swapped, SwappedAndPushed, Cleared, Others
<1>3. CASE t = "main"
  BY <1>0, <1>2, <1>3 DEF InPublish, Pub
<1>4. CASE t = "reader"
  <2> DEFINE R == stack["reader"]
             n == Len(R)
  <2>1. n \in Nat /\ n > 0 /\ Top("reader") = R[1]
    BY <1>1, <1>4, Activations, StackOps DEF Typed
  <2>2. n >= 3
    <3>1. 1 \in 1..n /\ R[1].fn # "Reading" /\ R[1].fn # "Publishing"
      BY <1>1, <1>4, <2>1
    <3>2. (R[1].fn = "Reading" <=> 1 = n) /\ (R[1].fn = "Publishing" <=> 1 = n - 1)
      BY <3>1 DEF Shape, OfReader
    <3> HIDE DEF n, R
    <3> QED BY <2>1, <3>1, <3>2
  <2>3. CASE UNCHANGED stack
    BY <1>4, <2>3 DEF InPublish, Pub
  <2>4. CASE Popped(t)
    <3>1. Len(stack'["reader"]) = n - 1 /\ n - 2 \in 1..n - 1 /\ stack'["reader"][n - 2] = R[n - 1]
      <4>1. /\ Len(stack'["reader"]) = n - 1
            /\ \A i \in 1..Len(stack'["reader"]) : stack'["reader"][i] = R[i + 1]
        BY <1>4, <2>4 DEF Popped
      <4> HIDE DEF R, n
      <4>2. n - 2 \in 1..n - 1 /\ (n - 2) + 1 = n - 1
        BY <2>1, <2>2
      <4> QED BY <4>1, <4>2
    <3> QED BY <1>4, <2>1, <2>2, <3>1 DEF InPublish, Pub
  <2>5. ASSUME NEW a, Pushed(t, a)
        PROVE  (InPublish' <=> InPublish) /\ Pub' = Pub
    <3>1. Len(stack'["reader"]) = n + 1 /\ n - 1 \in 1..n /\ stack'["reader"][n] = R[n - 1]
      <4>1. /\ Len(stack'["reader"]) = n + 1
            /\ \A i \in 1..n : stack'["reader"][i + 1] = R[i]
        BY <1>4, <2>5 DEF Pushed
      <4>2. n - 1 \in 1..n /\ (n - 1) + 1 = n
        BY <2>1, <2>2
      <4> HIDE DEF n, R
      <4>3. stack'["reader"][(n - 1) + 1] = R[n - 1]
        BY <4>1, <4>2
      <4> QED BY <4>1, <4>2, <4>3
    <3> QED BY <2>1, <2>2, <3>1 DEF InPublish, Pub
  <2>6. ASSUME NEW a, Swapped(t, a)
        PROVE  (InPublish' <=> InPublish) /\ Pub' = Pub
    <3>1. Len(stack'["reader"]) = n /\ n - 1 \in 2..n /\ stack'["reader"][n - 1] = R[n - 1]
      BY <1>4, <2>2, <2>6 DEF Swapped
    <3> QED BY <2>1, <2>2, <3>1 DEF InPublish, Pub
  <2> QED BY <1>1, <1>4, <2>3, <2>4, <2>5, <2>6 DEF StackMove
<1> QED BY <1>0, <1>3, <1>4

\* Outside the interpreter only a new line begins a publication.
LEMMA PubOutside ==
  ASSUME Typed, IdInv, Shape
  PROVE  /\ Starts \/ ReaderChecks \/ ReaderAtEof \/ ReaderGetsLine =>
              ~InPublish /\ ~Fn("reader", "Resolving") /\ ~Fn("reader", "Resolving")'
         /\ Starts \/ ReaderChecks \/ ReaderAtEof => ~InPublish'
         /\ ReaderGetsLine => /\ InPublish'
                              /\ Len(stack'["reader"]) = 2
                              /\ Pub'.at = 1 /\ Pub'.end = Len(subscriptions)
                              /\ Pub'.buffer = capacity
<1>0. Thread = {"main", "reader"}
  BY DEF Thread
<1>1. ASSUME stack["reader"] # <<>>, Top("reader").fn = "Reading"
      PROVE  ~InPublish /\ ~Fn("reader", "Resolving") /\ Len(stack["reader"]) = 1
  <2>1. /\ Len(stack["reader"]) \in Nat /\ Len(stack["reader"]) > 0
        /\ Top("reader") = stack["reader"][1]
    BY <1>0, <1>1, Activations, StackOps DEF Typed
  <2>2. 1 \in 1..Len(stack["reader"]) /\ stack["reader"][1].fn = "Reading" /\ OfReader(stack["reader"])
    BY <1>1, <2>1 DEF Shape
  <2>3. Len(stack["reader"]) = 1
    BY <2>2 DEF OfReader
  <2> QED BY <1>1, <2>3 DEF InPublish, Fn
<1>3. ASSUME ReaderChecks \/ ReaderAtEof
      PROVE  ~InPublish /\ ~InPublish' /\ ~Fn("reader", "Resolving") /\ ~Fn("reader", "Resolving")'
  <2>1. /\ stack["reader"] # <<>> /\ Top("reader").fn = "Reading"
        /\ Popped("reader") \/ \E at \in {"check", "getline"} : Swapped("reader", Reading(at))
    BY <1>3, OutsideStacks
  <2>2. Len(stack'["reader"]) <= 1
    BY <1>1, <2>1 DEF Popped, Swapped
  <2>3. ~InPublish'
    <3>1. Len(stack'["reader"]) \in Nat
      BY <1>1, <2>1 DEF Popped, Swapped
    <3> QED BY <2>2, <3>1 DEF InPublish
  <2>4. ASSUME Popped("reader") PROVE ~Fn("reader", "Resolving")'
    BY <1>0, <2>1, <2>4, AfterPop DEF Resting
  <2>5. ASSUME NEW at \in {"check", "getline"}, Swapped("reader", Reading(at))
        PROVE  ~Fn("reader", "Resolving")'
    <3>1. Head(stack'["reader"]) = Reading(at) /\ Reading(at).fn = "Reading"
      BY <1>0, <2>1, <2>5, AfterOther, Activations
    <3> QED BY <3>1 DEF Fn, Top
  <2> QED BY <1>1, <2>1, <2>3, <2>4, <2>5
<1>4. ASSUME ReaderGetsLine
      PROVE  /\ ~InPublish /\ InPublish' /\ ~Fn("reader", "Resolving") /\ ~Fn("reader", "Resolving")'
             /\ Len(stack'["reader"]) = 2
             /\ Pub'.at = 1 /\ Pub'.end = Len(subscriptions) /\ Pub'.buffer = capacity
  <2>1. /\ stack["reader"] # <<>> /\ Top("reader").fn = "Reading"
        /\ stack'["reader"] = <<Publishing(1, Len(subscriptions), capacity), Reading("check")>>
    BY <1>4, OutsideStacks
  <2>2. Len(stack'["reader"]) = 2 /\ stack'["reader"][1] = Publishing(1, Len(subscriptions), capacity)
    BY <2>1
  <2>3. InPublish' /\ Pub' = Publishing(1, Len(subscriptions), capacity)
    BY <2>2 DEF InPublish, Pub
  <2>4. Head(stack'["reader"]) = Publishing(1, Len(subscriptions), capacity)
    BY <2>1
  <2> QED BY <1>1, <2>1, <2>2, <2>3, <2>4 DEF Publishing, Fn, Top
<1>2. ASSUME Starts
      PROVE  ~InPublish /\ ~InPublish' /\ ~Fn("reader", "Resolving") /\ ~Fn("reader", "Resolving")'
  <2>1. stack["main"] # <<>> /\ InSetup(Top("main")) /\ stack'["reader"] = <<Reading("check")>>
    BY <1>2, OutsideStacks
  <2>2. stack["reader"] = <<>>
    <3>1. /\ Len(stack["main"]) \in Nat /\ Len(stack["main"]) > 0 /\ Top("main") = stack["main"][1]
      BY <1>0, <2>1, Activations, StackOps DEF Typed
    <3>2. 1 \in 1..Len(stack["main"]) /\ InSetup(stack["main"][1])
      BY <2>1, <3>1
    <3> QED BY <3>2 DEF Shape
  <2>3. Len(stack'["reader"]) = 1 /\ Head(stack'["reader"]) = Reading("check")
    BY <2>1
  <2> QED BY <2>2, <2>3, Activations DEF InPublish, Fn, Top
<1> QED BY <1>2, <1>3, <1>4

-----------------------------------------------------------------------------
(* StraysOnlyInCrowd.  What is unsettled comes last, so the one unsettled   *)
(* subscriber is the last one, and when it is called publish is through     *)
(* with the vector.                                                         *)

SettledFirst ==
  \A i, j \in 1..Len(subscriptions) :
    i < j /\ Unsettled(subscriptions[i]) => Unsettled(subscriptions[j])

Uncrowded ==
  \A i \in 1..Len(subscriptions) - 1 : ~Unsettled(subscriptions[i])

OnlyLastCalled ==
  InPublish /\ Pub.at <= Pub.end =>
    /\ Len(stack["reader"]) = 2
    /\ Pub.buffer = capacity /\ Pub.end = Len(subscriptions) /\ Uncrowded

StrayInv ==
  /\ StraysOnlyInCrowd
  /\ ~overlap /\ ~crowded => SettledFirst /\ OnlyLastCalled

LEMMA SubscribeAppends ==
  ASSUME IdInv, NEW who \in Prompt \cup Host, subscribe(who)
  PROVE  /\ Len(subscriptions) \in Nat /\ Len(subscriptions') = Len(subscriptions) + 1
         /\ \A i \in 1..Len(subscriptions) : subscriptions'[i] = subscriptions[i]
         /\ subscriptions'[Len(subscriptions) + 1].who = who
<1> DEFINE s == [id |-> generate_id, who |-> who]
<1>1. subscriptions' = Append(subscriptions, s) /\ s.who = who /\ subscriptions \in Seq(Subscription)
  BY DEF subscribe, push_back, IdInv
<1> HIDE DEF s
<1> QED BY <1>1

LEMMA Subscribers ==
  ASSUME IdInv
  PROVE  \A i \in 1..Len(subscriptions) : subscriptions[i].who \in Prompt \cup Host
<1>1. \A i \in 1..Len(subscriptions) : subscriptions[i] \in Subscription
  BY DEF IdInv
<1> QED BY <1>1 DEF Subscription

LEMMA SettledFirstAfterSubscribe ==
  ASSUME IdInv, Asked, SettledFirst, NEW who \in Prompt \cup Host, subscribe(who),
         who \in Host \/ (pstate'[who] = "pending" /\ pstate[who] = "unasked"),
         \A p \in Prompt \ {who} : pstate'[p] = pstate[p]
  PROVE  SettledFirst'
<1>1. /\ Len(subscriptions) \in Nat /\ Len(subscriptions') = Len(subscriptions) + 1
      /\ \A i \in 1..Len(subscriptions) : subscriptions'[i] = subscriptions[i]
      /\ subscriptions'[Len(subscriptions) + 1].who = who
  BY SubscribeAppends
<1>2. \/ subscriptions'[Len(subscriptions) + 1].who \in Host
      \/ pstate'[subscriptions'[Len(subscriptions) + 1].who] = "pending"
  BY <1>1
<1>3. ASSUME NEW i \in 1..Len(subscriptions)
      PROVE  Unsettled(subscriptions[i])' <=> Unsettled(subscriptions[i])
  <2>1. subscriptions'[i] = subscriptions[i] /\ subscriptions[i].who \in Prompt \cup Host
    BY <1>1, Subscribers
  <2>2. CASE subscriptions[i].who \in Host
    BY <2>1, <2>2 DEF Unsettled
  <2>3. CASE subscriptions[i].who \in Prompt
    <3>1. pstate[subscriptions[i].who] # "unasked" /\ subscriptions[i].who \notin Host
      BY <2>3, InputAssumption DEF Asked
    <3>2. subscriptions[i].who # who
      BY <3>1
    <3> QED BY <2>1, <2>3, <3>2 DEF Unsettled
  <2> QED BY <2>1, <2>2, <2>3
<1>4. ASSUME NEW i \in 1..Len(subscriptions'), NEW j \in 1..Len(subscriptions'), i < j,
             Unsettled(subscriptions[i])'
      PROVE  Unsettled(subscriptions[j])'
  <2>1. i \in 1..Len(subscriptions) /\ (j \in 1..Len(subscriptions) \/ j = Len(subscriptions) + 1)
    BY <1>1, <1>4
  <2>2. CASE j = Len(subscriptions) + 1
    BY <1>1, <1>2, <2>2 DEF Unsettled
  <2>3. CASE j \in 1..Len(subscriptions)
    BY <1>3, <1>4, <2>1, <2>3 DEF SettledFirst
  <2> QED BY <2>1, <2>2, <2>3
<1> QED BY <1>4 DEF SettledFirst

LEMMA StrayNext ==
  ASSUME IdInv, Typed, Shape, Asked, TurnsInv, StrayInv, [Next]_vars
  PROVE  StrayInv'
<1>0. Thread = {"main", "reader"} /\ "main" # "reader"
  BY DEF Thread
<1> SUFFICES ASSUME ~overlap', ~crowded'
             PROVE  ~strayed' /\ SettledFirst' /\ OnlyLastCalled'
  BY DEF StrayInv, StraysOnlyInCrowd
<1>1. ~overlap /\ ~crowded /\ ~strayed /\ SettledFirst /\ OnlyLastCalled
  BY HistoryStays DEF StrayInv, StraysOnlyInCrowd
<1>2. PICK t \in Thread : Alone(t)
  BY <1>1 DEF TurnsInv
\* While the last one is still to be called, nothing else goes on.
<1>3. ASSUME NEW u \in Thread, Steps(u), Top(u).fn # "Publishing"
      PROVE  OnlyLastCalled'
  <2>1. stack[u] # <<>> /\ Top(u).fn # "Reading" /\ u = t
    BY <1>2, <1>3, StepsMove, ActsAlone
  <2>2. (InPublish' <=> InPublish) /\ (InPublish => Pub' = Pub)
    BY <1>3, PubKept
  <2>3. ASSUME InPublish, Pub.at <= Pub.end PROVE FALSE
    <3>1. Len(stack["reader"]) = 2
      BY <1>1, <2>3 DEF OnlyLastCalled
    <3>2. stack["reader"] # <<>>
      <4> SUFFICES ASSUME stack["reader"] = <<>> PROVE FALSE
        OBVIOUS
      <4>1. Len(stack["reader"]) = 0
        OBVIOUS
      <4> QED BY <3>1, <4>1
    <3>3. Top("reader") = stack["reader"][1] /\ 1 \in 1..Len(stack["reader"])
      <4>1. Top("reader") = stack["reader"][1]
        BY <1>0, <3>2, Activations, StackOps DEF Typed
      <4> QED BY <3>1, <4>1
    <3>4. Top("reader").fn = "Publishing"
      BY <3>1, <3>3 DEF Shape, OfReader
    <3>5. u # "reader"
      BY <1>3, <3>4
    <3>6. "reader" \in Thread \ {t} /\ ~Waits("reader")
      BY <1>0, <2>1, <3>1, <3>2, <3>5 DEF Waits
    <3> QED BY <1>2, <3>6 DEF Alone
  <2> QED BY <2>2, <2>3 DEF OnlyLastCalled
<1>4. ASSUME UNCHANGED <<subscriptions, pstate>> PROVE SettledFirst'
  BY <1>1, <1>4 DEF SettledFirst, Unsettled
<1>5. ASSUME NEW u \in Thread, Steps(u), Top(u).fn # "Publishing", UNCHANGED <<strayed, subscriptions, pstate>>
      PROVE  ~strayed' /\ SettledFirst' /\ OnlyLastCalled'
  BY <1>1, <1>3, <1>4, <1>5
<1>6. ASSUME NEW u \in Thread, stack[u] # <<>>, Top(u).fn = "Publishing"
      PROVE  InPublish /\ Pub = Top(u)
  BY <1>6, PublisherStack DEF InPublish
<1>7. ASSUME NEW u \in Thread, PublishEnds(u)
      PROVE  ~strayed' /\ SettledFirst' /\ OnlyLastCalled'
  <2>1. stack[u] # <<>> /\ Top(u).fn = "Publishing" /\ Return(u) /\ UNCHANGED <<strayed, subscriptions, pstate>>
    BY <1>7 DEF PublishEnds, In, bus, promise, rest
  <2>2. Popped(u)
    BY <2>1, Activations, StackOps DEF Typed
  <2>3. ~InPublish'
    <3>1. u = "reader" /\ Len(stack["reader"]) = 2
      BY <2>1, PublisherStack
    <3>2. Len(stack'["reader"]) = 1
      BY <2>2, <3>1 DEF Popped
    <3> QED BY <3>2 DEF InPublish
  <2> QED BY <1>1, <1>4, <2>1, <2>3 DEF OnlyLastCalled
<1>8. ASSUME NEW u \in Thread, PublishStrays(u)
      PROVE  FALSE
  <2>1. /\ stack[u] # <<>> /\ Top(u).fn = "Publishing" /\ Top(u).at <= Top(u).end
        /\ ~Valid(Top(u))
    BY <1>8 DEF PublishStrays, In
  <2>2. Top(u).buffer = capacity /\ Top(u).end = Len(subscriptions)
    BY <1>1, <1>6, <2>1 DEF OnlyLastCalled
  <2> QED BY <2>1, <2>2 DEF Valid
<1>9. ASSUME NEW u \in Thread, stack[u] # <<>>, Top(u).fn = "Publishing", Top(u).at <= Top(u).end,
             Unsettled(subscriptions[Top(u).at])
      PROVE  Top(u).at = Len(subscriptions) /\ Top(u).end = Len(subscriptions) /\ Uncrowded
  <2>1. Top(u).end = Len(subscriptions) /\ Uncrowded
    BY <1>1, <1>6, <1>9 DEF OnlyLastCalled
  <2>2. Top(u).at \in Nat \ {0} /\ Top(u).end \in Nat
    BY <1>6, <1>9, PublisherStack
  <2> QED BY <1>9, <2>1, <2>2 DEF Uncrowded
<1>10. ASSUME NEW u \in Thread, NEW p \in Prompt, PublishResolves(u, p)
       PROVE  ~strayed' /\ SettledFirst' /\ OnlyLastCalled'
  <2>1. /\ stack[u] # <<>> /\ Top(u).fn = "Publishing" /\ Top(u).at <= Top(u).end
        /\ subscriptions[Top(u).at].who = p /\ UNCHANGED <<strayed, subscriptions, capacity>>
    BY <1>10 DEF PublishResolves, In, bus, rest
  <2>2. /\ Pub = Top(u) /\ Pub.at \in Nat \ {0} /\ Pub.end \in Nat /\ PublishNext(u).at = Pub.at + 1
        /\ PublishNext(u).end = Pub.end /\ PublishNext(u).buffer = Pub.buffer
    BY <1>6, <2>1, PublisherStack
  <2>3. CASE UNCHANGED pstate /\ Become(u, PublishNext(u))
    <3>1. Len(stack'["reader"]) = 2 /\ Pub' = PublishNext(u)
      BY <2>1, <2>3, PublisherStack
    <3>2. Pub.buffer = capacity /\ Pub.end = Len(subscriptions) /\ Uncrowded
      BY <1>1, <1>6, <2>1, <2>2 DEF OnlyLastCalled
    <3>3. OnlyLastCalled'
      BY <2>1, <2>2, <2>3, <3>1, <3>2 DEF OnlyLastCalled, Uncrowded, Unsettled
    <3> QED BY <1>1, <1>4, <2>1, <2>3, <3>3
  <2>4. CASE /\ Pending(p) /\ pstate' = [pstate EXCEPT ![p] = "fulfilled"]
             /\ stack' = [stack EXCEPT ![u] = <<Resolving(p, "value"), PublishNext(u)>> \o Tail(@)]
    <3>1. Pub' = PublishNext(u)
      BY <2>1, <2>4, PublisherStack, Activations
    <3>2. Unsettled(subscriptions[Top(u).at])
      BY <2>1, <2>4 DEF Unsettled, Pending
    <3>3. Top(u).at = Len(subscriptions) /\ Top(u).end = Len(subscriptions) /\ Uncrowded
      BY <1>9, <2>1, <3>2
    <3>4. OnlyLastCalled'
      BY <2>2, <3>1, <3>3 DEF OnlyLastCalled
    <3>5. SettledFirst'
      <4>1. \A q \in Prompt : pstate'[q] = "pending" => pstate[q] = "pending"
        BY <2>4 DEF Typed
      <4>2. \A i \in 1..Len(subscriptions) : subscriptions[i].who \in Prompt \cup Host
        BY Subscribers
      <4>3. \A i \in 1..Len(subscriptions) : Unsettled(subscriptions[i])' => Unsettled(subscriptions[i])
        BY <2>1, <4>1, <4>2 DEF Unsettled
      <4>4. Len(subscriptions) \in Nat
        BY DEF IdInv
      <4>5. \A i, j \in 1..Len(subscriptions) : i < j => i \in 1..Len(subscriptions) - 1
        BY <4>4
      <4> QED BY <2>1, <3>3, <4>3, <4>5 DEF SettledFirst, Uncrowded
    <3> QED BY <1>1, <2>1, <3>4, <3>5
  <2> QED BY <1>10, <2>3, <2>4 DEF PublishResolves
<1>11. ASSUME NEW u \in Thread, NEW h \in Host, PublishCalls(u, h)
       PROVE  ~strayed' /\ SettledFirst' /\ OnlyLastCalled'
  <2>1. /\ stack[u] # <<>> /\ Top(u).fn = "Publishing" /\ Top(u).at <= Top(u).end
        /\ subscriptions[Top(u).at].who = h /\ UNCHANGED <<strayed, subscriptions, pstate>>
        /\ stack' = [stack EXCEPT ![u] = <<Code(h), PublishNext(u)>> \o Tail(@)]
    BY <1>11 DEF PublishCalls, In, bus, promise, rest
  <2>2. /\ Pub = Top(u) /\ Pub.at \in Nat \ {0} /\ Pub.end \in Nat /\ PublishNext(u).at = Pub.at + 1
        /\ PublishNext(u).end = Pub.end
    BY <1>6, <2>1, PublisherStack
  <2>3. Pub' = PublishNext(u)
    BY <2>1, PublisherStack, Activations
  <2>4. Top(u).at = Len(subscriptions) /\ Top(u).end = Len(subscriptions)
    BY <1>9, <2>1 DEF Unsettled
  <2>5. OnlyLastCalled'
    BY <2>2, <2>3, <2>4 DEF OnlyLastCalled
  <2> QED BY <1>1, <1>4, <2>1, <2>5
<1>12. ASSUME NEW u \in Thread, NEW p \in Prompt, Input(u, p)
       PROVE  ~strayed' /\ SettledFirst' /\ OnlyLastCalled'
  <2>1. /\ Top(u).fn = "Code" /\ subscribe(p) /\ UNCHANGED strayed
        /\ pstate[p] = "unasked" /\ pstate' = [pstate EXCEPT ![p] = "pending"]
    BY <1>12 DEF Input, InProgram, In, rest
  <2>2. pstate'[p] = "pending" /\ \A q \in Prompt \ {p} : pstate'[q] = pstate[q]
    BY <2>1 DEF Typed
  <2>3. SettledFirst'
    BY <1>1, <2>1, <2>2, SettledFirstAfterSubscribe
  <2>4. Steps(u)
    BY <1>12 DEF Steps
  <2> QED BY <1>1, <1>3, <2>1, <2>3, <2>4
<1>13. ASSUME NEW u \in Thread, NEW h \in Host, HostUnsubscribes(u, h)
       PROVE  ~strayed' /\ SettledFirst' /\ OnlyLastCalled'
  <2>1. /\ Top(u).fn = "Code" /\ subscriptions' \in Without(subscriptions, hostId[h])
        /\ UNCHANGED <<strayed, pstate>>
    BY <1>13, Activations DEF HostUnsubscribes, In, unsubscribe, promise
  <2>2. PICK f \in [1..Len(subscriptions') -> 1..Len(subscriptions)] :
          /\ \A k \in 1..Len(subscriptions') : subscriptions'[k] = subscriptions[f[k]]
          /\ \A k, l \in 1..Len(subscriptions') : k < l => f[k] < f[l]
    BY <2>1, WithoutIsPart DEF IdInv
  <2>3. \A k \in 1..Len(subscriptions') : f[k] \in 1..Len(subscriptions)
    BY <2>2
  <2>4. SettledFirst'
    <3>1. \A k \in 1..Len(subscriptions') :
            Unsettled(subscriptions[k])' <=> Unsettled(subscriptions[f[k]])
      BY <2>1, <2>2 DEF Unsettled
    <3> QED BY <1>1, <2>2, <2>3, <3>1 DEF SettledFirst
  <2>5. Steps(u)
    BY <1>13 DEF Steps
  <2> QED BY <1>1, <1>3, <2>1, <2>4, <2>5
<1>14. ASSUME NEW u \in Thread, NEW p \in Prompt, Then(u, p)
       PROVE  ~strayed' /\ SettledFirst' /\ OnlyLastCalled'
  <2>1. Top(u).fn = "Code" /\ UNCHANGED <<strayed, subscriptions, pstate>>
    BY <1>14 DEF Then, InProgram, In, bus, rest
  <2> QED BY <1>5, <1>14, <2>1 DEF Steps
<1>15. ASSUME NEW u \in Thread,
              SetValue(u) \/ Registers(u) \/ Resolves(u) \/ Wakes(u) \/ CodeReturns(u)
       PROVE  ~strayed' /\ SettledFirst' /\ OnlyLastCalled'
  <2>1. Top(u).fn # "Publishing" /\ UNCHANGED <<strayed, subscriptions, pstate>>
    BY <1>15 DEF SetValue, Registers, Resolves, Wakes, CodeReturns, In, bus, promise, rest
  <2> QED BY <1>5, <1>15, <2>1 DEF Steps
<1>16. ASSUME NEW u \in Thread,
              RunEnters(u) \/ RunTests(u) \/ RunMicroTask(u) \/ RunFindsNothing(u) \/ RunStops(u) \/ RunEnds(u)
       PROVE  ~strayed' /\ SettledFirst' /\ OnlyLastCalled'
  <2>1. Top(u).fn # "Publishing" /\ UNCHANGED <<strayed, subscriptions, pstate>>
    BY <1>16 DEF RunEnters, RunTests, RunMicroTask, RunFindsNothing, RunStops, RunEnds, InRun, In,
                 bus, promise, rest
  <2> QED BY <1>5, <1>16, <2>1 DEF Steps
<1>17. ASSUME NEW h \in Host, HostSubscribes(h)
       PROVE  ~strayed' /\ SettledFirst' /\ OnlyLastCalled'
  <2>1. subscribe(h) /\ UNCHANGED <<strayed, pstate, stack>> /\ In("main", "Code") /\ Top("main") = Code(Setup)
    BY <1>17 DEF HostSubscribes, promise, rest
  <2>2. SettledFirst'
    BY <1>1, <2>1, SettledFirstAfterSubscribe
  <2>3. ~InPublish'
    <3>1. /\ Len(stack["main"]) \in Nat /\ Len(stack["main"]) > 0 /\ Top("main") = stack["main"][1]
      BY <1>0, <2>1, Activations, StackOps DEF Typed, In
    <3>2. 1 \in 1..Len(stack["main"]) /\ InSetup(stack["main"][1])
      BY <2>1, <3>1, Activations DEF InSetup
    <3>3. Len(stack["reader"]) = 0
      BY <3>2 DEF Shape
    <3> QED BY <2>1, <3>3 DEF InPublish
  <2> QED BY <1>1, <2>1, <2>2, <2>3 DEF OnlyLastCalled
<1>18. ASSUME ReaderGetsLine
       PROVE  ~strayed' /\ SettledFirst' /\ OnlyLastCalled'
  <2>1. /\ Len(stack'["reader"]) = 2 /\ Pub'.end = Len(subscriptions) /\ Pub'.buffer = capacity
        /\ UNCHANGED <<strayed, subscriptions, pstate, capacity>>
    BY <1>18, PubOutside DEF ReaderGetsLine, bus, promise
  <2>2. ~Crowd
    BY <1>18, Zenon DEF ReaderGetsLine
  <2>3. Uncrowded
    <3> SUFFICES ASSUME NEW i \in 1..Len(subscriptions) - 1, Unsettled(subscriptions[i])
                 PROVE  FALSE
      BY DEF Uncrowded
    <3>1. /\ i \in 1..Len(subscriptions) /\ Len(subscriptions) \in 1..Len(subscriptions)
          /\ i < Len(subscriptions)
      BY DEF IdInv
    <3> QED BY <1>1, <2>2, <3>1 DEF SettledFirst, Crowd
  <2> QED BY <1>1, <1>4, <2>1, <2>3 DEF OnlyLastCalled, Uncrowded, Unsettled
<1>19. CASE Starts \/ ReaderChecks \/ ReaderAtEof
  <2>1. ~InPublish' /\ UNCHANGED <<strayed, subscriptions, pstate>>
    BY <1>19, PubOutside DEF Starts, ReaderChecks, ReaderAtEof, bus, promise, rest
  <2> QED BY <1>1, <1>4, <2>1 DEF OnlyLastCalled
<1>20. CASE Stops \/ ModuleThrows \/ UNCHANGED vars
  <2>1. UNCHANGED <<strayed, subscriptions, pstate, stack, capacity>>
    BY <1>20 DEF Stops, ModuleThrows, vars, bus, promise, rest
  <2> QED BY <1>1, <1>4, <2>1 DEF OnlyLastCalled, Uncrowded, Unsettled, InPublish, Pub
<1> QED BY <1>7, <1>8, <1>10, <1>11, <1>12, <1>13, <1>14, <1>15, <1>16, <1>17, <1>18, <1>19, <1>20
        DEF Next, Steps

\* publish stays inside its vector as long as lines come when main has left the
\* interpreter and find one unsettled subscriber.
THEOREM PublishStaysInside == Spec => []StraysOnlyInCrowd
<1>1. Init => StrayInv
  <2> SUFFICES ASSUME Init PROVE StrayInv
    OBVIOUS
  <2>1. subscriptions = <<>> /\ Len(stack["reader"]) = 0 /\ ~strayed
    BY DEF Init, Thread
  <2> QED BY <2>1 DEF StrayInv, StraysOnlyInCrowd, SettledFirst, OnlyLastCalled, InPublish
<1>2. IdInv /\ Typed /\ Shape /\ Asked /\ TurnsInv /\ StrayInv /\ [Next]_vars => StrayInv'
  BY StrayNext
<1>3. StrayInv => StraysOnlyInCrowd
  BY DEF StrayInv
<1> QED BY <1>1, <1>2, <1>3, InputInvariant, PTL DEF Spec

-----------------------------------------------------------------------------
(* AnsweredByNextLine.  Without the host's erasures a subscription keeps    *)
(* its place, and publish visits them in order: what it has still to visit  *)
(* was asked before this line, and what has been asked since is behind the  *)
(* end of its range.                                                        *)

AskedWhen(i, p) ==
  IF InPublish /\ i <= Pub.end
    THEN Pub.at <= i /\ asked[p] + 1 = lines
    ELSE asked[p] = lines

\* The promise is settled, and its value is set next.
AnswerAwaited(p) == Is("reader", "Resolving", "value") /\ Top("reader").of = p

Lines ==
  /\ \A p \in Prompt : pstate[p] = "pending" =>
       \E i \in 1..Len(subscriptions) : subscriptions[i].who = p
  /\ InPublish => Pub.end <= Len(subscriptions)
  /\ \A i \in 1..Len(subscriptions) : \A p \in Prompt :
       subscriptions[i].who = p /\ pstate[p] = "pending" => AskedWhen(i, p)
  /\ \A p \in Prompt : pstate[p] = "fulfilled" =>
       IF AnswerAwaited(p) THEN asked[p] + 1 = lines ELSE answer[p] = asked[p] + 1

LineInv == ~strayed /\ ~overlap /\ ~erased => Lines

\* A step that concerns neither the subscriptions nor the promises.
LEMMA LinesUntouched ==
  ASSUME Lines, UNCHANGED <<subscriptions, pstate, asked, answer, lines>>,
         InPublish' <=> InPublish, InPublish => Pub' = Pub,
         \/ stack'["reader"] = stack["reader"]
         \/ ~Is("reader", "Resolving", "value") /\ ~Is("reader", "Resolving", "value")'
  PROVE  Lines'
<1>1. \A i, p : AskedWhen(i, p) => AskedWhen(i, p)'
  BY DEF AskedWhen
<1>2. \A p : AnswerAwaited(p) <=> AnswerAwaited(p)'
  BY DEF AnswerAwaited, Is, Fn, Top
<1>3. InPublish' => Pub'.end <= Len(subscriptions')
  BY DEF Lines
<1>4. \A p \in Prompt : pstate'[p] = "pending" =>
        \E i \in 1..Len(subscriptions') : subscriptions'[i].who = p
  BY DEF Lines
<1>5. \A i \in 1..Len(subscriptions') : \A p \in Prompt :
        subscriptions'[i].who = p /\ pstate'[p] = "pending" => AskedWhen(i, p)'
  BY <1>1 DEF Lines
<1>6. \A p \in Prompt : pstate'[p] = "fulfilled" =>
        IF AnswerAwaited(p)' THEN asked'[p] + 1 = lines' ELSE answer'[p] = asked'[p] + 1
  BY <1>2 DEF Lines
<1> QED BY <1>3, <1>4, <1>5, <1>6 DEF Lines

\* publish is through with the element that it has visited.
LEMMA AskedAfterVisit ==
  ASSUME IdInv, Lines, InPublish, Pub.at <= Pub.end, Pub.at \in Nat, Pub.end \in Nat,
         InPublish', Pub'.at = Pub.at + 1, Pub'.end = Pub.end, UNCHANGED <<subscriptions, asked, lines>>,
         \A p \in Prompt : pstate'[p] = "pending" => pstate[p] = "pending",
         \A p \in Prompt : subscriptions[Pub.at].who = p => pstate'[p] # "pending"
  PROVE  /\ \A p \in Prompt : pstate'[p] = "pending" =>
              \E i \in 1..Len(subscriptions') : subscriptions'[i].who = p
         /\ InPublish' => Pub'.end <= Len(subscriptions')
         /\ \A i \in 1..Len(subscriptions') : \A p \in Prompt :
              subscriptions'[i].who = p /\ pstate'[p] = "pending" => AskedWhen(i, p)'
<1>1. \A p \in Prompt : pstate'[p] = "pending" =>
              \E i \in 1..Len(subscriptions') : subscriptions'[i].who = p
  BY DEF Lines
<1>2. InPublish' => Pub'.end <= Len(subscriptions')
  BY DEF Lines
<1>3. ASSUME NEW i \in 1..Len(subscriptions), NEW p \in Prompt, subscriptions[i].who = p, pstate'[p] = "pending"
      PROVE  AskedWhen(i, p)'
  <2>1. AskedWhen(i, p)
    BY <1>3 DEF Lines
  <2>2. i # Pub.at
    BY <1>3
  <2> QED BY <2>1, <2>2 DEF AskedWhen
<1> QED BY <1>1, <1>2, <1>3

LEMMA LinesAfterSubscribe ==
  ASSUME IdInv, Typed, Asked, Lines, NEW who \in Prompt \cup Host, subscribe(who),
         UNCHANGED <<stack, lines, answer>>,
         \A p \in Prompt \ {who} : pstate'[p] = pstate[p] /\ asked'[p] = asked[p],
         who \in Prompt => pstate[who] = "unasked" /\ pstate'[who] = "pending" /\ asked'[who] = lines,
         InPublish => Pub.end \in Nat
  PROVE  Lines'
<1>1. /\ Len(subscriptions) \in Nat /\ Len(subscriptions') = Len(subscriptions) + 1
      /\ \A i \in 1..Len(subscriptions) : subscriptions'[i] = subscriptions[i]
      /\ subscriptions'[Len(subscriptions) + 1].who = who
  BY SubscribeAppends
<1>2. (InPublish' <=> InPublish) /\ Pub' = Pub
  BY DEF InPublish, Pub
<1>3. InPublish => Pub.end <= Len(subscriptions)
  BY DEF Lines
<1>4. ASSUME NEW p \in Prompt, pstate'[p] = "pending"
      PROVE  \E i \in 1..Len(subscriptions') : subscriptions'[i].who = p
  <2>1. CASE p = who
    BY <1>1, <2>1
  <2>2. CASE p # who
    <3>1. PICK i \in 1..Len(subscriptions) : subscriptions[i].who = p
      BY <1>4, <2>2 DEF Lines
    <3>2. i \in 1..Len(subscriptions') /\ subscriptions'[i].who = p
      BY <1>1, <3>1
    <3> QED BY <3>2
  <2> QED BY <2>1, <2>2
<1>5. ASSUME NEW i \in 1..Len(subscriptions'), NEW p \in Prompt, subscriptions'[i].who = p, pstate'[p] = "pending"
      PROVE  AskedWhen(i, p)'
  <2>1. CASE i \in 1..Len(subscriptions)
    <3>1. subscriptions[i].who = p /\ pstate[p] # "unasked"
      BY <1>1, <1>5, <2>1 DEF Asked
    <3>2. p # who
      BY <3>1
    <3>3. AskedWhen(i, p)
      BY <1>5, <2>1, <3>1, <3>2 DEF Lines
    <3> QED BY <1>2, <3>2, <3>3 DEF AskedWhen
  <2>2. CASE i = Len(subscriptions) + 1
    <3>1. ~(InPublish /\ i <= Pub.end)
      BY <1>1, <1>3, <2>2
    <3>2. p = who
      BY <1>1, <1>5, <2>2
    <3> QED BY <1>2, <3>1, <3>2 DEF AskedWhen
  <2> QED BY <1>1, <2>1, <2>2
<1>6. ASSUME NEW p \in Prompt, pstate'[p] = "fulfilled"
      PROVE  IF AnswerAwaited(p)' THEN asked'[p] + 1 = lines' ELSE answer'[p] = asked'[p] + 1
  <2>1. p # who
    BY <1>6
  <2>2. IF AnswerAwaited(p) THEN asked[p] + 1 = lines ELSE answer[p] = asked[p] + 1
    BY <1>6, <2>1 DEF Lines
  <2> QED BY <2>1, <2>2 DEF AnswerAwaited, Is, Fn, Top
<1> QED BY <1>1, <1>2, <1>3, <1>4, <1>5, <1>6 DEF Lines

\* The range of the publication is a number.
LEMMA PubTyped ==
  ASSUME Typed, Shape, InPublish
  PROVE  Pub.at \in Nat \ {0} /\ Pub.end \in Nat
<1>1. stack["reader"] \in Seq(Activation)
  BY DEF Typed, Thread
<1>2. Len(stack["reader"]) \in Nat /\ Len(stack["reader"]) - 1 \in 1..Len(stack["reader"])
  BY <1>1 DEF InPublish
<1>3. Pub \in Activation /\ Pub.fn = "Publishing"
  BY <1>1, <1>2 DEF Pub, Shape, OfReader
<1> QED BY <1>3, ActivationParts

LEMMA LineNext ==
  ASSUME IdInv, Typed, Shape, Asked, LineInv, [Next]_vars
  PROVE  LineInv'
<1>0. Thread = {"main", "reader"} /\ "main" # "reader"
  BY DEF Thread
<1> SUFFICES ASSUME ~strayed', ~overlap', ~erased'
             PROVE  Lines'
  BY DEF LineInv
<1>1. Lines
  BY HistoryStays DEF LineInv
<1>2. ASSUME NEW t \in Thread, Steps(t), Top(t).fn \notin {"Publishing", "Resolving"},
             UNCHANGED <<subscriptions, pstate, asked, answer, lines>>
      PROVE  Lines'
  <2>1. /\ (InPublish' <=> InPublish) /\ (InPublish => Pub' = Pub)
        /\ t = "main" => stack'["reader"] = stack["reader"]
    BY <1>2, PubKept
  <2>2. \/ stack'["reader"] = stack["reader"]
        \/ ~Is("reader", "Resolving", "value") /\ ~Is("reader", "Resolving", "value")'
    <3>1. CASE t = "reader"
      <4>1. ~Fn("reader", "Resolving")
        BY <1>2, <3>1 DEF Fn
      <4>2. stack[t] # <<>> /\ StackMove(t)
        BY <1>2, StepsMove
      <4>3. ASSUME Popped(t) PROVE ~Fn("reader", "Resolving")'
        BY <3>1, <4>2, <4>3, AfterPop DEF Resting
      <4>4. ASSUME NEW a \in Activation, Pushed(t, a) \/ Swapped(t, a), Callee(t, a)
            PROVE  ~Fn("reader", "Resolving")'
        <5>1. Head(stack'["reader"]) = a
          BY <3>1, <4>2, <4>4, AfterOther
        <5> QED BY <1>2, <4>4, <5>1 DEF Fn, Top, Callee
      <4> QED BY <1>2, <4>1, <4>2, <4>3, <4>4 DEF StackMove, Is
    <3> QED BY <1>0, <2>1, <3>1
  <2> QED BY <1>1, <1>2, <2>1, <2>2, LinesUntouched
<1>3. ASSUME NEW t \in Thread, PublishEnds(t) PROVE Lines'
  <2>1. /\ stack[t] # <<>> /\ Top(t).fn = "Publishing" /\ Top(t).at > Top(t).end /\ Return(t)
        /\ UNCHANGED <<subscriptions, pstate, asked, answer, lines>>
    BY <1>3 DEF PublishEnds, In, bus, promise, rest
  <2>2. /\ t = "reader" /\ Len(stack["reader"]) = 2 /\ Pub = Top("reader")
        /\ Pub.at \in Nat \ {0} /\ Pub.end \in Nat
    BY <2>1, PublisherStack
  <2>3. ~InPublish'
    <3>1. Popped(t)
      BY <2>1, Activations, StackOps DEF Typed
    <3>2. Len(stack'["reader"]) = 1
      BY <2>2, <3>1 DEF Popped
    <3> QED BY <3>2 DEF InPublish
  <2>4. ASSUME NEW i, NEW p, AskedWhen(i, p), i \in Nat PROVE AskedWhen(i, p)'
    <3>1. asked[p] = lines
      BY <2>1, <2>2, <2>4 DEF AskedWhen
    <3> QED BY <2>1, <2>3, <3>1 DEF AskedWhen
  <2>5. \A p : ~AnswerAwaited(p) /\ ~AnswerAwaited(p)'
    <3>1. Popped(t)
      BY <2>1, Activations, StackOps DEF Typed
    <3>2. ~Fn("reader", "Resolving")'
      BY <2>1, <2>2, <3>1, AfterPop DEF Resting
    <3> QED BY <2>1, <2>2, <3>2 DEF AnswerAwaited, Is, Fn
  <2>6. \A i \in 1..Len(subscriptions') : \A p \in Prompt :
          subscriptions'[i].who = p /\ pstate'[p] = "pending" => AskedWhen(i, p)'
    BY <1>1, <2>1, <2>4 DEF Lines
  <2> QED BY <1>1, <2>1, <2>3, <2>5, <2>6 DEF Lines
<1>4. ASSUME NEW t \in Thread, NEW p \in Prompt, PublishResolves(t, p) PROVE Lines'
  <2>1. /\ stack[t] # <<>> /\ Top(t).fn = "Publishing" /\ Top(t).at <= Top(t).end
        /\ Valid(Top(t)) /\ subscriptions[Top(t).at].who = p
        /\ UNCHANGED <<subscriptions, answer, asked, lines>>
    BY <1>4 DEF PublishResolves, In, bus, rest
  <2>2. /\ t = "reader" /\ InPublish /\ Pub = Top(t) /\ Pub.at \in Nat \ {0} /\ Pub.end \in Nat
        /\ PublishNext(t).at = Pub.at + 1 /\ PublishNext(t).end = Pub.end
        /\ PublishNext(t).fn = "Publishing"
    <3>1. /\ t = "reader" /\ Len(stack["reader"]) = 2 /\ Pub = Top(t)
          /\ Pub.at \in Nat \ {0} /\ Pub.end \in Nat
          /\ PublishNext(t).at = Pub.at + 1 /\ PublishNext(t).end = Pub.end
      BY <2>1, PublisherStack
    <3>2. Top(t) \in Activation
      BY <2>1, Activations, StackOps DEF Typed
    <3>3. PublishNext(t).fn = "Publishing"
      BY <2>1, <3>2, ActivationParts DEF PublishNext
    <3> QED BY <3>1, <3>3 DEF InPublish
  <2>3. ~Fn("reader", "Resolving") /\ \A q : ~AnswerAwaited(q)
    BY <2>1, <2>2 DEF Fn, Is, AnswerAwaited
  <2>4. CASE ~Pending(p) /\ UNCHANGED pstate /\ Become(t, PublishNext(t))
    <3>1. InPublish' /\ Pub' = PublishNext(t) /\ Head(stack'["reader"]) = PublishNext(t)
      BY <2>1, <2>4, PublisherStack
    <3>2. \A q \in Prompt : subscriptions[Pub.at].who = q => pstate'[q] # "pending"
      BY <2>1, <2>2, <2>4 DEF Pending
    <3>3. Pub'.at = Pub.at + 1 /\ Pub'.end = Pub.end
      BY <2>2, <3>1
    <3>4. /\ \A q \in Prompt : pstate'[q] = "pending" =>
               \E i \in 1..Len(subscriptions') : subscriptions'[i].who = q
          /\ InPublish' => Pub'.end <= Len(subscriptions')
          /\ \A i \in 1..Len(subscriptions') : \A q \in Prompt :
               subscriptions'[i].who = q /\ pstate'[q] = "pending" => AskedWhen(i, q)'
      BY <1>1, <2>1, <2>2, <2>4, <3>1, <3>2, <3>3, AskedAfterVisit
    <3>5. \A q \in Prompt : pstate'[q] = "fulfilled" => answer'[q] = asked'[q] + 1
      BY <1>1, <2>1, <2>3, <2>4 DEF Lines
    <3>6. \A q : ~AnswerAwaited(q)'
      BY <2>2, <3>1 DEF AnswerAwaited, Is, Fn, Top
    <3> QED BY <3>4, <3>5, <3>6 DEF Lines
  <2>5. CASE /\ Pending(p) /\ pstate' = [pstate EXCEPT ![p] = "fulfilled"]
             /\ stack' = [stack EXCEPT ![t] = <<Resolving(p, "value"), PublishNext(t)>> \o Tail(@)]
    <3>1. InPublish' /\ Pub' = PublishNext(t) /\ Head(stack'["reader"]) = Resolving(p, "value")
          /\ Len(stack'["reader"]) = 3
      <4>1. Resolving(p, "value") \in Activation
        BY Activations
      <4> QED BY <2>1, <2>5, <4>1, PublisherStack
    <3>2. \A q \in Prompt : pstate'[q] = IF q = p THEN "fulfilled" ELSE pstate[q]
      BY <2>5 DEF Typed
    <3>3. \A q \in Prompt : subscriptions[Pub.at].who = q => pstate'[q] # "pending"
      BY <2>1, <2>2, <3>2
    <3>4. Pub'.at = Pub.at + 1 /\ Pub'.end = Pub.end
      BY <2>2, <3>1
    <3>5. \A q \in Prompt : pstate'[q] = "pending" => pstate[q] = "pending"
      BY <3>2
    <3>6. /\ \A q \in Prompt : pstate'[q] = "pending" =>
               \E i \in 1..Len(subscriptions') : subscriptions'[i].who = q
          /\ InPublish' => Pub'.end <= Len(subscriptions')
          /\ \A i \in 1..Len(subscriptions') : \A q \in Prompt :
               subscriptions'[i].who = q /\ pstate'[q] = "pending" => AskedWhen(i, q)'
      BY <1>1, <2>1, <2>2, <3>1, <3>3, <3>4, <3>5, AskedAfterVisit
    <3>7. asked[p] + 1 = lines
      <4>1. Pub.at \in 1..Len(subscriptions)
        BY <2>1, <2>2 DEF Valid, IdInv
      <4>2. AskedWhen(Pub.at, p)
        BY <1>1, <2>1, <2>2, <2>5, <4>1 DEF Lines, Pending
      <4> QED BY <2>1, <2>2, <4>2 DEF AskedWhen
    <3>8. \A q : AnswerAwaited(q)' => q = p
      BY <3>1 DEF AnswerAwaited, Top, Resolving
    <3>9. AnswerAwaited(p)'
      <4>1. stack'["reader"] # <<>>
        <5> SUFFICES ASSUME stack'["reader"] = <<>> PROVE FALSE
          OBVIOUS
        <5>1. Len(stack'["reader"]) = 0
          OBVIOUS
        <5> QED BY <3>1, <5>1
      <4>2. /\ Resolving(p, "value").fn = "Resolving" /\ Resolving(p, "value").at = "value"
            /\ Resolving(p, "value").of = p
        BY DEF Resolving
      <4> QED BY <3>1, <4>1, <4>2 DEF AnswerAwaited, Is, Fn, Top
    <3>10. \A q \in Prompt \ {p} : pstate'[q] = "fulfilled" => answer'[q] = asked'[q] + 1
      BY <1>1, <2>1, <2>3, <3>2 DEF Lines
    <3>11. \A q \in Prompt : pstate'[q] = "fulfilled" =>
             IF AnswerAwaited(q)' THEN asked'[q] + 1 = lines' ELSE answer'[q] = asked'[q] + 1
      BY <2>1, <3>7, <3>8, <3>10, <3>9
    <3> QED BY <3>6, <3>11 DEF Lines
  <2> QED BY <1>4, <2>4, <2>5 DEF PublishResolves
<1>5. ASSUME NEW t \in Thread, NEW h \in Host, PublishCalls(t, h) PROVE Lines'
  <2>1. /\ stack[t] # <<>> /\ Top(t).fn = "Publishing" /\ Top(t).at <= Top(t).end
        /\ subscriptions[Top(t).at].who = h
        /\ UNCHANGED <<subscriptions, pstate, answer, asked, lines>>
        /\ stack' = [stack EXCEPT ![t] = <<Code(h), PublishNext(t)>> \o Tail(@)]
    BY <1>5 DEF PublishCalls, In, bus, promise, rest
  <2>2. /\ t = "reader" /\ InPublish /\ Pub = Top(t) /\ Pub.at \in Nat \ {0} /\ Pub.end \in Nat
        /\ PublishNext(t).at = Pub.at + 1 /\ PublishNext(t).end = Pub.end
        /\ PublishNext(t).fn = "Publishing"
    <3>1. /\ t = "reader" /\ Len(stack["reader"]) = 2 /\ Pub = Top(t)
          /\ Pub.at \in Nat \ {0} /\ Pub.end \in Nat
          /\ PublishNext(t).at = Pub.at + 1 /\ PublishNext(t).end = Pub.end
      BY <2>1, PublisherStack
    <3>2. Top(t) \in Activation
      BY <2>1, Activations, StackOps DEF Typed
    <3>3. PublishNext(t).fn = "Publishing"
      BY <2>1, <3>2, ActivationParts DEF PublishNext
    <3> QED BY <3>1, <3>3 DEF InPublish
  <2>3. \A q : ~AnswerAwaited(q)
    BY <2>1, <2>2 DEF Fn, Is, AnswerAwaited
  <2>4. InPublish' /\ Pub' = PublishNext(t) /\ Head(stack'["reader"]) = Code(h)
    <3>1. Code(h) \in Activation
      BY Activations
    <3> QED BY <2>1, <3>1, PublisherStack
  <2>5. \A q \in Prompt : subscriptions[Pub.at].who = q => pstate'[q] # "pending"
    BY <2>1, <2>2, InputAssumption
  <2>6. Pub'.at = Pub.at + 1 /\ Pub'.end = Pub.end
    BY <2>2, <2>4
  <2>7. /\ \A q \in Prompt : pstate'[q] = "pending" =>
             \E i \in 1..Len(subscriptions') : subscriptions'[i].who = q
        /\ InPublish' => Pub'.end <= Len(subscriptions')
        /\ \A i \in 1..Len(subscriptions') : \A q \in Prompt :
             subscriptions'[i].who = q /\ pstate'[q] = "pending" => AskedWhen(i, q)'
    BY <1>1, <2>1, <2>2, <2>4, <2>5, <2>6, AskedAfterVisit
  <2>8. \A q \in Prompt : pstate'[q] = "fulfilled" => answer'[q] = asked'[q] + 1
    BY <1>1, <2>1, <2>3 DEF Lines
  <2>9. \A q : ~AnswerAwaited(q)'
    BY <2>4 DEF AnswerAwaited, Is, Fn, Top, Code
  <2> QED BY <2>7, <2>8, <2>9 DEF Lines
<1>6. ASSUME NEW t \in Thread, NEW p \in Prompt, Input(t, p) PROVE Lines'
  <2>1. /\ subscribe(p) /\ UNCHANGED <<stack, lines, answer>> /\ pstate[p] = "unasked"
        /\ pstate'[p] = "pending" /\ asked'[p] = lines
        /\ \A q \in Prompt \ {p} : pstate'[q] = pstate[q] /\ asked'[q] = asked[q]
    BY <1>6 DEF Input, rest, Typed
  <2> QED BY <1>1, <2>1, PubTyped, LinesAfterSubscribe
<1>7. ASSUME NEW h \in Host, HostSubscribes(h) PROVE Lines'
  <2>1. subscribe(h) /\ UNCHANGED <<stack, lines, answer, pstate, asked>> /\ h \notin Prompt
    BY <1>7, InputAssumption DEF HostSubscribes, promise, rest
  <2> QED BY <1>1, <2>1, PubTyped, LinesAfterSubscribe
<1>8. ASSUME NEW t \in Thread, SetValue(t) PROVE Lines'
  <2>1. /\ stack[t] # <<>> /\ Top(t).fn = "Resolving" /\ Top(t).at = "value"
        /\ answer' = [answer EXCEPT ![Top(t).of] = lines]
        /\ Become(t, Resolving(Top(t).of, "callbacks"))
        /\ UNCHANGED <<subscriptions, pstate, asked, lines>>
    BY <1>8 DEF SetValue, In, bus, rest
  <2>2. Top(t) \in Activation
    BY <2>1, Activations, StackOps DEF Typed
  <2>3. t = "reader"
    <3>1. Len(stack[t]) \in Nat /\ Len(stack[t]) > 0 /\ Top(t) = stack[t][1]
      BY <2>1, Activations, StackOps DEF Typed
    <3>2. 1 \in 1..Len(stack[t]) /\ stack[t][1].fn = "Resolving"
      BY <2>1, <3>1
    <3> QED BY <1>0, <3>2 DEF Shape, OfMain
  <2>4. (InPublish' <=> InPublish) /\ (InPublish => Pub' = Pub)
    BY <1>8, <2>1, PubKept DEF Steps
  <2>5. \A i, q : AskedWhen(i, q) => AskedWhen(i, q)'
    BY <2>1, <2>4 DEF AskedWhen
  <2>6. \A q \in Prompt : answer'[q] = IF q = Top(t).of THEN lines ELSE answer[q]
    BY <2>1 DEF Typed
  <2>7. ASSUME NEW q \in Prompt, pstate[q] = "fulfilled" PROVE answer'[q] = asked[q] + 1
    <3>1. AnswerAwaited(q) <=> q = Top(t).of
      BY <2>1, <2>3 DEF AnswerAwaited, Is, Fn
    <3>2. IF q = Top(t).of THEN asked[q] + 1 = lines ELSE answer[q] = asked[q] + 1
      BY <1>1, <2>7, <3>1 DEF Lines
    <3> QED BY <2>6, <3>2
  <2>8. \A q \in Prompt : pstate'[q] = "fulfilled" => answer'[q] = asked'[q] + 1
    BY <2>1, <2>7
  <2>9. \A q : ~AnswerAwaited(q)'
    <3>1. Top(t).of \in Prompt
      BY <2>1, <2>2, ActivationParts
    <3>2. Resolving(Top(t).of, "callbacks") \in Activation /\ Resolving(Top(t).of, "callbacks").at = "callbacks"
      BY <3>1, Activations
    <3>3. Swapped(t, Resolving(Top(t).of, "callbacks"))
      BY <2>1, <3>2, StackOps DEF Typed
    <3>4. Head(stack'["reader"]) = Resolving(Top(t).of, "callbacks")
      BY <2>1, <2>3, <3>3, AfterOther
    <3> QED BY <3>2, <3>4 DEF AnswerAwaited, Is, Top
  <2> QED BY <1>1, <2>1, <2>4, <2>5, <2>8, <2>9 DEF Lines
<1>9. ASSUME NEW t \in Thread, NEW p \in Prompt, Then(t, p) PROVE Lines'
  <2>1. /\ Top(t).fn = "Code"
        /\ UNCHANGED <<subscriptions, pstate, asked, answer, lines>>
    BY <1>9 DEF Then, InProgram, In, bus, rest
  <2> QED BY <1>2, <1>9, <2>1 DEF Steps
<1>10. ASSUME NEW t \in Thread, Registers(t) \/ Wakes(t) \/ CodeReturns(t) PROVE Lines'
  <2>1. /\ Top(t).fn \notin {"Publishing", "Resolving"}
        /\ UNCHANGED <<subscriptions, pstate, asked, answer, lines>>
    BY <1>10 DEF Registers, Wakes, CodeReturns, In, bus, promise, rest
  <2> QED BY <1>2, <1>10, <2>1 DEF Steps
<1>11. ASSUME NEW t \in Thread, Resolves(t) PROVE Lines'
  <2>1. /\ stack[t] # <<>> /\ Top(t).fn = "Resolving" /\ Top(t).at = "callbacks"
        /\ UNCHANGED <<subscriptions, pstate, asked, answer, lines>>
        /\ Return(t) \/ Become(t, Waking)
    BY <1>11 DEF Resolves, In, bus, promise, rest
  <2>2. /\ (InPublish' <=> InPublish) /\ (InPublish => Pub' = Pub)
        /\ t = "main" => stack'["reader"] = stack["reader"]
    BY <1>11, <2>1, PubKept DEF Steps
  <2>3. ~Fn(t, "Resolving")'
    <3>1. CASE Return(t)
      <4>1. Popped(t)
        BY <2>1, <3>1, Activations, StackOps DEF Typed
      <4> QED BY <2>1, <4>1, AfterPop DEF Resting
    <3>2. CASE Become(t, Waking)
      <4>1. Waking \in Activation /\ Waking.fn = "Waking"
        BY Activations
      <4>2. Swapped(t, Waking)
        BY <2>1, <3>2, <4>1, StackOps DEF Typed
      <4>3. Head(stack'[t]) = Waking
        BY <2>1, <4>2, AfterOther
      <4> QED BY <4>1, <4>3 DEF Fn, Top
    <3> QED BY <2>1, <3>1, <3>2
  <2>4. \/ stack'["reader"] = stack["reader"]
        \/ ~Is("reader", "Resolving", "value") /\ ~Is("reader", "Resolving", "value")'
    <3>1. CASE t = "reader"
      BY <2>1, <2>3, <3>1 DEF Is
    <3> QED BY <1>0, <2>2, <3>1
  <2> QED BY <1>1, <2>1, <2>2, <2>4, LinesUntouched
<1>12. ASSUME NEW t \in Thread,
              RunEnters(t) \/ RunTests(t) \/ RunMicroTask(t) \/ RunFindsNothing(t) \/ RunStops(t) \/ RunEnds(t)
       PROVE  Lines'
  <2>1. /\ Top(t).fn \notin {"Publishing", "Resolving"}
        /\ UNCHANGED <<subscriptions, pstate, asked, answer, lines>>
    BY <1>12 DEF RunEnters, RunTests, RunMicroTask, RunFindsNothing, RunStops, RunEnds, InRun, In,
                 bus, promise, rest
  <2> QED BY <1>2, <1>12, <2>1 DEF Steps
<1>13. CASE Starts \/ ReaderChecks \/ ReaderAtEof
  <2>1. ~InPublish /\ ~InPublish' /\ ~Is("reader", "Resolving", "value")
        /\ ~Is("reader", "Resolving", "value")'
        /\ UNCHANGED <<subscriptions, pstate, asked, answer, lines>>
    BY <1>13, PubOutside DEF Starts, ReaderChecks, ReaderAtEof, Is, bus, promise, rest
  <2> QED BY <1>1, <2>1, LinesUntouched
<1>14. CASE ReaderGetsLine
  <2>1. /\ ~InPublish /\ InPublish' /\ ~Fn("reader", "Resolving") /\ ~Fn("reader", "Resolving")'
        /\ Pub'.at = 1 /\ Pub'.end = Len(subscriptions) /\ lines' = lines + 1
        /\ UNCHANGED <<subscriptions, pstate, asked, answer>>
    BY <1>14, PubOutside DEF ReaderGetsLine, bus, promise
  <2>2. ASSUME NEW i \in 1..Len(subscriptions), NEW p \in Prompt, AskedWhen(i, p) PROVE AskedWhen(i, p)'
    BY <2>1, <2>2 DEF AskedWhen, IdInv
  <2>3. \A p \in Prompt : pstate'[p] = "fulfilled" => answer'[p] = asked'[p] + 1
    BY <1>1, <2>1 DEF Lines, AnswerAwaited, Is
  <2>4. InPublish' => Pub'.end <= Len(subscriptions')
    BY <2>1 DEF IdInv
  <2>5. \A p : ~AnswerAwaited(p)'
    BY <2>1 DEF AnswerAwaited, Is, Fn, Top
  <2>6. \A i \in 1..Len(subscriptions') : \A p \in Prompt :
          subscriptions'[i].who = p /\ pstate'[p] = "pending" => AskedWhen(i, p)'
    BY <1>1, <2>1, <2>2 DEF Lines
  <2>7. subscriptions' = subscriptions /\ pstate' = pstate
    BY <2>1
  <2> QED BY <1>1, <2>3, <2>4, <2>5, <2>6, <2>7 DEF Lines
<1>15. CASE Stops \/ ModuleThrows \/ UNCHANGED vars
  <2>1. UNCHANGED <<subscriptions, pstate, asked, answer, lines, stack>>
    BY <1>15 DEF Stops, ModuleThrows, vars, bus, promise, rest
  <2>2. (InPublish' <=> InPublish) /\ Pub' = Pub
    BY <2>1 DEF InPublish, Pub
  <2> QED BY <1>1, <2>1, <2>2, LinesUntouched
<1>16. ASSUME NEW t \in Thread, PublishStrays(t) \/ \E h \in Host : HostUnsubscribes(t, h)
       PROVE  FALSE
  BY <1>16 DEF PublishStrays, HostUnsubscribes
<1> QED BY <1>3, <1>4, <1>5, <1>6, <1>7, <1>8, <1>9, <1>10, <1>12, <1>13, <1>14, <1>15, <1>16,
           <1>11 DEF Next, Steps

\* Every input() is answered by the first line after it, and by that one only,
\* if no line comes while main interprets and no callback of the host erases a
\* subscription.
THEOREM NextLineAnswers == Spec => []AnsweredByNextLine
<1>1. Init => LineInv
  <2> SUFFICES ASSUME Init PROVE LineInv
    OBVIOUS
  <2>1. subscriptions = <<>> /\ Len(stack["reader"]) = 0 /\ \A p \in Prompt : pstate[p] = "unasked"
    BY DEF Init, Thread
  <2> QED BY <2>1 DEF LineInv, Lines, InPublish
<1>2. IdInv /\ Typed /\ Shape /\ Asked /\ LineInv /\ [Next]_vars => LineInv'
  BY LineNext
<1>3. Typed /\ Shape /\ LineInv => AnsweredByNextLine
  <2> SUFFICES ASSUME Typed, Shape, Lines, BetweenLines, NEW p \in Prompt
               PROVE  /\ pstate[p] = "fulfilled" => answer[p] = asked[p] + 1
                      /\ pstate[p] = "pending" => asked[p] = lines
    BY DEF LineInv, AnsweredByNextLine
  <2>1. ~InPublish
    <3>1. CASE stack["reader"] = <<>>
      <4>1. Len(stack["reader"]) = 0
        BY <3>1
      <4> QED BY <4>1 DEF InPublish
    <3>2. CASE stack["reader"] # <<>>
      <4>1. "reader" \in Thread
        BY DEF Thread
      <4>2. /\ Len(stack["reader"]) \in Nat /\ Len(stack["reader"]) > 0
            /\ Top("reader") = stack["reader"][1]
        BY <3>2, <4>1, Activations, StackOps DEF Typed
      <4>3. 1 \in 1..Len(stack["reader"]) /\ stack["reader"][1].fn = "Reading" /\ OfReader(stack["reader"])
        BY <3>2, <4>2 DEF Shape, BetweenLines
      <4>4. Len(stack["reader"]) = 1
        BY <4>3 DEF OfReader
      <4> QED BY <4>4 DEF InPublish
    <3> QED BY <3>1, <3>2
  <2>2. ~AnswerAwaited(p)
    BY DEF BetweenLines, AnswerAwaited, Is, Fn
  <2> QED BY <2>1, <2>2 DEF Lines, AskedWhen
<1> QED BY <1>1, <1>2, <1>3, InputInvariant, PTL DEF Spec
=============================================================================
