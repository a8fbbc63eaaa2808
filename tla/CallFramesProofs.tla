--------------------------- MODULE CallFramesProofs ---------------------------
(***************************************************************************)
(* For any frames and any depth of the C++ stack: the machine's frame is   *)
(* the one being evaluated, and, until an exception leaves a generator,    *)
(* whatever returns finds a frame to go back from.                         *)
(***************************************************************************)
EXTENDS CallFrames, SequenceTheorems, TLAPS

-----------------------------------------------------------------------------
(* The stack.                                                                *)

LEMMA PushShape ==
  ASSUME NEW S, NEW a \in S, NEW s \in Seq(S)
  PROVE  /\ Push(a, s) \in Seq(S)
         /\ Len(Push(a, s)) = Len(s) + 1
         /\ Push(a, s)[1] = a
         /\ \A i \in 1..Len(s) : Push(a, s)[i + 1] = s[i]
         /\ Push(a, s) # <<>>
BY SMT DEF Push

LEMMA TailShape ==
  ASSUME NEW S, NEW s \in Seq(S), s # <<>>
  PROVE  /\ Tail(s) \in Seq(S)
         /\ Len(Tail(s)) = Len(s) - 1
         /\ \A i \in 1..Len(Tail(s)) : Tail(s)[i] = s[i + 1]
         /\ Head(s) = s[1] /\ Head(s) \in S
         /\ Len(s) \in Nat /\ Len(s) > 0
BY SMT

\* What an activation above position k does to what is evaluated from k on.
LEMMA EvaluatedShift ==
  ASSUME NEW s \in Seq(Activation), NEW t \in Seq(Activation),
         Len(t) = Len(s) + 1,
         \A i \in 1..Len(s) : t[i + 1] = s[i],
         NEW k \in Nat \ {0}, NEW f
  PROVE  Evaluated(t, k + 1, f) <=> Evaluated(s, k, f)
<1>1. \A i \in k..Len(s) : i + 1 \in k + 1..Len(t) /\ t[i + 1] = s[i]
  BY SMT
<1>2. \A i \in k + 1..Len(t) : i - 1 \in k..Len(s) /\ t[i] = s[i - 1]
  <2> SUFFICES ASSUME NEW i \in k + 1..Len(t)
               PROVE  i - 1 \in k..Len(s) /\ t[i] = s[i - 1]
    OBVIOUS
  <2>1. i - 1 \in k..Len(s) /\ i - 1 \in 1..Len(s) /\ (i - 1) + 1 = i
    BY SMT
  <2> QED BY <2>1
<1>3. (\E i \in k..Len(s) : Evaluates(s[i])) <=> (\E i \in k + 1..Len(t) : Evaluates(t[i]))
  BY <1>1, <1>2
<1>4. ASSUME NEW i \in k..Len(s), Evaluates(s[i]), s[i].frame = f,
             \A j \in k..i - 1 : ~Evaluates(s[j])
      PROVE  \E h \in k + 1..Len(t) :
               /\ Evaluates(t[h]) /\ t[h].frame = f
               /\ \A j \in k + 1..h - 1 : ~Evaluates(t[j])
  <2>1. \A j \in k + 1..(i + 1) - 1 : j - 1 \in k..i - 1 /\ j \in k + 1..Len(t)
    BY SMT
  <2>2. \A j \in k + 1..(i + 1) - 1 : ~Evaluates(t[j])
    BY <1>2, <1>4, <2>1
  <2> QED BY <1>1, <1>4, <2>2
<1>5. ASSUME NEW i \in k + 1..Len(t), Evaluates(t[i]), t[i].frame = f,
             \A j \in k + 1..i - 1 : ~Evaluates(t[j])
      PROVE  \E h \in k..Len(s) :
               /\ Evaluates(s[h]) /\ s[h].frame = f
               /\ \A j \in k..h - 1 : ~Evaluates(s[j])
  <2>1. \A j \in k..(i - 1) - 1 : j + 1 \in k + 1..i - 1 /\ j \in k..Len(s)
    BY SMT
  <2>2. \A j \in k..(i - 1) - 1 : ~Evaluates(s[j])
    BY <1>1, <1>5, <2>1
  <2> QED BY <1>2, <1>5, <2>2
<1> QED BY <1>3, <1>4, <1>5 DEF Evaluated

\* An activation that evaluates a frame on the top of the stack decides.
LEMMA EvaluatedTop ==
  ASSUME NEW t \in Seq(Activation), t # <<>>, Evaluates(t[1]), NEW f
  PROVE  Evaluated(t, 1, f) <=> f = t[1].frame
<1>1. 1 \in 1..Len(t) /\ 1..1 - 1 = {}
  BY SMT
<1>2. ASSUME NEW i \in 1..Len(t), \A j \in 1..i - 1 : ~Evaluates(t[j])
      PROVE  i = 1
  <2>1. i # 1 => 1 \in 1..i - 1
    BY SMT
  <2> QED BY <1>2, <2>1
<1> QED BY <1>1, <1>2 DEF Evaluated

\* A native one is transparent.
LEMMA EvaluatedNative ==
  ASSUME NEW t \in Seq(Activation), t # <<>>, ~Evaluates(t[1]), NEW f
  PROVE  Evaluated(t, 1, f) <=> Evaluated(t, 2, f)
<1>1. \A i \in 2..Len(t) : i \in 1..Len(t)
  BY SMT
<1>2. \A i \in 1..Len(t) : i # 1 => i \in 2..Len(t)
  BY SMT
<1>3. (\E i \in 1..Len(t) : Evaluates(t[i])) <=> (\E i \in 2..Len(t) : Evaluates(t[i]))
  BY <1>1, <1>2
<1>4. ASSUME NEW i \in 1..Len(t), Evaluates(t[i])
      PROVE  (\A j \in 1..i - 1 : ~Evaluates(t[j])) <=> (\A j \in 2..i - 1 : ~Evaluates(t[j]))
  <2>1. \A j \in 1..i - 1 : j = 1 \/ j \in 2..i - 1
    BY SMT
  <2>2. \A j \in 2..i - 1 : j \in 1..i - 1
    BY SMT
  <2> QED BY <2>1, <2>2
<1> QED BY <1>1, <1>2, <1>3, <1>4 DEF Evaluated

-----------------------------------------------------------------------------
(* Pushing and popping, for what is evaluated and for the chain of links.    *)

LEMMA EvaluatedPush ==
  ASSUME NEW s \in Seq(Activation), NEW a \in Activation, NEW f
  PROVE  Evaluated(Push(a, s), 1, f) <=>
           IF Evaluates(a) THEN f = a.frame ELSE Evaluated(s, 1, f)
<1> DEFINE t == Push(a, s)
<1>1. /\ t \in Seq(Activation) /\ t # <<>> /\ t[1] = a /\ Len(t) = Len(s) + 1
      /\ \A i \in 1..Len(s) : t[i + 1] = s[i]
  BY PushShape
<1>2. Evaluated(t, 1 + 1, f) <=> Evaluated(s, 1, f)
  <2> HIDE DEF t
  <2> QED BY <1>1, EvaluatedShift
<1> HIDE DEF t
<1>3. Evaluates(a) => (Evaluated(t, 1, f) <=> f = a.frame)
  BY <1>1, EvaluatedTop
<1>4. ~Evaluates(a) => (Evaluated(t, 1, f) <=> Evaluated(t, 2, f))
  BY <1>1, EvaluatedNative
<1>5. 1 + 1 = 2
  OBVIOUS
<1>6. Evaluated(t, 1, f) <=> IF Evaluates(a) THEN f = a.frame ELSE Evaluated(s, 1, f)
  BY <1>2, <1>3, <1>4, <1>5
<1> QED BY <1>6 DEF t

LEMMA PushTail ==
  ASSUME NEW s \in Seq(Activation), s # <<>>
  PROVE  /\ Head(s) \in Activation /\ Tail(s) \in Seq(Activation)
         /\ s = Push(Head(s), Tail(s))
BY DEF Push

LEMMA EvaluatedTail ==
  ASSUME NEW s \in Seq(Activation), s # <<>>, NEW f
  PROVE  Evaluated(s, 1, f) <=>
           IF Evaluates(Head(s)) THEN f = Head(s).frame ELSE Evaluated(Tail(s), 1, f)
<1>1. PICK h \in Activation, r \in Seq(Activation) : h = Head(s) /\ r = Tail(s) /\ s = Push(h, r)
  BY PushTail
<1>2. Evaluated(Push(h, r), 1, f) <=> IF Evaluates(h) THEN f = h.frame ELSE Evaluated(r, 1, f)
  BY EvaluatedPush
<1> QED BY <1>1, <1>2

LEMMA ChainedPush ==
  ASSUME NEW s \in Seq(Activation), NEW a \in Activation, NEW c
  PROVE  Chained(Push(a, s), c) <=>
           /\ Chained(s, c)
           /\ Evaluates(a) => Evaluated(s, 1, Link(c, a))
<1> DEFINE t == Push(a, s)
<1>1. /\ t \in Seq(Activation) /\ t[1] = a /\ Len(t) = Len(s) + 1
      /\ Len(s) \in Nat /\ Len(t) \in Nat
      /\ \A i \in 1..Len(s) : t[i + 1] = s[i]
  BY SMTT(30) DEF Push
<1>2. \A k \in Nat \ {0} : \A f : Evaluated(t, k + 1, f) <=> Evaluated(s, k, f)
  <2> HIDE DEF t
  <2> QED BY <1>1, EvaluatedShift
<1> HIDE DEF t
<1>3. 1 \in 1..Len(t) /\ 1 + 1 = 2 /\ 1 \in Nat \ {0}
  BY <1>1
<1>4. ASSUME Chained(t, c)
      PROVE  Chained(s, c) /\ (Evaluates(a) => Evaluated(s, 1, Link(c, a)))
  <2>1. Evaluates(a) => Evaluated(s, 1, Link(c, a))
    BY <1>1, <1>2, <1>3, <1>4 DEF Chained
  <2>2. ASSUME NEW i \in 1..Len(s), Evaluates(s[i])
        PROVE  Evaluated(s, i + 1, Link(c, s[i]))
    <3>1. i + 1 \in 1..Len(t) /\ t[i + 1] = s[i] /\ i + 1 \in Nat \ {0}
      BY <1>1
    <3>2. Evaluated(t, (i + 1) + 1, Link(c, s[i]))
      BY <1>4, <2>2, <3>1 DEF Chained
    <3> QED BY <1>2, <3>1, <3>2
  <2> QED BY <2>1, <2>2 DEF Chained
<1>5. ASSUME Chained(s, c), Evaluates(a) => Evaluated(s, 1, Link(c, a)),
             NEW i \in 1..Len(t), Evaluates(t[i])
      PROVE  Evaluated(t, i + 1, Link(c, t[i]))
  <2>1. CASE i = 1
    BY <1>1, <1>2, <1>3, <1>5, <2>1
  <2>2. CASE i # 1
    <3>1. i - 1 \in 1..Len(s) /\ (i - 1) + 1 = i /\ i \in Nat \ {0}
      BY <1>1, <2>2
    <3>2. t[i] = s[i - 1]
      BY <1>1, <3>1
    <3>3. Evaluated(s, (i - 1) + 1, Link(c, s[i - 1]))
      BY <1>5, <3>1, <3>2 DEF Chained
    <3> QED BY <1>2, <3>1, <3>2, <3>3
  <2> QED BY <2>1, <2>2
<1>6. Chained(t, c) <=> Chained(s, c) /\ (Evaluates(a) => Evaluated(s, 1, Link(c, a)))
  BY <1>4, <1>5 DEF Chained
<1> QED BY <1>6 DEF t

\* The chain looks at the callers of the frames that are on the stack only.
LEMMA ChainedCallers ==
  ASSUME NEW s \in Seq(Activation), NEW c, NEW d, Chained(s, c),
         \A i \in 1..Len(s) : s[i].fn = "Eval" => d[s[i].frame] = c[s[i].frame]
  PROVE  Chained(s, d)
BY DEF Chained, Link

LEMMA EmptyStack ==
  ASSUME NEW c, NEW f
  PROVE  Chained(<<>>, c) /\ (Evaluated(<<>>, 1, f) <=> f = NoFrame)
BY DEF Chained, Evaluated

LEMMA ChainedTail ==
  ASSUME NEW s \in Seq(Activation), s # <<>>, NEW c, Chained(s, c)
  PROVE  /\ Chained(Tail(s), c)
         /\ Evaluates(Head(s)) => Evaluated(Tail(s), 1, Link(c, Head(s)))
<1>1. PICK h \in Activation, r \in Seq(Activation) : h = Head(s) /\ r = Tail(s) /\ s = Push(h, r)
  BY PushTail
<1>2. Chained(Push(h, r), c) <=> Chained(r, c) /\ (Evaluates(h) => Evaluated(r, 1, Link(c, h)))
  BY ChainedPush
<1> QED BY <1>1, <1>2

-----------------------------------------------------------------------------
(* Types.                                                                    *)

\* A stack of fitting activations.
StackFits(s, k) ==
  \A i \in 1..Len(s) :
    /\ s[i].fn = "Eval" => k[s[i].frame] = "function"
    /\ s[i].fn = "Resume" => k[s[i].frame] \in {"generator", "exhausted"}

LEMMA FitsPush ==
  ASSUME NEW s \in Seq(Activation), NEW a \in Activation, NEW k, StackFits(s, k),
         a.fn = "Eval" => k[a.frame] = "function",
         a.fn = "Resume" => k[a.frame] \in {"generator", "exhausted"}
  PROVE  Push(a, s) \in Seq(Activation) /\ StackFits(Push(a, s), k)
<1>0. Push(a, s) \in Seq(Activation)
  BY PushShape
<1>1. /\ Push(a, s)[1] = a /\ Len(Push(a, s)) = Len(s) + 1 /\ Len(s) \in Nat
      /\ \A i \in 1..Len(s) : Push(a, s)[i + 1] = s[i]
  BY SMTT(30) DEF Push
<1>2. \A i \in 1..Len(Push(a, s)) :
        Push(a, s)[i] = a \/ \E j \in 1..Len(s) : Push(a, s)[i] = s[j]
  <2> SUFFICES ASSUME NEW i \in 1..Len(Push(a, s)), i # 1
               PROVE  \E j \in 1..Len(s) : Push(a, s)[i] = s[j]
    BY <1>1
  <2>1. i - 1 \in 1..Len(s) /\ (i - 1) + 1 = i
    BY <1>1
  <2> QED BY <1>1, <2>1
<1> QED BY <1>0, <1>2 DEF StackFits

LEMMA FitsTail ==
  ASSUME NEW s \in Seq(Activation), s # <<>>, NEW k, StackFits(s, k)
  PROVE  StackFits(Tail(s), k)
<1>1. \A i \in 1..Len(Tail(s)) : i + 1 \in 1..Len(s) /\ Tail(s)[i] = s[i + 1]
  OBVIOUS
<1> QED BY <1>1 DEF StackFits

\* A frame that changes its use was unused or stays a generator's.
LEMMA FitsUse ==
  ASSUME NEW s \in Seq(Activation), NEW k \in [Frame -> Kind], StackFits(s, k),
         NEW f \in Frame, NEW u \in Kind,
         k[f] = "unused" \/ (k[f] \in {"generator", "exhausted"} /\ u = "exhausted")
  PROVE  StackFits(s, [k EXCEPT ![f] = u])
<1>1. \A i \in 1..Len(s) : s[i] \in Activation
  OBVIOUS
<1>2. \A a \in Activation : a.fn \in {"Eval", "Resume"} => a.frame \in Frame
  BY DEF Activation, Eval, Resume, Native
<1> QED BY <1>1, <1>2 DEF StackFits, Kind

Typed ==
  /\ vmFrame \in Frame \cup {NoFrame}
  /\ caller \in [Frame -> Frame \cup {NoFrame}]
  /\ kind \in [Frame -> Kind]
  /\ cstack \in Seq(Activation)
  /\ exc \in BOOLEAN /\ dead \in BOOLEAN
  /\ caught \in BOOLEAN /\ leaked \in BOOLEAN
  /\ StackFits(cstack, kind)

LEMMA TypedIsTypeOK == Typed <=> TypeOK
BY DEF Typed, TypeOK, Fits, StackFits

LEMMA Activations ==
  /\ \A f \in Frame : /\ Eval(f) \in Activation /\ Eval(f).fn = "Eval"
                       /\ Eval(f).frame = f /\ Evaluates(Eval(f))
  /\ \A g \in Frame, last \in Frame \cup {NoFrame} :
       /\ Resume(g, last) \in Activation /\ Resume(g, last).fn = "Resume"
       /\ Resume(g, last).frame = g /\ Resume(g, last).last = last
       /\ Evaluates(Resume(g, last))
  /\ \A try \in BOOLEAN : /\ Native(try) \in Activation
                           /\ Native(try).fn = "Native" /\ ~Evaluates(Native(try))
  /\ \A a \in Activation :
       /\ Evaluates(a) => a.frame \in Frame
       /\ a.fn = "Resume" => a.last \in Frame \cup {NoFrame}
       /\ a.fn \in {"Eval", "Resume", "Native"}
<1>1. \A f \in Frame : /\ Eval(f) \in Activation /\ Eval(f).fn = "Eval"
                       /\ Eval(f).frame = f /\ Evaluates(Eval(f))
  BY DEF Activation, Eval, Evaluates
<1>2. \A g \in Frame, last \in Frame \cup {NoFrame} :
        /\ Resume(g, last) \in Activation /\ Resume(g, last).fn = "Resume"
        /\ Resume(g, last).frame = g /\ Resume(g, last).last = last
        /\ Evaluates(Resume(g, last))
  BY DEF Activation, Resume, Evaluates
<1>3. \A try \in BOOLEAN : /\ Native(try) \in Activation
                           /\ Native(try).fn = "Native" /\ ~Evaluates(Native(try))
  BY DEF Activation, Native, Evaluates
<1>4. ASSUME NEW a \in Activation
      PROVE  /\ Evaluates(a) => a.frame \in Frame
             /\ a.fn = "Resume" => a.last \in Frame \cup {NoFrame}
             /\ a.fn \in {"Eval", "Resume", "Native"}
  <2>1. CASE \E f \in Frame : a = Eval(f)
    BY <2>1 DEF Eval, Evaluates
  <2>2. CASE \E g \in Frame, last \in Frame \cup {NoFrame} : a = Resume(g, last)
    BY <2>2 DEF Resume, Evaluates
  <2>3. CASE \E try \in BOOLEAN : a = Native(try)
    BY <2>3 DEF Native, Evaluates
  <2> QED BY <2>1, <2>2, <2>3 DEF Activation
<1> QED BY <1>1, <1>2, <1>3, <1>4

LEMMA TypedStep ==
  ASSUME Typed, [Next]_vars
  PROVE  Typed'
<1> USE DEF Typed
<1>1. ASSUME NEW f \in Frame, EnterModule(f) PROVE Typed'
  <2>1. /\ <<>> \in Seq(Activation) /\ StackFits(<<>>, kind')
        /\ kind' \in [Frame -> Kind] /\ kind'[f] = "function"
        /\ caller' \in [Frame -> Frame \cup {NoFrame}]
    BY <1>1 DEF EnterModule, NewFrame, Kind, StackFits
  <2>2. cstack' = Push(Eval(f), <<>>)
    BY <1>1 DEF EnterModule, Push, Eval
  <2>3. cstack' \in Seq(Activation) /\ StackFits(cstack', kind')
    <3>1. Eval(f) \in Activation /\ Eval(f).fn = "Eval" /\ Eval(f).frame = f
      BY Activations
    <3>2. Push(Eval(f), <<>>) \in Seq(Activation) /\ StackFits(Push(Eval(f), <<>>), kind')
      BY <2>1, <3>1, FitsPush
    <3> QED BY <2>2, <3>2
  <2> QED BY <1>1, <2>1, <2>3 DEF EnterModule
<1>2. ASSUME NEW f \in Frame, CallFunction(f) PROVE Typed'
  <2>1. /\ kind' \in [Frame -> Kind] /\ kind'[f] = "function"
        /\ caller' \in [Frame -> Frame \cup {NoFrame}]
    BY <1>2 DEF CallFunction, NewFrame, CallerOfNew, Kind
  <2>2. StackFits(cstack, kind')
    <3>1. kind' = [kind EXCEPT ![f] = "function"] /\ kind[f] = "unused" /\ "function" \in Kind
      BY <1>2 DEF CallFunction, NewFrame, Kind
    <3>2. StackFits(cstack, [kind EXCEPT ![f] = "function"])
      BY <3>1, FitsUse
    <3> QED BY <3>1, <3>2
  <2>3. cstack' \in Seq(Activation) /\ StackFits(cstack', kind')
    <3>1. Eval(f) \in Activation /\ Eval(f).fn = "Eval" /\ Eval(f).frame = f
      BY Activations
    <3>2. Push(Eval(f), cstack) \in Seq(Activation) /\ StackFits(Push(Eval(f), cstack), kind')
      BY <2>1, <2>2, <3>1, FitsPush
    <3> QED BY <1>2, <3>2 DEF CallFunction
  <2> QED BY <1>2, <2>1, <2>3 DEF CallFunction
<1>3. ASSUME NEW f \in Frame, CallGeneratorFunction(f) PROVE Typed'
  <2>1. /\ kind' \in [Frame -> Kind]
        /\ caller' \in [Frame -> Frame \cup {NoFrame}]
    BY <1>3 DEF CallGeneratorFunction, NewFrame, CallerOfNew, Kind
  <2>2. StackFits(cstack, kind')
    <3>1. kind' = [kind EXCEPT ![f] = "generator"] /\ kind[f] = "unused" /\ "generator" \in Kind
      BY <1>3 DEF CallGeneratorFunction, NewFrame, Kind
    <3>2. StackFits(cstack, [kind EXCEPT ![f] = "generator"])
      BY <3>1, FitsUse
    <3> QED BY <3>1, <3>2
  <2> QED BY <1>3, <2>1, <2>2 DEF CallGeneratorFunction
<1>4. ASSUME NEW g \in Frame, ResumeGenerator(g) PROVE Typed'
  <2>1. cstack' \in Seq(Activation) /\ StackFits(cstack', kind')
    <3>1. /\ Resume(g, vmFrame) \in Activation /\ Resume(g, vmFrame).fn = "Resume"
          /\ Resume(g, vmFrame).frame = g
      BY Activations
    <3>2. /\ Push(Resume(g, vmFrame), cstack) \in Seq(Activation)
          /\ StackFits(Push(Resume(g, vmFrame), cstack), kind)
      BY <1>4, <3>1, FitsPush DEF ResumeGenerator
    <3> QED BY <1>4, <3>2 DEF ResumeGenerator
  <2> QED BY <1>4, <2>1 DEF ResumeGenerator
<1>5. ASSUME NEW try \in BOOLEAN, EnterNative(try) PROVE Typed'
  <2>1. cstack' \in Seq(Activation) /\ StackFits(cstack', kind')
    BY <1>5, FitsPush, PushShape, Activations DEF EnterNative
  <2> QED BY <1>5, <2>1 DEF EnterNative
<1>6. ASSUME Return PROVE Typed'
  <2>1. cstack # <<>> /\ vmFrame \in Frame
    BY <1>6 DEF Return, Alive
  <2>2. /\ Tail(cstack) \in Seq(Activation) /\ StackFits(Tail(cstack), kind)
        /\ <<>> \in Seq(Activation) /\ StackFits(<<>>, kind)
    BY <2>1, FitsTail, TailShape DEF StackFits
  <2>3. <<Native(FALSE)>> = Push(Native(FALSE), <<>>)
    BY DEF Push
  <2>4. <<Native(FALSE)>> \in Seq(Activation) /\ StackFits(<<Native(FALSE)>>, kind)
    <3>1. Native(FALSE) \in Activation /\ Native(FALSE).fn = "Native"
      BY Activations
    <3>2. Push(Native(FALSE), <<>>) \in Seq(Activation) /\ StackFits(Push(Native(FALSE), <<>>), kind)
      BY <2>2, <3>1, FitsPush
    <3> QED BY <2>3, <3>2
  <2> QED BY <1>6, <2>1, <2>2, <2>4 DEF Return, BackToParentFrame
<1>7. ASSUME ReturnToNowhere PROVE Typed'
  BY <1>7 DEF ReturnToNowhere
<1>8. ASSUME Yield PROVE Typed'
  <2>1. cstack # <<>> /\ Head(cstack) \in Activation /\ Top.last \in Frame \cup {NoFrame}
    BY <1>8, Activations, TailShape DEF Yield, Alive, Top
  <2>2. Tail(cstack) \in Seq(Activation) /\ StackFits(Tail(cstack), kind)
    BY <2>1, FitsTail, TailShape
  <2> QED BY <1>8, <2>1, <2>2 DEF Yield, FrameAfterResume
<1>9. ASSUME GeneratorReturns PROVE Typed'
  <2>1. /\ cstack # <<>> /\ Head(cstack) \in Activation /\ Top.last \in Frame \cup {NoFrame}
        /\ Top.frame \in Frame
    BY <1>9, Activations, TailShape DEF GeneratorReturns, Alive, Top, Evaluates
  <2>2. kind[Top.frame] \in {"generator", "exhausted"}
    BY <1>9, <2>1, TailShape DEF StackFits, GeneratorReturns, Top
  <2>3. /\ Tail(cstack) \in Seq(Activation) /\ StackFits(Tail(cstack), kind)
        /\ "exhausted" \in Kind
    BY <2>1, FitsTail, TailShape DEF Kind
  <2>4. StackFits(Tail(cstack), [kind EXCEPT ![Top.frame] = "exhausted"])
    BY <2>1, <2>2, <2>3, FitsUse
  <2> QED BY <1>9, <2>1, <2>3, <2>4 DEF GeneratorReturns, FrameAfterResume
<1>10. ASSUME NativeReturns PROVE Typed'
  <2>1. Tail(cstack) \in Seq(Activation) /\ StackFits(Tail(cstack), kind)
    BY <1>10, FitsTail, TailShape DEF NativeReturns, InNative, Alive
  <2> QED BY <1>10, <2>1 DEF NativeReturns
<1>11. ASSUME Throw PROVE Typed'
  BY <1>11 DEF Throw
<1>12. ASSUME Unwind PROVE Typed'
  <2>1. Tail(cstack) \in Seq(Activation) /\ StackFits(Tail(cstack), kind)
    BY <1>12, FitsTail, TailShape DEF Unwind
  <2> QED BY <1>12, <2>1 DEF Unwind
<1>13. ASSUME Catch PROVE Typed'
  <2>1. Tail(cstack) \in Seq(Activation) /\ StackFits(Tail(cstack), kind)
    BY <1>13, FitsTail, TailShape DEF Catch
  <2>2. cstack' \in Seq(Activation) /\ StackFits(cstack', kind)
    BY <1>13, <2>1, FitsPush, PushShape, Activations DEF Catch
  <2> QED BY <1>13, <2>2 DEF Catch
<1>14. CASE UNCHANGED vars
  BY <1>14 DEF vars
<1> QED BY <1>1, <1>2, <1>3, <1>4, <1>5, <1>6, <1>7, <1>8, <1>9, <1>10,
           <1>11, <1>12, <1>13, <1>14 DEF Next

\* Types; functions are evaluated where they are called and generators where
\* they are resumed (UserFunction, PyGenerator::Send).
THEOREM TypeCorrect == Spec => []TypeOK
<1>1. Init => Typed
  <2>1. <<>> \in Seq(Activation) /\ \A k : StackFits(<<>>, k)
    BY DEF StackFits
  <2>2. Init => caller \in [Frame -> Frame \cup {NoFrame}] /\ kind \in [Frame -> Kind]
    BY DEF Init, Kind
  <2> QED BY <2>1, <2>2 DEF Init, Typed
<1>2. Typed /\ [Next]_vars => Typed'
  BY TypedStep
<1>3. Spec => []Typed
  BY <1>1, <1>2, PTL DEF Spec
<1> QED BY <1>3, TypedIsTypeOK, PTL

-----------------------------------------------------------------------------
(* The machine's frame.                                                      *)

LEMMA Deeper ==
  ASSUME NEW s \in Seq(Activation), NEW a \in Activation, NEW c, Chained(s, c),
         Evaluates(a) => Evaluated(s, 1, Link(c, a))
  PROVE  /\ Chained(Push(a, s), c)
         /\ Evaluates(a) => Evaluated(Push(a, s), 1, a.frame)
         /\ \A v : ~Evaluates(a) /\ Evaluated(s, 1, v) => Evaluated(Push(a, s), 1, v)
<1>1. Chained(Push(a, s), c)
  BY ChainedPush
<1>2. \A v : Evaluated(Push(a, s), 1, v) <=> IF Evaluates(a) THEN v = a.frame ELSE Evaluated(s, 1, v)
  BY EvaluatedPush
<1> QED BY <1>1, <1>2

LEMMA Back ==
  ASSUME NEW s \in Seq(Activation), s # <<>>, NEW c, Chained(s, c)
  PROVE  /\ Chained(Tail(s), c)
         /\ Evaluates(Head(s)) => Evaluated(Tail(s), 1, Link(c, Head(s)))
         /\ \A v : ~Evaluates(Head(s)) /\ Evaluated(s, 1, v) => Evaluated(Tail(s), 1, v)
         /\ \A v : Evaluates(Head(s)) /\ Evaluated(s, 1, v) => v = Head(s).frame
<1>1. /\ Chained(Tail(s), c)
      /\ Evaluates(Head(s)) => Evaluated(Tail(s), 1, Link(c, Head(s)))
  BY ChainedTail
<1>2. \A v : Evaluated(s, 1, v) <=> IF Evaluates(Head(s)) THEN v = Head(s).frame
                                                       ELSE Evaluated(Tail(s), 1, v)
  BY EvaluatedTail
<1> QED BY <1>1, <1>2

\* A new frame is not on the stack: giving it a caller changes no link.
LEMMA NewFrameKeepsChain ==
  ASSUME Typed, Chained(cstack, caller), NEW f \in Frame, kind[f] = "unused", NEW d
  PROVE  Chained(cstack, [caller EXCEPT ![f] = d])
<1>1. \A i \in 1..Len(cstack) : cstack[i].fn = "Eval" =>
        cstack[i] \in Activation /\ kind[cstack[i].frame] = "function"
  BY DEF Typed, StackFits
<1>2. \A i \in 1..Len(cstack) : cstack[i].fn = "Eval" =>
        cstack[i].frame \in Frame /\ cstack[i].frame # f
  BY <1>1, Activations DEF Evaluates
<1>3. \A i \in 1..Len(cstack) : cstack[i].fn = "Eval" =>
        [caller EXCEPT ![f] = d][cstack[i].frame] = caller[cstack[i].frame]
  BY <1>2 DEF Typed
<1> QED BY <1>3, ChainedCallers DEF Typed

FrameInv == Linked /\ FrameIsEvaluated

LEMMA FrameInvStep ==
  ASSUME Typed, FrameInv, [Next]_vars
  PROVE  FrameInv'
<1> USE DEF FrameInv, Linked, FrameIsEvaluated
<1>0. cstack \in Seq(Activation) /\ <<>> \in Seq(Activation)
  BY DEF Typed
<1>1. ASSUME NEW f \in Frame, EnterModule(f) PROVE FrameInv'
  <2>1. cstack' = Push(Eval(f), <<>>) /\ vmFrame' = f
    BY <1>1 DEF EnterModule, Push, Eval
  <2>2. /\ Eval(f) \in Activation /\ Evaluates(Eval(f)) /\ Eval(f).frame = f
        /\ Link(caller', Eval(f)) = NoFrame
    BY <1>1, Activations DEF EnterModule, NewFrame, Typed, Link
  <2>3. Chained(<<>>, caller') /\ Evaluated(<<>>, 1, NoFrame)
    BY EmptyStack
  <2>4. Chained(Push(Eval(f), <<>>), caller') /\ Evaluated(Push(Eval(f), <<>>), 1, f)
    BY <1>0, <2>2, <2>3, Deeper
  <2> QED BY <2>1, <2>4
<1>2. ASSUME NEW f \in Frame, CallFunction(f), ~caught PROVE FrameInv'
  <2>1. /\ cstack' = Push(Eval(f), cstack) /\ vmFrame' = f /\ kind[f] = "unused"
        /\ caller' = [caller EXCEPT ![f] = vmFrame]
        /\ Chained(cstack, caller) /\ Evaluated(cstack, 1, vmFrame)
    BY <1>2 DEF CallFunction, NewFrame, CallerOfNew, InUser, InNative, Alive
  <2>2. /\ Eval(f) \in Activation /\ Evaluates(Eval(f)) /\ Eval(f).frame = f
        /\ Link(caller', Eval(f)) = vmFrame
    BY <2>1, Activations DEF Typed, Link
  <2>3. Chained(cstack, caller')
    BY <2>1, NewFrameKeepsChain
  <2>4. Chained(Push(Eval(f), cstack), caller') /\ Evaluated(Push(Eval(f), cstack), 1, f)
    BY <1>0, <2>1, <2>2, <2>3, Deeper
  <2> QED BY <2>1, <2>4
<1>3. ASSUME NEW f \in Frame, CallGeneratorFunction(f), ~caught PROVE FrameInv'
  <2>1. Chained(cstack, caller')
    BY <1>3, NewFrameKeepsChain DEF CallGeneratorFunction, NewFrame
  <2> QED BY <1>3, <2>1 DEF CallGeneratorFunction
<1>4. ASSUME NEW g \in Frame, ResumeGenerator(g), ~caught PROVE FrameInv'
  <2>1. /\ cstack' = Push(Resume(g, vmFrame), cstack) /\ vmFrame' = g /\ caller' = caller
        /\ Chained(cstack, caller) /\ Evaluated(cstack, 1, vmFrame)
    BY <1>4 DEF ResumeGenerator, InUser, InNative, Alive
  <2>2. /\ Resume(g, vmFrame) \in Activation /\ Evaluates(Resume(g, vmFrame))
        /\ Resume(g, vmFrame).frame = g /\ Link(caller, Resume(g, vmFrame)) = vmFrame
    BY Activations DEF Typed, Link
  <2>3. /\ Chained(Push(Resume(g, vmFrame), cstack), caller)
        /\ Evaluated(Push(Resume(g, vmFrame), cstack), 1, g)
    BY <1>0, <2>1, <2>2, Deeper
  <2> QED BY <2>1, <2>3
<1>5. ASSUME NEW try \in BOOLEAN, EnterNative(try), ~caught PROVE FrameInv'
  <2>1. /\ cstack' = Push(Native(try), cstack) /\ vmFrame' = vmFrame /\ caller' = caller
        /\ Chained(cstack, caller) /\ Evaluated(cstack, 1, vmFrame)
    BY <1>5 DEF EnterNative, InUser, Alive
  <2>2. Native(try) \in Activation /\ ~Evaluates(Native(try))
    BY Activations
  <2>3. Chained(Push(Native(try), cstack), caller) /\ Evaluated(Push(Native(try), cstack), 1, vmFrame)
    BY <1>0, <2>1, <2>2, Deeper
  <2> QED BY <2>1, <2>3
<1>6. ASSUME Return, ~caught PROVE FrameInv'
  <2>1. /\ cstack # <<>> /\ Head(cstack).fn = "Eval" /\ Evaluates(Head(cstack))
        /\ vmFrame' = caller[vmFrame] /\ caller' = caller
        /\ Chained(cstack, caller) /\ Evaluated(cstack, 1, vmFrame)
    BY <1>6 DEF Return, Alive, Top, BackToParentFrame, Evaluates
  <2>2. vmFrame = Head(cstack).frame
    BY <1>0, <2>1, Back
  <2>3. Chained(Tail(cstack), caller) /\ Evaluated(Tail(cstack), 1, vmFrame')
    BY <1>0, <2>1, <2>2, Back DEF Link
  <2>4. CASE cstack' = Tail(cstack)
    BY <2>1, <2>3, <2>4
  <2>5. CASE Len(cstack) = 1 /\ cstack' = <<Native(FALSE)>>
    <3>1. Tail(cstack) = <<>> /\ <<Native(FALSE)>> = Push(Native(FALSE), <<>>)
      <4>1. Tail(cstack) \in Seq(Activation) /\ Len(Tail(cstack)) = 0
        BY <1>0, <2>1, <2>5, TailShape
      <4>2. Tail(cstack) = <<>>
        BY <4>1, EmptySeq
      <4> QED BY <4>2 DEF Push
    <3>2. Native(FALSE) \in Activation /\ ~Evaluates(Native(FALSE))
      BY Activations
    <3>3. /\ Chained(Push(Native(FALSE), <<>>), caller)
          /\ Evaluated(Push(Native(FALSE), <<>>), 1, vmFrame')
      BY <1>0, <2>3, <3>1, <3>2, Deeper
    <3> QED BY <2>1, <2>5, <3>1, <3>3
  <2> QED BY <1>6, <2>4, <2>5 DEF Return
<1>7. ASSUME ReturnToNowhere PROVE FrameInv'
  BY <1>7 DEF ReturnToNowhere
<1>8. ASSUME Yield \/ GeneratorReturns, ~caught PROVE FrameInv'
  <2>1. /\ cstack # <<>> /\ Head(cstack).fn = "Resume" /\ Evaluates(Head(cstack))
        /\ cstack' = Tail(cstack) /\ vmFrame' = Head(cstack).last /\ caller' = caller
        /\ Chained(cstack, caller)
    BY <1>8 DEF Yield, GeneratorReturns, Alive, Top, FrameAfterResume, Evaluates
  <2>2. Chained(Tail(cstack), caller) /\ Evaluated(Tail(cstack), 1, Head(cstack).last)
    BY <1>0, <2>1, Back DEF Link
  <2> QED BY <2>1, <2>2
<1>9. ASSUME NativeReturns, ~caught PROVE FrameInv'
  <2>1. /\ cstack # <<>> /\ Head(cstack).fn = "Native" /\ ~Evaluates(Head(cstack))
        /\ cstack' = Tail(cstack) /\ vmFrame' = vmFrame /\ caller' = caller
        /\ Chained(cstack, caller) /\ Evaluated(cstack, 1, vmFrame)
    BY <1>9 DEF NativeReturns, InNative, Alive, Top, Evaluates
  <2>2. Chained(Tail(cstack), caller) /\ Evaluated(Tail(cstack), 1, vmFrame)
    BY <1>0, <2>1, Back
  <2> QED BY <2>1, <2>2
<1>10. ASSUME Throw PROVE FrameInv'
  BY <1>10 DEF Throw
<1>11. ASSUME Unwind, ~caught PROVE FrameInv'
  <2>1. /\ cstack # <<>> /\ cstack' = Tail(cstack) /\ caller' = caller /\ exc'
        /\ Chained(cstack, caller)
    BY <1>11 DEF Unwind
  <2>2. Chained(Tail(cstack), caller)
    BY <1>0, <2>1, Back
  <2> QED BY <2>1, <2>2
<1>12. ASSUME Catch PROVE FrameInv'
  BY <1>12 DEF Catch
<1>13. CASE UNCHANGED vars
  BY <1>13 DEF vars
<1>14. CASE caught'
  BY <1>14
<1>15. ASSUME caught, ~caught' PROVE \E f \in Frame : EnterModule(f)
  <2>1. CASE \E f \in Frame : CallFunction(f) \/ CallGeneratorFunction(f) \/ ResumeGenerator(f)
    BY <1>15, <2>1 DEF CallFunction, CallGeneratorFunction, ResumeGenerator
  <2>2. CASE \E try \in BOOLEAN : EnterNative(try)
    BY <1>15, <2>2 DEF EnterNative
  <2>3. CASE Return \/ ReturnToNowhere \/ Yield \/ GeneratorReturns
    BY <1>15, <2>3 DEF Return, ReturnToNowhere, Yield, GeneratorReturns
  <2>4. CASE NativeReturns \/ Throw \/ Unwind \/ Catch
    BY <1>15, <2>4 DEF NativeReturns, Throw, Unwind, Catch
  <2>5. CASE UNCHANGED vars
    BY <1>15, <2>5 DEF vars
  <2> QED BY <2>1, <2>2, <2>3, <2>4, <2>5 DEF Next
<1>16. CASE ~caught /\ Next
  BY <1>1, <1>2, <1>3, <1>4, <1>5, <1>6, <1>7, <1>8, <1>9, <1>10, <1>11, <1>12, <1>16 DEF Next
<1>17. CASE caught /\ ~caught'
  BY <1>1, <1>15, <1>17
<1> QED BY <1>13, <1>14, <1>16, <1>17

LEMMA FrameInvariant == Spec => []FrameInv
<1>1. Init => Typed /\ FrameInv
  <2>1. <<>> \in Seq(Activation) /\ \A k : StackFits(<<>>, k)
    BY DEF StackFits
  <2>2. Init => caller \in [Frame -> Frame \cup {NoFrame}] /\ kind \in [Frame -> Kind]
    BY DEF Init, Kind
  <2>3. Init => Typed
    BY <2>1, <2>2 DEF Init, Typed
  <2>4. Init => FrameInv
    BY EmptyStack DEF Init, FrameInv, Linked, FrameIsEvaluated
  <2> QED BY <2>3, <2>4
<1>2. Typed /\ FrameInv /\ [Next]_vars => Typed' /\ FrameInv'
  BY TypedStep, FrameInvStep
<1> QED BY <1>1, <1>2, PTL DEF Spec

\* VirtualMachine::frame is the frame being evaluated, until an exception is
\* caught, for any number of frames, generators and nested evaluations.
THEOREM MachineFrame == Spec => []FrameIsEvaluated
<1>1. FrameInv => FrameIsEvaluated
  BY DEF FrameInv
<1> QED BY <1>1, FrameInvariant, PTL

\* Every activation goes back to the frame evaluated below it, until an
\* exception is caught.
THEOREM CallersAreLinked == Spec => []Linked
<1>1. FrameInv => Linked
  BY DEF FrameInv
<1> QED BY <1>1, FrameInvariant, PTL

-----------------------------------------------------------------------------
(* Returning after exceptions have been caught.                              *)
(*                                                                           *)
(* A caught exception leaves the machine at a frame deeper than the one that *)
(* is evaluated, so returns follow a chain of callers that is not the stack. *)
(* They find a frame because that chain is long enough.  Let d give every    *)
(* frame the length of its chain of callers, and n how many more returns the *)
(* activations from each position of the stack on need, down to the next     *)
(* resumed generator, which puts back the frame that it found.               *)

Used(v) == v # NoFrame => kind[v] # "unused"

\* What the generators on the stack will put back.
Saved(s) == {s[i].last : i \in {j \in 1..Len(s) : s[j].fn = "Resume"}}

\* Callers are made before the frames that they call.
CallersUsed ==
  /\ Used(vmFrame)
  /\ \A f \in Frame : kind[f] # "unused" => Used(caller[f])
  /\ \A v \in Saved(cstack) : Used(v)

ChainLength(d) ==
  /\ d \in [Frame \cup {NoFrame} -> Nat] /\ d[NoFrame] = 0
  /\ \A f \in Frame : kind[f] # "unused" => d[f] = d[caller[f]] + 1

Needs(d, s, n) ==
  /\ n \in Seq(Nat) /\ Len(n) = Len(s) + 1
  /\ \A i \in 1..Len(s) :
       /\ s[i].fn = "Native" => n[i] >= n[i + 1]
       /\ s[i].fn = "Eval" => n[i] >= n[i + 1] + 1
       /\ s[i].fn = "Resume" => d[s[i].last] >= n[i + 1]

LongEnough(d, s, v) == \E n : Needs(d, s, n) /\ d[v] >= n[1]

ChainInv ==
  /\ CallersUsed
  /\ \E d : ChainLength(d) /\ (~leaked => LongEnough(d, cstack, vmFrame))

\* What a stack needs once a has been pushed: m returns.
LEMMA NeedsPush ==
  ASSUME NEW d, NEW s \in Seq(Activation), NEW n, Needs(d, s, n),
         NEW a \in Activation, NEW m \in Nat,
         a.fn = "Native" => m >= n[1],
         a.fn = "Eval" => m >= n[1] + 1,
         a.fn = "Resume" => d[a.last] >= n[1]
  PROVE  Needs(d, Push(a, s), Push(m, n))
<1>1. /\ Push(a, s) \in Seq(Activation) /\ Len(Push(a, s)) = Len(s) + 1
      /\ Push(a, s)[1] = a /\ Len(s) \in Nat
      /\ \A i \in 1..Len(s) : Push(a, s)[i + 1] = s[i]
  BY SMTT(30) DEF Push
<1>n. n \in Seq(Nat) /\ Len(n) = Len(s) + 1
  BY DEF Needs
<1>2. /\ n \in Seq(Nat) /\ Len(n) = Len(s) + 1
      /\ Push(m, n) \in Seq(Nat) /\ Len(Push(m, n)) = Len(n) + 1
      /\ Push(m, n)[1] = m
      /\ \A i \in 1..Len(n) : Push(m, n)[i + 1] = n[i]
  BY <1>n, SMTT(30) DEF Push
<1>3. ASSUME NEW i \in 1..Len(s) + 1
      PROVE  /\ Push(a, s)[i].fn = "Native" => Push(m, n)[i] >= Push(m, n)[i + 1]
             /\ Push(a, s)[i].fn = "Eval" => Push(m, n)[i] >= Push(m, n)[i + 1] + 1
             /\ Push(a, s)[i].fn = "Resume" => d[Push(a, s)[i].last] >= Push(m, n)[i + 1]
  <2>1. CASE i = 1
    <3>1. 1 \in 1..Len(n)
      BY <1>1, <1>2
    <3>2. Push(m, n)[i + 1] = n[1]
      BY <1>2, <2>1, <3>1
    <3> QED BY <1>1, <1>2, <2>1, <3>2
  <2>2. CASE i # 1
    <3>1. PICK k \in 1..Len(s) : i = k + 1
      <4>1. i - 1 \in 1..Len(s) /\ i = (i - 1) + 1
        BY <1>1, <2>2
      <4> QED BY <4>1
    <3>2. k \in 1..Len(n) /\ k + 1 \in 1..Len(n)
      BY <1>1, <1>2
    <3>3. Push(a, s)[i] = s[k] /\ Push(m, n)[i] = n[k] /\ Push(m, n)[i + 1] = n[k + 1]
      BY <1>1, <1>2, <3>1, <3>2
    <3> QED BY <3>3 DEF Needs
  <2> QED BY <2>1, <2>2
<1> QED BY <1>1, <1>2, <1>3 DEF Needs

LEMMA NeedsTail ==
  ASSUME NEW d, NEW s \in Seq(Activation), s # <<>>, NEW n, Needs(d, s, n)
  PROVE  /\ Needs(d, Tail(s), Tail(n)) /\ n[1] \in Nat /\ Tail(n)[1] = n[2] /\ n[2] \in Nat
         /\ Head(s).fn = "Native" => n[1] >= n[2]
         /\ Head(s).fn = "Eval" => n[1] >= n[2] + 1
         /\ Head(s).fn = "Resume" => d[Head(s).last] >= n[2]
<1>1. /\ Tail(s) \in Seq(Activation) /\ Len(Tail(s)) = Len(s) - 1 /\ Head(s) = s[1]
      /\ Len(s) \in Nat /\ Len(s) > 0
      /\ \A i \in 1..Len(Tail(s)) : Tail(s)[i] = s[i + 1]
  BY TailShape
<1>2. n \in Seq(Nat) /\ Len(n) = Len(s) + 1 /\ n # <<>>
  BY <1>1 DEF Needs
<1>3. /\ Tail(n) \in Seq(Nat) /\ Len(Tail(n)) = Len(n) - 1
      /\ \A i \in 1..Len(Tail(n)) : Tail(n)[i] = n[i + 1]
  BY <1>2, TailShape
<1>4. ASSUME NEW i \in 1..Len(Tail(s))
      PROVE  /\ Tail(s)[i].fn = "Native" => Tail(n)[i] >= Tail(n)[i + 1]
             /\ Tail(s)[i].fn = "Eval" => Tail(n)[i] >= Tail(n)[i + 1] + 1
             /\ Tail(s)[i].fn = "Resume" => d[Tail(s)[i].last] >= Tail(n)[i + 1]
  <2>1. i + 1 \in 1..Len(s) /\ i \in 1..Len(Tail(n)) /\ i + 1 \in 1..Len(Tail(n))
    BY <1>1, <1>2, <1>3
  <2>2. Tail(s)[i] = s[i + 1] /\ Tail(n)[i] = n[i + 1] /\ Tail(n)[i + 1] = n[(i + 1) + 1]
    BY <1>1, <1>3, <2>1
  <2> QED BY <2>1, <2>2 DEF Needs
<1>5. Needs(d, Tail(s), Tail(n))
  BY <1>1, <1>2, <1>3, <1>4 DEF Needs
<1>6. 1 \in 1..Len(s) /\ 1 \in 1..Len(n) /\ 2 \in 1..Len(n) /\ 1 \in 1..Len(Tail(n)) /\ 1 + 1 = 2
  BY <1>1, <1>2, <1>3
<1>7. n[1] \in Nat /\ n[2] \in Nat /\ Tail(n)[1] = n[2]
  BY <1>2, <1>3, <1>6
<1>8. /\ s[1].fn = "Native" => n[1] >= n[2]
      /\ s[1].fn = "Eval" => n[1] >= n[2] + 1
      /\ s[1].fn = "Resume" => d[s[1].last] >= n[2]
  BY <1>6 DEF Needs
<1> QED BY <1>1, <1>5, <1>7, <1>8

\* The chains of the frames in use do not change when others are made.
LEMMA NeedsSame ==
  ASSUME NEW d, NEW e, NEW s, NEW n, Needs(d, s, n),
         \A i \in 1..Len(s) : s[i].fn = "Resume" => e[s[i].last] = d[s[i].last]
  PROVE  Needs(e, s, n)
BY DEF Needs

LEMMA LongEmpty ==
  ASSUME NEW d, NEW v, d[v] \in Nat PROVE LongEnough(d, <<>>, v)
<1>1. Needs(d, <<>>, <<0>>) /\ <<0>>[1] = 0
  BY DEF Needs
<1> QED BY <1>1 DEF LongEnough

LEMMA LongPush ==
  ASSUME NEW d, NEW s \in Seq(Activation), NEW v, LongEnough(d, s, v), d[v] \in Nat,
         NEW a \in Activation, NEW w, d[w] \in Nat,
         \/ a.fn = "Native" /\ w = v
         \/ a.fn = "Eval" /\ d[w] = d[v] + 1
         \/ a.fn = "Resume" /\ a.last = v
  PROVE  LongEnough(d, Push(a, s), w)
<1>1. PICK n : Needs(d, s, n) /\ d[v] >= n[1]
  BY DEF LongEnough
<1>2. n[1] \in Nat
  <2>1. n \in Seq(Nat) /\ Len(n) = Len(s) + 1 /\ Len(s) \in Nat
    BY <1>1 DEF Needs
  <2> QED BY <2>1
<1>3. PICK m \in Nat : /\ d[w] >= m
                       /\ a.fn = "Native" => m >= n[1]
                       /\ a.fn = "Eval" => m >= n[1] + 1
                       /\ a.fn = "Resume" => d[a.last] >= n[1]
  <2>1. CASE a.fn = "Native" /\ w = v
    BY <1>1, <1>2, <2>1
  <2>2. CASE a.fn = "Eval" /\ d[w] = d[v] + 1
    <3>1. n[1] + 1 \in Nat /\ d[w] >= n[1] + 1
      BY <1>1, <1>2, <2>2
    <3> QED BY <2>2, <3>1
  <2>3. CASE a.fn = "Resume" /\ a.last = v
    <3>1. 0 \in Nat /\ d[w] >= 0
      OBVIOUS
    <3> QED BY <1>1, <2>3, <3>1
  <2> QED BY <2>1, <2>2, <2>3
<1>4. Needs(d, Push(a, s), Push(m, n))
  BY <1>1, <1>3, NeedsPush
<1>5. Push(m, n)[1] = m
  <2>1. n \in Seq(Nat)
    BY <1>1 DEF Needs
  <2> QED BY <2>1, PushShape
<1> QED BY <1>3, <1>4, <1>5 DEF LongEnough

LEMMA LongTail ==
  ASSUME NEW d, NEW s \in Seq(Activation), s # <<>>, NEW v, LongEnough(d, s, v), d[v] \in Nat
  PROVE  /\ Head(s).fn \in {"Native", "Eval"} => LongEnough(d, Tail(s), v)
         /\ Head(s).fn = "Eval" =>
              d[v] # 0 /\ \A w : d[w] \in Nat /\ d[v] = d[w] + 1 => LongEnough(d, Tail(s), w)
         /\ Head(s).fn = "Resume" => LongEnough(d, Tail(s), Head(s).last)
<1>1. PICK n : Needs(d, s, n) /\ d[v] >= n[1]
  BY DEF LongEnough
<1>2. /\ Needs(d, Tail(s), Tail(n)) /\ n[1] \in Nat /\ Tail(n)[1] = n[2] /\ n[2] \in Nat
      /\ Head(s).fn = "Native" => n[1] >= n[2]
      /\ Head(s).fn = "Eval" => n[1] >= n[2] + 1
      /\ Head(s).fn = "Resume" => d[Head(s).last] >= n[2]
  BY <1>1, NeedsTail
<1>3. \A w : d[w] >= n[2] => LongEnough(d, Tail(s), w)
  BY <1>2 DEF LongEnough
<1>4. ASSUME Head(s).fn \in {"Native", "Eval"} PROVE d[v] >= n[2]
  BY <1>1, <1>2, <1>4
<1>5. ASSUME Head(s).fn = "Eval"
      PROVE  d[v] # 0 /\ \A w : d[w] \in Nat /\ d[v] = d[w] + 1 => d[w] >= n[2]
  <2>1. n[1] >= n[2] + 1
    BY <1>2, <1>5
  <2>2. d[v] # 0
    BY <1>1, <1>2, <2>1
  <2>3. ASSUME NEW w, d[w] \in Nat, d[v] = d[w] + 1 PROVE d[w] >= n[2]
    BY <1>1, <1>2, <2>1, <2>3
  <2> QED BY <2>2, <2>3
<1> QED BY <1>2, <1>3, <1>4, <1>5

\* A new frame's chain is that of its caller and itself; the others stay.
LEMMA NewFrameChain ==
  ASSUME Typed, CallersUsed, NEW d, ChainLength(d), NEW f \in Frame, NEW use \in Kind,
         use # "unused", NEW from \in Frame \cup {NoFrame}, Used(from), NewFrame(f, use, from)
  PROVE  /\ \A v \in Frame \cup {NoFrame} : Used(v) => Used(v)'
         /\ Used(f)' /\ \A g \in Frame : kind'[g] # "unused" => Used(caller[g])'
         /\ \E e : /\ ChainLength(e)' /\ e[f] = e[from] + 1
                   /\ \A v \in Frame \cup {NoFrame} : Used(v) => e[v] = d[v]
<1>0. /\ kind[f] = "unused" /\ kind' = [kind EXCEPT ![f] = use]
      /\ caller' = [caller EXCEPT ![f] = from] /\ f # NoFrame
      /\ kind \in [Frame -> Kind] /\ caller \in [Frame -> Frame \cup {NoFrame}]
  BY FrameAssumption DEF NewFrame, Typed
<1>1. kind'[f] = use /\ caller'[f] = from
      /\ \A g \in Frame : g # f => kind'[g] = kind[g] /\ caller'[g] = caller[g]
  BY <1>0
<1>2. \A v \in Frame \cup {NoFrame} : Used(v) => Used(v)' /\ v # f
  BY <1>0, <1>1 DEF Used
<1>3. Used(f)'
  BY <1>1 DEF Used
<1>4. ASSUME NEW g \in Frame, kind'[g] # "unused"
      PROVE  /\ \E v \in Frame \cup {NoFrame} : v = caller'[g] /\ Used(v)
             /\ Used(caller[g])'
  <2>1. PICK v \in Frame \cup {NoFrame} : v = caller'[g] /\ Used(v)
    BY <1>0, <1>1, <1>4 DEF CallersUsed, Used
  <2>2. Used(v)'
    BY <1>2, <2>1
  <2> QED BY <2>1, <2>2 DEF Used
<1> DEFINE e == [d EXCEPT ![f] = d[from] + 1]
<1>5. d \in [Frame \cup {NoFrame} -> Nat] /\ d[from] \in Nat
  BY DEF ChainLength
<1>6. /\ e \in [Frame \cup {NoFrame} -> Nat] /\ e[f] = d[from] + 1
      /\ \A v \in Frame \cup {NoFrame} : v # f => e[v] = d[v]
  BY <1>5
<1> HIDE DEF e
<1>7. \A v \in Frame \cup {NoFrame} : Used(v) => e[v] = d[v]
  BY <1>2, <1>6
<1>8. ASSUME NEW g \in Frame, kind'[g] # "unused" PROVE e[g] = e[caller'[g]] + 1
  <2>1. CASE g = f
    BY <1>1, <1>6, <1>7, <2>1
  <2>2. CASE g # f
    <3>1. e[g] = d[g] /\ d[g] = d[caller[g]] + 1 /\ caller'[g] = caller[g]
      BY <1>1, <1>6, <1>8, <2>2 DEF ChainLength
    <3>2. e[caller[g]] = d[caller[g]]
      BY <1>4, <1>7, <1>8, <3>1
    <3> QED BY <3>1, <3>2
  <2> QED BY <2>1, <2>2
<1>9. ChainLength(e)' /\ e[f] = e[from] + 1
  BY <1>0, <1>6, <1>7, <1>8 DEF ChainLength
<1> QED BY <1>2, <1>3, <1>4, <1>7, <1>9

LEMMA SavedPush ==
  ASSUME NEW s \in Seq(Activation), NEW a \in Activation
  PROVE  /\ Saved(Push(a, s)) \subseteq Saved(s) \cup {a.last}
         /\ a.fn # "Resume" => Saved(Push(a, s)) \subseteq Saved(s)
<1>1. /\ Len(Push(a, s)) = Len(s) + 1 /\ Push(a, s)[1] = a /\ Len(s) \in Nat
      /\ \A i \in 1..Len(s) : Push(a, s)[i + 1] = s[i]
  BY SMTT(30) DEF Push
<1>2. ASSUME NEW i \in 1..Len(s) + 1, Push(a, s)[i].fn = "Resume"
      PROVE  \/ Push(a, s)[i].last \in Saved(s)
             \/ Push(a, s)[i].last = a.last /\ a.fn = "Resume"
  <2>1. CASE i = 1
    BY <1>1, <1>2, <2>1
  <2>2. CASE i # 1
    <3>1. i - 1 \in 1..Len(s) /\ (i - 1) + 1 = i
      BY <1>1, <2>2
    <3>2. Push(a, s)[i] = s[i - 1]
      BY <1>1, <3>1
    <3> QED BY <1>2, <3>1, <3>2 DEF Saved
  <2> QED BY <2>1, <2>2
<1> QED BY <1>1, <1>2 DEF Saved

LEMMA SavedTail ==
  ASSUME NEW s \in Seq(Activation), s # <<>>
  PROVE  /\ Saved(Tail(s)) \subseteq Saved(s)
         /\ Head(s).fn = "Resume" => Head(s).last \in Saved(s)
<1>1. /\ Head(s) = s[1] /\ Len(s) \in Nat /\ Len(s) > 0 /\ Len(Tail(s)) = Len(s) - 1
      /\ \A i \in 1..Len(Tail(s)) : Tail(s)[i] = s[i + 1]
  BY TailShape
<1>2. ASSUME NEW i \in 1..Len(Tail(s)), Tail(s)[i].fn = "Resume"
      PROVE  Tail(s)[i].last \in Saved(s)
  <2>1. i + 1 \in 1..Len(s) /\ Tail(s)[i] = s[i + 1]
    BY <1>1
  <2> QED BY <1>2, <2>1 DEF Saved
<1>3. 1 \in 1..Len(s)
  BY <1>1
<1> QED BY <1>1, <1>2, <1>3 DEF Saved

LEMMA SavedFrames ==
  ASSUME NEW s \in Seq(Activation) PROVE Saved(s) \subseteq Frame \cup {NoFrame}
<1>1. \A i \in 1..Len(s) : s[i] \in Activation
  OBVIOUS
<1> QED BY <1>1, Activations DEF Saved

\* What is long enough stays so when other frames are made.
LEMMA LongSame ==
  ASSUME NEW d, NEW e, NEW s, NEW v, LongEnough(d, s, v), e[v] = d[v],
         \A w \in Saved(s) : e[w] = d[w]
  PROVE  LongEnough(e, s, v)
<1>1. PICK n : Needs(d, s, n) /\ d[v] >= n[1]
  BY DEF LongEnough
<1>2. \A i \in 1..Len(s) : s[i].fn = "Resume" => e[s[i].last] = d[s[i].last]
  BY DEF Saved
<1> QED BY <1>1, <1>2, NeedsSame DEF LongEnough

\* A step that makes no frame, and goes on from one that is in use.
LEMMA SameChains ==
  ASSUME Typed, ChainInv, UNCHANGED <<caller, kind>>, Used(vmFrame'),
         Saved(cstack') \subseteq Saved(cstack) \cup {vmFrame},
         ~leaked' => ~leaked,
         ~leaked' => \A d : ChainLength(d) /\ LongEnough(d, cstack, vmFrame) =>
                              LongEnough(d, cstack', vmFrame')
  PROVE  ChainInv'
<1>1. CallersUsed'
  BY DEF ChainInv, CallersUsed, Used
<1>2. PICK d : ChainLength(d) /\ (~leaked => LongEnough(d, cstack, vmFrame))
  BY DEF ChainInv
<1>3. ChainLength(d)'
  BY <1>2 DEF ChainLength
<1>4. ~leaked' => LongEnough(d, cstack', vmFrame')
  BY <1>2
<1> QED BY <1>1, <1>3, <1>4 DEF ChainInv, LongEnough, Needs

\* A new frame that is not entered: the machine stays where it is.
LEMMA NewChains ==
  ASSUME Typed, ChainInv, NEW f \in Frame, NEW use \in Kind, use # "unused",
         NEW from \in Frame \cup {NoFrame}, Used(from), NewFrame(f, use, from),
         Used(vmFrame)' \/ vmFrame' = f, Saved(cstack') \subseteq Saved(cstack),
         ~leaked' => \A d, e : /\ ChainLength(d) /\ ChainLength(e)' /\ e[f] = e[from] + 1
                               /\ \A v \in Frame \cup {NoFrame} : Used(v) => e[v] = d[v]
                               /\ ~leaked => LongEnough(e, cstack, vmFrame)
                               => LongEnough(e, cstack', vmFrame')
  PROVE  ChainInv'
<1>1. PICK d : ChainLength(d) /\ (~leaked => LongEnough(d, cstack, vmFrame))
  BY DEF ChainInv
<1>2. PICK e : /\ ChainLength(e)' /\ e[f] = e[from] + 1
               /\ \A v \in Frame \cup {NoFrame} : Used(v) => e[v] = d[v]
  BY <1>1, NewFrameChain DEF ChainInv
<1>3. CallersUsed'
  <2>1. /\ \A v \in Frame \cup {NoFrame} : Used(v) => Used(v)'
        /\ Used(f)' /\ \A g \in Frame : kind'[g] # "unused" => Used(caller[g])'
    BY <1>1, NewFrameChain DEF ChainInv
  <2>2. \A v \in Saved(cstack') : Used(v)'
    BY <2>1, SavedFrames DEF ChainInv, CallersUsed, Typed
  <2>3. Used(vmFrame)'
    BY <2>1 DEF Used
  <2> QED BY <2>1, <2>2, <2>3 DEF CallersUsed, Saved, Used
<1>4. ASSUME ~leaked PROVE LongEnough(e, cstack, vmFrame)
  <2>1. \A v \in Saved(cstack) \cup {vmFrame} : e[v] = d[v]
    BY <1>2, SavedFrames DEF ChainInv, CallersUsed, Typed
  <2> QED BY <1>1, <1>4, <2>1, LongSame
<1>5. ~leaked' => LongEnough(e, cstack', vmFrame')
  BY <1>1, <1>2, <1>4
<1> QED BY <1>2, <1>3, <1>5 DEF ChainInv, LongEnough, Needs

LEMMA ChainInvStep ==
  ASSUME Typed, ChainInv, [Next]_vars PROVE ChainInv'
<1>0. /\ cstack \in Seq(Activation) /\ vmFrame \in Frame \cup {NoFrame}
      /\ CallersUsed /\ Used(vmFrame)
      /\ \A d : ChainLength(d) => /\ \A v \in Frame \cup {NoFrame} : d[v] \in Nat
                                  /\ d[NoFrame] = 0
  BY DEF Typed, ChainInv, CallersUsed, ChainLength
<1>1. ASSUME cstack # <<>>
      PROVE  /\ Tail(cstack) \in Seq(Activation) /\ Top \in Activation /\ Top = Head(cstack)
             /\ Saved(Tail(cstack)) \subseteq Saved(cstack)
             /\ Top.fn = "Resume" => Used(Top.last) /\ Top.last \in Frame \cup {NoFrame}
  BY <1>0, <1>1, TailShape, SavedTail, Activations DEF Top, CallersUsed
<1>2. \A try \in BOOLEAN : Native(try) \in Activation /\ Native(try).fn = "Native"
  BY Activations
<1>3. ASSUME NEW f \in Frame, EnterModule(f) PROVE ChainInv'
  <2>1. /\ cstack' = Push(Eval(f), <<>>) /\ <<>> \in Seq(Activation) /\ vmFrame' = f
        /\ NewFrame(f, "function", NoFrame) /\ Used(NoFrame) /\ "function" \in Kind
    BY <1>3 DEF EnterModule, Push, Eval, Used, Kind
  <2>2. Eval(f) \in Activation /\ Eval(f).fn = "Eval"
    BY Activations
  <2>3. Saved(cstack') \subseteq Saved(cstack)
    <3>1. \A i \in 1..Len(<<>>) : FALSE
      OBVIOUS
    <3>2. Saved(<<>>) = {}
      BY <3>1 DEF Saved
    <3> QED BY <2>1, <2>2, <3>2, SavedPush
  <2>4. ASSUME NEW e, ChainLength(e)', e[f] = e[NoFrame] + 1
        PROVE  LongEnough(e, cstack', vmFrame')
    <3>1. e[NoFrame] \in Nat /\ e[f] \in Nat
      BY <2>4 DEF ChainLength
    <3> QED BY <2>1, <2>2, <2>4, <3>1, LongEmpty, LongPush
  <2> QED BY <2>1, <2>3, <2>4, NewChains
<1>4. ASSUME NEW f \in Frame, CallFunction(f) PROVE ChainInv'
  <2>1. /\ cstack' = Push(Eval(f), cstack) /\ vmFrame' = f /\ leaked' = leaked
        /\ NewFrame(f, "function", vmFrame) /\ "function" \in Kind
    BY <1>4 DEF CallFunction, CallerOfNew, Kind
  <2>2. Eval(f) \in Activation /\ Eval(f).fn = "Eval"
    BY Activations
  <2>3. Saved(cstack') \subseteq Saved(cstack)
    BY <1>0, <2>1, <2>2, SavedPush
  <2>4. ASSUME NEW e, ChainLength(e)', e[f] = e[vmFrame] + 1, LongEnough(e, cstack, vmFrame)
        PROVE  LongEnough(e, cstack', vmFrame')
    <3>1. e[vmFrame] \in Nat /\ e[f] \in Nat
      BY <1>0, <2>4 DEF ChainLength
    <3> QED BY <1>0, <2>1, <2>2, <2>4, <3>1, LongPush
  <2> QED BY <1>0, <2>1, <2>3, <2>4, NewChains
<1>5. ASSUME NEW f \in Frame, CallGeneratorFunction(f) PROVE ChainInv'
  <2>1. /\ cstack' = cstack /\ vmFrame' = vmFrame /\ leaked' = leaked
        /\ NewFrame(f, "generator", vmFrame) /\ "generator" \in Kind
    BY <1>5 DEF CallGeneratorFunction, CallerOfNew, Kind
  <2>2. Used(vmFrame)'
    BY <1>0, <2>1 DEF Used, NewFrame, Typed
  <2> QED BY <1>0, <2>1, <2>2, NewChains
<1>6. ASSUME NEW g \in Frame, ResumeGenerator(g) PROVE ChainInv'
  <2>1. /\ cstack' = Push(Resume(g, vmFrame), cstack) /\ vmFrame' = g /\ leaked' = leaked
        /\ UNCHANGED <<caller, kind>> /\ Used(g)
    BY <1>6 DEF ResumeGenerator, Used
  <2>2. PICK a \in Activation : /\ a = Resume(g, vmFrame) /\ a.fn = "Resume"
                                /\ a.last = vmFrame
    BY <1>0, Activations
  <2>3. Saved(cstack') \subseteq Saved(cstack) \cup {vmFrame}
    BY <1>0, <2>1, <2>2, SavedPush
  <2>4. ASSUME NEW d, ChainLength(d), LongEnough(d, cstack, vmFrame)
        PROVE  LongEnough(d, cstack', vmFrame')
    <3>1. d[vmFrame] \in Nat /\ d[g] \in Nat
      BY <1>0, <2>4
    <3> QED BY <1>0, <2>1, <2>2, <2>4, <3>1, LongPush
  <2> QED BY <2>1, <2>3, <2>4, SameChains
\* Native code on top of s, which is long enough.
<1>7. ASSUME NEW s \in Seq(Activation), Saved(s) \subseteq Saved(cstack), NEW try \in BOOLEAN,
             cstack' = Push(Native(try), s),
             UNCHANGED <<caller, kind, leaked>>, Used(vmFrame'),
             vmFrame' \in Frame \cup {NoFrame},
             \A d : ChainLength(d) /\ LongEnough(d, cstack, vmFrame) => LongEnough(d, s, vmFrame')
      PROVE  ChainInv'
  <2>1. Saved(cstack') \subseteq Saved(cstack)
    BY <1>2, <1>7, SavedPush
  <2>2. ASSUME NEW d, ChainLength(d), LongEnough(d, cstack, vmFrame)
        PROVE  LongEnough(d, cstack', vmFrame')
    <3>1. d[vmFrame'] \in Nat /\ LongEnough(d, s, vmFrame')
      BY <1>0, <1>7, <2>2
    <3>2. PICK a \in Activation, v \in {vmFrame'} : a = Native(try) /\ a.fn = "Native" /\ v = vmFrame'
      BY <1>2
    <3>3. LongEnough(d, Push(a, s), v)
      BY <3>1, <3>2, LongPush
    <3> QED BY <1>7, <3>2, <3>3
  <2> QED BY <1>7, <2>1, <2>2, SameChains
<1>8. ASSUME NEW try \in BOOLEAN, EnterNative(try) PROVE ChainInv'
  BY <1>0, <1>7, <1>8 DEF EnterNative
<1>9. ASSUME Return PROVE ChainInv'
  <2>1. /\ cstack # <<>> /\ Top.fn = "Eval" /\ vmFrame \in Frame /\ vmFrame' = caller[vmFrame]
        /\ UNCHANGED <<caller, kind, leaked>>
        /\ cstack' = Tail(cstack) \/ (Len(cstack) = 1 /\ cstack' = <<Native(FALSE)>>)
    BY <1>0, <1>9 DEF Return, Alive, BackToParentFrame
  <2>2. Used(vmFrame') /\ vmFrame' \in Frame \cup {NoFrame} /\ kind[vmFrame] # "unused"
    BY <1>0, <2>1, FrameAssumption DEF CallersUsed, Used, Typed
  <2>3. ASSUME NEW d, ChainLength(d), LongEnough(d, cstack, vmFrame)
        PROVE  LongEnough(d, Tail(cstack), vmFrame')
    <3>1. d[vmFrame] \in Nat /\ d[vmFrame'] \in Nat
      BY <1>0, <2>2, <2>3
    <3>2. d[vmFrame] = d[vmFrame'] + 1
      BY <2>1, <2>2, <2>3 DEF ChainLength
    <3> QED BY <1>0, <1>1, <2>1, <2>3, <3>1, <3>2, LongTail
  <2>4. CASE cstack' = Tail(cstack)
    BY <1>1, <2>1, <2>2, <2>3, <2>4, SameChains
  <2>5. CASE Len(cstack) = 1 /\ cstack' = <<Native(FALSE)>>
    <3>1. Tail(cstack) = <<>>
      <4>1. Tail(cstack) \in Seq(Activation) /\ Len(Tail(cstack)) = 0
        BY <1>0, <2>1, <2>5, TailShape
      <4> QED BY <4>1, EmptySeq
    <3>2. <<Native(FALSE)>> = Push(Native(FALSE), <<>>)
      BY DEF Push
    <3>3. cstack' = Push(Native(FALSE), Tail(cstack))
      BY <2>5, <3>1, <3>2
    <3> QED BY <1>1, <1>7, <2>1, <2>2, <2>3, <3>3
  <2> QED BY <2>1, <2>4, <2>5
<1>10. ASSUME ReturnToNowhere \/ Throw \/ UNCHANGED vars PROVE ChainInv'
  BY <1>0, <1>10, SameChains DEF ReturnToNowhere, Throw, vars
<1>11. ASSUME Yield PROVE ChainInv'
  <2>1. /\ cstack # <<>> /\ Top.fn = "Resume" /\ vmFrame' = Top.last /\ cstack' = Tail(cstack)
        /\ UNCHANGED <<caller, kind, leaked>>
    BY <1>11 DEF Yield, Alive, FrameAfterResume
  <2> QED BY <1>0, <1>1, <2>1, LongTail, SameChains
\* A generator that is exhausted has been in use before.
<1>12. ASSUME GeneratorReturns PROVE ChainInv'
  <2>1. /\ cstack # <<>> /\ Top.fn = "Resume" /\ vmFrame' = Top.last /\ cstack' = Tail(cstack)
        /\ UNCHANGED <<caller, leaked>> /\ kind' = [kind EXCEPT ![Top.frame] = "exhausted"]
    BY <1>12 DEF GeneratorReturns, Alive, FrameAfterResume
  <2>2. Top.frame \in Frame /\ kind[Top.frame] \in {"generator", "exhausted"}
    BY <1>0, <1>1, <2>1, Activations, TailShape DEF Evaluates, Typed, StackFits
  <2>3. \A f \in Frame : kind'[f] # "unused" <=> kind[f] # "unused"
    BY <2>1, <2>2 DEF Typed
  <2>4. \A v \in Frame \cup {NoFrame} : Used(v) => Used(v)'
    BY <2>3 DEF Used
  <2>5. CallersUsed'
    <3>1. Used(vmFrame)'
      BY <1>1, <2>1, <2>3 DEF Used
    <3>2. \A v \in Saved(cstack') : Used(v)'
      BY <1>0, <1>1, <2>1, <2>4, SavedFrames DEF CallersUsed
    <3>3. \A f \in Frame : kind'[f] # "unused" => Used(caller[f])'
      BY <1>0, <2>1, <2>3 DEF CallersUsed, Used, Typed
    <3> QED BY <3>1, <3>2, <3>3 DEF CallersUsed, Saved, Used
  <2>6. PICK d : ChainLength(d) /\ (~leaked => LongEnough(d, cstack, vmFrame))
    BY DEF ChainInv
  <2>7. ChainLength(d)'
    BY <2>1, <2>3, <2>6 DEF ChainLength
  <2>8. ~leaked' => LongEnough(d, cstack', vmFrame')
    BY <1>0, <1>1, <2>1, <2>6, LongTail
  <2> QED BY <2>5, <2>7, <2>8 DEF ChainInv, LongEnough, Needs
<1>13. ASSUME NativeReturns PROVE ChainInv'
  <2>1. /\ cstack # <<>> /\ Top.fn = "Native" /\ cstack' = Tail(cstack)
        /\ UNCHANGED <<vmFrame, caller, kind, leaked>>
    BY <1>13 DEF NativeReturns, InNative, Alive
  <2> QED BY <1>0, <1>1, <2>1, LongTail, SameChains
\* Unwinding needs less than returning would.
<1>14. ASSUME Unwind PROVE ChainInv'
  <2>1. /\ cstack # <<>> /\ cstack' = Tail(cstack) /\ UNCHANGED <<vmFrame, caller, kind>>
        /\ ~leaked' => ~leaked /\ Top.fn # "Resume"
    BY <1>14 DEF Unwind
  <2>2. Top.fn \in {"Eval", "Resume", "Native"}
    BY <1>1, <2>1, Activations
  <2> QED BY <1>0, <1>1, <2>1, <2>2, LongTail, SameChains
<1>15. ASSUME Catch PROVE ChainInv'
  <2>1. /\ cstack # <<>> /\ Top.fn = "Native" /\ cstack' = Push(Native(FALSE), Tail(cstack))
        /\ UNCHANGED <<vmFrame, caller, kind, leaked>>
    BY <1>15 DEF Catch, Catches
  <2>2. \A d : ChainLength(d) /\ LongEnough(d, cstack, vmFrame) =>
                 LongEnough(d, Tail(cstack), vmFrame')
    BY <1>0, <1>1, <2>1, LongTail
  <2> QED BY <1>0, <1>1, <1>7, <2>1, <2>2
<1> QED BY <1>3, <1>4, <1>5, <1>6, <1>8, <1>9, <1>10, <1>11, <1>12, <1>13, <1>14, <1>15 DEF Next

LEMMA ChainInvInit == Init => ChainInv
<1> SUFFICES ASSUME Init PROVE ChainInv
  OBVIOUS
<1>1. CallersUsed
  BY DEF Init, CallersUsed, Used, Saved
<1> DEFINE d == [v \in Frame \cup {NoFrame} |-> 0]
<1>2. ChainLength(d)
  BY DEF Init, ChainLength
<1>3. LongEnough(d, cstack, vmFrame)
  <2>1. d[vmFrame] \in Nat /\ cstack = <<>>
    BY DEF Init
  <2> HIDE DEF d
  <2> QED BY <2>1, LongEmpty
<1> QED BY <1>1, <1>2, <1>3 DEF ChainInv

\* As long as no exception has left a generator, whatever returns finds a frame
\* to go back from, wherever else exceptions were caught.
THEOREM ReturnsFindFrames == Spec => []ReturnFindsFrame
<1>1. Init => Typed
  <2>1. <<>> \in Seq(Activation) /\ \A k : StackFits(<<>>, k)
    BY DEF StackFits
  <2>2. Init => caller \in [Frame -> Frame \cup {NoFrame}] /\ kind \in [Frame -> Kind]
    BY DEF Init, Kind
  <2> QED BY <2>1, <2>2 DEF Init, Typed
<1>2. Typed /\ ChainInv /\ [Next]_vars => Typed' /\ ChainInv'
  BY TypedStep, ChainInvStep
<1>3. Typed /\ ChainInv => ReturnFindsFrame
  <2> SUFFICES ASSUME Typed, ChainInv, ~leaked, Alive, Top.fn = "Eval", vmFrame = NoFrame
               PROVE  FALSE
    BY DEF ReturnFindsFrame
  <2>1. PICK d : ChainLength(d) /\ LongEnough(d, cstack, vmFrame)
    BY DEF ChainInv
  <2>2. d[vmFrame] = 0 /\ d[vmFrame] \in Nat
    BY <2>1 DEF ChainLength
  <2>3. cstack \in Seq(Activation) /\ cstack # <<>> /\ Head(cstack).fn = "Eval"
    BY DEF Typed, Alive, Top
  <2>4. d[vmFrame] # 0
    BY <2>1, <2>2, <2>3, LongTail
  <2> QED BY <2>2, <2>4
<1> QED BY <1>1, <1>2, <1>3, ChainInvInit, PTL DEF Spec
=============================================================================
