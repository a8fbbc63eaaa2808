------------------------- MODULE InterpreterProofs -------------------------
(***************************************************************************)
(* Verified code keeps its depth: whatever programs the compiler made, if  *)
(* their code is verified then the evaluator, at each of its instructions  *)
(* and in every generator that waits, has a stack of the depth the         *)
(* verification found, unless the program does one of the two things that  *)
(* OrdinaryGenerators excludes.                                            *)
(***************************************************************************)
EXTENDS Interpreter, SequenceTheorems, TLAPS

-----------------------------------------------------------------------------
(* Sequences of anything: stacks hold values of every kind.                 *)

IsSeq(s) == s \in Seq({s[i] : i \in 1..Len(s)})

LEMMA SeqIsSeq ==
  ASSUME NEW S, NEW s \in Seq(S) PROVE IsSeq(s)
BY DEF IsSeq

LEMMA SeqLength ==
  ASSUME NEW s, IsSeq(s) PROVE Len(s) \in Nat /\ DOMAIN s = 1..Len(s)
BY DEF IsSeq

LEMMA Joined ==
  ASSUME NEW s, NEW t, IsSeq(s), IsSeq(t)
  PROVE  /\ IsSeq(s \o t)
         /\ Len(s \o t) = Len(s) + Len(t)
         /\ \A i \in 1..Len(s) + Len(t) :
              (s \o t)[i] = IF i <= Len(s) THEN s[i] ELSE t[i - Len(s)]
<1> DEFINE S == {s[i] : i \in 1..Len(s)} \cup {t[i] : i \in 1..Len(t)}
<1>1. s \in Seq(S) /\ t \in Seq(S)
  BY DEF IsSeq
<1> HIDE DEF S
<1> QED
  BY <1>1, ConcatProperties, SeqIsSeq

LEMMA Appended ==
  ASSUME NEW s, NEW v, IsSeq(s)
  PROVE  /\ IsSeq(Append(s, v))
         /\ Len(Append(s, v)) = Len(s) + 1
         /\ \A i \in 1..Len(s) : Append(s, v)[i] = s[i]
         /\ Append(s, v)[Len(s) + 1] = v
<1> DEFINE S == {s[i] : i \in 1..Len(s)} \cup {v}
<1>1. s \in Seq(S) /\ v \in S
  BY DEF IsSeq
<1> HIDE DEF S
<1>2. Append(s, v) \in Seq(S)
  BY <1>1
<1>3. IsSeq(Append(s, v))
  BY <1>2, SeqIsSeq
<1> QED
  BY <1>1, <1>3

LEMMA CutOut ==
  ASSUME NEW s, NEW m \in Int, NEW n \in Int
  PROVE  /\ IsSeq(SubSeq(s, m, n))
         /\ Len(SubSeq(s, m, n)) = IF m <= n THEN n - m + 1 ELSE 0
         /\ \A i \in 1..n - m + 1 : SubSeq(s, m, n)[i] = s[m + i - 1]
<1> DEFINE S == {s[i] : i \in m..n}
<1>1. \A i \in m..n : s[i] \in S
  OBVIOUS
<1> HIDE DEF S
<1>2. /\ SubSeq(s, m, n) \in Seq(S)
      /\ Len(SubSeq(s, m, n)) = IF m <= n THEN n - m + 1 ELSE 0
      /\ \A i \in 1..n - m + 1 : SubSeq(s, m, n)[i] = s[m + i - 1]
  BY ONLY <1>1, SubSeqProperties, m \in Int, n \in Int
<1>3. IsSeq(SubSeq(s, m, n))
  BY <1>2, SeqIsSeq
<1> QED
  BY <1>2, <1>3

LEMMA Displayed ==
  ASSUME NEW v, NEW w
  PROVE  /\ IsSeq(<<>>) /\ Len(<<>>) = 0
         /\ IsSeq(<<v>>) /\ Len(<<v>>) = 1 /\ <<v>>[1] = v
         /\ IsSeq(<<v, w>>) /\ Len(<<v, w>>) = 2
         /\ <<v, w>>[1] = v /\ <<v, w>>[2] = w
<1>1. <<>> \in Seq({}) /\ <<v>> \in Seq({v}) /\ <<v, w>> \in Seq({v, w})
  OBVIOUS
<1>2. IsSeq(<<>>) /\ IsSeq(<<v>>) /\ IsSeq(<<v, w>>)
  BY <1>1, SeqIsSeq
<1> QED
  BY <1>2

(* A name for it, which the provers can match.                              *)
Updated(s, i, v) == [s EXCEPT ![i] = v]

LEMMA Replaced ==
  ASSUME NEW s, IsSeq(s), NEW i \in 1..Len(s), NEW v, NEW t, t = Updated(s, i, v)
  PROVE  /\ IsSeq(t) /\ Len(t) = Len(s) /\ t[i] = v
         /\ \A j \in 1..Len(s) : j # i => t[j] = s[j]
<1> DEFINE S == {s[k] : k \in 1..Len(s)} \cup {v}
<1>1. s \in Seq(S) /\ v \in S
  BY DEF IsSeq
<1> HIDE DEF S
<1>2. /\ t \in Seq(S) /\ Len(t) = Len(s)
      /\ \A j \in 1..Len(s) : t[j] = IF j = i THEN v ELSE s[j]
  BY <1>1, ExceptSeq DEF Updated
<1>3. IsSeq(t)
  BY <1>2, SeqIsSeq
<1> QED
  BY <1>2, <1>3

LEMMA WithoutFirst ==
  ASSUME NEW s, IsSeq(s), Len(s) >= 1
  PROVE  /\ IsSeq(Tail(s)) /\ Len(Tail(s)) = Len(s) - 1
         /\ \A i \in 1..Len(s) - 1 : Tail(s)[i] = s[i + 1]
<1> DEFINE S == {s[k] : k \in 1..Len(s)}
<1>1. s \in Seq(S) /\ s # <<>>
  BY Displayed DEF IsSeq
<1> HIDE DEF S
<1>2. /\ Tail(s) \in Seq(S)
      /\ Len(Tail(s)) = Len(s) - 1
      /\ \A i \in 1..Len(Tail(s)) : Tail(s)[i] = s[i + 1]
  BY <1>1, HeadTailProperties
<1>3. IsSeq(Tail(s))
  BY <1>2, SeqIsSeq
<1> QED
  BY <1>2, <1>3

-----------------------------------------------------------------------------
(* The state the evaluator keeps.  A value that stands for something in the *)
(* program or the heap stands for something there is.                       *)

Good(codes, hp, v) ==
  /\ v[1] \in {"code", "func"} => v[2] \in DOMAIN codes
  /\ v[1] \in {"ref", "method"} => v[2] \in 1..Len(hp)
  /\ v[1] = "method" /\ v[3] = "append" => hp[v[2]].kind = "list"

GoodSeq(codes, hp, s) == IsSeq(s) /\ \A i \in 1..Len(s) : Good(codes, hp, s[i])

GoodFrame(codes, hp, fr) ==
  /\ fr \in [code : DOMAIN codes, pc : Nat, stack : {fr.stack}, fast : {fr.fast},
             locals : {fr.locals}]
  /\ GoodSeq(codes, hp, fr.stack)
  /\ GoodSeq(codes, hp, fr.fast) /\ Len(fr.fast) >= codes[fr.code].nLocals
  /\ \A x \in DOMAIN fr.locals : Good(codes, hp, fr.locals[x])

GoodObject(codes, hp, fs, o) ==
  \/ /\ o.kind = "list" /\ o \in [kind : {"list"}, elems : {o.elems}]
     /\ GoodSeq(codes, hp, o.elems)
  \/ /\ o \in [kind : {"listiter"}, list : 1..Len(hp), index : Nat]
     /\ hp[o.list].kind = "list"
  \/ /\ o.kind = "range"
     /\ o \in [kind : {"range"}, exhausted : {o.exhausted}, start : {o.start},
               end : {o.end}, step : {o.step}]
  \/ /\ o.kind = "generator"
     /\ o \in [kind : {"generator"}, frame : 1..Len(fs), exhausted : {o.exhausted}]
     /\ codes[fs[o.frame].code].isGenerator

IsBody(hp, h) == hp[h].kind = "generator"

FramesOK(codes, fs, hp) ==
  IsSeq(fs) /\ \A f \in 1..Len(fs) : GoodFrame(codes, hp, fs[f])

(* No two generators have one frame.                                        *)
HeapOK(codes, fs, hp) ==
  /\ IsSeq(hp)
  /\ \A h \in 1..Len(hp) : GoodObject(codes, hp, fs, hp[h])
  /\ \A g, h \in 1..Len(hp) :
       IsBody(hp, g) /\ IsBody(hp, h) /\ hp[g].frame = hp[h].frame => g = h

(* A frame is evaluated once at a time, a generator's for the generator, and*)
(* the module's was the first.                                              *)
GoodCall(codes, fs, hp, c) ==
  /\ c \in [frame : 1..Len(fs), gen : 0..Len(hp)]
  /\ c.gen = 0 => ~codes[fs[c.frame].code].isGenerator
  /\ c.gen # 0 => IsBody(hp, c.gen) /\ hp[c.gen].frame = c.frame

CallsOK(codes, fs, cs, hp) ==
  /\ IsSeq(cs) /\ Len(cs) >= 1
  /\ \A k \in 1..Len(cs) : GoodCall(codes, fs, hp, cs[k])
  /\ \A j, k \in 1..Len(cs) : cs[j].frame = cs[k].frame => j = k
  /\ cs[Len(cs)].gen = 0

(* The depth: of the frame that is evaluated; of those that wait for a call *)
(* to return, without the operands of the instruction that made it; of those*)
(* of generators that wait to be resumed, with what they will be sent.      *)
AtDepth(flow, fr, d) == <<fr.pc, d>> \in flow[fr.code]

Awaits(codes, flow, fr, generator) ==
  LET inst == codes[fr.code].insts[fr.pc + 1] IN
  \/ inst[1] = "CALL_FUNCTION" /\ AtDepth(flow, fr, Len(fr.stack) + inst[2] + 1)
  \/ inst[1] = "FOR_ITER" /\ generator /\ AtDepth(flow, fr, Len(fr.stack) + 1)

Active(cs, h) == \E k \in 1..Len(cs) : cs[k].gen = h

DepthOK(codes, flow, fs, cs, hp) ==
  /\ LET top == fs[cs[1].frame] IN AtDepth(flow, top, Len(top.stack))
  /\ \A k \in 2..Len(cs) : Awaits(codes, flow, fs[cs[k].frame], cs[k - 1].gen # 0)
  /\ \A h \in 1..Len(hp) :
       IsBody(hp, h) /\ ~hp[h].exhausted /\ ~Active(cs, h) =>
         AtDepth(flow, fs[hp[h].frame], Len(fs[hp[h].frame].stack) + 1)

NamesOK(codes, hp, names) == \A x \in DOMAIN names : Good(codes, hp, names[x])

StateOK(codes, flow, fs, cs, gs, hp) ==
  /\ FramesOK(codes, fs, hp)
  /\ HeapOK(codes, fs, hp)
  /\ CallsOK(codes, fs, cs, hp)
  /\ NamesOK(codes, hp, gs)
  /\ DepthOK(codes, flow, fs, cs, hp)

ProgramOK ==
  program \in {[id |-> p, codes |-> Compilations[p].codes] : p \in DOMAIN Compilations}

IInv ==
  /\ ProgramOK
  /\ status = "running" => StateOK(Codes, Flows[program.id], frames, calls, globals, heap)
-----------------------------------------------------------------------------
(* What was good stays good as the heap grows.                              *)

Grows(hp, hp2) ==
  /\ IsSeq(hp) /\ IsSeq(hp2) /\ Len(hp2) >= Len(hp)
  /\ \A h \in 1..Len(hp) : hp2[h].kind = hp[h].kind

LEMMA GoodLater ==
  ASSUME NEW codes, NEW hp, NEW hp2, NEW v, Grows(hp, hp2), Good(codes, hp, v)
  PROVE  Good(codes, hp2, v)
BY SeqLength DEF Grows, Good

LEMMA GoodSeqLater ==
  ASSUME NEW codes, NEW hp, NEW hp2, NEW s, Grows(hp, hp2), GoodSeq(codes, hp, s)
  PROVE  GoodSeq(codes, hp2, s)
BY GoodLater DEF GoodSeq

LEMMA GoodFrameLater ==
  ASSUME NEW codes, NEW hp, NEW hp2, NEW fr, Grows(hp, hp2), GoodFrame(codes, hp, fr)
  PROVE  GoodFrame(codes, hp2, fr)
BY GoodLater, GoodSeqLater DEF GoodFrame

LEMMA NamesLater ==
  ASSUME NEW codes, NEW hp, NEW hp2, NEW gs, Grows(hp, hp2), NamesOK(codes, hp, gs)
  PROVE  NamesOK(codes, hp2, gs)
BY GoodLater DEF NamesOK

(* Frames keep their codes, and there are no fewer.                         *)
Keeps(fs, fs2) ==
  /\ IsSeq(fs) /\ IsSeq(fs2) /\ Len(fs2) >= Len(fs)
  /\ \A f \in 1..Len(fs) : fs2[f].code = fs[f].code

LEMMA GoodObjectLater ==
  ASSUME NEW codes, NEW hp, NEW hp2, NEW fs, NEW fs2, NEW o,
         Grows(hp, hp2), Keeps(fs, fs2), GoodObject(codes, hp, fs, o)
  PROVE  GoodObject(codes, hp2, fs2, o)
<1>1. CASE o.kind = "list" /\ o \in [kind : {"list"}, elems : {o.elems}]
             /\ GoodSeq(codes, hp, o.elems)
  BY <1>1, GoodSeqLater DEF GoodObject
<1>2. CASE o \in [kind : {"listiter"}, list : 1..Len(hp), index : Nat]
             /\ hp[o.list].kind = "list"
  <2>1. o.list \in 1..Len(hp) /\ o.list \in 1..Len(hp2) /\ hp2[o.list].kind = "list"
    BY <1>2, SeqLength DEF Grows
  <2>2. o \in [kind : {"listiter"}, list : 1..Len(hp2), index : Nat]
    BY <1>2, <2>1
  <2> QED
    BY <2>1, <2>2 DEF GoodObject
<1>3. CASE o.kind = "range"
             /\ o \in [kind : {"range"}, exhausted : {o.exhausted}, start : {o.start},
                       end : {o.end}, step : {o.step}]
  BY <1>3 DEF GoodObject
<1>4. CASE o.kind = "generator"
             /\ o \in [kind : {"generator"}, frame : 1..Len(fs), exhausted : {o.exhausted}]
             /\ codes[fs[o.frame].code].isGenerator
  <2>1. o.frame \in 1..Len(fs2) /\ fs2[o.frame].code = fs[o.frame].code
    BY <1>4, SeqLength DEF Keeps
  <2>2. o \in [kind : {"generator"}, frame : 1..Len(fs2), exhausted : {o.exhausted}]
    BY <1>4, <2>1
  <2> QED
    BY <1>4, <2>1, <2>2 DEF GoodObject
<1> QED
  BY <1>1, <1>2, <1>3, <1>4 DEF GoodObject

LEMMA GoodCallLater ==
  ASSUME NEW codes, NEW hp, NEW hp2, NEW fs, NEW fs2, NEW c,
         Grows(hp, hp2), Keeps(fs, fs2), GoodCall(codes, fs, hp, c),
         \A h \in 1..Len(hp) : IsBody(hp, h) => hp2[h].frame = hp[h].frame
  PROVE  GoodCall(codes, fs2, hp2, c)
<1>1. /\ Len(hp) \in Nat /\ Len(hp2) \in Nat /\ Len(hp2) >= Len(hp)
      /\ Len(fs) \in Nat /\ Len(fs2) \in Nat /\ Len(fs2) >= Len(fs)
  BY SeqLength DEF Grows, Keeps
<1>2. c.frame \in 1..Len(fs) /\ c.gen \in 0..Len(hp)
      /\ c \in [frame : 1..Len(fs), gen : 0..Len(hp)]
  BY DEF GoodCall
<1>3. c \in [frame : 1..Len(fs2), gen : 0..Len(hp2)]
  BY <1>1, <1>2
<1>4. fs2[c.frame].code = fs[c.frame].code
  BY <1>2 DEF Keeps
<1>5. c.gen # 0 => IsBody(hp2, c.gen) /\ hp2[c.gen].frame = c.frame
  BY <1>1, <1>2 DEF GoodCall, IsBody, Grows
<1> QED
  BY <1>3, <1>4, <1>5 DEF GoodCall

(* A frame's code, by whether it is a generator's.                          *)
LEMMA BodiesFrames ==
  ASSUME NEW codes, NEW hp, NEW fs, HeapOK(codes, fs, hp), NEW h \in 1..Len(hp), IsBody(hp, h)
  PROVE  /\ hp[h].frame \in 1..Len(fs)
         /\ codes[fs[hp[h].frame].code].isGenerator
<1>1. GoodObject(codes, hp, fs, hp[h]) /\ hp[h].kind = "generator"
  BY DEF HeapOK, IsBody
<1> QED
  BY <1>1 DEF GoodObject

-----------------------------------------------------------------------------
(* Frames that gain and lose operands.                                      *)

LEMMA GoodJoined ==
  ASSUME NEW codes, NEW hp, NEW s, NEW t, GoodSeq(codes, hp, s), GoodSeq(codes, hp, t)
  PROVE  GoodSeq(codes, hp, s \o t) /\ Len(s \o t) = Len(s) + Len(t)
<1>1. /\ IsSeq(s) /\ IsSeq(t) /\ Len(s) \in Nat /\ Len(t) \in Nat
      /\ \A i \in 1..Len(s) : Good(codes, hp, s[i])
      /\ \A i \in 1..Len(t) : Good(codes, hp, t[i])
  BY SeqLength DEF GoodSeq
<1>2. /\ IsSeq(s \o t) /\ Len(s \o t) = Len(s) + Len(t)
      /\ \A i \in 1..Len(s) + Len(t) :
           (s \o t)[i] = IF i <= Len(s) THEN s[i] ELSE t[i - Len(s)]
  BY <1>1, Joined
<1>3. ASSUME NEW i \in 1..Len(s) + Len(t)
      PROVE  Good(codes, hp, (s \o t)[i])
  <2>1. CASE i <= Len(s)
    BY <1>1, <1>2, <1>3, <2>1
  <2>2. CASE i > Len(s)
    <3>1. i - Len(s) \in 1..Len(t)
      BY <1>1, <1>3, <2>2
    <3> QED
      BY <1>1, <1>2, <2>2, <3>1
  <2> QED
    BY <1>1, <2>1, <2>2
<1> QED
  BY <1>2, <1>3 DEF GoodSeq

LEMMA GoodCut ==
  ASSUME NEW codes, NEW hp, NEW s, GoodSeq(codes, hp, s),
         NEW m \in Nat \ {0}, NEW n \in Nat, n <= Len(s), m <= n + 1
  PROVE  GoodSeq(codes, hp, SubSeq(s, m, n)) /\ Len(SubSeq(s, m, n)) = n - m + 1
<1>1. /\ IsSeq(s) /\ Len(s) \in Nat /\ \A i \in 1..Len(s) : Good(codes, hp, s[i])
  BY SeqLength DEF GoodSeq
<1>2. /\ IsSeq(SubSeq(s, m, n)) /\ Len(SubSeq(s, m, n)) = n - m + 1
      /\ \A i \in 1..n - m + 1 : SubSeq(s, m, n)[i] = s[m + i - 1]
  BY CutOut
<1>3. ASSUME NEW i \in 1..n - m + 1
      PROVE  Good(codes, hp, SubSeq(s, m, n)[i])
  <2>1. m + i - 1 \in 1..Len(s)
    BY <1>1, <1>3
  <2> QED
    BY <1>1, <1>2, <1>3, <2>1
<1> QED
  BY <1>2, <1>3 DEF GoodSeq

LEMMA GoodRest ==
  ASSUME NEW codes, NEW hp, NEW s, GoodSeq(codes, hp, s), NEW n \in 0..Len(s)
  PROVE  /\ GoodSeq(codes, hp, SubSeq(s, 1, Len(s) - n))
         /\ Len(SubSeq(s, 1, Len(s) - n)) = Len(s) - n
<1> DEFINE k == Len(s) - n
<1>1. Len(s) \in Nat
  BY SeqLength DEF GoodSeq
<1>2. k \in Nat /\ k <= Len(s) /\ 1 <= k + 1 /\ 1 \in Nat \ {0}
  BY <1>1
<1> HIDE DEF k
<1>3. GoodSeq(codes, hp, SubSeq(s, 1, k)) /\ Len(SubSeq(s, 1, k)) = k - 1 + 1
  BY <1>2, GoodCut
<1> QED
  BY <1>2, <1>3 DEF k

LEMMA GoodLast ==
  ASSUME NEW codes, NEW hp, NEW s, GoodSeq(codes, hp, s), NEW n \in 0..Len(s)
  PROVE  /\ GoodSeq(codes, hp, SubSeq(s, Len(s) + 1 - n, Len(s)))
         /\ Len(SubSeq(s, Len(s) + 1 - n, Len(s))) = n
<1> DEFINE m == Len(s) + 1 - n
           k == Len(s)
<1>1. Len(s) \in Nat
  BY SeqLength DEF GoodSeq
<1>2. m \in Nat \ {0} /\ k \in Nat /\ k <= Len(s) /\ m <= k + 1 /\ k - m + 1 = n
  BY <1>1
<1> HIDE DEF m, k
<1>3. GoodSeq(codes, hp, SubSeq(s, m, k)) /\ Len(SubSeq(s, m, k)) = k - m + 1
  BY <1>2, GoodCut
<1> QED
  BY <1>2, <1>3 DEF m, k

LEMMA GoodDisplayed ==
  ASSUME NEW codes, NEW hp, NEW v, NEW w, Good(codes, hp, v), Good(codes, hp, w)
  PROVE  /\ GoodSeq(codes, hp, <<>>) /\ GoodSeq(codes, hp, <<v>>)
         /\ GoodSeq(codes, hp, <<v, w>>)
<1>1. /\ IsSeq(<<>>) /\ Len(<<>>) = 0
      /\ IsSeq(<<v>>) /\ Len(<<v>>) = 1 /\ <<v>>[1] = v
      /\ IsSeq(<<v, w>>) /\ Len(<<v, w>>) = 2 /\ <<v, w>>[1] = v /\ <<v, w>>[2] = w
  BY Displayed
<1>2. GoodSeq(codes, hp, <<>>)
  BY <1>1 DEF GoodSeq
<1>3. GoodSeq(codes, hp, <<v>>)
  BY <1>1 DEF GoodSeq
<1>4. \A i \in 1..2 : Good(codes, hp, <<v, w>>[i])
  <2>1. \A i \in 1..2 : i = 1 \/ i = 2
    OBVIOUS
  <2> QED
    BY <1>1, <2>1
<1> QED
  BY <1>1, <1>2, <1>3, <1>4 DEF GoodSeq

LEMMA GoodNothing ==
  ASSUME NEW codes, NEW hp PROVE GoodSeq(codes, hp, <<>>) /\ Len(<<>>) = 0
<1>1. IsSeq(<<>>) /\ Len(<<>>) = 0
  BY Displayed
<1> DEFINE s == <<>>
<1>2. IsSeq(s) /\ Len(s) = 0
  BY <1>1
<1> HIDE DEF s
<1>3. GoodSeq(codes, hp, s)
  BY <1>2 DEF GoodSeq
<1> QED
  BY <1>2, <1>3 DEF s

(* A frame that changes in everything but its code.                         *)
LEMMA FrameChanged ==
  ASSUME NEW codes, NEW hp, NEW fr, GoodFrame(codes, hp, fr), NEW g, g.code = fr.code,
         g \in [code : DOMAIN codes, pc : Nat, stack : {g.stack}, fast : {g.fast},
               locals : {g.locals}],
         GoodSeq(codes, hp, g.stack), g.fast = fr.fast, g.locals = fr.locals
  PROVE  GoodFrame(codes, hp, g)
BY DEF GoodFrame

LEMMA PoppedGood ==
  ASSUME NEW codes, NEW hp, NEW fr, GoodFrame(codes, hp, fr), NEW n \in 0..Len(fr.stack),
         NEW values, GoodSeq(codes, hp, values)
  PROVE  /\ GoodFrame(codes, hp, Popped(fr, n, values))
         /\ Popped(fr, n, values).code = fr.code
         /\ Popped(fr, n, values).pc = fr.pc
         /\ Popped(fr, n, values).fast = fr.fast
         /\ Popped(fr, n, values).locals = fr.locals
         /\ Len(Popped(fr, n, values).stack) = Len(fr.stack) - n + Len(values)
<1> DEFINE rest == SubSeq(fr.stack, 1, Len(fr.stack) - n)
           g == Popped(fr, n, values)
<1>1. /\ GoodSeq(codes, hp, fr.stack) /\ Len(fr.stack) \in Nat /\ fr.pc \in Nat
      /\ fr \in [code : DOMAIN codes, pc : Nat, stack : {fr.stack}, fast : {fr.fast},
                 locals : {fr.locals}]
  BY SeqLength DEF GoodFrame, GoodSeq
<1>2. GoodSeq(codes, hp, rest) /\ Len(rest) = Len(fr.stack) - n
  BY <1>1, GoodRest
<1> HIDE DEF rest
<1>3. /\ GoodSeq(codes, hp, rest \o values)
      /\ Len(rest \o values) = Len(fr.stack) - n + Len(values)
  BY <1>1, <1>2, GoodJoined
<1>4. g = [fr EXCEPT !.stack = rest \o values]
  BY DEF Popped, rest
<1> HIDE DEF g
<1>5. /\ g.code = fr.code /\ g.pc = fr.pc
      /\ g.stack = rest \o values /\ g.fast = fr.fast /\ g.locals = fr.locals
      /\ g \in [code : DOMAIN codes, pc : Nat, stack : {g.stack}, fast : {g.fast},
                locals : {g.locals}]
  BY <1>1, <1>4
<1>6. GoodFrame(codes, hp, g)
  BY <1>3, <1>5, FrameChanged
<1> QED
  BY <1>3, <1>5, <1>6 DEF g

LEMMA PassedGood ==
  ASSUME NEW codes, NEW hp, NEW fr, GoodFrame(codes, hp, fr), NEW n \in 0..Len(fr.stack),
         NEW values, GoodSeq(codes, hp, values)
  PROVE  /\ GoodFrame(codes, hp, Passed(fr, n, values))
         /\ Passed(fr, n, values).code = fr.code
         /\ Passed(fr, n, values).pc = fr.pc + 1
         /\ Passed(fr, n, values).fast = fr.fast
         /\ Passed(fr, n, values).locals = fr.locals
         /\ Len(Passed(fr, n, values).stack) = Len(fr.stack) - n + Len(values)
<1> DEFINE p == Popped(fr, n, values)
           g == Passed(fr, n, values)
<1>1. /\ GoodFrame(codes, hp, p) /\ p.code = fr.code /\ p.pc = fr.pc
      /\ p.fast = fr.fast /\ p.locals = fr.locals
      /\ Len(p.stack) = Len(fr.stack) - n + Len(values)
  BY PoppedGood
<1>2. g = [p EXCEPT !.pc = @ + 1]
  BY DEF Passed
<1> HIDE DEF p, g
<1>3. /\ p \in [code : DOMAIN codes, pc : Nat, stack : {p.stack}, fast : {p.fast},
                locals : {p.locals}]
      /\ GoodSeq(codes, hp, p.stack) /\ p.pc + 1 \in Nat
  BY <1>1 DEF GoodFrame
<1>4. /\ g.code = p.code /\ g.pc = p.pc + 1
      /\ g.stack = p.stack /\ g.fast = p.fast /\ g.locals = p.locals
      /\ g \in [code : DOMAIN codes, pc : Nat, stack : {g.stack}, fast : {g.fast},
                locals : {g.locals}]
  BY <1>2, <1>3
<1>5. GoodFrame(codes, hp, g)
  BY <1>1, <1>3, <1>4, FrameChanged
<1> QED
  BY <1>1, <1>4, <1>5 DEF g
-----------------------------------------------------------------------------
(* Verified code: what an instruction of the flow finds and where it goes.  *)

LEMMA FlowFacts ==
  ASSUME NEW code, NEW flow, Verified(code, flow), NEW pc, NEW d, <<pc, d>> \in flow,
         NEW inst, inst = code.insts[pc + 1]
  PROVE  /\ pc \in Nat /\ d \in Nat /\ d >= Pops(inst)
         /\ Successors(inst, pc, d) \subseteq flow
         /\ inst[1] \in Indexes => inst[2] \in 0..PoolSize(code, inst[1]) - 1
         /\ inst[1] \in Counts => inst[2] \in Nat
         /\ inst[1] = "YIELD_VALUE" => code.isGenerator
<1> DEFINE at == <<pc, d>>
<1>1. at \in flow /\ at[1] = pc /\ at[2] = d
  OBVIOUS
<1> HIDE DEF at
<1>2. Inside(code, at) /\ VerifiedAt(code, flow, at)
  BY <1>1 DEF Verified
<1>3. pc \in Nat /\ d \in Nat
  BY <1>1, <1>2 DEF Inside
<1> QED
  BY <1>1, <1>2, <1>3 DEF VerifiedAt

(* How many operands each instruction takes and leaves.                     *)
LEMMA Arities ==
  ASSUME NEW inst
  PROVE  /\ inst[1] \in {"LOAD_CONST", "LOAD_NAME", "LOAD_FAST"} =>
              Pops(inst) = 0 /\ Pushes(inst) = 1
         /\ inst[1] = "NOP" => Pops(inst) = 0 /\ Pushes(inst) = 0
         /\ inst[1] \in {"STORE_NAME", "STORE_FAST", "POP_TOP"} =>
              Pops(inst) = 1 /\ Pushes(inst) = 0
         /\ inst[1] \in UnaryOps \cup {"LOAD_ATTR", "GET_ITER", "YIELD_VALUE"} =>
              Pops(inst) = 1 /\ Pushes(inst) = 1
         /\ inst[1] \in BinaryOps \cup {"MAKE_FUNCTION"} => Pops(inst) = 2 /\ Pushes(inst) = 1
         /\ inst[1] = "BUILD_SLICE" => Pops(inst) = 3 /\ Pushes(inst) = 1
         /\ inst[1] = "STORE_SUBSCR" => Pops(inst) = 3 /\ Pushes(inst) = 0
         /\ inst[1] = "CALL_FUNCTION" => Pops(inst) = inst[2] + 1 /\ Pushes(inst) = 1
         /\ inst[1] = "BUILD_LIST" => Pops(inst) = inst[2] /\ Pushes(inst) = 1
         /\ inst[1] = "BUILD_MAP" => Pops(inst) = 2 * inst[2] /\ Pushes(inst) = 1
         /\ inst[1] \in {"JUMP_ABSOLUTE", "JUMP_FORWARD"} => Pops(inst) = 0
         /\ inst[1] \in {"POP_JUMP_IF_FALSE", "FOR_ITER", "RETURN_VALUE"} => Pops(inst) = 1
BY DEF Pops, Pushes, UnaryOps, BinaryOps

Branching == {"RETURN_VALUE", "JUMP_ABSOLUTE", "JUMP_FORWARD", "POP_JUMP_IF_FALSE",
              "FOR_ITER"}

LEMMA Straight ==
  ASSUME NEW code, NEW flow, Verified(code, flow), NEW pc, NEW d, <<pc, d>> \in flow,
         NEW inst, inst = code.insts[pc + 1], inst[1] \notin Branching
  PROVE  <<pc + 1, d - Pops(inst) + Pushes(inst)>> \in flow
<1>1. Successors(inst, pc, d) = {<<pc + 1, d - Pops(inst) + Pushes(inst)>>}
  BY DEF Successors, Branching
<1> QED
  BY <1>1, FlowFacts

LEMMA Branches ==
  ASSUME NEW code, NEW flow, Verified(code, flow), NEW pc, NEW d, <<pc, d>> \in flow,
         NEW inst, inst = code.insts[pc + 1]
  PROVE  /\ inst[1] = "JUMP_ABSOLUTE" => <<inst[2], d>> \in flow
         /\ inst[1] = "JUMP_FORWARD" => <<pc + inst[2], d>> \in flow
         /\ inst[1] = "POP_JUMP_IF_FALSE" =>
              <<pc + 1, d - 1>> \in flow /\ <<pc + inst[2], d - 1>> \in flow
         /\ inst[1] = "FOR_ITER" =>
              <<pc + 1, d - 1 + 2>> \in flow /\ <<pc + inst[2], d - 1>> \in flow
<1>1. Successors(inst, pc, d) \subseteq flow
  BY FlowFacts
<1>2. inst[1] = "JUMP_ABSOLUTE" => Successors(inst, pc, d) = {<<inst[2], d>>}
  BY DEF Successors
<1>3. inst[1] = "JUMP_FORWARD" => Successors(inst, pc, d) = {<<pc + inst[2], d>>}
  BY DEF Successors
<1>4. inst[1] = "POP_JUMP_IF_FALSE" =>
        Successors(inst, pc, d) = {<<pc + 1, d - 1>>, <<pc + inst[2], d - 1>>}
  BY Arities DEF Successors
<1>5. inst[1] = "FOR_ITER" =>
        Successors(inst, pc, d) = {<<pc + 1, d - 1 + 2>>, <<pc + inst[2], d - 1>>}
  BY Arities DEF Successors
<1> QED
  BY <1>1, <1>2, <1>3, <1>4, <1>5

(* A frame that awaits a value gets it.                                     *)
LEMMA DeliveredGood ==
  ASSUME NEW flow, NEW hp, NEW fr, GoodFrame(Codes, hp, fr), NEW iter, NEW v,
         Good(Codes, hp, v),
         \/ Awaits(Codes, flow, fr, FALSE)
         \/ Awaits(Codes, flow, fr, TRUE) /\ Good(Codes, hp, iter),
         Verified(Codes[fr.code], flow[fr.code])
  PROVE  /\ GoodFrame(Codes, hp, Delivered(fr, iter, v))
         /\ Delivered(fr, iter, v).code = fr.code
         /\ AtDepth(flow, Delivered(fr, iter, v), Len(Delivered(fr, iter, v).stack))
<1> DEFINE code == Codes[fr.code]
           inst == code.insts[fr.pc + 1]
           fl   == flow[fr.code]
           one  == <<v>>
           two  == <<iter, v>>
           g    == Delivered(fr, iter, v)
<1>1. /\ Len(fr.stack) \in Nat /\ fr.pc \in Nat /\ 0 \in 0..Len(fr.stack)
      /\ fr \in [code : DOMAIN Codes, pc : Nat, stack : {fr.stack}, fast : {fr.fast},
                 locals : {fr.locals}]
      /\ GoodSeq(Codes, hp, fr.stack)
  BY SeqLength DEF GoodFrame, GoodSeq
<1>2. /\ Verified(code, fl) /\ inst = code.insts[fr.pc + 1]
      /\ \/ inst[1] = "CALL_FUNCTION" /\ <<fr.pc, Len(fr.stack) + inst[2] + 1>> \in fl
         \/ /\ inst[1] = "FOR_ITER" /\ <<fr.pc, Len(fr.stack) + 1>> \in fl
            /\ Good(Codes, hp, iter)
  BY DEF Awaits, AtDepth
<1>3. /\ inst[1] = "CALL_FUNCTION" => g = Passed(fr, 0, one)
      /\ inst[1] = "FOR_ITER" /\ v # IterDone => g = Passed(fr, 0, two)
      /\ inst[1] = "FOR_ITER" /\ v = IterDone => g = [fr EXCEPT !.pc = @ + inst[2]]
  BY DEF Delivered
<1>4. GoodSeq(Codes, hp, one) /\ Len(one) = 1
  BY GoodDisplayed, Displayed
<1>5. Len(two) = 2 /\ (Good(Codes, hp, iter) => GoodSeq(Codes, hp, two))
  BY GoodDisplayed, Displayed
<1>6. ASSUME g.code = fr.code, <<g.pc, Len(g.stack)>> \in fl
      PROVE  AtDepth(flow, g, Len(g.stack))
  BY <1>6 DEF AtDepth
<1> HIDE DEF code, inst, fl, one, two, g
<1>7. ASSUME inst[1] = "CALL_FUNCTION"
      PROVE  GoodFrame(Codes, hp, g) /\ g.code = fr.code /\ AtDepth(flow, g, Len(g.stack))
  <2> DEFINE d == Len(fr.stack) + inst[2] + 1
  <2>1. <<fr.pc, d>> \in fl
    BY <1>2, <1>7
  <2> HIDE DEF d
  <2>2. inst[2] \in Nat
    BY <1>2, <1>7, <2>1, FlowFacts DEF Counts
  <2>3. <<fr.pc + 1, d - (inst[2] + 1) + 1>> \in fl
    <3>1. <<fr.pc + 1, d - Pops(inst) + Pushes(inst)>> \in fl
      BY <1>2, <1>7, <2>1, Straight DEF Branching
    <3> QED
      BY <1>7, <3>1, Arities
  <2>4. /\ GoodFrame(Codes, hp, g) /\ g.code = fr.code /\ g.pc = fr.pc + 1
        /\ Len(g.stack) = Len(fr.stack) - 0 + Len(one)
    <3>1. g = Passed(fr, 0, one)
      BY <1>3, <1>7
    <3>2. GoodSeq(Codes, hp, one) /\ 0 \in 0..Len(fr.stack)
      BY <1>1, <1>4
    <3> QED
      BY <3>1, <3>2, PassedGood
  <2>5. Len(g.stack) = d - (inst[2] + 1) + 1
    BY <1>1, <1>4, <2>2, <2>4 DEF d
  <2> QED
    BY <1>6, <2>3, <2>4, <2>5
<1>8. ASSUME inst[1] = "FOR_ITER"
      PROVE  GoodFrame(Codes, hp, g) /\ g.code = fr.code /\ AtDepth(flow, g, Len(g.stack))
  <2> DEFINE d == Len(fr.stack) + 1
  <2>1. <<fr.pc, d>> \in fl
    BY <1>2, <1>8
  <2> HIDE DEF d
  <2>2. <<fr.pc + 1, d - 1 + 2>> \in fl /\ <<fr.pc + inst[2], d - 1>> \in fl
    BY <1>2, <1>8, <2>1, Branches
  <2>3. CASE v # IterDone
    <3>1. /\ GoodFrame(Codes, hp, g) /\ g.code = fr.code /\ g.pc = fr.pc + 1
          /\ Len(g.stack) = Len(fr.stack) - 0 + Len(two)
      <4>1. g = Passed(fr, 0, two) /\ GoodSeq(Codes, hp, two) /\ 0 \in 0..Len(fr.stack)
        BY <1>1, <1>2, <1>3, <1>5, <1>8, <2>3
      <4> QED
        BY <4>1, PassedGood
    <3>2. Len(g.stack) = d - 1 + 2
      <4>1. Len(two) = 2
        BY <1>5
      <4> QED
        BY <1>1, <3>1, <4>1 DEF d
    <3> QED
      BY <1>6, <2>2, <3>1, <3>2
  <2>4. CASE v = IterDone
    <3> DEFINE pc == fr.pc + inst[2]
               rest == d - 1
    <3>1. <<pc, rest>> \in fl
      BY <2>2
    <3> HIDE DEF pc, rest
    <3>2. pc \in Nat
      BY <1>2, <3>1, FlowFacts
    <3>3. g = [fr EXCEPT !.pc = pc]
      BY <1>1, <1>3, <1>8, <2>4 DEF pc
    <3>4. /\ g.code = fr.code /\ g.pc = pc /\ g.stack = fr.stack
          /\ g.fast = fr.fast /\ g.locals = fr.locals
          /\ g \in [code : DOMAIN Codes, pc : Nat, stack : {g.stack}, fast : {g.fast},
                    locals : {g.locals}]
      BY <1>1, <3>2, <3>3
    <3>5. GoodFrame(Codes, hp, g)
      BY <1>1, <3>4, FrameChanged
    <3>6. Len(g.stack) = rest
      BY <1>1, <3>4 DEF rest, d
    <3> QED
      BY <1>6, <3>1, <3>4, <3>5, <3>6
  <2> QED
    BY <2>3, <2>4
<1>9. GoodFrame(Codes, hp, g) /\ g.code = fr.code /\ AtDepth(flow, g, Len(g.stack))
  BY <1>2, <1>7, <1>8
<1> QED
  BY <1>9 DEF g
-----------------------------------------------------------------------------
(* Steps that stay inside the frame that is evaluated.                      *)

(* The heap may get objects that are no generators, and change others.      *)
SameBodies(codes, fs, hp, hp2) ==
  /\ Grows(hp, hp2)
  /\ \A h \in 1..Len(hp2) : GoodObject(codes, hp2, fs, hp2[h])
  /\ \A h \in 1..Len(hp2) : IsBody(hp2, h) => h \in 1..Len(hp) /\ hp2[h] = hp[h]

LEMMA SameHeap ==
  ASSUME NEW codes, NEW fs, NEW hp, HeapOK(codes, fs, hp)
  PROVE  SameBodies(codes, fs, hp, hp)
<1>1. IsSeq(hp) /\ Len(hp) \in Nat
  BY SeqLength DEF HeapOK
<1> QED
  BY <1>1 DEF SameBodies, HeapOK, Grows

(* No other generator that is not evaluated has the frame that is.          *)
LEMMA OtherFrames ==
  ASSUME NEW codes, NEW fs, NEW cs, NEW hp, HeapOK(codes, fs, hp),
         CallsOK(codes, fs, cs, hp), NEW k \in 1..Len(cs), NEW h \in 1..Len(hp),
         IsBody(hp, h), cs[k].frame = hp[h].frame
  PROVE  cs[k].gen = h
<1>1. GoodCall(codes, fs, hp, cs[k])
  BY DEF CallsOK
<1>2. codes[fs[hp[h].frame].code].isGenerator
  BY BodiesFrames
<1>3. cs[k].gen # 0 /\ cs[k].gen \in 0..Len(hp) /\ Len(hp) \in Nat
  BY <1>1, <1>2, SeqLength DEF GoodCall, HeapOK
<1>4. cs[k].gen \in 1..Len(hp)
  BY <1>3
<1> QED
  BY <1>1, <1>3, <1>4 DEF GoodCall, HeapOK

LEMMA FramesReplaced ==
  ASSUME NEW codes, NEW fs, NEW hp, NEW hp2, FramesOK(codes, fs, hp), Grows(hp, hp2),
         NEW f \in 1..Len(fs), NEW fr, GoodFrame(codes, hp2, fr), fr.code = fs[f].code,
         NEW fs2, fs2 = Updated(fs, f, fr)
  PROVE  /\ FramesOK(codes, fs2, hp2) /\ Keeps(fs, fs2) /\ Len(fs2) = Len(fs)
         /\ fs2[f] = fr
         /\ \A j \in 1..Len(fs) : j # f => fs2[j] = fs[j]
<1>1. IsSeq(fs) /\ Len(fs) \in Nat
  BY SeqLength DEF FramesOK
<1>2. /\ IsSeq(fs2) /\ Len(fs2) = Len(fs) /\ fs2[f] = fr
      /\ \A j \in 1..Len(fs) : j # f => fs2[j] = fs[j]
  BY <1>1, Replaced
<1>3. \A j \in 1..Len(fs) : GoodFrame(codes, hp2, fs[j])
  BY GoodFrameLater DEF FramesOK
<1>4. FramesOK(codes, fs2, hp2)
  BY <1>2, <1>3 DEF FramesOK
<1>5. Keeps(fs, fs2)
  BY <1>1, <1>2 DEF Keeps
<1> QED
  BY <1>2, <1>4, <1>5

LEMMA HeapLater ==
  ASSUME NEW codes, NEW fs, NEW fs2, NEW hp, NEW hp2, HeapOK(codes, fs, hp),
         SameBodies(codes, fs, hp, hp2), Keeps(fs, fs2)
  PROVE  HeapOK(codes, fs2, hp2)
<1>1. IsSeq(hp2) /\ Grows(hp2, hp2)
  <2>1. IsSeq(hp2) /\ Len(hp2) \in Nat
    BY SeqLength DEF SameBodies, Grows
  <2> QED
    BY <2>1 DEF Grows
<1>2. \A h \in 1..Len(hp2) : GoodObject(codes, hp2, fs2, hp2[h])
  BY <1>1, GoodObjectLater DEF SameBodies
<1>3. ASSUME NEW g \in 1..Len(hp2), NEW h \in 1..Len(hp2), IsBody(hp2, g), IsBody(hp2, h),
             hp2[g].frame = hp2[h].frame
      PROVE  g = h
  <2>1. /\ g \in 1..Len(hp) /\ h \in 1..Len(hp) /\ hp2[g] = hp[g] /\ hp2[h] = hp[h]
    BY <1>3 DEF SameBodies
  <2>2. IsBody(hp, g) /\ IsBody(hp, h)
    BY <1>3, <2>1 DEF IsBody
  <2> QED
    BY <1>3, <2>1, <2>2 DEF HeapOK
<1> QED
  BY <1>1, <1>2, <1>3 DEF HeapOK

LEMMA StepInside ==
  ASSUME NEW codes, NEW flow, NEW fs, NEW cs, NEW gs, NEW hp,
         StateOK(codes, flow, fs, cs, gs, hp), NEW hp2, SameBodies(codes, fs, hp, hp2),
         NEW gs2, NamesOK(codes, hp2, gs2), NEW fr, GoodFrame(codes, hp2, fr),
         fr.code = fs[cs[1].frame].code, AtDepth(flow, fr, Len(fr.stack)),
         NEW fs2, fs2 = Updated(fs, cs[1].frame, fr)
  PROVE  StateOK(codes, flow, fs2, cs, gs2, hp2)
<1> DEFINE f == cs[1].frame
<1>1. /\ FramesOK(codes, fs, hp) /\ HeapOK(codes, fs, hp) /\ CallsOK(codes, fs, cs, hp)
      /\ DepthOK(codes, flow, fs, cs, hp)
  BY DEF StateOK
<1>2. Len(cs) \in Nat /\ 1 \in 1..Len(cs)
  BY <1>1, SeqLength DEF CallsOK
<1>3. f \in 1..Len(fs)
  BY <1>1, <1>2 DEF CallsOK, GoodCall
<1>4. Grows(hp, hp2) /\ fr.code = fs[f].code /\ fs2 = Updated(fs, f, fr)
  BY DEF SameBodies
<1> HIDE DEF f
<1>5. /\ FramesOK(codes, fs2, hp2) /\ Keeps(fs, fs2) /\ Len(fs2) = Len(fs)
      /\ fs2[f] = fr
      /\ \A j \in 1..Len(fs) : j # f => fs2[j] = fs[j]
  BY <1>1, <1>3, <1>4, FramesReplaced
<1>6. HeapOK(codes, fs2, hp2)
  BY <1>1, <1>5, HeapLater
<1>7. \A h \in 1..Len(hp) : IsBody(hp, h) => IsBody(hp2, h) /\ hp2[h] = hp[h]
  <2>1. ASSUME NEW h \in 1..Len(hp), IsBody(hp, h)
        PROVE  IsBody(hp2, h) /\ hp2[h] = hp[h]
    <3>1. IsBody(hp2, h) /\ h \in 1..Len(hp2)
      BY <1>1, <1>4, <2>1, SeqLength DEF IsBody, Grows
    <3> QED
      BY <3>1 DEF SameBodies
  <2> QED
    BY <2>1
<1>8. CallsOK(codes, fs2, cs, hp2)
  <2>1. ASSUME NEW k \in 1..Len(cs)
        PROVE  GoodCall(codes, fs2, hp2, cs[k])
    BY <1>1, <1>4, <1>5, <1>7, GoodCallLater DEF CallsOK
  <2> QED
    BY <1>1, <2>1 DEF CallsOK
<1>9. DepthOK(codes, flow, fs2, cs, hp2)
  <2>1. AtDepth(flow, fs2[cs[1].frame], Len(fs2[cs[1].frame].stack))
    BY <1>5 DEF f
  <2>2. ASSUME NEW k \in 2..Len(cs)
        PROVE  Awaits(codes, flow, fs2[cs[k].frame], cs[k - 1].gen # 0)
    <3>1. k \in 1..Len(cs) /\ k # 1
      BY <1>2
    <3>2. cs[k].frame # f /\ cs[k].frame \in 1..Len(fs)
      BY <1>1, <1>2, <3>1 DEF CallsOK, GoodCall, f
    <3> QED
      BY <1>1, <1>5, <3>2 DEF DepthOK
  <2>3. ASSUME NEW h \in 1..Len(hp2), IsBody(hp2, h), ~hp2[h].exhausted, ~Active(cs, h)
        PROVE  AtDepth(flow, fs2[hp2[h].frame], Len(fs2[hp2[h].frame].stack) + 1)
    <3>1. h \in 1..Len(hp) /\ hp2[h] = hp[h] /\ IsBody(hp, h)
      BY <2>3 DEF SameBodies, IsBody
    <3>2. hp[h].frame \in 1..Len(fs)
      BY <1>1, <3>1, BodiesFrames
    <3>3. hp[h].frame # f
      BY <1>1, <1>2, <2>3, <3>1, OtherFrames DEF Active, f
    <3> QED
      BY <1>1, <1>5, <2>3, <3>1, <3>2, <3>3 DEF DepthOK
  <2> QED
    BY <2>1, <2>2, <2>3 DEF DepthOK
<1> QED
  BY <1>5, <1>6, <1>8, <1>9 DEF StateOK
-----------------------------------------------------------------------------
(* The evaluator, when it is about to evaluate an instruction.              *)

TheFlows == Flows[program.id]

Ready ==
  /\ status = "running"
  /\ ProgramOK
  /\ StateOK(Codes, TheFlows, frames, calls, globals, heap)
  /\ VerifiedProgram(Codes, TheFlows)

LEMMA TopFacts ==
  ASSUME Ready
  PROVE  /\ FramesOK(Codes, frames, heap) /\ HeapOK(Codes, frames, heap)
         /\ CallsOK(Codes, frames, calls, heap) /\ NamesOK(Codes, heap, globals)
         /\ DepthOK(Codes, TheFlows, frames, calls, heap)
         /\ IsSeq(frames) /\ Len(frames) \in Nat /\ IsSeq(heap) /\ Len(heap) \in Nat
         /\ IsSeq(calls) /\ Len(calls) \in Nat /\ 1 \in 1..Len(calls)
         /\ calls[1].frame \in 1..Len(frames)
         /\ GoodFrame(Codes, heap, Top)
         /\ Top.code \in DOMAIN Codes /\ Top.pc \in Nat /\ Len(Top.stack) \in Nat
         /\ SameBodies(Codes, frames, heap, heap) /\ Grows(heap, heap)
<1>1. /\ FramesOK(Codes, frames, heap) /\ HeapOK(Codes, frames, heap)
      /\ CallsOK(Codes, frames, calls, heap) /\ NamesOK(Codes, heap, globals)
      /\ DepthOK(Codes, TheFlows, frames, calls, heap)
  BY DEF Ready, StateOK
<1>2. /\ IsSeq(frames) /\ Len(frames) \in Nat /\ IsSeq(heap) /\ Len(heap) \in Nat
      /\ IsSeq(calls) /\ Len(calls) \in Nat /\ 1 \in 1..Len(calls)
  BY <1>1, SeqLength DEF FramesOK, HeapOK, CallsOK
<1>3. calls[1].frame \in 1..Len(frames)
  BY <1>1, <1>2 DEF CallsOK, GoodCall
<1>4. GoodFrame(Codes, heap, Top)
  BY <1>1, <1>3 DEF FramesOK, Top
<1>5. Top.code \in DOMAIN Codes /\ Top.pc \in Nat /\ Len(Top.stack) \in Nat
  BY <1>4, SeqLength DEF GoodFrame, GoodSeq
<1>6. SameBodies(Codes, frames, heap, heap) /\ Grows(heap, heap)
  BY <1>1, SameHeap DEF SameBodies
<1> QED
  BY <1>1, <1>2, <1>3, <1>4, <1>5, <1>6

LEMMA CodeFacts ==
  ASSUME Ready
  PROVE  /\ Verified(Code, TheFlows[Top.code]) /\ Constants(Codes, Code)
         /\ <<Top.pc, Len(Top.stack)>> \in TheFlows[Top.code]
         /\ Pops(Inst) <= Len(Top.stack)
         /\ Inst[1] \in Indexes => Inst[2] \in 0..PoolSize(Code, Inst[1]) - 1
         /\ Inst[1] \in Counts => Inst[2] \in Nat
         /\ Inst[1] = "YIELD_VALUE" => Code.isGenerator
<1> DEFINE fl == TheFlows[Top.code]
           pc == Top.pc
           d == Len(Top.stack)
           code == Code
           inst == Inst
<1>1. Verified(code, fl) /\ Constants(Codes, code)
  BY TopFacts DEF Ready, VerifiedProgram, Code
<1>2. <<pc, d>> \in fl
  BY TopFacts DEF DepthOK, AtDepth, Top
<1>3. inst = code.insts[pc + 1]
  BY DEF Inst
<1>4. d \in Nat
  BY TopFacts
<1> HIDE DEF fl, pc, d, code, inst
<1>5. /\ pc \in Nat /\ d \in Nat /\ d >= Pops(inst)
      /\ inst[1] \in Indexes => inst[2] \in 0..PoolSize(code, inst[1]) - 1
      /\ inst[1] \in Counts => inst[2] \in Nat
      /\ inst[1] = "YIELD_VALUE" => code.isGenerator
  BY <1>1, <1>2, <1>3, FlowFacts
<1>6. Verified(Code, TheFlows[Top.code]) /\ Constants(Codes, Code)
      /\ <<Top.pc, Len(Top.stack)>> \in TheFlows[Top.code]
  BY <1>1, <1>2 DEF fl, pc, d, code
<1> QED
  BY <1>5, <1>6 DEF fl, pc, d, code, inst

LEMMA OperandGood ==
  ASSUME Ready, NEW k \in 1..Len(Top.stack) PROVE Good(Codes, heap, Operand(k))
<1>1. GoodSeq(Codes, heap, Top.stack) /\ Len(Top.stack) \in Nat
  BY TopFacts DEF GoodFrame
<1>2. Len(Top.stack) + 1 - k \in 1..Len(Top.stack)
  BY <1>1
<1> QED
  BY <1>1, <1>2 DEF GoodSeq, Operand

LEMMA OperandsGood ==
  ASSUME Ready, NEW n \in 0..Len(Top.stack)
  PROVE  GoodSeq(Codes, heap, Operands(n)) /\ Len(Operands(n)) = n
<1> DEFINE s == Top.stack
<1>1. GoodSeq(Codes, heap, s)
  BY TopFacts DEF GoodFrame
<1> HIDE DEF s
<1>2. n \in 0..Len(s)
  BY DEF s
<1>3. GoodSeq(Codes, heap, SubSeq(s, Len(s) + 1 - n, Len(s)))
      /\ Len(SubSeq(s, Len(s) + 1 - n, Len(s))) = n
  BY <1>1, <1>2, GoodLast
<1> QED
  BY <1>3 DEF Operands, s

(* Whatever the frame becomes, if it is at a depth that was verified.       *)
LEMMA StepKeeps ==
  ASSUME Ready, SameBodies(Codes, frames, heap, heap'), NamesOK(Codes, heap', globals'),
         NEW fr, GoodFrame(Codes, heap', fr), fr.code = Top.code,
         AtDepth(TheFlows, fr, Len(fr.stack)), frames' = Replace(fr),
         calls' = calls, program' = program
  PROVE  IInv'
<1>1. frames' = Updated(frames, calls[1].frame, fr)
  BY DEF Replace, Updated
<1>2. StateOK(Codes, TheFlows, frames', calls, globals', heap')
  BY <1>1, StepInside DEF Ready, Top
<1>3. ProgramOK'
  BY DEF Ready, ProgramOK
<1>4. Codes' = Codes /\ Flows[program.id]' = TheFlows
  BY DEF Codes, TheFlows
<1>5. StateOK(Codes, Flows[program.id], frames, calls, globals, heap)'
  BY <1>2, <1>4
<1> QED
  BY <1>3, <1>5 DEF IInv

LEMMA RaiseKeeps ==
  ASSUME Ready, Raise PROVE IInv'
BY DEF Ready, Raise, IInv, ProgramOK

(* An instruction that is followed by the next.                             *)
LEMMA PassedHere ==
  ASSUME Ready, Inst[1] \notin Branching, NEW n, n = Pops(Inst), n \in Nat,
         NEW hp2, Grows(heap, hp2), NEW values, GoodSeq(Codes, hp2, values),
         Len(values) = Pushes(Inst), NEW g, g = Passed(Top, n, values)
  PROVE  /\ GoodFrame(Codes, hp2, g) /\ g.code = Top.code
         /\ AtDepth(TheFlows, g, Len(g.stack))
         /\ g.fast = Top.fast /\ g.locals = Top.locals
<1> DEFINE d == Len(Top.stack)
           fr == Top
           inst == Inst
           code == Code
           fl == TheFlows[Top.code]
<1>1. /\ GoodFrame(Codes, hp2, fr) /\ d \in Nat /\ fr.pc \in Nat
      /\ Verified(code, fl) /\ <<fr.pc, d>> \in fl /\ inst = code.insts[fr.pc + 1]
      /\ Pops(inst) <= d /\ d = Len(fr.stack) /\ g = Passed(fr, n, values)
      /\ n = Pops(inst) /\ Len(values) = Pushes(inst) /\ inst[1] \notin Branching
  BY TopFacts, CodeFacts, GoodFrameLater DEF Inst
<1>2. n \in 0..d
  BY <1>1
<1>3. fl = TheFlows[fr.code]
  OBVIOUS
<1> HIDE DEF d, inst, code, fl
<1>4. <<fr.pc + 1, d - Pops(inst) + Pushes(inst)>> \in fl
  BY <1>1, Straight
<1> HIDE DEF fr
<1>5. /\ GoodFrame(Codes, hp2, g) /\ g.code = fr.code /\ g.pc = fr.pc + 1
      /\ g.fast = fr.fast /\ g.locals = fr.locals
      /\ Len(g.stack) = Len(fr.stack) - n + Len(values)
  <2>1. n \in 0..Len(fr.stack) /\ g = Passed(fr, n, values) /\ GoodFrame(Codes, hp2, fr)
    BY <1>1, <1>2
  <2>2. n \in 0..Len(fr.stack) /\ GoodFrame(Codes, hp2, fr)
    BY <2>1
  <2>3. /\ GoodFrame(Codes, hp2, Passed(fr, n, values))
        /\ Passed(fr, n, values).code = fr.code
        /\ Passed(fr, n, values).pc = fr.pc + 1
        /\ Passed(fr, n, values).fast = fr.fast
        /\ Passed(fr, n, values).locals = fr.locals
        /\ Len(Passed(fr, n, values).stack) = Len(fr.stack) - n + Len(values)
    BY ONLY <2>2, GoodSeq(Codes, hp2, values), PassedGood
  <2> QED
    BY <2>1, <2>3
<1>6. AtDepth(TheFlows, g, Len(g.stack))
  BY <1>1, <1>3, <1>4, <1>5 DEF AtDepth
<1> QED
  BY <1>5, <1>6 DEF fr

LEMMA PassKeeps ==
  ASSUME Ready, Inst[1] \notin Branching, NEW n, n = Pops(Inst), n \in Nat,
         SameBodies(Codes, frames, heap, heap'), NamesOK(Codes, heap', globals'),
         NEW values, GoodSeq(Codes, heap', values), Len(values) = Pushes(Inst),
         Pass(n, values), calls' = calls, program' = program
  PROVE  IInv'
<1> DEFINE g == Passed(Top, n, values)
<1>1. Grows(heap, heap') /\ frames' = Replace(g)
  BY DEF SameBodies, Pass
<1> HIDE DEF g
<1>2. /\ GoodFrame(Codes, heap', g) /\ g.code = Top.code
      /\ AtDepth(TheFlows, g, Len(g.stack))
  BY <1>1, PassedHere DEF g
<1> QED
  BY <1>1, <1>2, StepKeeps

(* The most common kinds: one value, or none, and nothing else.             *)
LEMMA PushKeeps ==
  ASSUME Ready, Inst[1] \notin Branching, NEW n, n = Pops(Inst), n \in Nat,
         Pushes(Inst) = 1, NEW v, Good(Codes, heap, v), Pass(n, <<v>>), Local
  PROVE  IInv'
<1> DEFINE one == <<v>>
<1>1. GoodSeq(Codes, heap, one) /\ Len(one) = 1 /\ Pass(n, one)
  BY GoodDisplayed, Displayed
<1> HIDE DEF one
<1>2. /\ SameBodies(Codes, frames, heap, heap') /\ NamesOK(Codes, heap', globals')
      /\ GoodSeq(Codes, heap', one) /\ calls' = calls /\ program' = program
  BY <1>1, TopFacts DEF Local
<1> QED
  BY <1>1, <1>2, PassKeeps

LEMMA DropKeeps ==
  ASSUME Ready, Inst[1] \notin Branching, NEW n, n = Pops(Inst), n \in Nat,
         Pushes(Inst) = 0, Pass(n, <<>>), Local
  PROVE  IInv'
<1> DEFINE no == <<>>
<1>1. GoodSeq(Codes, heap, no) /\ Len(no) = 0 /\ Pass(n, no)
  BY GoodNothing
<1> HIDE DEF no
<1>2. /\ SameBodies(Codes, frames, heap, heap') /\ NamesOK(Codes, heap', globals')
      /\ GoodSeq(Codes, heap', no) /\ calls' = calls /\ program' = program
  BY <1>1, TopFacts DEF Local
<1> QED
  BY <1>1, <1>2, PassKeeps
-----------------------------------------------------------------------------
(* Loads and stores.                                                        *)

LEMMA GoodMade ==
  ASSUME NEW codes, NEW hp, NEW n, NEW x
  PROVE  /\ Good(codes, hp, None) /\ Good(codes, hp, IterDone)
         /\ Good(codes, hp, Num(n)) /\ Good(codes, hp, Bool(n)) /\ Good(codes, hp, Str(n))
         /\ Good(codes, hp, Term(n, x)) /\ Good(codes, hp, <<"builtin", n>>)
         /\ n \in 1..Len(hp) => Good(codes, hp, Ref(n))
BY DEF Good, None, IterDone, Num, Bool, Str, Term, Ref

LEMMA LoadConstKeeps ==
  ASSUME Ready, EvalLoadConst PROVE IInv'
<1> DEFINE v == Code.consts[Inst[2] + 1]
<1>1. Inst[1] = "LOAD_CONST" /\ Pass(0, <<v>>) /\ Local
  BY DEF EvalLoadConst, At
<1>2. Inst[1] \notin Branching /\ 0 = Pops(Inst) /\ 0 \in Nat /\ Pushes(Inst) = 1
  BY <1>1, Arities DEF Branching
<1>3. Inst[2] + 1 \in 1..Len(Code.consts)
  BY <1>1, CodeFacts DEF Indexes, PoolSize
<1>4. Good(Codes, heap, v)
  BY <1>3, CodeFacts DEF Constants, Good
<1> HIDE DEF v
<1> QED
  BY <1>1, <1>2, <1>4, PushKeeps

LEMMA FastFacts ==
  ASSUME Ready, Inst[1] \in {"LOAD_FAST", "STORE_FAST"}
  PROVE  Inst[2] + 1 \in 1..Len(Top.fast)
<1>1. Code.nLocals \in Nat /\ Inst[2] \in 0..Code.nLocals - 1
  BY CodeFacts DEF Indexes, PoolSize, Verified
<1>2. Len(Top.fast) \in Nat /\ Len(Top.fast) >= Code.nLocals
  BY TopFacts, SeqLength DEF GoodFrame, GoodSeq, Code
<1> QED
  BY <1>1, <1>2

LEMMA LoadFastKeeps ==
  ASSUME Ready, EvalLoadFast PROVE IInv'
<1> DEFINE v == Top.fast[Inst[2] + 1]
<1>1. Inst[1] = "LOAD_FAST" /\ Pass(0, <<v>>) /\ Local
  BY DEF EvalLoadFast, At
<1>2. Inst[1] \notin Branching /\ 0 = Pops(Inst) /\ 0 \in Nat /\ Pushes(Inst) = 1
  BY <1>1, Arities DEF Branching
<1>3. Good(Codes, heap, v)
  BY <1>1, FastFacts, TopFacts DEF GoodFrame, GoodSeq
<1> HIDE DEF v
<1> QED
  BY <1>1, <1>2, <1>3, PushKeeps

LEMMA StoreFastKeeps ==
  ASSUME Ready, EvalStoreFast PROVE IInv'
<1> DEFINE no == <<>>
           g == Passed(Top, 1, no)
           i == Inst[2] + 1
           v == Operand(1)
           fast == Updated(g.fast, i, v)
           fr == [g EXCEPT !.fast = fast]
<1>1. Inst[1] = "STORE_FAST" /\ frames' = Replace(fr) /\ Local
  BY DEF EvalStoreFast, At, Updated
<1>2. /\ Inst[1] \notin Branching /\ 1 = Pops(Inst) /\ 1 \in Nat /\ Pushes(Inst) = 0
      /\ 1 \in 1..Len(Top.stack) /\ i \in 1..Len(Top.fast) /\ Grows(heap, heap)
  BY <1>1, Arities, TopFacts, CodeFacts, FastFacts DEF Branching
<1>3. GoodSeq(Codes, heap, no) /\ Len(no) = 0
  BY GoodNothing
<1> HIDE DEF no
<1>4. /\ GoodFrame(Codes, heap, g) /\ g.code = Top.code
      /\ AtDepth(TheFlows, g, Len(g.stack)) /\ g.fast = Top.fast
  BY <1>2, <1>3, PassedHere
<1>5. Good(Codes, heap, v)
  BY <1>2, OperandGood
<1> HIDE DEF g, v, i
<1>6. /\ IsSeq(g.fast) /\ i \in 1..Len(g.fast) /\ Len(g.fast) \in Nat
      /\ Len(g.fast) >= Codes[g.code].nLocals
      /\ \A j \in 1..Len(g.fast) : Good(Codes, heap, g.fast[j])
  BY <1>2, <1>4, SeqLength DEF GoodFrame, GoodSeq
<1>7. /\ IsSeq(fast) /\ Len(fast) = Len(g.fast) /\ fast[i] = v
      /\ \A j \in 1..Len(g.fast) : j # i => fast[j] = g.fast[j]
  BY <1>6, Replaced
<1>8. GoodSeq(Codes, heap, fast)
  BY <1>5, <1>6, <1>7 DEF GoodSeq
<1> HIDE DEF fast
<1>9. /\ fr.code = g.code /\ fr.pc = g.pc /\ fr.stack = g.stack
      /\ fr.fast = fast /\ fr.locals = g.locals
      /\ fr \in [code : DOMAIN Codes, pc : Nat, stack : {fr.stack}, fast : {fr.fast},
                 locals : {fr.locals}]
  BY <1>4 DEF GoodFrame
<1> HIDE DEF fr
<1>10. GoodFrame(Codes, heap, fr)
  BY <1>4, <1>6, <1>7, <1>8, <1>9 DEF GoodFrame
<1>11. /\ fr.code = Top.code /\ AtDepth(TheFlows, fr, Len(fr.stack))
       /\ SameBodies(Codes, frames, heap, heap') /\ NamesOK(Codes, heap', globals')
       /\ GoodFrame(Codes, heap', fr) /\ calls' = calls /\ program' = program
  BY <1>1, <1>4, <1>9, <1>10, TopFacts DEF AtDepth, Local
<1> QED
  BY <1>1, <1>11, StepKeeps

LEMMA LoadNameKeeps ==
  ASSUME Ready, EvalLoadName PROVE IInv'
<1>1. Inst[1] = "LOAD_NAME"
  BY DEF EvalLoadName, At
<1>2. Inst[1] \notin Branching /\ 0 = Pops(Inst) /\ 0 \in Nat /\ Pushes(Inst) = 1
  BY <1>1, Arities DEF Branching
<1>3. ASSUME NEW v, Good(Codes, heap, v), Pass(0, <<v>>), Local
      PROVE  IInv'
  BY <1>2, <1>3, PushKeeps
<1>4. \A x \in DOMAIN globals : Good(Codes, heap, globals[x])
  BY TopFacts DEF NamesOK
<1>5. \A x \in DOMAIN Locals : Good(Codes, heap, Locals[x])
  BY <1>4, TopFacts DEF Locals, GoodFrame
<1> DEFINE b == <<"builtin", Name>>
<1>6. Good(Codes, heap, b)
  BY GoodMade
<1>7. \/ Name \in DOMAIN Locals /\ Pass(0, <<Locals[Name]>>) /\ Local
      \/ Name \in DOMAIN globals /\ Pass(0, <<globals[Name]>>) /\ Local
      \/ Pass(0, <<b>>) /\ Local
      \/ Raise
  BY DEF EvalLoadName
<1> HIDE DEF b
<1> QED
  BY <1>3, <1>4, <1>5, <1>6, <1>7, RaiseKeeps

LEMMA NamesPut ==
  ASSUME NEW codes, NEW hp, NEW dict, NamesOK(codes, hp, dict), NEW x, NEW v,
         Good(codes, hp, v)
  PROVE  NamesOK(codes, hp, Put(dict, x, v))
<1> DEFINE put == Put(dict, x, v)
<1>1. DOMAIN put = DOMAIN dict \cup {x}
  BY DEF Put
<1>2. \A y \in DOMAIN dict \cup {x} : put[y] = IF y = x THEN v ELSE dict[y]
  BY DEF Put
<1> HIDE DEF put
<1>3. NamesOK(codes, hp, put)
  BY <1>1, <1>2 DEF NamesOK
<1> QED
  BY <1>3 DEF put

LEMMA StoreNameKeeps ==
  ASSUME Ready, EvalStoreName PROVE IInv'
<1> DEFINE no == <<>>
           g == Passed(Top, 1, no)
           v == Operand(1)
           locals == Put(g.locals, Name, v)
           fr == [g EXCEPT !.locals = locals]
<1>1. /\ Inst[1] = "STORE_NAME" /\ calls' = calls /\ program' = program /\ heap' = heap
      /\ \/ globals' = Put(globals, Name, v) /\ Pass(1, no)
         \/ globals' = globals /\ frames' = Replace(fr)
  BY DEF EvalStoreName, At
<1>2. /\ Inst[1] \notin Branching /\ 1 = Pops(Inst) /\ 1 \in Nat /\ Pushes(Inst) = 0
      /\ 1 \in 1..Len(Top.stack) /\ Grows(heap, heap)
  BY <1>1, Arities, TopFacts, CodeFacts DEF Branching
<1>3. GoodSeq(Codes, heap, no) /\ Len(no) = 0
  BY GoodNothing
<1> HIDE DEF no
<1>4. /\ GoodFrame(Codes, heap, g) /\ g.code = Top.code
      /\ AtDepth(TheFlows, g, Len(g.stack)) /\ g.fast = Top.fast
  BY <1>2, <1>3, PassedHere
<1>5. Good(Codes, heap, v) /\ SameBodies(Codes, frames, heap, heap')
  BY <1>1, <1>2, OperandGood, TopFacts
<1> HIDE DEF g, v
<1>6. CASE globals' = Put(globals, Name, v) /\ Pass(1, no)
  <2>1. NamesOK(Codes, heap', globals')
    BY <1>1, <1>5, <1>6, NamesPut, TopFacts
  <2>2. GoodSeq(Codes, heap', no) /\ Len(no) = Pushes(Inst)
    BY <1>1, <1>2, <1>3
  <2> QED
    BY <1>1, <1>2, <1>5, <1>6, <2>1, <2>2, PassKeeps
<1>7. CASE globals' = globals /\ frames' = Replace(fr)
  <2>1. NamesOK(Codes, heap, locals)
    BY <1>4, <1>5, NamesPut DEF NamesOK, GoodFrame
  <2> HIDE DEF locals
  <2>2. /\ fr.code = g.code /\ fr.pc = g.pc /\ fr.stack = g.stack
        /\ fr.fast = g.fast /\ fr.locals = locals
        /\ fr \in [code : DOMAIN Codes, pc : Nat, stack : {fr.stack}, fast : {fr.fast},
                   locals : {fr.locals}]
    BY <1>4 DEF GoodFrame
  <2> HIDE DEF fr
  <2>3. GoodFrame(Codes, heap, fr)
    BY <1>4, <2>1, <2>2 DEF GoodFrame, NamesOK
  <2>4. /\ fr.code = Top.code /\ AtDepth(TheFlows, fr, Len(fr.stack))
        /\ NamesOK(Codes, heap', globals') /\ GoodFrame(Codes, heap', fr)
    BY <1>1, <1>4, <1>7, <2>2, <2>3, TopFacts DEF AtDepth
  <2> QED
    BY <1>1, <1>5, <1>7, <2>4, StepKeeps
<1> QED
  BY <1>1, <1>6, <1>7
-----------------------------------------------------------------------------
(* Operators, subscripts and jumps.                                         *)

LEMMA PopTopKeeps ==
  ASSUME Ready, EvalPopTop PROVE IInv'
<1>1. Inst[1] = "POP_TOP" /\ Pass(1, <<>>) /\ Local
  BY DEF EvalPopTop, At
<1>2. Inst[1] \notin Branching /\ 1 = Pops(Inst) /\ 1 \in Nat /\ Pushes(Inst) = 0
  BY <1>1, Arities DEF Branching
<1> QED
  BY <1>1, <1>2, DropKeeps

LEMMA NopKeeps ==
  ASSUME Ready, EvalNop PROVE IInv'
<1>1. Inst[1] = "NOP" /\ Pass(0, <<>>) /\ Local
  BY DEF EvalNop, At
<1>2. Inst[1] \notin Branching /\ 0 = Pops(Inst) /\ 0 \in Nat /\ Pushes(Inst) = 0
  BY <1>1, Arities DEF Branching
<1> QED
  BY <1>1, <1>2, DropKeeps

LEMMA BinaryKeeps ==
  ASSUME Ready, EvalBinary PROVE IInv'
<1> DEFINE method == IF Inst[1] = "COMPARE_OP" THEN CompareMethod[Inst[2]]
                     ELSE BinaryMethod[Inst[1]]
           v == Binary2(method, Operand(2), Operand(1))
<1>1. Inst[1] \in DOMAIN BinaryMethod \cup {"COMPARE_OP"} /\ Pass(2, <<v>>) /\ Local
  BY DEF EvalBinary, At
<1>2. Inst[1] \in BinaryOps /\ Inst[1] \notin Branching
  BY <1>1 DEF BinaryMethod, BinaryOps, Branching
<1>3. 2 = Pops(Inst) /\ 2 \in Nat /\ Pushes(Inst) = 1
  BY <1>2, Arities
<1> HIDE DEF method
<1>4. Good(Codes, heap, v)
  BY GoodMade DEF Binary2
<1> HIDE DEF v
<1> QED
  BY <1>1, <1>2, <1>3, <1>4, PushKeeps

LEMMA UnaryKeeps ==
  ASSUME Ready, EvalUnary PROVE IInv'
<1> DEFINE v == Unary1(UnaryMethod[Inst[1]], Operand(1))
<1>1. Inst[1] \in DOMAIN UnaryMethod /\ Pass(1, <<v>>) /\ Local
  BY DEF EvalUnary, At
<1>2. Inst[1] \in UnaryOps /\ Inst[1] \notin Branching
  BY <1>1 DEF UnaryMethod, UnaryOps, Branching
<1>3. 1 = Pops(Inst) /\ 1 \in Nat /\ Pushes(Inst) = 1
  BY <1>2, Arities
<1>4. Good(Codes, heap, v)
  BY GoodMade DEF Unary1
<1> HIDE DEF v
<1> QED
  BY <1>1, <1>2, <1>3, <1>4, PushKeeps

LEMMA MakeFunctionKeeps ==
  ASSUME Ready, EvalMakeFunction PROVE IInv'
<1> DEFINE v == <<"func", Operand(2)[2]>>
<1>1. Inst[1] = "MAKE_FUNCTION"
  BY DEF EvalMakeFunction, At
<1>2. Raise \/ (Operand(2)[1] = "code" /\ Pass(2, <<v>>) /\ Local)
  BY DEF EvalMakeFunction
<1>3. Inst[1] \notin Branching /\ 2 = Pops(Inst) /\ 2 \in Nat /\ Pushes(Inst) = 1
  BY <1>1, Arities DEF Branching
<1>4. 2 \in 1..Len(Top.stack)
  BY <1>3, TopFacts, CodeFacts
<1>5. Operand(2)[1] = "code" => Good(Codes, heap, v)
  BY <1>4, OperandGood DEF Good
<1> HIDE DEF v
<1> QED
  BY <1>2, <1>3, <1>5, PushKeeps, RaiseKeeps

LEMMA ListFacts ==
  ASSUME Ready, NEW v, Good(Codes, heap, v), IsList(v)
  PROVE  /\ v[2] \in 1..Len(heap)
         /\ heap[v[2]] \in [kind : {"list"}, elems : {heap[v[2]].elems}]
         /\ GoodSeq(Codes, heap, heap[v[2]].elems)
<1>1. v[2] \in 1..Len(heap) /\ heap[v[2]].kind = "list"
  BY DEF IsList, IsRef, Good
<1>2. GoodObject(Codes, heap, frames, heap[v[2]])
  BY <1>1, TopFacts DEF HeapOK
<1> QED
  BY <1>1, <1>2 DEF GoodObject

LEMMA SubscrKeeps ==
  ASSUME Ready, EvalSubscr PROVE IInv'
<1>1. Inst[1] = "BINARY_SUBSCR"
  BY DEF EvalSubscr, At
<1>2. Inst[1] \notin Branching /\ 2 = Pops(Inst) /\ 2 \in Nat /\ Pushes(Inst) = 1
  BY <1>1, Arities DEF Branching, BinaryOps
<1>3. 2 \in 1..Len(Top.stack)
  BY <1>2, TopFacts, CodeFacts
<1> DEFINE list == Operand(2)
           elems == heap[list[2]].elems
           i == Operand(1)[2]
           at == (IF i < 0 THEN Len(elems) + i ELSE i) + 1
           t == Term("getitem", <<Operand(2), Operand(1)>>)
<1>4. \/ IsList(list) /\ at \in DOMAIN elems /\ Pass(2, <<elems[at]>>) /\ Local
      \/ Raise
      \/ Pass(2, <<t>>) /\ Local
  BY DEF EvalSubscr, GetItem
<1>5. Good(Codes, heap, list)
  BY <1>3, OperandGood
<1>6. Good(Codes, heap, t)
  BY GoodMade
<1> HIDE DEF list, i, at, t
<1>7. IsList(list) /\ at \in DOMAIN elems => Good(Codes, heap, elems[at])
  <2>1. SUFFICES ASSUME IsList(list), at \in DOMAIN elems PROVE Good(Codes, heap, elems[at])
    OBVIOUS
  <2>2. GoodSeq(Codes, heap, elems)
    BY <1>5, <2>1, ListFacts
  <2> HIDE DEF elems
  <2> QED
    BY <2>1, <2>2, SeqLength DEF GoodSeq
<1> HIDE DEF elems
<1> DEFINE v == elems[at]
<1>8. \/ Good(Codes, heap, v) /\ Pass(2, <<v>>) /\ Local
      \/ Raise
      \/ Pass(2, <<t>>) /\ Local
  BY <1>4, <1>7
<1> HIDE DEF v
<1> QED
  BY <1>2, <1>6, <1>8, PushKeeps, RaiseKeeps

(* Another program counter.                                                 *)
LEMMA JumpKeeps ==
  ASSUME Ready, NEW g, GoodFrame(Codes, heap, g), g.code = Top.code, NEW pc,
         <<pc, Len(g.stack)>> \in TheFlows[Top.code], NEW fr, fr = [g EXCEPT !.pc = pc],
         frames' = Replace(fr), Local
  PROVE  IInv'
<1> DEFINE code == Code
           fl == TheFlows[Top.code]
           d == Len(g.stack)
           inst == code.insts[pc + 1]
<1>1. Verified(code, fl) /\ <<pc, d>> \in fl /\ inst = code.insts[pc + 1]
  BY CodeFacts
<1> HIDE DEF code, fl, d, inst
<1>2. pc \in Nat
  BY <1>1, FlowFacts
<1>3. /\ fr.code = g.code /\ fr.pc = pc /\ fr.stack = g.stack /\ fr.fast = g.fast
      /\ fr.locals = g.locals
      /\ fr \in [code : DOMAIN Codes, pc : Nat, stack : {fr.stack}, fast : {fr.fast},
                 locals : {fr.locals}]
  BY <1>2 DEF GoodFrame
<1>4. GoodFrame(Codes, heap, fr)
  BY <1>3, FrameChanged DEF GoodFrame
<1>5. AtDepth(TheFlows, fr, Len(fr.stack)) /\ fr.code = Top.code
  BY <1>1, <1>3 DEF AtDepth, fl, d
<1>6. /\ SameBodies(Codes, frames, heap, heap') /\ NamesOK(Codes, heap', globals')
      /\ GoodFrame(Codes, heap', fr) /\ calls' = calls /\ program' = program
  BY <1>4, TopFacts DEF Local
<1> QED
  BY <1>5, <1>6, StepKeeps

(* Where control goes from the instruction evaluated now.                   *)
LEMMA NextPlaces ==
  ASSUME Ready
  PROVE  /\ Inst[1] = "JUMP_ABSOLUTE" => <<Inst[2], Len(Top.stack)>> \in TheFlows[Top.code]
         /\ Inst[1] = "JUMP_FORWARD" =>
              <<Top.pc + Inst[2], Len(Top.stack)>> \in TheFlows[Top.code]
         /\ Inst[1] = "POP_JUMP_IF_FALSE" =>
              /\ <<Top.pc + 1, Len(Top.stack) - 1>> \in TheFlows[Top.code]
              /\ <<Top.pc + Inst[2], Len(Top.stack) - 1>> \in TheFlows[Top.code]
<1> DEFINE fl == TheFlows[Top.code]
           pc == Top.pc
           d == Len(Top.stack)
           code == Code
           inst == Inst
<1>1. Verified(code, fl) /\ <<pc, d>> \in fl /\ inst = code.insts[pc + 1]
  BY CodeFacts DEF Inst
<1> HIDE DEF fl, pc, d, code, inst
<1>2. /\ inst[1] = "JUMP_ABSOLUTE" => <<inst[2], d>> \in fl
      /\ inst[1] = "JUMP_FORWARD" => <<pc + inst[2], d>> \in fl
      /\ inst[1] = "POP_JUMP_IF_FALSE" =>
           <<pc + 1, d - 1>> \in fl /\ <<pc + inst[2], d - 1>> \in fl
  BY <1>1, Branches
<1> QED
  BY <1>2 DEF fl, pc, d, inst

LEMMA JumpAnywhereKeeps ==
  ASSUME Ready, EvalJump PROVE IInv'
<1> DEFINE g == Top
           pc == IF Inst[1] = "JUMP_FORWARD" THEN g.pc + Inst[2] ELSE Inst[2]
           fr == [g EXCEPT !.pc = pc]
<1>1. Inst[1] \in {"JUMP_ABSOLUTE", "JUMP_FORWARD"} /\ frames' = Replace(fr) /\ Local
  BY TopFacts DEF EvalJump, At, GoodFrame
<1>2. <<pc, Len(g.stack)>> \in TheFlows[Top.code]
  BY <1>1, NextPlaces
<1>3. GoodFrame(Codes, heap, g) /\ g.code = Top.code
  BY TopFacts
<1> HIDE DEF pc, g
<1>4. fr = [g EXCEPT !.pc = pc]
  OBVIOUS
<1> HIDE DEF fr
<1> QED
  BY <1>1, <1>2, <1>3, <1>4, JumpKeeps

LEMMA PopJumpKeeps ==
  ASSUME Ready, EvalPopJumpIfFalse PROVE IInv'
<1> DEFINE no == <<>>
           g == Popped(Top, 1, no)
           step == IF IsTrue(Operand(1)) THEN 1 ELSE Inst[2]
           pc == g.pc + step
           fr == [g EXCEPT !.pc = pc]
<1>1. GoodSeq(Codes, heap, no) /\ Len(no) = 0
  BY GoodNothing
<1>2. Inst[1] = "POP_JUMP_IF_FALSE" /\ Local
  BY DEF EvalPopJumpIfFalse, At
<1>3. frames' = Replace([g EXCEPT !.pc = @ + step])
  BY DEF EvalPopJumpIfFalse
<1> HIDE DEF no
<1>4. 1 \in 0..Len(Top.stack) /\ GoodFrame(Codes, heap, Top)
  BY <1>2, Arities, TopFacts, CodeFacts
<1>5. /\ GoodFrame(Codes, heap, g) /\ g.code = Top.code /\ g.pc = Top.pc
      /\ Len(g.stack) = Len(Top.stack) - 1 + Len(no)
  BY ONLY <1>1, <1>4, PoppedGood
<1>6. Len(g.stack) = Len(Top.stack) - 1
  BY <1>1, <1>5, TopFacts
<1>7. <<pc, Len(g.stack)>> \in TheFlows[Top.code]
  BY <1>2, <1>5, <1>6, NextPlaces
<1> HIDE DEF g, step
<1>8. fr = [g EXCEPT !.pc = @ + step] /\ fr = [g EXCEPT !.pc = pc]
  BY <1>5 DEF GoodFrame
<1>9. frames' = Replace(fr)
  BY <1>3, <1>8
<1> HIDE DEF pc, fr
<1> QED
  BY <1>2, <1>5, <1>7, <1>8, <1>9, JumpKeeps
-----------------------------------------------------------------------------
(* Objects.                                                                 *)

LEMMA SameFrames ==
  ASSUME NEW codes, NEW fs, NEW hp, FramesOK(codes, fs, hp) PROVE Keeps(fs, fs)
BY SeqLength DEF FramesOK, Keeps

LEMMA Allocated ==
  ASSUME NEW codes, NEW fs, NEW hp, FramesOK(codes, fs, hp), HeapOK(codes, fs, hp),
         NEW obj, GoodObject(codes, hp, fs, obj), obj.kind # "generator",
         NEW hp2, hp2 = Append(hp, obj)
  PROVE  SameBodies(codes, fs, hp, hp2) /\ Len(hp) + 1 \in 1..Len(hp2)
<1>1. IsSeq(hp) /\ Len(hp) \in Nat
  BY SeqLength DEF HeapOK
<1>2. /\ IsSeq(hp2) /\ Len(hp2) = Len(hp) + 1
      /\ \A h \in 1..Len(hp) : hp2[h] = hp[h]
      /\ hp2[Len(hp) + 1] = obj
  BY <1>1, Appended
<1> DEFINE last == Len(hp) + 1
<1>3. last \in Nat /\ Len(hp2) = last /\ hp2[last] = obj /\ 1..last = 1..Len(hp) \cup {last}
  BY <1>1, <1>2
<1> HIDE DEF last
<1>4. Grows(hp, hp2)
  BY <1>1, <1>2 DEF Grows
<1>5. Keeps(fs, fs)
  BY SameFrames
<1>6. \A h \in 1..Len(hp2) : GoodObject(codes, hp2, fs, hp2[h])
  <2>1. GoodObject(codes, hp2, fs, obj)
    BY <1>4, <1>5, GoodObjectLater
  <2>2. \A h \in 1..Len(hp) : GoodObject(codes, hp2, fs, hp[h])
    BY <1>4, <1>5, GoodObjectLater DEF HeapOK
  <2> QED
    BY <1>2, <1>3, <2>1, <2>2
<1>7. \A h \in 1..Len(hp2) : IsBody(hp2, h) => h \in 1..Len(hp) /\ hp2[h] = hp[h]
  BY <1>2, <1>3 DEF IsBody
<1>8. last \in 1..Len(hp2)
  BY <1>1, <1>3 DEF last
<1> QED
  BY <1>4, <1>6, <1>7, <1>8 DEF SameBodies, last

LEMMA ObjectChanged ==
  ASSUME NEW codes, NEW fs, NEW hp, FramesOK(codes, fs, hp), HeapOK(codes, fs, hp),
         NEW h \in 1..Len(hp), hp[h].kind # "generator", NEW obj,
         obj.kind = hp[h].kind, GoodObject(codes, hp, fs, obj),
         NEW hp2, hp2 = Updated(hp, h, obj)
  PROVE  SameBodies(codes, fs, hp, hp2)
<1>1. IsSeq(hp) /\ Len(hp) \in Nat
  BY SeqLength DEF HeapOK
<1>2. /\ IsSeq(hp2) /\ Len(hp2) = Len(hp) /\ hp2[h] = obj
      /\ \A j \in 1..Len(hp) : j # h => hp2[j] = hp[j]
  BY <1>1, Replaced
<1>3. Grows(hp, hp2)
  BY <1>1, <1>2 DEF Grows
<1>4. Keeps(fs, fs)
  BY SameFrames
<1>5. \A j \in 1..Len(hp2) : GoodObject(codes, hp2, fs, hp2[j])
  <2>1. GoodObject(codes, hp2, fs, obj)
    BY <1>3, <1>4, GoodObjectLater
  <2>2. \A j \in 1..Len(hp) : GoodObject(codes, hp2, fs, hp[j])
    BY <1>3, <1>4, GoodObjectLater DEF HeapOK
  <2> QED
    BY <1>2, <2>1, <2>2
<1>6. \A j \in 1..Len(hp2) : IsBody(hp2, j) => j \in 1..Len(hp) /\ hp2[j] = hp[j]
  BY <1>2 DEF IsBody
<1> QED
  BY <1>3, <1>5, <1>6 DEF SameBodies

LEMMA AllocateKeeps ==
  ASSUME Ready, Inst[1] \notin Branching, NEW n, n = Pops(Inst), n \in Nat,
         Pushes(Inst) = 1, NEW obj, GoodObject(Codes, heap, frames, obj),
         obj.kind # "generator", Allocate(n, obj)
  PROVE  IInv'
<1> DEFINE v == Ref(Len(heap) + 1)
           one == <<v>>
<1>1. /\ heap' = Append(heap, obj) /\ Pass(n, one)
      /\ globals' = globals /\ calls' = calls /\ program' = program
  BY DEF Allocate
<1>2. SameBodies(Codes, frames, heap, heap') /\ Len(heap) + 1 \in 1..Len(heap')
  BY <1>1, Allocated, TopFacts
<1>3. Good(Codes, heap', v)
  BY <1>2, GoodMade
<1> HIDE DEF v
<1>4. GoodSeq(Codes, heap', one) /\ Len(one) = Pushes(Inst)
  BY <1>3, GoodDisplayed, Displayed
<1>5. NamesOK(Codes, heap', globals')
  BY <1>1, <1>2, NamesLater, TopFacts DEF SameBodies
<1> HIDE DEF one
<1> QED
  BY <1>1, <1>2, <1>4, <1>5, PassKeeps

LEMMA ChangeKeeps ==
  ASSUME Ready, Inst[1] \notin Branching, NEW n, n = Pops(Inst), n \in Nat,
         NEW values, GoodSeq(Codes, heap, values), Len(values) = Pushes(Inst),
         NEW h \in 1..Len(heap), heap[h].kind # "generator", NEW obj,
         obj.kind = heap[h].kind, GoodObject(Codes, heap, frames, obj),
         heap' = Updated(heap, h, obj), Pass(n, values),
         UNCHANGED <<program, status, calls, globals, out>>
  PROVE  IInv'
<1>1. SameBodies(Codes, frames, heap, heap')
  BY ObjectChanged, TopFacts
<1>2. NamesOK(Codes, heap', globals') /\ GoodSeq(Codes, heap', values)
  BY <1>1, NamesLater, GoodSeqLater, TopFacts DEF SameBodies
<1> QED
  BY <1>1, <1>2, PassKeeps

LEMMA StoreSubscrKeeps ==
  ASSUME Ready, EvalStoreSubscr PROVE IInv'
<1>1. Inst[1] = "STORE_SUBSCR"
  BY DEF EvalStoreSubscr, At
<1>2. Inst[1] \notin Branching /\ 3 = Pops(Inst) /\ 3 \in Nat /\ Pushes(Inst) = 0
  BY <1>1, Arities DEF Branching
<1>3. 2 \in 1..Len(Top.stack) /\ 3 \in 1..Len(Top.stack)
  BY <1>2, TopFacts, CodeFacts
<1> DEFINE list == Operand(2)
           h == list[2]
           elems == heap[h].elems
           i == Operand(1)[2] + 1
           v == Operand(3)
           es == Updated(elems, i, v)
           obj == [heap[h] EXCEPT !.elems = es]
           no == <<>>
<1>4. Good(Codes, heap, v) /\ Good(Codes, heap, list) /\ IsList(list)
  BY <1>3, OperandGood DEF EvalStoreSubscr
<1>5. /\ h \in 1..Len(heap) /\ heap[h] \in [kind : {"list"}, elems : {elems}]
      /\ GoodSeq(Codes, heap, elems)
  BY <1>4, ListFacts
<1>6. \/ Raise
      \/ /\ i \in DOMAIN elems /\ heap' = Updated(heap, h, obj) /\ Pass(3, no)
         /\ UNCHANGED <<program, status, calls, globals, out>>
  BY DEF EvalStoreSubscr, SetItem, Updated
<1>7. GoodSeq(Codes, heap, no) /\ Len(no) = 0
  BY GoodNothing
<1> HIDE DEF list, h, i, v, no, elems
<1>8. CASE /\ i \in DOMAIN elems /\ heap' = Updated(heap, h, obj) /\ Pass(3, no)
           /\ UNCHANGED <<program, status, calls, globals, out>>
  <2>1. IsSeq(elems) /\ i \in 1..Len(elems)
    BY <1>5, <1>8, SeqLength DEF GoodSeq
  <2>2. /\ IsSeq(es) /\ Len(es) = Len(elems) /\ es[i] = v
        /\ \A j \in 1..Len(elems) : j # i => es[j] = elems[j]
    BY <2>1, Replaced
  <2>3. GoodSeq(Codes, heap, es)
    BY <1>4, <1>5, <2>2 DEF GoodSeq
  <2> HIDE DEF es
  <2>4. obj.kind = "list" /\ obj.elems = es /\ obj \in [kind : {"list"}, elems : {obj.elems}]
    BY <1>5
  <2>5. heap[h].kind = "list"
    BY <1>5
  <2> HIDE DEF obj
  <2>6. GoodObject(Codes, heap, frames, obj)
    BY <2>3, <2>4 DEF GoodObject
  <2> QED
    BY <1>2, <1>5, <1>7, <1>8, <2>4, <2>5, <2>6, ChangeKeeps
<1> QED
  BY <1>6, <1>8, RaiseKeeps

LEMMA GoodReverse ==
  ASSUME NEW codes, NEW hp, NEW s, GoodSeq(codes, hp, s)
  PROVE  GoodSeq(codes, hp, Reverse(s))
<1> DEFINE r == Reverse(s)
           S == {s[i] : i \in 1..Len(s)}
<1>1. Len(s) \in Nat /\ s \in Seq(S)
  BY SeqLength DEF GoodSeq, IsSeq
<1>2. \A i \in 1..Len(s) : Len(s) - i + 1 \in 1..Len(s) /\ s[Len(s) - i + 1] \in S
  BY <1>1
<1>3. r = [i \in 1..Len(s) |-> s[Len(s) - i + 1]]
  BY DEF Reverse
<1> HIDE DEF S, r
<1>4. r \in Seq(S) /\ Len(r) = Len(s)
  BY <1>1, <1>2, <1>3
<1>5. \A i \in 1..Len(r) : Good(codes, hp, r[i])
  BY <1>1, <1>2, <1>3, <1>4 DEF GoodSeq
<1>6. IsSeq(r)
  BY <1>4, SeqIsSeq
<1>7. GoodSeq(codes, hp, r)
  BY <1>5, <1>6 DEF GoodSeq
<1> QED
  BY <1>7 DEF r

LEMMA BuildListKeeps ==
  ASSUME Ready, EvalBuildList PROVE IInv'
<1> DEFINE n == Inst[2]
           s == Operands(n)
           es == Reverse(s)
           obj == ListObj(es)
<1>1. Inst[1] = "BUILD_LIST" /\ Allocate(n, obj)
  BY DEF EvalBuildList, At
<1>2. /\ Inst[1] \notin Branching /\ n = Pops(Inst) /\ n \in Nat /\ Pushes(Inst) = 1
      /\ n \in 0..Len(Top.stack)
  BY <1>1, Arities, TopFacts, CodeFacts DEF Branching, Counts
<1> HIDE DEF n
<1>3. GoodSeq(Codes, heap, s)
  BY <1>2, OperandsGood
<1> HIDE DEF s
<1>4. GoodSeq(Codes, heap, es)
  BY <1>3, GoodReverse
<1> HIDE DEF es
<1>5. obj.kind = "list" /\ obj.elems = es /\ obj \in [kind : {"list"}, elems : {obj.elems}]
  BY DEF ListObj
<1> HIDE DEF obj
<1>6. GoodObject(Codes, heap, frames, obj) /\ obj.kind # "generator"
  BY <1>4, <1>5 DEF GoodObject
<1> QED
  BY <1>1, <1>2, <1>6, AllocateKeeps

LEMMA BuildSliceKeeps ==
  ASSUME Ready, EvalBuildSlice PROVE IInv'
<1> DEFINE v == Term("slice", Operands(3))
<1>1. Inst[1] = "BUILD_SLICE" /\ Pass(3, <<v>>) /\ Local
  BY DEF EvalBuildSlice, At
<1>2. Inst[1] \notin Branching /\ 3 = Pops(Inst) /\ 3 \in Nat /\ Pushes(Inst) = 1
  BY <1>1, Arities DEF Branching
<1>3. Good(Codes, heap, v)
  BY GoodMade
<1> HIDE DEF v
<1> QED
  BY <1>1, <1>2, <1>3, PushKeeps

LEMMA BuildMapKeeps ==
  ASSUME Ready, EvalBuildMap PROVE IInv'
<1> DEFINE n == 2 * Inst[2]
           v == Term("map", Operands(n))
<1>1. Inst[1] = "BUILD_MAP" /\ Pass(n, <<v>>) /\ Local
  BY DEF EvalBuildMap, At
<1>2. Inst[1] \notin Branching /\ n = Pops(Inst) /\ n \in Nat /\ Pushes(Inst) = 1
  BY <1>1, Arities, CodeFacts DEF Branching, Counts
<1>3. Good(Codes, heap, v)
  BY GoodMade
<1> HIDE DEF v, n
<1> QED
  BY <1>1, <1>2, <1>3, PushKeeps

LEMMA IterateKeeps ==
  ASSUME Ready, Inst[1] \notin Branching, NEW n, n = Pops(Inst), n \in Nat,
         Pushes(Inst) = 1, NEW v, Good(Codes, heap, v), Iterate(n, v)
  PROVE  IInv'
<1> DEFINE obj == ListIterator(v[2])
<1>1. \/ IsList(v) /\ Allocate(n, obj)
      \/ Pass(n, <<v>>) /\ Local
      \/ Raise
  BY DEF Iterate
<1>2. CASE IsList(v) /\ Allocate(n, obj)
  <2>1. v[2] \in 1..Len(heap) /\ heap[v[2]].kind = "list"
    BY <1>2, ListFacts DEF IsList
  <2>2. obj.kind = "listiter" /\ obj.list = v[2]
        /\ obj \in [kind : {"listiter"}, list : 1..Len(heap), index : Nat]
    BY <2>1 DEF ListIterator
  <2> HIDE DEF obj
  <2>3. GoodObject(Codes, heap, frames, obj) /\ obj.kind # "generator"
    BY <2>1, <2>2 DEF GoodObject
  <2> QED
    BY <1>2, <2>3, AllocateKeeps
<1> HIDE DEF obj
<1> QED
  BY <1>1, <1>2, PushKeeps, RaiseKeeps

LEMMA GetIterKeeps ==
  ASSUME Ready, EvalGetIter PROVE IInv'
<1> DEFINE v == Operand(1)
<1>1. Inst[1] = "GET_ITER" /\ Iterate(1, v)
  BY DEF EvalGetIter, At
<1>2. Inst[1] \notin Branching /\ 1 = Pops(Inst) /\ 1 \in Nat /\ Pushes(Inst) = 1
  BY <1>1, Arities DEF Branching
<1>3. Good(Codes, heap, v)
  BY <1>2, OperandGood, TopFacts, CodeFacts
<1> HIDE DEF v
<1> QED
  BY <1>1, <1>2, <1>3, IterateKeeps

LEMMA LoadAttrKeeps ==
  ASSUME Ready, EvalLoadAttr PROVE IInv'
<1> DEFINE v == Operand(1)
           d == Bool(heap[v[2]].exhausted)
           m == <<"method", v[2], Name>>
<1>1. Inst[1] = "LOAD_ATTR"
  BY DEF EvalLoadAttr, At
<1>2. Inst[1] \notin Branching /\ 1 = Pops(Inst) /\ 1 \in Nat /\ Pushes(Inst) = 1
  BY <1>1, Arities DEF Branching
<1>3. \/ Pass(1, <<d>>) /\ Local
      \/ /\ (IsGenerator(v) /\ Name \in {"send", "__next__"}) \/ IsList(v)
         /\ Pass(1, <<m>>) /\ Local
      \/ Raise
  BY DEF EvalLoadAttr
<1>4. Good(Codes, heap, v)
  BY <1>2, OperandGood, TopFacts, CodeFacts
<1>5. Good(Codes, heap, d)
  BY GoodMade
<1>6. (IsGenerator(v) /\ Name \in {"send", "__next__"}) \/ IsList(v) => Good(Codes, heap, m)
  BY <1>4 DEF Good, IsGenerator, IsList, IsRef
<1> HIDE DEF v, d, m
<1> QED
  BY <1>2, <1>3, <1>5, <1>6, PushKeeps, RaiseKeeps
-----------------------------------------------------------------------------
(* Frames that are created.                                                 *)

LEMMA FrameAdded ==
  ASSUME NEW codes, NEW flow, NEW fs, NEW cs, NEW gs, NEW hp,
         StateOK(codes, flow, fs, cs, gs, hp), NEW fr, GoodFrame(codes, hp, fr)
  PROVE  /\ StateOK(codes, flow, Append(fs, fr), cs, gs, hp)
         /\ Len(Append(fs, fr)) = Len(fs) + 1 /\ Append(fs, fr)[Len(fs) + 1] = fr
         /\ \A j \in 1..Len(fs) : Append(fs, fr)[j] = fs[j]
<1> DEFINE fs2 == Append(fs, fr)
<1>1. /\ FramesOK(codes, fs, hp) /\ HeapOK(codes, fs, hp) /\ CallsOK(codes, fs, cs, hp)
      /\ DepthOK(codes, flow, fs, cs, hp) /\ NamesOK(codes, hp, gs)
  BY DEF StateOK
<1>2. IsSeq(fs) /\ Len(fs) \in Nat /\ IsSeq(cs) /\ Len(cs) \in Nat /\ 1 \in 1..Len(cs)
  BY <1>1, SeqLength DEF FramesOK, CallsOK
<1>3. /\ IsSeq(fs2) /\ Len(fs2) = Len(fs) + 1 /\ fs2[Len(fs) + 1] = fr
      /\ \A j \in 1..Len(fs) : fs2[j] = fs[j]
  BY <1>2, Appended
<1> HIDE DEF fs2
<1>4. FramesOK(codes, fs2, hp)
  <2>1. ASSUME NEW j \in 1..Len(fs2) PROVE GoodFrame(codes, hp, fs2[j])
    <3>1. j \in 1..Len(fs) \/ j = Len(fs) + 1
      BY <1>2, <1>3
    <3> QED
      BY <1>1, <1>3, <3>1 DEF FramesOK
  <2> QED
    BY <1>3, <2>1 DEF FramesOK
<1>5. Keeps(fs, fs2)
  BY <1>2, <1>3 DEF Keeps
<1>6. SameBodies(codes, fs, hp, hp) /\ Grows(hp, hp)
  BY <1>1, SameHeap DEF SameBodies
<1>7. HeapOK(codes, fs2, hp)
  BY <1>1, <1>5, <1>6, HeapLater
<1>8. CallsOK(codes, fs2, cs, hp)
  <2>1. ASSUME NEW k \in 1..Len(cs) PROVE GoodCall(codes, fs2, hp, cs[k])
    BY <1>1, <1>5, <1>6, GoodCallLater DEF CallsOK
  <2> QED
    BY <1>1, <2>1 DEF CallsOK
<1>9. \A k \in 1..Len(cs) : fs2[cs[k].frame] = fs[cs[k].frame]
  BY <1>1, <1>3 DEF CallsOK, GoodCall
<1>10. \A h \in 1..Len(hp) : IsBody(hp, h) => fs2[hp[h].frame] = fs[hp[h].frame]
  BY <1>1, <1>3, BodiesFrames
<1>11. DepthOK(codes, flow, fs2, cs, hp)
  <2>1. AtDepth(flow, fs2[cs[1].frame], Len(fs2[cs[1].frame].stack))
    BY <1>1, <1>2, <1>9 DEF DepthOK
  <2>2. ASSUME NEW k \in 2..Len(cs)
        PROVE  Awaits(codes, flow, fs2[cs[k].frame], cs[k - 1].gen # 0)
    <3>1. k \in 1..Len(cs)
      BY <1>2
    <3> QED
      BY <1>1, <1>9, <3>1 DEF DepthOK
  <2>3. ASSUME NEW h \in 1..Len(hp), IsBody(hp, h), ~hp[h].exhausted, ~Active(cs, h)
        PROVE  AtDepth(flow, fs2[hp[h].frame], Len(fs2[hp[h].frame].stack) + 1)
    BY <1>1, <1>10, <2>3 DEF DepthOK
  <2> QED
    BY <2>1, <2>2, <2>3 DEF DepthOK
<1>12. StateOK(codes, flow, fs2, cs, gs, hp)
  BY <1>1, <1>4, <1>7, <1>8, <1>11 DEF StateOK
<1> QED
  BY <1>3, <1>12 DEF fs2

(* A generator with a frame of its own.                                     *)
Body(f) == [kind |-> "generator", frame |-> f, exhausted |-> FALSE]

LEMMA BodyAdded ==
  ASSUME NEW codes, NEW flow, NEW fs, NEW cs, NEW gs, NEW hp,
         StateOK(codes, flow, fs, cs, gs, hp), NEW f \in 1..Len(fs),
         codes[fs[f].code].isGenerator, AtDepth(flow, fs[f], Len(fs[f].stack) + 1),
         \A h \in 1..Len(hp) : IsBody(hp, h) => hp[h].frame # f
  PROVE  /\ StateOK(codes, flow, fs, cs, gs, Append(hp, Body(f)))
         /\ Grows(hp, Append(hp, Body(f)))
         /\ Len(hp) + 1 \in 1..Len(Append(hp, Body(f)))
<1> DEFINE obj == Body(f)
           hp2 == Append(hp, obj)
<1>1. /\ FramesOK(codes, fs, hp) /\ HeapOK(codes, fs, hp) /\ CallsOK(codes, fs, cs, hp)
      /\ DepthOK(codes, flow, fs, cs, hp) /\ NamesOK(codes, hp, gs)
  BY DEF StateOK
<1>2. IsSeq(hp) /\ Len(hp) \in Nat
  BY <1>1, SeqLength DEF HeapOK
<1> DEFINE last == Len(hp) + 1
<1>3. /\ IsSeq(hp2) /\ Len(hp2) = last /\ hp2[last] = obj /\ last \in Nat
      /\ \A h \in 1..Len(hp) : hp2[h] = hp[h]
  BY <1>2, Appended
<1>4. /\ \A h \in 1..Len(hp2) : h \in 1..Len(hp) \/ h = last
      /\ last \in 1..Len(hp2) /\ Len(hp2) >= Len(hp)
      /\ \A h \in 1..Len(hp) : h \in 1..Len(hp2)
  BY <1>2, <1>3
<1> HIDE DEF last, hp2
<1>5. Grows(hp, hp2) /\ Keeps(fs, fs)
  BY <1>1, <1>2, <1>3, <1>4, SameFrames DEF Grows
<1>6. FramesOK(codes, fs, hp2) /\ NamesOK(codes, hp2, gs)
  BY <1>1, <1>5, GoodFrameLater, NamesLater DEF FramesOK
<1>7. /\ obj.kind = "generator" /\ obj.frame = f /\ ~obj.exhausted
      /\ obj \in [kind : {"generator"}, frame : 1..Len(fs), exhausted : {obj.exhausted}]
  BY DEF Body
<1> HIDE DEF obj
<1>8. HeapOK(codes, fs, hp2)
  <2>1. GoodObject(codes, hp2, fs, obj)
    BY <1>7 DEF GoodObject
  <2>2. \A h \in 1..Len(hp) : GoodObject(codes, hp2, fs, hp[h])
    BY <1>1, <1>5, GoodObjectLater DEF HeapOK
  <2>3. \A h \in 1..Len(hp2) : GoodObject(codes, hp2, fs, hp2[h])
    BY <1>3, <1>4, <2>1, <2>2
  <2>4. ASSUME NEW g \in 1..Len(hp2), NEW h \in 1..Len(hp2), IsBody(hp2, g),
               IsBody(hp2, h), hp2[g].frame = hp2[h].frame
        PROVE  g = h
    BY <1>1, <1>3, <1>4, <1>7, <2>4 DEF HeapOK, IsBody
  <2> QED
    BY <1>3, <2>3, <2>4 DEF HeapOK
<1>9. CallsOK(codes, fs, cs, hp2)
  <2>1. \A h \in 1..Len(hp) : IsBody(hp, h) => hp2[h].frame = hp[h].frame
    BY <1>3
  <2>2. ASSUME NEW k \in 1..Len(cs) PROVE GoodCall(codes, fs, hp2, cs[k])
    BY <1>1, <1>5, <2>1, GoodCallLater DEF CallsOK
  <2> QED
    BY <1>1, <2>2 DEF CallsOK
<1>10. DepthOK(codes, flow, fs, cs, hp2)
  <2>1. ASSUME NEW h \in 1..Len(hp2), IsBody(hp2, h), ~hp2[h].exhausted, ~Active(cs, h)
        PROVE  AtDepth(flow, fs[hp2[h].frame], Len(fs[hp2[h].frame].stack) + 1)
    <3>1. CASE h \in 1..Len(hp)
      BY <1>1, <1>3, <2>1, <3>1 DEF DepthOK, IsBody
    <3>2. CASE h = last
      BY <1>3, <1>7, <3>2
    <3> QED
      BY <1>4, <3>1, <3>2
  <2> QED
    BY <1>1, <2>1 DEF DepthOK
<1>11. StateOK(codes, flow, fs, cs, gs, hp2)
  BY <1>6, <1>8, <1>9, <1>10 DEF StateOK
<1> QED
  BY <1>4, <1>5, <1>11 DEF last, hp2, obj

-----------------------------------------------------------------------------
(* Evaluations that begin and end.                                          *)

LEMMA TwoFramesReplaced ==
  ASSUME NEW codes, NEW fs, NEW hp, NEW hp2, FramesOK(codes, fs, hp), Grows(hp, hp2),
         NEW e \in 1..Len(fs), NEW x, GoodFrame(codes, hp2, x), x.code = fs[e].code,
         NEW f \in 1..Len(fs), NEW y, GoodFrame(codes, hp2, y), y.code = fs[f].code, e # f,
         NEW fs2, fs2 = Updated(Updated(fs, e, x), f, y)
  PROVE  /\ FramesOK(codes, fs2, hp2) /\ Keeps(fs, fs2) /\ Len(fs2) = Len(fs)
         /\ fs2[e] = x /\ fs2[f] = y
         /\ \A j \in 1..Len(fs) : j # e /\ j # f => fs2[j] = fs[j]
<1> DEFINE fs1 == Updated(fs, e, x)
<1>1. /\ FramesOK(codes, fs1, hp2) /\ Keeps(fs, fs1) /\ Len(fs1) = Len(fs)
      /\ fs1[e] = x
      /\ \A j \in 1..Len(fs) : j # e => fs1[j] = fs[j]
  BY FramesReplaced
<1>2. fs2 = Updated(fs1, f, y)
  OBVIOUS
<1> HIDE DEF fs1
<1>3. Grows(hp2, hp2)
  <2>1. IsSeq(hp2) /\ Len(hp2) \in Nat
    BY SeqLength DEF Grows
  <2> QED
    BY <2>1 DEF Grows
<1>4. f \in 1..Len(fs1) /\ y.code = fs1[f].code
  BY <1>1
<1>5. /\ FramesOK(codes, fs2, hp2) /\ Keeps(fs1, fs2) /\ Len(fs2) = Len(fs1)
      /\ fs2[f] = y
      /\ \A j \in 1..Len(fs1) : j # f => fs2[j] = fs1[j]
  BY <1>1, <1>2, <1>3, <1>4, FramesReplaced
<1>6. Len(fs) \in Nat /\ Len(fs2) = Len(fs)
  BY <1>1, <1>5, SeqLength DEF FramesOK
<1>7. Keeps(fs, fs2)
  BY <1>1, <1>5, <1>6 DEF Keeps
<1> QED
  BY <1>1, <1>5, <1>7

(* The frame evaluated will wait, and another, of no call, is evaluated.    *)
Began(c, cs) == <<c>> \o cs

LEMMA CallBegun ==
  ASSUME NEW codes, NEW flow, NEW fs, NEW cs, NEW gs, NEW hp,
         StateOK(codes, flow, fs, cs, gs, hp), NEW c, GoodCall(codes, fs, hp, c),
         \A k \in 1..Len(cs) : cs[k].frame # c.frame,
         NEW x, GoodFrame(codes, hp, x), x.code = fs[cs[1].frame].code,
         IF c.gen = 0 THEN Awaits(codes, flow, x, FALSE) ELSE Awaits(codes, flow, x, TRUE),
         NEW y, GoodFrame(codes, hp, y), y.code = fs[c.frame].code,
         AtDepth(flow, y, Len(y.stack))
  PROVE  StateOK(codes, flow, Updated(Updated(fs, cs[1].frame, x), c.frame, y),
                 Began(c, cs), gs, hp)
<1> DEFINE fs2 == Updated(Updated(fs, cs[1].frame, x), c.frame, y)
           cs2 == Began(c, cs)
<1>1. /\ FramesOK(codes, fs, hp) /\ HeapOK(codes, fs, hp) /\ CallsOK(codes, fs, cs, hp)
      /\ DepthOK(codes, flow, fs, cs, hp) /\ NamesOK(codes, hp, gs)
  BY DEF StateOK
<1>2. IsSeq(cs) /\ Len(cs) \in Nat /\ 1 \in 1..Len(cs)
  BY <1>1, SeqLength DEF CallsOK
<1> DEFINE e == cs[1].frame
           f == c.frame
           one == <<c>>
<1>3. e \in 1..Len(fs) /\ f \in 1..Len(fs) /\ e # f
  BY <1>1, <1>2 DEF CallsOK, GoodCall
<1>4. SameBodies(codes, fs, hp, hp) /\ Grows(hp, hp)
  BY <1>1, SameHeap DEF SameBodies
<1>5. /\ fs2 = Updated(Updated(fs, e, x), f, y) /\ x.code = fs[e].code
      /\ y.code = fs[f].code
  OBVIOUS
<1>6. IsSeq(one) /\ Len(one) = 1 /\ one[1] = c /\ cs2 = one \o cs
  BY Displayed DEF Began
<1> HIDE DEF e, f, one, fs2, cs2
<1>7. /\ FramesOK(codes, fs2, hp) /\ Keeps(fs, fs2) /\ Len(fs2) = Len(fs)
      /\ fs2[e] = x /\ fs2[f] = y
      /\ \A j \in 1..Len(fs) : j # e /\ j # f => fs2[j] = fs[j]
  BY <1>1, <1>3, <1>4, <1>5, TwoFramesReplaced
<1>8. HeapOK(codes, fs2, hp)
  BY <1>1, <1>4, <1>7, HeapLater
<1>9. /\ IsSeq(cs2) /\ Len(cs2) = 1 + Len(cs)
      /\ \A i \in 1..1 + Len(cs) : cs2[i] = IF i <= 1 THEN one[i] ELSE cs[i - 1]
  <2>1. /\ IsSeq(one \o cs) /\ Len(one \o cs) = Len(one) + Len(cs)
        /\ \A i \in 1..Len(one) + Len(cs) :
             (one \o cs)[i] = IF i <= Len(one) THEN one[i] ELSE cs[i - Len(one)]
    BY ONLY <1>2, <1>6, Joined
  <2> QED
    BY ONLY <1>6, <2>1
<1>10. /\ cs2[1] = c /\ Len(cs2) >= 1 /\ Len(cs2) \in Nat
       /\ \A i \in 1..Len(cs2) : i # 1 => i - 1 \in 1..Len(cs) /\ cs2[i] = cs[i - 1]
  BY <1>2, <1>6, <1>9
<1>11. \A h \in 1..Len(hp) : c.gen = h \/ Active(cs, h) => Active(cs2, h)
  <2>1. ASSUME NEW h, NEW k \in 1..Len(cs), cs[k].gen = h PROVE Active(cs2, h)
    <3>1. k + 1 \in 1..Len(cs2) /\ cs2[k + 1] = cs[k]
      BY <1>2, <1>9
    <3> QED
      BY <2>1, <3>1 DEF Active
  <2>2. 1 \in 1..Len(cs2)
    BY <1>10
  <2> QED
    BY <1>10, <2>1, <2>2 DEF Active
<1>12. CallsOK(codes, fs2, cs2, hp)
  <2>1. GoodCall(codes, fs2, hp, c)
    BY <1>4, <1>7, GoodCallLater
  <2>2. ASSUME NEW k \in 1..Len(cs) PROVE GoodCall(codes, fs2, hp, cs[k])
    BY <1>1, <1>4, <1>7, GoodCallLater DEF CallsOK
  <2>3. \A k \in 1..Len(cs2) : GoodCall(codes, fs2, hp, cs2[k])
    BY <1>10, <2>1, <2>2
  <2>4. ASSUME NEW j \in 1..Len(cs2), NEW k \in 1..Len(cs2), cs2[j].frame = cs2[k].frame
        PROVE  j = k
    <3>1. CASE j = 1 /\ k # 1
      BY <1>10, <2>4, <3>1
    <3>2. CASE k = 1 /\ j # 1
      BY <1>10, <2>4, <3>2
    <3>3. CASE j # 1 /\ k # 1
      <4> DEFINE a == j - 1
                 b == k - 1
      <4>1. a \in 1..Len(cs) /\ b \in 1..Len(cs) /\ cs2[j] = cs[a] /\ cs2[k] = cs[b]
        BY <1>10, <3>3
      <4> HIDE DEF a, b
      <4>2. a = b
        BY <1>1, <2>4, <4>1 DEF CallsOK
      <4> QED
        BY <4>2 DEF a, b
    <3> QED
      BY <3>1, <3>2, <3>3
  <2>5. cs2[Len(cs2)].gen = 0
    <3>1. Len(cs2) # 1 /\ Len(cs2) - 1 = Len(cs) /\ Len(cs2) \in 1..Len(cs2)
      BY <1>2, <1>9
    <3>2. cs2[Len(cs2)] = cs[Len(cs)]
      BY <1>10, <3>1
    <3> QED
      BY <1>1, <3>2 DEF CallsOK
  <2> QED
    BY <1>9, <1>10, <2>3, <2>4, <2>5 DEF CallsOK
<1>13. DepthOK(codes, flow, fs2, cs2, hp)
  <2>1. AtDepth(flow, fs2[cs2[1].frame], Len(fs2[cs2[1].frame].stack))
    BY <1>7, <1>10 DEF f
  <2>2. ASSUME NEW k \in 2..Len(cs2)
        PROVE  Awaits(codes, flow, fs2[cs2[k].frame], cs2[k - 1].gen # 0)
    <3>1. k \in 1..Len(cs2) /\ k # 1 /\ k - 1 \in 1..Len(cs) /\ cs2[k] = cs[k - 1]
      BY <1>2, <1>10
    <3>2. CASE k = 2
      <4>1. k - 1 = 1
        BY <3>2
      <4>2. cs2[k] = cs[1] /\ cs2[k - 1] = c
        BY <1>10, <3>1, <4>1
      <4>3. (c.gen # 0) = IF c.gen = 0 THEN FALSE ELSE TRUE
        OBVIOUS
      <4>4. Awaits(codes, flow, x, c.gen # 0)
        BY <4>3
      <4> QED
        BY <1>7, <4>2, <4>4 DEF e
    <3>3. CASE k # 2
      <4> DEFINE j == k - 1
      <4>1. j \in 2..Len(cs) /\ j \in 1..Len(cs) /\ j # 1 /\ cs2[k] = cs[j]
            /\ j \in 1..Len(cs2)
        BY <1>2, <1>9, <3>1, <3>3
      <4>2. cs2[j] = cs[j - 1]
        BY <1>10, <4>1
      <4> HIDE DEF j
      <4>3. Awaits(codes, flow, fs[cs[j].frame], cs[j - 1].gen # 0)
        BY <1>1, <4>1 DEF DepthOK
      <4>4. cs[j].frame \in 1..Len(fs) /\ cs[j].frame # e /\ cs[j].frame # f
        BY <1>1, <1>2, <4>1 DEF CallsOK, GoodCall, e, f
      <4>5. fs2[cs[j].frame] = fs[cs[j].frame]
        BY <1>7, <4>4
      <4> QED
        BY <4>1, <4>2, <4>3, <4>5 DEF j
    <3> QED
      BY <3>2, <3>3
  <2>3. ASSUME NEW h \in 1..Len(hp), IsBody(hp, h), ~hp[h].exhausted, ~Active(cs2, h)
        PROVE  AtDepth(flow, fs2[hp[h].frame], Len(fs2[hp[h].frame].stack) + 1)
    <3>1. ~Active(cs, h) /\ c.gen # h
      BY <1>11, <2>3
    <3>2. hp[h].frame \in 1..Len(fs) /\ codes[fs[hp[h].frame].code].isGenerator
      BY <1>1, <2>3, BodiesFrames
    <3>3. hp[h].frame # e
      BY <1>1, <1>2, <2>3, <3>1, OtherFrames DEF Active, e
    <3>4. hp[h].frame # f
      <4>1. CASE c.gen = 0
        BY <3>2, <4>1 DEF GoodCall, f
      <4>2. CASE c.gen # 0
        <5>1. c.gen \in 1..Len(hp) /\ IsBody(hp, c.gen) /\ hp[c.gen].frame = f
          BY <1>1, <4>2, SeqLength DEF GoodCall, HeapOK, f
        <5> QED
          BY <1>1, <2>3, <3>1, <5>1 DEF HeapOK
      <4> QED
        BY <4>1, <4>2
    <3> QED
      BY <1>1, <1>7, <2>3, <3>1, <3>2, <3>3, <3>4 DEF DepthOK
  <2> QED
    BY <2>1, <2>2, <2>3 DEF DepthOK
<1>14. StateOK(codes, flow, fs2, cs2, gs, hp)
  BY <1>1, <1>7, <1>8, <1>12, <1>13 DEF StateOK
<1> QED
  BY <1>14 DEF fs2, cs2

(* The frame evaluated is left, and the one that waits for it is evaluated. *)
LEMMA CallEnded ==
  ASSUME NEW codes, NEW flow, NEW fs, NEW cs, NEW gs, NEW hp,
         StateOK(codes, flow, fs, cs, gs, hp), Len(cs) > 1,
         NEW hp2, Grows(hp, hp2), Len(hp2) = Len(hp),
         \A h \in 1..Len(hp) : h # cs[1].gen => hp2[h] = hp[h],
         cs[1].gen # 0 =>
           hp2[cs[1].gen] = [kind |-> "generator", frame |-> cs[1].frame,
                             exhausted |-> hp2[cs[1].gen].exhausted],
         NEW x, GoodFrame(codes, hp2, x), x.code = fs[cs[1].frame].code,
         cs[1].gen # 0 /\ ~hp2[cs[1].gen].exhausted => AtDepth(flow, x, Len(x.stack) + 1),
         NEW y, GoodFrame(codes, hp2, y), y.code = fs[cs[2].frame].code,
         AtDepth(flow, y, Len(y.stack))
  PROVE  StateOK(codes, flow, Updated(Updated(fs, cs[1].frame, x), cs[2].frame, y),
                 Tail(cs), gs, hp2)
<1> DEFINE fs2 == Updated(Updated(fs, cs[1].frame, x), cs[2].frame, y)
           cs2 == Tail(cs)
<1>1. /\ FramesOK(codes, fs, hp) /\ HeapOK(codes, fs, hp) /\ CallsOK(codes, fs, cs, hp)
      /\ DepthOK(codes, flow, fs, cs, hp) /\ NamesOK(codes, hp, gs)
  BY DEF StateOK
<1>2. IsSeq(cs) /\ Len(cs) \in Nat /\ 1 \in 1..Len(cs) /\ 2 \in 1..Len(cs)
      /\ IsSeq(hp) /\ Len(hp) \in Nat
  BY <1>1, SeqLength DEF CallsOK, HeapOK
<1> DEFINE e == cs[1].frame
           f == cs[2].frame
           gen == cs[1].gen
<1>3. e \in 1..Len(fs) /\ f \in 1..Len(fs) /\ e # f
  BY <1>1, <1>2 DEF CallsOK, GoodCall
<1>4. /\ gen = 0 \/ gen \in 1..Len(hp)
      /\ gen # 0 => IsBody(hp, gen) /\ hp[gen].frame = e
  BY <1>1, <1>2 DEF CallsOK, GoodCall
<1>5. /\ fs2 = Updated(Updated(fs, e, x), f, y) /\ x.code = fs[e].code
      /\ y.code = fs[f].code
  OBVIOUS
<1>6. /\ \A h \in 1..Len(hp) : h # gen => hp2[h] = hp[h]
      /\ gen # 0 => /\ hp2[gen] \in [kind : {"generator"}, frame : {e},
                                     exhausted : {hp2[gen].exhausted}]
                    /\ ~hp2[gen].exhausted => AtDepth(flow, x, Len(x.stack) + 1)
  OBVIOUS
<1> HIDE DEF e, f, gen, fs2, cs2
<1>7. /\ FramesOK(codes, fs2, hp2) /\ Keeps(fs, fs2) /\ Len(fs2) = Len(fs)
      /\ fs2[e] = x /\ fs2[f] = y
      /\ \A j \in 1..Len(fs) : j # e /\ j # f => fs2[j] = fs[j]
  BY <1>1, <1>3, <1>5, TwoFramesReplaced
<1>8. /\ IsSeq(cs2) /\ Len(cs2) = Len(cs) - 1
      /\ \A i \in 1..Len(cs) - 1 : cs2[i] = cs[i + 1]
  BY <1>2, WithoutFirst DEF cs2
<1>9. /\ Len(cs2) >= 1 /\ cs2[1] = cs[2]
      /\ \A i \in 1..Len(cs2) : /\ i + 1 \in 1..Len(cs) /\ i + 1 # 1
                                /\ cs2[i] = cs[i + 1]
  BY <1>2, <1>8
<1>10. \A h \in 1..Len(hp) : /\ IsBody(hp2, h) <=> IsBody(hp, h)
                             /\ IsBody(hp, h) => hp2[h].frame = hp[h].frame
  BY <1>4, <1>6 DEF IsBody
<1>11. HeapOK(codes, fs2, hp2)
  <2>1. ASSUME NEW h \in 1..Len(hp)
        PROVE  GoodObject(codes, hp2, fs2, hp2[h])
    <3>1. GoodObject(codes, hp2, fs2, hp[h])
      BY <1>1, <1>7, GoodObjectLater DEF HeapOK
    <3>2. CASE h # gen
      BY <1>6, <3>1, <3>2
    <3>3. CASE h = gen
      <4>1. gen # 0 /\ hp[h].kind = "generator" /\ hp[h].frame = e
        BY <1>2, <1>4, <3>3 DEF IsBody
      <4>2. codes[fs2[e].code].isGenerator /\ e \in 1..Len(fs2)
        BY <3>1, <4>1 DEF GoodObject
      <4>3. /\ hp2[h].kind = "generator" /\ hp2[h].frame = e
            /\ hp2[h] \in [kind : {"generator"}, frame : 1..Len(fs2),
                           exhausted : {hp2[h].exhausted}]
        BY <1>6, <3>3, <4>1, <4>2
      <4> QED
        BY <4>2, <4>3 DEF GoodObject
    <3> QED
      BY <3>2, <3>3
  <2>2. ASSUME NEW g \in 1..Len(hp), NEW h \in 1..Len(hp), IsBody(hp2, g), IsBody(hp2, h),
               hp2[g].frame = hp2[h].frame
        PROVE  g = h
    BY <1>1, <1>10, <2>2 DEF HeapOK
  <2> QED
    BY <2>1, <2>2 DEF HeapOK, Grows
<1>12. CallsOK(codes, fs2, cs2, hp2)
  <2>1. ASSUME NEW k \in 1..Len(cs) PROVE GoodCall(codes, fs2, hp2, cs[k])
    BY <1>1, <1>7, <1>10, GoodCallLater DEF CallsOK
  <2>2. \A k \in 1..Len(cs2) : GoodCall(codes, fs2, hp2, cs2[k])
    BY <1>9, <2>1
  <2>3. ASSUME NEW j \in 1..Len(cs2), NEW k \in 1..Len(cs2), cs2[j].frame = cs2[k].frame
        PROVE  j = k
    <3>1. j + 1 = k + 1
      BY <1>1, <1>9, <2>3 DEF CallsOK
    <3> QED
      BY <3>1
  <2>4. cs2[Len(cs2)].gen = 0
    <3>1. Len(cs2) + 1 = Len(cs) /\ Len(cs2) \in 1..Len(cs2)
      BY <1>2, <1>8
    <3>2. cs2[Len(cs2)] = cs[Len(cs)]
      BY <1>9, <3>1
    <3> QED
      BY <1>1, <3>2 DEF CallsOK
  <2> QED
    BY <1>8, <1>9, <2>2, <2>3, <2>4 DEF CallsOK
<1>13. DepthOK(codes, flow, fs2, cs2, hp2)
  <2>1. AtDepth(flow, fs2[cs2[1].frame], Len(fs2[cs2[1].frame].stack))
    BY <1>7, <1>9 DEF f
  <2>2. ASSUME NEW k \in 2..Len(cs2)
        PROVE  Awaits(codes, flow, fs2[cs2[k].frame], cs2[k - 1].gen # 0)
    <3> DEFINE j == k + 1
    <3>1. /\ j \in 2..Len(cs) /\ j \in 1..Len(cs) /\ j # 1 /\ j # 2 /\ j - 1 = k
          /\ k \in 1..Len(cs2) /\ k - 1 \in 1..Len(cs2) /\ k - 1 + 1 = k
      BY <1>2, <1>8
    <3>2. cs2[k] = cs[j] /\ cs2[k - 1] = cs[j - 1]
      BY <1>9, <3>1
    <3> HIDE DEF j
    <3>3. Awaits(codes, flow, fs[cs[j].frame], cs[j - 1].gen # 0)
      BY <1>1, <3>1 DEF DepthOK
    <3>4. cs[j].frame \in 1..Len(fs) /\ cs[j].frame # e /\ cs[j].frame # f
      BY <1>1, <1>2, <3>1 DEF CallsOK, GoodCall, e, f
    <3>5. fs2[cs[j].frame] = fs[cs[j].frame]
      BY <1>7, <3>4
    <3> QED
      BY <3>2, <3>3, <3>5
  <2>3. ASSUME NEW h \in 1..Len(hp), IsBody(hp2, h), ~hp2[h].exhausted, ~Active(cs2, h)
        PROVE  AtDepth(flow, fs2[hp2[h].frame], Len(fs2[hp2[h].frame].stack) + 1)
    <3>1. IsBody(hp, h) /\ hp2[h].frame = hp[h].frame
      BY <1>10, <2>3
    <3>2. CASE h = gen
      BY <1>2, <1>4, <1>6, <1>7, <2>3, <3>1, <3>2
    <3>3. CASE h # gen
      <4>1. ASSUME NEW k \in 1..Len(cs), cs[k].gen = h PROVE FALSE
        <5>1. k # 1
          BY <3>3, <4>1 DEF gen
        <5>2. k - 1 \in 1..Len(cs2) /\ k - 1 + 1 = k
          BY <1>2, <1>8, <5>1
        <5>3. cs2[k - 1] = cs[k]
          BY <1>9, <5>2
        <5> QED
          BY <2>3, <4>1, <5>2, <5>3 DEF Active
      <4>2. ~Active(cs, h)
        BY <4>1 DEF Active
      <4>3. hp[h].frame \in 1..Len(fs) /\ hp[h].frame # e /\ hp[h].frame # f
        BY <1>1, <1>2, <3>1, <4>1, BodiesFrames, OtherFrames DEF e, f
      <4>4. hp2[h] = hp[h]
        BY <1>6, <3>3
      <4> QED
        BY <1>1, <1>7, <2>3, <3>1, <4>2, <4>3, <4>4 DEF DepthOK
    <3> QED
      BY <3>2, <3>3
  <2> QED
    BY <2>1, <2>2, <2>3 DEF DepthOK
<1>14. NamesOK(codes, hp2, gs)
  BY <1>1, NamesLater
<1>15. StateOK(codes, flow, fs2, cs2, gs, hp2)
  BY <1>7, <1>11, <1>12, <1>13, <1>14 DEF StateOK
<1> QED
  BY <1>15 DEF fs2, cs2

-----------------------------------------------------------------------------
(* Calls and what they answer.                                              *)

LEMMA CallHere ==
  ASSUME Ready, Inst[1] = "CALL_FUNCTION"
  PROVE  /\ Inst[1] \notin Branching /\ Inst[2] \in Nat
         /\ Inst[2] + 1 = Pops(Inst) /\ Inst[2] + 1 \in Nat /\ Pushes(Inst) = 1
         /\ Inst[2] \in 0..Len(Top.stack) /\ Inst[2] + 1 \in 0..Len(Top.stack)
         /\ Good(Codes, heap, Operand(Inst[2] + 1))
         /\ GoodSeq(Codes, heap, Operands(Inst[2])) /\ Len(Operands(Inst[2])) = Inst[2]
<1> DEFINE n == Inst[2]
           m == n + 1
<1>1. /\ Inst[1] \notin Branching /\ n \in Nat /\ m = Pops(Inst) /\ m \in Nat
      /\ Pushes(Inst) = 1 /\ n \in 0..Len(Top.stack) /\ m \in 1..Len(Top.stack)
      /\ m \in 0..Len(Top.stack)
  BY Arities, TopFacts, CodeFacts DEF Branching, Counts
<1> HIDE DEF n, m
<1>2. Good(Codes, heap, Operand(m)) /\ GoodSeq(Codes, heap, Operands(n))
      /\ Len(Operands(n)) = n
  BY <1>1, OperandGood, OperandsGood
<1> QED
  BY <1>1, <1>2 DEF n, m

(* The frame, when it has lost the operands of what it waits for.           *)
LEMMA WaitingHere ==
  ASSUME Ready, NEW n, n = Pops(Inst), n \in Nat, NEW generator,
         Inst[1] = "CALL_FUNCTION" \/ (Inst[1] = "FOR_ITER" /\ generator)
  PROVE  /\ GoodFrame(Codes, heap, Popped(Top, n, <<>>))
         /\ Popped(Top, n, <<>>).code = Top.code
         /\ Awaits(Codes, TheFlows, Popped(Top, n, <<>>), generator)
<1> DEFINE no == <<>>
           g == Popped(Top, n, no)
<1>1. GoodSeq(Codes, heap, no) /\ Len(no) = 0
  BY GoodNothing
<1>2. n \in 0..Len(Top.stack) /\ GoodFrame(Codes, heap, Top)
  BY TopFacts, CodeFacts
<1> HIDE DEF no
<1>3. /\ GoodFrame(Codes, heap, g) /\ g.code = Top.code /\ g.pc = Top.pc
      /\ Len(g.stack) = Len(Top.stack) - n + Len(no)
  BY ONLY <1>1, <1>2, PoppedGood
<1> HIDE DEF g
<1>4. Codes[g.code].insts[g.pc + 1] = Inst
  BY <1>3 DEF Inst, Code
<1>5. <<g.pc, Len(Top.stack)>> \in TheFlows[g.code]
  BY <1>3, CodeFacts
<1>6. ASSUME Inst[1] = "CALL_FUNCTION" PROVE Awaits(Codes, TheFlows, g, generator)
  <2>1. Len(Top.stack) = Len(g.stack) + Inst[2] + 1
    <3> DEFINE d == Len(Top.stack)
               e == Len(g.stack)
               k == Inst[2]
    <3>1. k \in Nat /\ k + 1 = n
      BY <1>6, CallHere
    <3>2. d \in Nat /\ e = d - n + 0
      BY <1>1, <1>3, TopFacts
    <3> HIDE DEF d, e, k
    <3>3. d = e + k + 1
      BY ONLY <3>1, <3>2
    <3> QED
      BY ONLY <3>3 DEF d, e, k
  <2> QED
    BY <1>4, <1>5, <1>6, <2>1 DEF Awaits, AtDepth
<1>7. ASSUME Inst[1] = "FOR_ITER", generator PROVE Awaits(Codes, TheFlows, g, generator)
  <2>1. Len(Top.stack) = Len(g.stack) + 1
    BY <1>1, <1>3, <1>7, Arities, TopFacts
  <2> QED
    BY <1>4, <1>5, <1>7, <2>1 DEF Awaits, AtDepth
<1>8. Awaits(Codes, TheFlows, g, generator)
  BY <1>6, <1>7
<1> QED
  BY <1>3, <1>8 DEF g, no

LEMMA AnswerKeeps ==
  ASSUME Ready, NEW n, n = Pops(Inst), n \in Nat,
         Inst[1] \in {"CALL_FUNCTION", "FOR_ITER"}, NEW iter, Good(Codes, heap, iter),
         NEW v, Good(Codes, heap, v), NEW hp2, SameBodies(Codes, frames, heap, hp2),
         Answer(n, iter, v, hp2)
  PROVE  IInv'
<1> DEFINE g == Popped(Top, n, <<>>)
           fr == Delivered(g, iter, v)
<1>1. /\ frames' = Replace(fr) /\ heap' = hp2 /\ globals' = globals
      /\ calls' = calls /\ program' = program
  BY DEF Answer
<1>2. /\ GoodFrame(Codes, heap, g) /\ g.code = Top.code
      /\ Awaits(Codes, TheFlows, g, TRUE)
  BY WaitingHere
<1> HIDE DEF g
<1>3. Verified(Codes[g.code], TheFlows[g.code])
  BY <1>2, CodeFacts DEF Code
<1>4. Grows(heap, hp2)
  BY DEF SameBodies
<1>5. GoodFrame(Codes, hp2, g) /\ Good(Codes, hp2, v) /\ Good(Codes, hp2, iter)
  BY <1>2, <1>4, GoodFrameLater, GoodLater
<1> HIDE DEF fr
<1>6. /\ GoodFrame(Codes, hp2, fr) /\ fr.code = g.code
      /\ AtDepth(TheFlows, fr, Len(fr.stack))
  <2>1. \/ Awaits(Codes, TheFlows, g, FALSE)
        \/ Awaits(Codes, TheFlows, g, TRUE) /\ Good(Codes, hp2, iter)
    BY <1>2, <1>5
  <2>2. /\ GoodFrame(Codes, hp2, Delivered(g, iter, v))
        /\ Delivered(g, iter, v).code = g.code
        /\ AtDepth(TheFlows, Delivered(g, iter, v), Len(Delivered(g, iter, v).stack))
    BY ONLY <2>1, <1>3, <1>5, DeliveredGood
  <2> QED
    BY <2>2 DEF fr
<1>7. /\ SameBodies(Codes, frames, heap, heap') /\ NamesOK(Codes, heap', globals')
      /\ GoodFrame(Codes, heap', fr) /\ fr.code = Top.code
  BY <1>1, <1>2, <1>4, <1>6, NamesLater, TopFacts
<1> QED
  BY <1>1, <1>6, <1>7, StepKeeps

LEMMA PrintKeeps ==
  ASSUME Ready, Inst[1] = "CALL_FUNCTION", NEW args, CallPrint(Inst[2], args)
  PROVE  IInv'
<1> DEFINE n == Inst[2] + 1
           one == <<None>>
<1>1. n = Pops(Inst) /\ n \in Nat /\ Inst[1] \notin Branching /\ Pushes(Inst) = 1
  BY CallHere
<1>2. Pass(n, one) /\ heap' = heap /\ globals' = globals /\ calls' = calls
      /\ program' = program
  BY DEF CallPrint
<1>3. GoodSeq(Codes, heap, one) /\ Len(one) = 1
  BY GoodMade, GoodDisplayed, Displayed
<1> HIDE DEF n, one
<1>4. /\ SameBodies(Codes, frames, heap, heap') /\ NamesOK(Codes, heap', globals')
      /\ GoodSeq(Codes, heap', one) /\ Len(one) = Pushes(Inst)
  BY <1>1, <1>2, <1>3, TopFacts
<1> QED
  BY <1>1, <1>2, <1>4, PassKeeps

LEMMA LenKeeps ==
  ASSUME Ready, Inst[1] = "CALL_FUNCTION", Inst[2] = 1, NEW args, CallLen(args)
  PROVE  IInv'
<1> DEFINE v == IF IsList(args[1]) THEN Num(Len(heap[args[1][2]].elems))
                ELSE Term("len", args)
<1>1. Pass(2, <<v>>) /\ Local
  BY DEF CallLen
<1>2. 2 = Pops(Inst) /\ 2 \in Nat /\ Inst[1] \notin Branching /\ Pushes(Inst) = 1
  BY CallHere
<1>3. Good(Codes, heap, v)
  BY GoodMade
<1> HIDE DEF v
<1> QED
  BY <1>1, <1>2, <1>3, PushKeeps

LEMMA RangeKeeps ==
  ASSUME Ready, Inst[1] = "CALL_FUNCTION", NEW args, CallRange(Inst[2], args)
  PROVE  IInv'
<1> DEFINE k == Inst[2]
           n == k + 1
           obj == [kind |-> "range", exhausted |-> FALSE,
                   start |-> IF k \in {2, 3} THEN args[1][2] ELSE 0,
                   end |-> IF k = 1 THEN args[1][2] ELSE IF k \in {2, 3} THEN args[2][2] ELSE 0,
                   step |-> IF k = 3 THEN args[3][2] ELSE 1]
<1>1. Raise \/ Allocate(n, obj)
  BY DEF CallRange
<1>2. n = Pops(Inst) /\ n \in Nat /\ Inst[1] \notin Branching /\ Pushes(Inst) = 1
  BY CallHere
<1>3. obj.kind = "range" /\ obj \in [kind : {"range"}, exhausted : {obj.exhausted},
                                     start : {obj.start}, end : {obj.end}, step : {obj.step}]
  OBVIOUS
<1> HIDE DEF obj, n
<1>4. GoodObject(Codes, heap, frames, obj) /\ obj.kind # "generator"
  BY <1>3 DEF GoodObject
<1> QED
  BY <1>1, <1>2, <1>4, AllocateKeeps, RaiseKeeps

LEMMA AppendKeeps ==
  ASSUME Ready, Inst[1] = "CALL_FUNCTION", Inst[2] = 1, NEW h \in 1..Len(heap),
         heap[h].kind = "list", NEW v, Good(Codes, heap, v), ListAppend(h, v)
  PROVE  IInv'
<1> DEFINE elems == heap[h].elems
           es == Append(elems, v)
           obj == [heap[h] EXCEPT !.elems = es]
           one == <<None>>
<1>1. /\ heap' = Updated(heap, h, obj) /\ Pass(2, one)
      /\ UNCHANGED <<program, status, calls, globals, out>>
  BY DEF ListAppend, Updated
<1>2. 2 = Pops(Inst) /\ 2 \in Nat /\ Inst[1] \notin Branching /\ Pushes(Inst) = 1
  BY CallHere
<1>3. GoodSeq(Codes, heap, one) /\ Len(one) = 1
  BY GoodMade, GoodDisplayed, Displayed
<1>4. GoodObject(Codes, heap, frames, heap[h])
  BY TopFacts DEF HeapOK
<1>5. heap[h] \in [kind : {"list"}, elems : {elems}] /\ GoodSeq(Codes, heap, elems)
  BY <1>4 DEF GoodObject
<1> HIDE DEF elems, one
<1>6. IsSeq(elems) /\ Len(elems) \in Nat
  BY <1>5, SeqLength DEF GoodSeq
<1>7. /\ IsSeq(es) /\ Len(es) = Len(elems) + 1
      /\ \A i \in 1..Len(elems) : es[i] = elems[i]
      /\ es[Len(elems) + 1] = v
  BY <1>6, Appended
<1> HIDE DEF es
<1>8. GoodSeq(Codes, heap, es)
  <2>1. ASSUME NEW i \in 1..Len(es) PROVE Good(Codes, heap, es[i])
    <3>1. i \in 1..Len(elems) \/ i = Len(elems) + 1
      BY <1>6, <1>7
    <3> QED
      BY <1>5, <1>7, <3>1 DEF GoodSeq
  <2> QED
    BY <1>7, <2>1 DEF GoodSeq
<1>9. obj.kind = "list" /\ obj.elems = es /\ obj \in [kind : {"list"}, elems : {obj.elems}]
  BY <1>5
<1> HIDE DEF obj
<1>10. GoodObject(Codes, heap, frames, obj) /\ obj.kind = heap[h].kind
  BY <1>8, <1>9 DEF GoodObject
<1>11. heap[h].kind # "generator" /\ Len(one) = Pushes(Inst)
  BY <1>2, <1>3
<1> QED
  BY <1>1, <1>2, <1>3, <1>10, <1>11, ChangeKeeps
-----------------------------------------------------------------------------
(* Calls that begin an evaluation.                                          *)

LEMMA StateKept ==
  ASSUME Ready, program' = program,
         StateOK(Codes, TheFlows, frames', calls', globals', heap')
  PROVE  IInv'
<1>1. ProgramOK'
  BY DEF Ready, ProgramOK
<1>2. Codes' = Codes /\ Flows[program.id]' = TheFlows
  BY DEF Codes, TheFlows
<1>3. StateOK(Codes, Flows[program.id], frames, calls, globals, heap)'
  BY <1>2
<1> QED
  BY <1>1, <1>3 DEF IInv

(* A generator that is resumed is evaluated by no activation.               *)
LEMMA ResumeKeeps ==
  ASSUME Ready, OrdinaryGenerators', NEW n, n = Pops(Inst), n \in Nat,
         Inst[1] \in {"CALL_FUNCTION", "FOR_ITER"}, NEW h \in 1..Len(heap),
         IsBody(heap, h), ~heap[h].exhausted, NEW sent, Good(Codes, heap, sent),
         Resume(n, h, sent)
  PROVE  IInv'
<1> DEFINE x == Popped(Top, n, <<>>)
           e == calls[1].frame
           f == heap[h].frame
           c == Activation(f, h)
           stack == Append(frames[f].stack, sent)
           y == [frames[f] EXCEPT !.stack = stack]
           one == <<c>>
<1>1. /\ calls' = <<c>> \o calls /\ program' = program /\ status' = status
      /\ globals' = globals /\ heap' = heap
      /\ frames' = [Replace(x) EXCEPT ![f].stack = Append(@, sent)]
  BY DEF Resume
<1>2. /\ GoodFrame(Codes, heap, x) /\ x.code = frames[e].code
      /\ Awaits(Codes, TheFlows, x, TRUE)
  BY WaitingHere DEF Top
<1>3. /\ HeapOK(Codes, frames, heap) /\ CallsOK(Codes, frames, calls, heap)
      /\ FramesOK(Codes, frames, heap) /\ DepthOK(Codes, TheFlows, frames, calls, heap)
      /\ IsSeq(calls) /\ Len(calls) \in Nat /\ 1 \in 1..Len(calls) /\ IsSeq(heap)
      /\ Len(heap) \in Nat /\ IsSeq(frames)
  BY TopFacts
<1>4. f \in 1..Len(frames) /\ Codes[frames[f].code].isGenerator
  BY <1>3, BodiesFrames
<1>5. c.frame = f /\ c.gen = h /\ c \in [frame : 1..Len(frames), gen : 0..Len(heap)]
      /\ c.gen # 0
  BY <1>3, <1>4 DEF Activation
<1>6. ~Active(calls, h)
  <2>1. IsSeq(one) /\ Len(one) = 1 /\ one[1] = c
    BY Displayed
  <2> HIDE DEF one, c
  <2>2. /\ IsSeq(one \o calls) /\ Len(one \o calls) = Len(one) + Len(calls)
        /\ \A i \in 1..Len(one) + Len(calls) :
             (one \o calls)[i] = IF i <= Len(one) THEN one[i] ELSE calls[i - Len(one)]
    BY ONLY <1>3, <2>1, Joined
  <2>3. calls' = one \o calls
    BY <1>1 DEF one
  <2>4. ASSUME NEW k \in 1..Len(calls), calls[k].gen = h PROVE FALSE
    <3> DEFINE j == k + 1
    <3>1. j \in 1..Len(one \o calls) /\ j > 1 /\ j - 1 = k /\ 1 \in 1..Len(one \o calls)
      BY <1>3, <2>1, <2>2
    <3>2. (one \o calls)[1] = c /\ (one \o calls)[j] = calls[k]
      BY <1>3, <2>1, <2>2, <3>1
    <3>3. DOMAIN calls' = 1..Len(one \o calls)
      BY <2>2, <2>3, SeqLength
    <3> HIDE DEF j
    <3>4. calls'[1].gen = h /\ calls'[j].gen = h /\ h # 0
      BY <1>3, <1>5, <2>3, <2>4, <3>2
    <3>5. \A a, b \in DOMAIN calls' : calls'[a].gen = calls'[b].gen /\ calls'[b].gen # 0 => a = b
      BY <1>1 DEF OrdinaryGenerators, Ready
    <3>6. 1 = j
      BY <3>1, <3>3, <3>4, <3>5
    <3> QED
      BY <3>1, <3>6
  <2> QED
    BY <2>4 DEF Active
<1>7. \A k \in 1..Len(calls) : calls[k].frame # f
  BY <1>3, <1>6, OtherFrames DEF Active
<1>8. AtDepth(TheFlows, frames[f], Len(frames[f].stack) + 1)
  BY <1>3, <1>6 DEF DepthOK
<1>9. GoodFrame(Codes, heap, frames[f])
  BY <1>3, <1>4 DEF FramesOK
<1> HIDE DEF x, e, c
<1>10. e # f
  BY <1>3, <1>7 DEF e
<1>11. frames' = Updated(Updated(frames, e, x), f, y)
  <2>1. e \in 1..Len(frames) /\ IsSeq(frames)
    BY TopFacts DEF e
  <2> DEFINE fs == Updated(frames, e, x)
  <2>2. fs[f] = frames[f]
    BY <1>4, <1>10, <2>1, Replaced
  <2>3. fs = Replace(x)
    BY DEF Updated, Replace, e
  <2> HIDE DEF fs
  <2>4. frames' = Updated(fs, f, [fs[f] EXCEPT !.stack = Append(fs[f].stack, sent)])
    BY <1>1, <2>3 DEF Updated
  <2> QED
    BY <2>2, <2>4 DEF fs
<1> HIDE DEF f
<1>12. /\ GoodSeq(Codes, heap, stack) /\ Len(stack) = Len(frames[f].stack) + 1
  <2> DEFINE s == frames[f].stack
  <2>1. GoodSeq(Codes, heap, s) /\ IsSeq(s) /\ Len(s) \in Nat
    BY <1>9, SeqLength DEF GoodFrame, GoodSeq
  <2> HIDE DEF s
  <2>2. /\ IsSeq(Append(s, sent)) /\ Len(Append(s, sent)) = Len(s) + 1
        /\ \A i \in 1..Len(s) : Append(s, sent)[i] = s[i]
        /\ Append(s, sent)[Len(s) + 1] = sent
    BY <2>1, Appended
  <2>3. ASSUME NEW i \in 1..Len(Append(s, sent))
        PROVE  Good(Codes, heap, Append(s, sent)[i])
    <3>1. i \in 1..Len(s) \/ i = Len(s) + 1
      BY <2>1, <2>2
    <3> QED
      BY <2>1, <2>2, <3>1 DEF GoodSeq
  <2>4. GoodSeq(Codes, heap, Append(s, sent))
    BY <2>2, <2>3 DEF GoodSeq
  <2> QED
    BY <2>2, <2>4 DEF s
<1> HIDE DEF stack
<1>13. /\ y.code = frames[f].code /\ y.pc = frames[f].pc /\ y.stack = stack
       /\ y.fast = frames[f].fast /\ y.locals = frames[f].locals
       /\ y \in [code : DOMAIN Codes, pc : Nat, stack : {y.stack}, fast : {y.fast},
                 locals : {y.locals}]
  BY <1>9 DEF GoodFrame
<1> HIDE DEF y
<1>14. GoodFrame(Codes, heap, y)
  BY <1>9, <1>12, <1>13, FrameChanged
<1>15. AtDepth(TheFlows, y, Len(y.stack))
  BY <1>8, <1>12, <1>13 DEF AtDepth
<1>16. GoodCall(Codes, frames, heap, c)
  BY <1>5 DEF GoodCall, f
<1>17. IF c.gen = 0 THEN Awaits(Codes, TheFlows, x, FALSE)
       ELSE Awaits(Codes, TheFlows, x, TRUE)
  BY <1>2, <1>5
<1>18. StateOK(Codes, TheFlows, frames, calls, globals, heap)
  BY DEF Ready
<1>19. /\ \A k \in 1..Len(calls) : calls[k].frame # c.frame
       /\ x.code = frames[calls[1].frame].code /\ y.code = frames[c.frame].code
  BY <1>2, <1>5, <1>7, <1>13 DEF e
<1>20. StateOK(Codes, TheFlows, Updated(Updated(frames, calls[1].frame, x), c.frame, y),
               Began(c, calls), globals, heap)
  BY ONLY <1>2, <1>14, <1>15, <1>16, <1>17, <1>18, <1>19, CallBegun
<1>21. /\ frames' = Updated(Updated(frames, calls[1].frame, x), c.frame, y)
       /\ calls' = Began(c, calls)
  BY <1>1, <1>5, <1>11 DEF Began, e
<1>22. StateOK(Codes, TheFlows, frames', calls', globals', heap')
  BY <1>1, <1>20, <1>21
<1> QED
  BY <1>1, <1>22, StateKept

LEMMA AdvanceKeeps ==
  ASSUME Ready, OrdinaryGenerators', NEW n, n = Pops(Inst), n \in Nat,
         Inst[1] \in {"CALL_FUNCTION", "FOR_ITER"}, NEW v, Good(Codes, heap, v),
         NEW sent, Good(Codes, heap, sent), Advance(n, v, sent)
  PROVE  IInv'
<1> DEFINE h == v[2]
           obj == heap[h]
<1>1. \/ Raise
      \/ /\ HasNext(v) /\ obj.kind = "listiter"
         /\ Answer(n, v, ListNext(heap, h).value, ListNext(heap, h).heap)
      \/ Answer(n, v, IterDone, heap)
      \/ /\ IsGenerator(v) /\ obj.kind = "range"
         /\ Answer(n, v, Num(obj.start), [heap EXCEPT ![h] = RangeAfter(obj)])
      \/ /\ IsGenerator(v) /\ obj.kind = "generator" /\ ~obj.exhausted
         /\ Resume(n, h, sent)
  BY DEF Advance, HasNext, IsGenerator
<1>2. IsGenerator(v) => HasNext(v)
  BY DEF HasNext
<1>3. HasNext(v) => h \in 1..Len(heap) /\ GoodObject(Codes, heap, frames, obj)
  <2>1. HasNext(v) => h \in 1..Len(heap)
    BY DEF HasNext, IsGenerator, IsRef, Good
  <2> QED
    BY <2>1, TopFacts DEF HeapOK
<1>4. FramesOK(Codes, frames, heap) /\ HeapOK(Codes, frames, heap)
      /\ SameBodies(Codes, frames, heap, heap)
  BY TopFacts
<1>5. Good(Codes, heap, IterDone) /\ Good(Codes, heap, Num(obj.start))
  BY GoodMade
<1>6. CASE /\ HasNext(v) /\ obj.kind = "listiter"
           /\ Answer(n, v, ListNext(heap, h).value, ListNext(heap, h).heap)
  <2> DEFINE es == heap[obj.list].elems
             next == [obj EXCEPT !.index = obj.index + 1]
             hp2 == Updated(heap, h, next)
             w == es[obj.index + 1]
  <2>1. h \in 1..Len(heap) /\ obj \in [kind : {"listiter"}, list : 1..Len(heap), index : Nat]
        /\ heap[obj.list].kind = "list"
    BY <1>3, <1>6 DEF GoodObject
  <2>2. GoodObject(Codes, heap, frames, heap[obj.list])
    BY <1>4, <2>1 DEF HeapOK
  <2>3. GoodSeq(Codes, heap, es) /\ Len(es) \in Nat
    BY <2>1, <2>2, SeqLength DEF GoodObject, GoodSeq
  <2>4. \/ ListNext(heap, h).value = IterDone /\ ListNext(heap, h).heap = heap
        \/ /\ obj.index < Len(es) /\ ListNext(heap, h).value = w
           /\ ListNext(heap, h).heap = hp2
    <3> DEFINE k == Len(es)
               last == obj.index >= k
    <3>1. /\ ListNext(heap, h).value = IF last THEN IterDone ELSE w
          /\ ListNext(heap, h).heap = IF last THEN heap ELSE hp2
      BY ONLY DEF ListNext, Updated
    <3>2. last \/ obj.index < k
      <4>1. obj.index \in Nat /\ k \in Nat
        BY <2>1, <2>3
      <4> HIDE DEF k
      <4> QED
        BY ONLY <4>1
    <3> HIDE DEF last, w, hp2
    <3> QED
      BY ONLY <3>1, <3>2
  <2>5. CASE ListNext(heap, h).value = IterDone /\ ListNext(heap, h).heap = heap
    <3>1. Answer(n, v, IterDone, heap)
      BY <1>6, <2>5
    <3> QED
      BY <1>4, <1>5, <3>1, AnswerKeeps
  <2>6. CASE /\ obj.index < Len(es) /\ ListNext(heap, h).value = w
             /\ ListNext(heap, h).heap = hp2
    <3>1. Answer(n, v, w, hp2)
      BY <1>6, <2>6
    <3>2. Good(Codes, heap, w)
      <4>1. obj.index + 1 \in 1..Len(es)
        BY <2>1, <2>3, <2>6
      <4> QED
        BY <2>3, <4>1 DEF GoodSeq
    <3>3. SameBodies(Codes, frames, heap, hp2)
      <4>1. /\ next.kind = obj.kind /\ next.list = obj.list /\ obj.kind = "listiter"
            /\ next \in [kind : {"listiter"}, list : 1..Len(heap), index : Nat]
        BY <2>1
      <4> HIDE DEF next
      <4>2. GoodObject(Codes, heap, frames, next)
        BY <2>1, <4>1 DEF GoodObject
      <4> QED
        BY <1>4, <2>1, <4>1, <4>2, ObjectChanged
    <3> HIDE DEF w, hp2
    <3> QED
      BY <3>1, <3>2, <3>3, AnswerKeeps
  <2> QED
    BY <2>4, <2>5, <2>6
<1>7. CASE Answer(n, v, IterDone, heap)
  BY <1>4, <1>5, <1>7, AnswerKeeps
<1>8. CASE /\ IsGenerator(v) /\ obj.kind = "range"
           /\ Answer(n, v, Num(obj.start), [heap EXCEPT ![h] = RangeAfter(obj)])
  <2> DEFINE next == RangeAfter(obj)
             hp2 == Updated(heap, h, next)
             w == Num(obj.start)
  <2>1. Answer(n, v, w, hp2) /\ Good(Codes, heap, w)
    BY <1>5, <1>8 DEF Updated
  <2>2. h \in 1..Len(heap)
        /\ obj \in [kind : {"range"}, exhausted : {obj.exhausted}, start : {obj.start},
                    end : {obj.end}, step : {obj.step}]
    BY <1>2, <1>3, <1>8 DEF GoodObject
  <2>3. /\ next.kind = "range"
        /\ next \in [kind : {"range"}, exhausted : {next.exhausted}, start : {next.start},
                     end : {next.end}, step : {next.step}]
    BY <2>2 DEF RangeAfter
  <2> HIDE DEF next, w
  <2>4. GoodObject(Codes, heap, frames, next) /\ next.kind = obj.kind
        /\ obj.kind # "generator"
    BY <1>8, <2>3 DEF GoodObject
  <2>5. SameBodies(Codes, frames, heap, hp2)
    BY <1>4, <2>2, <2>4, ObjectChanged
  <2> HIDE DEF hp2
  <2> QED
    BY <2>1, <2>5, AnswerKeeps
<1>9. CASE /\ IsGenerator(v) /\ obj.kind = "generator" /\ ~obj.exhausted
           /\ Resume(n, h, sent)
  <2>1. h \in 1..Len(heap) /\ IsBody(heap, h) /\ ~heap[h].exhausted /\ Resume(n, h, sent)
    BY <1>2, <1>3, <1>9 DEF IsBody
  <2> QED
    BY <2>1, ResumeKeeps
<1> QED
  BY <1>1, <1>6, <1>7, <1>8, <1>9, RaiseKeeps

LEMMA ForIterKeeps ==
  ASSUME Ready, OrdinaryGenerators', EvalForIter PROVE IInv'
<1> DEFINE v == Operand(1)
<1>1. Inst[1] = "FOR_ITER" /\ Advance(1, v, None)
  BY DEF EvalForIter, At
<1>2. 1 = Pops(Inst) /\ 1 \in Nat /\ 1 \in 1..Len(Top.stack)
  BY <1>1, Arities, TopFacts, CodeFacts
<1>3. Good(Codes, heap, v) /\ Good(Codes, heap, None)
  BY <1>2, OperandGood, GoodMade
<1> HIDE DEF v
<1> QED
  BY <1>1, <1>2, <1>3, AdvanceKeeps

LEMMA BuiltinKeeps ==
  ASSUME Ready, OrdinaryGenerators', Inst[1] = "CALL_FUNCTION", NEW x,
         CallBuiltin(x, Inst[2], Operands(Inst[2]))
  PROVE  IInv'
<1> DEFINE n == Inst[2]
           args == Operands(n)
           v == args[1]
           more == n + 1
<1>1. \/ CallPrint(n, args) \/ CallRange(n, args)
      \/ n = 1 /\ CallLen(args)
      \/ n = 1 /\ Advance(2, v, None)
      \/ n = 1 /\ Iterate(2, v)
      \/ Raise
  BY DEF CallBuiltin
<1>2. /\ more = Pops(Inst) /\ Inst[1] \notin Branching /\ Pushes(Inst) = 1 /\ n \in Nat
      /\ GoodSeq(Codes, heap, args) /\ Len(args) = n
  BY CallHere
<1>3. n = 1 => 2 = Pops(Inst) /\ 2 \in Nat /\ Good(Codes, heap, v)
  BY <1>2 DEF GoodSeq
<1>4. Good(Codes, heap, None)
  BY GoodMade
<1> HIDE DEF args, v
<1>5. CASE CallPrint(n, args) \/ CallRange(n, args) \/ (n = 1 /\ CallLen(args)) \/ Raise
  BY <1>5, PrintKeeps, RangeKeeps, LenKeeps, RaiseKeeps
<1>6. CASE n = 1 /\ Advance(2, v, None)
  BY <1>3, <1>4, <1>6, AdvanceKeeps
<1>7. CASE n = 1 /\ Iterate(2, v)
  BY <1>2, <1>3, <1>7, IterateKeeps
<1> QED
  BY <1>1, <1>5, <1>6, <1>7

LEMMA MethodKeeps ==
  ASSUME Ready, OrdinaryGenerators', Inst[1] = "CALL_FUNCTION",
         NEW h \in 1..Len(heap), NEW x, x = "append" => heap[h].kind = "list",
         CallMethod(h, x, Inst[2], Operands(Inst[2]))
  PROVE  IInv'
<1> DEFINE n == Inst[2]
           args == Operands(n)
           v == args[1]
           r == Ref(h)
           more == n + 1
<1>1. \/ n > 0 /\ Advance(more, r, v)
      \/ n = 0 /\ Advance(1, r, None)
      \/ x = "append" /\ n = 1 /\ ListAppend(h, v)
      \/ Raise
  BY DEF CallMethod
<1>2. /\ more = Pops(Inst) /\ more \in Nat /\ Inst[1] \notin Branching /\ Pushes(Inst) = 1
      /\ GoodSeq(Codes, heap, args) /\ Len(args) = n /\ n \in Nat
  BY CallHere
<1>3. n > 0 => Good(Codes, heap, v)
  BY <1>2 DEF GoodSeq
<1>4. Good(Codes, heap, None) /\ Good(Codes, heap, r)
  BY GoodMade
<1>5. n = 0 => 1 = Pops(Inst) /\ 1 \in Nat
  BY <1>2
<1> HIDE DEF args, v, r, more
<1>6. CASE n > 0 /\ Advance(more, r, v)
  BY <1>2, <1>3, <1>4, <1>6, AdvanceKeeps
<1>7. CASE n = 0 /\ Advance(1, r, None)
  BY <1>4, <1>5, <1>7, AdvanceKeeps
<1>8. CASE x = "append" /\ n = 1 /\ ListAppend(h, v)
  BY <1>3, <1>8, AppendKeeps
<1> QED
  BY <1>1, <1>6, <1>7, <1>8, RaiseKeeps

LEMMA CallNativeKeeps ==
  ASSUME Ready, OrdinaryGenerators', CallNative PROVE IInv'
<1> DEFINE f == Operand(Inst[2] + 1)
<1>1. Inst[1] = "CALL_FUNCTION"
  BY DEF CallNative, At
<1>2. Good(Codes, heap, f)
  BY <1>1, CallHere
<1>3. \/ CallBuiltin(f[2], Inst[2], Operands(Inst[2]))
      \/ f[1] = "method" /\ CallMethod(f[2], f[3], Inst[2], Operands(Inst[2]))
      \/ Raise
  BY DEF CallNative
<1>4. f[1] = "method" => f[2] \in 1..Len(heap) /\ (f[3] = "append" => heap[f[2]].kind = "list")
  BY <1>2 DEF Good
<1> HIDE DEF f
<1> QED
  BY <1>1, <1>3, <1>4, BuiltinKeeps, MethodKeeps, RaiseKeeps

Nones(k) == [i \in 1..k |-> None]

LEMMA NonesGood ==
  ASSUME NEW codes, NEW hp, NEW k \in Int
  PROVE  GoodSeq(codes, hp, Nones(k)) /\ Len(Nones(k)) = IF k >= 0 THEN k ELSE 0
<1> DEFINE s == Nones(k)
           n == IF k >= 0 THEN k ELSE 0
<1>1. n \in Nat /\ 1..k = 1..n
  OBVIOUS
<1>2. s = [i \in 1..n |-> None]
  BY <1>1 DEF Nones
<1> HIDE DEF s, n
<1>3. s \in Seq({None}) /\ Len(s) = n /\ \A i \in 1..n : s[i] = None
  BY <1>1, <1>2
<1>4. IsSeq(s) /\ \A i \in 1..Len(s) : Good(codes, hp, s[i])
  BY <1>3, SeqIsSeq, GoodMade
<1>5. GoodSeq(codes, hp, s)
  BY <1>4 DEF GoodSeq
<1> QED
  BY <1>3, <1>5 DEF s, n

(* A function's frame, when it begins.                                      *)
LEMMA CallFrameGood ==
  ASSUME Ready, NEW c \in DOMAIN Codes, NEW args, GoodSeq(Codes, heap, args)
  PROVE  /\ GoodFrame(Codes, heap, CallFrame(c, args))
         /\ CallFrame(c, args).code = c
         /\ ~Codes[c].isGenerator =>
              AtDepth(TheFlows, CallFrame(c, args), Len(CallFrame(c, args).stack))
         /\ Codes[c].isGenerator =>
              AtDepth(TheFlows, CallFrame(c, args), Len(CallFrame(c, args).stack) + 1)
<1> DEFINE nLocals == Codes[c].nLocals
           more == Nones(nLocals - Len(args))
           fast == args \o more
           fr == CallFrame(c, args)
<1>1. nLocals \in Nat /\ Entry(Codes[c]) \in TheFlows[c]
  BY DEF Ready, VerifiedProgram, Verified
<1>2. Len(args) \in Nat
  BY SeqLength DEF GoodSeq
<1>3. GoodSeq(Codes, heap, more) /\ Len(more) >= nLocals - Len(args) /\ Len(more) \in Nat
  <2> DEFINE k == nLocals - Len(args)
  <2>1. k \in Int
    BY <1>1, <1>2
  <2> HIDE DEF k
  <2>2. GoodSeq(Codes, heap, Nones(k)) /\ Len(Nones(k)) = IF k >= 0 THEN k ELSE 0
    BY <2>1, NonesGood
  <2> QED
    BY <2>1, <2>2 DEF k
<1> HIDE DEF more, nLocals
<1>4. GoodSeq(Codes, heap, fast) /\ Len(fast) >= nLocals
  <2>1. GoodSeq(Codes, heap, args \o more) /\ Len(args \o more) = Len(args) + Len(more)
    BY ONLY <1>3, GoodSeq(Codes, heap, args), GoodJoined
  <2> QED
    BY <1>1, <1>2, <1>3, <2>1
<1>5. /\ fr.code = c /\ fr.pc = 0 /\ fr.stack = <<>> /\ fr.locals = <<>> /\ fr.fast = fast
      /\ fr \in [code : DOMAIN Codes, pc : Nat, stack : {fr.stack}, fast : {fr.fast},
                 locals : {fr.locals}]
  BY DEF CallFrame, NewFrame, Nones, more, nLocals
<1>6. GoodSeq(Codes, heap, <<>>) /\ Len(<<>>) = 0 /\ DOMAIN <<>> = {}
  BY GoodNothing
<1> HIDE DEF fr, fast
<1>7. GoodFrame(Codes, heap, fr)
  <2>1. GoodSeq(Codes, heap, fr.stack) /\ DOMAIN fr.locals = {}
    BY <1>5, <1>6
  <2>2. GoodSeq(Codes, heap, fr.fast) /\ Len(fr.fast) >= Codes[fr.code].nLocals
    BY <1>4, <1>5 DEF nLocals
  <2> QED
    BY <1>5, <2>1, <2>2 DEF GoodFrame
<1>8. Len(fr.stack) = 0
  BY <1>5, <1>6
<1>9. /\ ~Codes[c].isGenerator => AtDepth(TheFlows, fr, Len(fr.stack))
      /\ Codes[c].isGenerator => AtDepth(TheFlows, fr, Len(fr.stack) + 1)
  BY <1>1, <1>5, <1>8 DEF AtDepth, Entry
<1> QED
  BY <1>5, <1>7, <1>9 DEF fr

LEMMA UpdatedAppend ==
  ASSUME NEW s, IsSeq(s), NEW i \in 1..Len(s), NEW v, NEW w
  PROVE  Append(Updated(s, i, v), w) = Updated(Append(s, w), i, v)
<1> DEFINE S == {s[k] : k \in 1..Len(s)} \cup {v, w}
<1>1. s \in Seq(S) /\ v \in S /\ w \in S /\ Len(s) \in Nat
  BY SeqLength DEF IsSeq
<1> HIDE DEF S
<1> DEFINE l == Append(Updated(s, i, v), w)
           r == Updated(Append(s, w), i, v)
<1>2. Updated(s, i, v) \in Seq(S) /\ Len(Updated(s, i, v)) = Len(s)
  BY <1>1, ExceptSeq DEF Updated
<1>3. l \in Seq(S) /\ Len(l) = Len(s) + 1
  BY <1>1, <1>2
<1>4. Append(s, w) \in Seq(S) /\ Len(Append(s, w)) = Len(s) + 1 /\ i \in 1..Len(s) + 1
  BY <1>1
<1>5. r \in Seq(S) /\ Len(r) = Len(s) + 1
  BY <1>1, <1>4, ExceptSeq DEF Updated
<1>6. \A j \in 1..Len(s) + 1 : l[j] = r[j]
  <2> DEFINE t == Updated(s, i, v)
             u == Append(s, w)
  <2>1. /\ IsSeq(t) /\ Len(t) = Len(s) /\ t[i] = v
        /\ \A j \in 1..Len(s) : j # i => t[j] = s[j]
    BY Replaced
  <2>2. /\ IsSeq(u) /\ Len(u) = Len(s) + 1 /\ u[Len(s) + 1] = w
        /\ \A j \in 1..Len(s) : u[j] = s[j]
    BY Appended
  <2>3. l = Append(t, w) /\ r = Updated(u, i, v)
    OBVIOUS
  <2> HIDE DEF t, u, l, r
  <2>4. /\ l[Len(s) + 1] = w /\ \A j \in 1..Len(s) : l[j] = t[j]
    BY <2>1, <2>3, Appended
  <2>5. /\ r[i] = v /\ \A j \in 1..Len(s) + 1 : j # i => r[j] = u[j]
    BY <1>4, <2>2, <2>3, Replaced
  <2>6. \A j \in 1..Len(s) + 1 : j \in 1..Len(s) \/ (j = Len(s) + 1 /\ j # i)
    BY <1>1
  <2> QED
    BY <1>4, <2>1, <2>2, <2>4, <2>5, <2>6
<1> HIDE DEF l, r
<1>7. l = r
  BY <1>3, <1>5, <1>6, SeqEqual
<1> QED
  BY <1>7 DEF l, r

LEMMA CallFunctionKeeps ==
  ASSUME Ready, Inst[1] = "CALL_FUNCTION", NEW c \in DOMAIN Codes,
         ~Codes[c].isGenerator, CallFunction(c, Inst[2])
  PROVE  IInv'
<1> DEFINE n == Inst[2] + 1
           x == Popped(Top, n, <<>>)
           y == CallFrame(c, Operands(Inst[2]))
           e == calls[1].frame
           last == Len(frames) + 1
           a == Activation(last, 0)
           fs == Append(frames, y)
<1>1. /\ frames' = Append(Updated(frames, e, x), y) /\ calls' = Began(a, calls)
      /\ program' = program /\ globals' = globals /\ heap' = heap
  BY DEF CallFunction, Replace, Updated, Began
<1>2. /\ IsSeq(frames) /\ Len(frames) \in Nat /\ e \in 1..Len(frames)
      /\ IsSeq(calls) /\ 1 \in 1..Len(calls) /\ CallsOK(Codes, frames, calls, heap)
      /\ IsSeq(heap) /\ Len(heap) \in Nat
  BY TopFacts
<1>3. GoodFrame(Codes, heap, x) /\ x.code = frames[e].code
      /\ Awaits(Codes, TheFlows, x, FALSE)
  BY CallHere, WaitingHere DEF Top
<1>4. GoodFrame(Codes, heap, y) /\ y.code = c /\ AtDepth(TheFlows, y, Len(y.stack))
  BY CallHere, CallFrameGood
<1> HIDE DEF n, x, y, fs
<1>5. StateOK(Codes, TheFlows, frames, calls, globals, heap)
  BY DEF Ready
<1>6. /\ StateOK(Codes, TheFlows, fs, calls, globals, heap)
      /\ Len(fs) = last /\ fs[last] = y
      /\ \A j \in 1..Len(frames) : fs[j] = frames[j]
  BY <1>4, <1>5, FrameAdded DEF fs
<1>7. a.frame = last /\ a.gen = 0 /\ last \in 1..Len(fs)
      /\ a \in [frame : 1..Len(fs), gen : 0..Len(heap)]
  BY <1>2, <1>6 DEF Activation
<1> HIDE DEF a
<1>8. GoodCall(Codes, fs, heap, a)
  BY <1>4, <1>6, <1>7 DEF GoodCall
<1>9. \A k \in 1..Len(calls) : calls[k].frame # a.frame
  BY <1>2, <1>7 DEF CallsOK, GoodCall
<1>10. x.code = fs[calls[1].frame].code /\ y.code = fs[a.frame].code
       /\ IF a.gen = 0 THEN Awaits(Codes, TheFlows, x, FALSE)
          ELSE Awaits(Codes, TheFlows, x, TRUE)
  BY <1>2, <1>3, <1>6, <1>7
<1>11. StateOK(Codes, TheFlows, Updated(Updated(fs, calls[1].frame, x), a.frame, y),
               Began(a, calls), globals, heap)
  BY ONLY <1>3, <1>4, <1>6, <1>8, <1>9, <1>10, CallBegun
<1>12. Updated(Updated(fs, e, x), last, y) = Updated(fs, e, x)
  <2>1. IsSeq(fs) /\ e \in 1..Len(fs) /\ e # last
    BY <1>2, <1>6 DEF StateOK, FramesOK
  <2> DEFINE fs1 == Updated(fs, e, x)
  <2>2. IsSeq(fs1) /\ last \in 1..Len(fs1) /\ fs1[last] = y
    BY <1>6, <1>7, <2>1, Replaced
  <2> HIDE DEF fs1
  <2>3. Updated(fs1, last, y) = fs1
    BY <2>2, SeqLength DEF Updated, IsSeq
  <2> QED
    BY <2>3 DEF fs1
<1>13. frames' = Updated(fs, e, x)
  BY <1>1, <1>2, UpdatedAppend DEF fs
<1>14. StateOK(Codes, TheFlows, frames', calls', globals', heap')
  BY <1>1, <1>7, <1>11, <1>12, <1>13
<1> QED
  BY <1>1, <1>14, StateKept

LEMMA CallGeneratorKeeps ==
  ASSUME Ready, Inst[1] = "CALL_FUNCTION", NEW c \in DOMAIN Codes,
         Codes[c].isGenerator, CallGenerator(c, Inst[2])
  PROVE  IInv'
<1> DEFINE n == Inst[2] + 1
           v == Ref(Len(heap) + 1)
           one == <<v>>
           x == Passed(Top, n, one)
           y == CallFrame(c, Operands(Inst[2]))
           e == calls[1].frame
           last == Len(frames) + 1
           fs == Append(frames, y)
           hp == Append(heap, Body(last))
<1>1. /\ frames' = Append(Updated(frames, e, x), y) /\ calls' = calls
      /\ program' = program /\ globals' = globals /\ heap' = hp
  BY DEF CallGenerator, Replace, Updated, Body
<1>2. /\ IsSeq(frames) /\ Len(frames) \in Nat /\ e \in 1..Len(frames)
      /\ IsSeq(calls) /\ 1 \in 1..Len(calls) /\ CallsOK(Codes, frames, calls, heap)
      /\ HeapOK(Codes, frames, heap)
  BY TopFacts
<1>3. GoodFrame(Codes, heap, y) /\ y.code = c /\ AtDepth(TheFlows, y, Len(y.stack) + 1)
  BY CallHere, CallFrameGood
<1>4. n = Pops(Inst) /\ n \in Nat /\ Inst[1] \notin Branching /\ Pushes(Inst) = 1
  BY CallHere
<1> HIDE DEF n, y, fs
<1>5. StateOK(Codes, TheFlows, frames, calls, globals, heap)
  BY DEF Ready
<1>6. /\ StateOK(Codes, TheFlows, fs, calls, globals, heap)
      /\ Len(fs) = last /\ fs[last] = y
      /\ \A j \in 1..Len(frames) : fs[j] = frames[j]
  BY <1>3, <1>5, FrameAdded DEF fs
<1>7. last \in 1..Len(fs) /\ last \notin 1..Len(frames)
  BY <1>2, <1>6
<1>8. \A h \in 1..Len(heap) : IsBody(heap, h) => heap[h].frame # last
  BY <1>2, <1>7, BodiesFrames
<1> HIDE DEF last, hp
<1>9. Codes[fs[last].code].isGenerator /\ AtDepth(TheFlows, fs[last], Len(fs[last].stack) + 1)
  BY <1>3, <1>6
<1>10. /\ StateOK(Codes, TheFlows, fs, calls, globals, hp)
       /\ Grows(heap, hp) /\ Len(heap) + 1 \in 1..Len(hp)
  BY <1>6, <1>7, <1>8, <1>9, BodyAdded DEF hp
<1>11. Good(Codes, hp, v)
  BY <1>10, GoodMade
<1> HIDE DEF v
<1>12. GoodSeq(Codes, hp, one) /\ Len(one) = Pushes(Inst)
  BY <1>4, <1>11, GoodDisplayed, Displayed
<1> HIDE DEF one, x
<1>13. /\ GoodFrame(Codes, hp, x) /\ x.code = Top.code
       /\ AtDepth(TheFlows, x, Len(x.stack))
  BY <1>4, <1>10, <1>12, PassedHere DEF x
<1>14. x.code = fs[calls[1].frame].code
  BY <1>2, <1>6, <1>13 DEF Top
<1>15. SameBodies(Codes, fs, hp, hp) /\ NamesOK(Codes, hp, globals)
  BY <1>10, SameHeap DEF StateOK
<1>16. frames' = Updated(fs, calls[1].frame, x)
  BY <1>1, <1>2, UpdatedAppend DEF fs
<1>17. StateOK(Codes, TheFlows, frames', calls, globals, hp)
  BY <1>10, <1>13, <1>14, <1>15, <1>16, StepInside
<1>18. StateOK(Codes, TheFlows, frames', calls', globals', heap')
  BY <1>1, <1>17
<1> QED
  BY <1>1, <1>18, StateKept

LEMMA CallUserKeeps ==
  ASSUME Ready, CallUser PROVE IInv'
<1> DEFINE f == Operand(Inst[2] + 1)
<1>1. Inst[1] = "CALL_FUNCTION" /\ f[1] = "func"
  BY DEF CallUser, At
<1>2. f[2] \in DOMAIN Codes
  BY <1>1, CallHere DEF Good
<1>3. IF Codes[f[2]].isGenerator THEN CallGenerator(f[2], Inst[2])
      ELSE CallFunction(f[2], Inst[2])
  BY DEF CallUser
<1> HIDE DEF f
<1> QED
  BY <1>1, <1>2, <1>3, CallGeneratorKeeps, CallFunctionKeeps

-----------------------------------------------------------------------------
(* Returns.                                                                 *)

LEMMA ReturnKeeps ==
  ASSUME Ready, Len(calls) > 1, NEW hp2, Grows(heap, hp2), Len(hp2) = Len(heap),
         \A h \in 1..Len(heap) : h # calls[1].gen => hp2[h] = heap[h],
         calls[1].gen # 0 =>
           hp2[calls[1].gen] = [kind |-> "generator", frame |-> calls[1].frame,
                                exhausted |-> hp2[calls[1].gen].exhausted],
         NEW x, GoodFrame(Codes, heap, x), x.code = Top.code,
         calls[1].gen # 0 /\ ~hp2[calls[1].gen].exhausted =>
           AtDepth(TheFlows, x, Len(x.stack) + 1),
         NEW v, Good(Codes, heap, v), Return(x, v, hp2)
  PROVE  IInv'
<1> DEFINE e == calls[1].frame
           f == calls[2].frame
           g == frames[f]
           iter == Ref(calls[1].gen)
           y == Delivered(g, iter, v)
<1>1. /\ calls' = Tail(calls) /\ heap' = hp2 /\ globals' = globals /\ program' = program
      /\ frames' = [Replace(x) EXCEPT ![f] = Delivered(@, iter, v)]
  BY DEF Return
<1>2. /\ CallsOK(Codes, frames, calls, heap) /\ FramesOK(Codes, frames, heap)
      /\ DepthOK(Codes, TheFlows, frames, calls, heap)
      /\ IsSeq(frames) /\ Len(calls) \in Nat /\ 1 \in 1..Len(calls) /\ Len(heap) \in Nat
  BY TopFacts
<1>3. 2 \in 1..Len(calls) /\ 2 \in 2..Len(calls)
  BY <1>2
<1>4. e \in 1..Len(frames) /\ f \in 1..Len(frames) /\ e # f
  BY <1>2, <1>3 DEF CallsOK, GoodCall
<1>5. GoodFrame(Codes, heap, g) /\ g.code \in DOMAIN Codes
  BY <1>2, <1>4 DEF FramesOK, GoodFrame
<1>6. \/ Awaits(Codes, TheFlows, g, FALSE)
      \/ Awaits(Codes, TheFlows, g, TRUE) /\ Good(Codes, heap, iter)
  <2>1. Awaits(Codes, TheFlows, g, calls[1].gen # 0)
    <3>1. 2 - 1 = 1
      OBVIOUS
    <3> QED
      BY <1>2, <1>3, <3>1 DEF DepthOK
  <2>2. CASE calls[1].gen = 0
    <3>1. (calls[1].gen # 0) = FALSE
      BY <2>2
    <3> QED
      BY <2>1, <3>1
  <2>3. CASE calls[1].gen # 0
    <3>1. (calls[1].gen # 0) = TRUE
      BY <2>3
    <3>2. calls[1].gen \in 1..Len(heap)
      BY <1>2, <2>3 DEF CallsOK, GoodCall
    <3> QED
      BY <2>1, <3>1, <3>2, GoodMade
  <2> QED
    BY <2>2, <2>3
<1>7. frames' = Updated(Updated(frames, e, x), f, y)
  <2> DEFINE fs == Updated(frames, e, x)
  <2>1. fs[f] = frames[f]
    BY <1>2, <1>4, Replaced
  <2>2. fs = Replace(x)
    BY DEF Updated, Replace
  <2> HIDE DEF fs
  <2>3. frames' = Updated(fs, f, Delivered(fs[f], iter, v))
    BY <1>1, <2>2 DEF Updated
  <2> QED
    BY <2>1, <2>3 DEF fs
<1>8. /\ GoodFrame(Codes, hp2, g) /\ Good(Codes, hp2, v) /\ GoodFrame(Codes, hp2, x)
      /\ Good(Codes, heap, iter) => Good(Codes, hp2, iter)
  BY <1>5, GoodFrameLater, GoodLater
<1>9. Verified(Codes[g.code], TheFlows[g.code])
  BY <1>5 DEF Ready, VerifiedProgram
<1> HIDE DEF g, iter, y
<1>10. /\ GoodFrame(Codes, hp2, y) /\ y.code = g.code
       /\ AtDepth(TheFlows, y, Len(y.stack))
  <2>1. \/ Awaits(Codes, TheFlows, g, FALSE)
        \/ Awaits(Codes, TheFlows, g, TRUE) /\ Good(Codes, hp2, iter)
    BY <1>6, <1>8
  <2>2. /\ GoodFrame(Codes, hp2, Delivered(g, iter, v))
        /\ Delivered(g, iter, v).code = g.code
        /\ AtDepth(TheFlows, Delivered(g, iter, v), Len(Delivered(g, iter, v).stack))
    BY ONLY <2>1, <1>8, <1>9, DeliveredGood
  <2> QED
    BY <2>2 DEF y
<1>11. /\ x.code = frames[calls[1].frame].code /\ y.code = frames[calls[2].frame].code
       /\ frames' = Updated(Updated(frames, calls[1].frame, x), calls[2].frame, y)
       /\ StateOK(Codes, TheFlows, frames, calls, globals, heap)
  BY <1>7, <1>10 DEF Top, g, Ready
<1>12. StateOK(Codes, TheFlows, Updated(Updated(frames, calls[1].frame, x), calls[2].frame, y),
               Tail(calls), globals, hp2)
  BY <1>8, <1>10, <1>11, CallEnded
<1>13. StateOK(Codes, TheFlows, frames', calls', globals', heap')
  BY <1>1, <1>11, <1>12
<1> QED
  BY <1>1, <1>13, StateKept

LEMMA ReturnValueKeeps ==
  ASSUME Ready, OrdinaryGenerators, EvalReturnValue PROVE IInv'
<1> DEFINE v == Operand(1)
           g == calls[1].gen
           x == Popped(Top, 1, <<>>)
           hp2 == Updated(heap, g, [heap[g] EXCEPT !.exhausted = TRUE])
<1>1. Inst[1] = "RETURN_VALUE" /\ At({"RETURN_VALUE"})
  BY DEF EvalReturnValue, At
<1>2. g # 0 => ~IsGenerator(v)
  BY <1>1 DEF OrdinaryGenerators, Ready
<1>3. \/ status' \in {"done", "raised"} /\ program' = program
      \/ Len(calls) > 1 /\ g = 0 /\ Return(x, v, heap)
      \/ Len(calls) > 1 /\ g # 0 /\ Return(x, IterDone, hp2)
  <2>1. Len(calls) \in Nat /\ Len(calls) >= 1
    BY TopFacts
  <2> DEFINE m == Len(calls)
  <2>2. m = 1 \/ m > 1
    <3>1. m \in Nat /\ m >= 1
      BY <2>1
    <3> HIDE DEF m
    <3> QED
      BY ONLY <3>1
  <2> QED
    BY <1>2, <2>2 DEF EvalReturnValue, Updated
<1>4. 1 \in 0..Len(Top.stack) /\ 1 \in 1..Len(Top.stack) /\ GoodFrame(Codes, heap, Top)
  BY <1>1, Arities, TopFacts, CodeFacts
<1>5. GoodFrame(Codes, heap, x) /\ x.code = Top.code
  <2> DEFINE no == <<>>
  <2>1. GoodSeq(Codes, heap, no)
    BY GoodNothing
  <2> HIDE DEF no
  <2>2. GoodFrame(Codes, heap, Popped(Top, 1, no)) /\ Popped(Top, 1, no).code = Top.code
    BY ONLY <1>4, <2>1, PoppedGood
  <2> QED
    BY <2>2 DEF no
<1>6. Good(Codes, heap, v) /\ Good(Codes, heap, IterDone)
  BY <1>4, OperandGood, GoodMade
<1>7. /\ Grows(heap, heap) /\ IsSeq(heap) /\ Len(heap) \in Nat /\ HeapOK(Codes, frames, heap)
      /\ CallsOK(Codes, frames, calls, heap) /\ 1 \in 1..Len(calls)
  BY TopFacts
<1> HIDE DEF v, x, hp2
<1>8. CASE status' \in {"done", "raised"} /\ program' = program
  BY <1>8 DEF IInv, ProgramOK, Ready
<1>9. CASE Len(calls) > 1 /\ g = 0 /\ Return(x, v, heap)
  BY <1>5, <1>6, <1>7, <1>9, ReturnKeeps
<1>10. CASE Len(calls) > 1 /\ g # 0 /\ Return(x, IterDone, hp2)
  <2>1. /\ g \in 1..Len(heap) /\ heap[g].kind = "generator"
        /\ heap[g].frame = calls[1].frame
    BY <1>7, <1>10 DEF CallsOK, GoodCall, IsBody
  <2>2. heap[g] \in [kind : {"generator"}, frame : {calls[1].frame},
                     exhausted : {heap[g].exhausted}]
    BY <1>7, <2>1 DEF HeapOK, GoodObject
  <2> DEFINE was == heap[g]
             body == calls[1].frame
             o == [was EXCEPT !.exhausted = TRUE]
  <2>3. /\ o = [kind |-> "generator", frame |-> body, exhausted |-> o.exhausted]
        /\ o.exhausted /\ o.kind = was.kind
    <3>1. was \in [kind : {"generator"}, frame : {body}, exhausted : {was.exhausted}]
      BY <2>2
    <3> HIDE DEF was, body
    <3>2. o \in [kind : {"generator"}, frame : {body}, exhausted : {TRUE}]
      BY ONLY <3>1
    <3>3. was.kind = "generator" /\ o.kind = "generator" /\ o.exhausted = TRUE
      BY ONLY <3>1, <3>2
    <3> HIDE DEF o
    <3>4. o = [kind |-> "generator", frame |-> body, exhausted |-> o.exhausted]
      BY ONLY <3>2
    <3> QED
      BY ONLY <3>3, <3>4
  <2>4. hp2 = Updated(heap, g, o)
    BY DEF hp2
  <2> HIDE DEF o
  <2>5. /\ IsSeq(hp2) /\ Len(hp2) = Len(heap) /\ hp2[g] = o
        /\ \A h \in 1..Len(heap) : h # g => hp2[h] = heap[h]
    BY <1>7, <2>1, <2>4, Replaced
  <2>6. Grows(heap, hp2)
    BY <1>7, <2>3, <2>5 DEF Grows
  <2>7. /\ hp2[g] = [kind |-> "generator", frame |-> calls[1].frame,
                     exhausted |-> hp2[g].exhausted]
        /\ hp2[g].exhausted
    BY <2>3, <2>5
  <2> QED
    BY <1>5, <1>6, <1>10, <2>5, <2>6, <2>7, ReturnKeeps
<1> QED
  BY <1>3, <1>8, <1>9, <1>10

LEMMA YieldValueKeeps ==
  ASSUME Ready, EvalYieldValue PROVE IInv'
<1> DEFINE v == Operand(1)
           no == <<>>
           x == Passed(Top, 1, no)
           fl == TheFlows[Top.code]
           inst == Inst
           pc == Top.pc
           d == Len(Top.stack)
           code == Code
<1>1. Inst[1] = "YIELD_VALUE" /\ Return(x, v, heap)
  BY DEF EvalYieldValue, At
<1>2. /\ Grows(heap, heap) /\ CallsOK(Codes, frames, calls, heap) /\ 1 \in 1..Len(calls)
      /\ Len(calls) \in Nat /\ HeapOK(Codes, frames, heap) /\ GoodFrame(Codes, heap, Top)
      /\ d \in Nat /\ pc \in Nat
  BY TopFacts
<1>3. /\ Verified(code, fl) /\ <<pc, d>> \in fl /\ inst = code.insts[pc + 1]
      /\ Pops(inst) <= d /\ Code.isGenerator
  BY <1>1, CodeFacts DEF Inst
<1>4. Pops(inst) = 1 /\ Pushes(inst) = 1 /\ inst[1] \notin Branching
  BY <1>1, Arities DEF Branching
<1> HIDE DEF fl, inst, pc, d, code
<1>5. <<pc + 1, d - Pops(inst) + Pushes(inst)>> \in fl
  BY <1>3, <1>4, Straight
<1>6. 1 \in 0..Len(Top.stack) /\ 1 \in 1..Len(Top.stack)
  BY <1>2, <1>3, <1>4 DEF d
<1>7. GoodSeq(Codes, heap, no) /\ Len(no) = 0
  BY GoodNothing
<1> HIDE DEF no
<1>8. /\ GoodFrame(Codes, heap, x) /\ x.code = Top.code /\ x.pc = Top.pc + 1
      /\ Len(x.stack) = Len(Top.stack) - 1 + Len(no)
  BY ONLY <1>2, <1>6, <1>7, PassedGood
<1>9. AtDepth(TheFlows, x, Len(x.stack) + 1)
  <2>1. Len(x.stack) + 1 = d - Pops(inst) + Pushes(inst)
    BY <1>2, <1>4, <1>7, <1>8 DEF d
  <2>2. x.pc = pc + 1 /\ fl = TheFlows[x.code]
    BY <1>8 DEF pc, fl
  <2> QED
    BY <1>5, <2>1, <2>2 DEF AtDepth
<1>10. Good(Codes, heap, v)
  BY <1>6, OperandGood
<1>11. calls[1].gen # 0
  BY <1>2, <1>3 DEF CallsOK, GoodCall, Code, Top
<1>12. Len(calls) > 1
  BY <1>2, <1>11 DEF CallsOK
<1>13. /\ calls[1].gen \in 1..Len(heap) /\ heap[calls[1].gen].kind = "generator"
       /\ heap[calls[1].gen].frame = calls[1].frame
  BY <1>2, <1>11 DEF CallsOK, GoodCall, IsBody
<1>14. heap[calls[1].gen] = [kind |-> "generator", frame |-> calls[1].frame,
                             exhausted |-> heap[calls[1].gen].exhausted]
  BY <1>2, <1>13 DEF HeapOK, GoodObject
<1> HIDE DEF x, v
<1> QED
  BY <1>1, <1>2, <1>8, <1>9, <1>10, <1>12, <1>14, ReturnKeeps

-----------------------------------------------------------------------------
(* The invariant, and the depth.                                            *)

LEMMA VerifiedReady ==
  ASSUME IInv, CodeVerified, status = "running" PROVE Ready
<1>1. PICK p \in DOMAIN Compilations :
        program = [id |-> p, codes |-> Compilations[p].codes]
  BY DEF IInv, ProgramOK
<1>2. program.id = p /\ Codes = Compilations[p].codes
  BY <1>1 DEF Codes
<1>3. VerifiedProgram(Codes, Flows[p])
  BY <1>2 DEF CodeVerified, GoodCode
<1> QED
  BY <1>2, <1>3 DEF IInv, Ready, TheFlows

LEMMA StepReady ==
  ASSUME Ready, OrdinaryGenerators, OrdinaryGenerators', EvalOne PROVE IInv'
BY LoadConstKeeps, LoadFastKeeps, StoreFastKeeps, LoadNameKeeps, StoreNameKeeps,
   PopTopKeeps, NopKeeps, BinaryKeeps, UnaryKeeps, SubscrKeeps, StoreSubscrKeeps,
   MakeFunctionKeeps, JumpAnywhereKeeps, PopJumpKeeps, BuildListKeeps, BuildSliceKeeps,
   BuildMapKeeps, GetIterKeeps, LoadAttrKeeps, CallUserKeeps, ForIterKeeps,
   CallNativeKeeps, ReturnValueKeeps, YieldValueKeeps DEF EvalOne

LEMMA EvalRuns ==
  ASSUME EvalOne PROVE status = "running"
BY DEF EvalOne, At, EvalLoadConst, EvalLoadFast, EvalStoreFast, EvalLoadName,
   EvalStoreName, EvalPopTop, EvalNop, EvalBinary, EvalUnary, EvalSubscr,
   EvalStoreSubscr, EvalMakeFunction, EvalJump, EvalPopJumpIfFalse, EvalBuildList,
   EvalBuildSlice, EvalBuildMap, EvalGetIter, EvalLoadAttr, CallUser, EvalForIter,
   CallNative, EvalReturnValue, EvalYieldValue

LEMMA StartInv ==
  ASSUME Init, CodeVerified PROVE IInv
<1>1. ProgramOK
  BY DEF Init, ProgramOK
<1>2. SUFFICES ASSUME status = "running"
               PROVE  StateOK(Codes, TheFlows, frames, calls, globals, heap)
  BY <1>1 DEF IInv, TheFlows
<1>3. VerifiedProgram(Codes, TheFlows)
  <2>1. PICK p \in DOMAIN Compilations :
          program = [id |-> p, codes |-> Compilations[p].codes]
    BY DEF Init
  <2>2. program.id = p /\ Codes = Compilations[p].codes
    BY <2>1 DEF Codes
  <2> QED
    BY <1>2, <2>1, <2>2 DEF CodeVerified, GoodCode, TheFlows
<1>4. /\ 1 \in DOMAIN Codes /\ ~Codes[1].isGenerator /\ Codes[1].nLocals = 0
      /\ <<0, 0>> \in TheFlows[1]
  BY <1>3 DEF VerifiedProgram, Verified, Entry
<1> DEFINE fr == NewFrame(1, <<>>)
           c == Activation(1, 0)
           no == <<>>
<1>5. frames = <<fr>> /\ calls = <<c>> /\ heap = no
      /\ globals = [x \in {"__name__"} |-> Str("__main__")]
  BY DEF Init
<1>6. /\ IsSeq(no) /\ Len(no) = 0 /\ DOMAIN no = {} /\ GoodSeq(Codes, no, no)
  <2>1. GoodSeq(Codes, no, no) /\ Len(no) = 0
    BY GoodNothing
  <2>2. IsSeq(no)
    BY ONLY <2>1 DEF GoodSeq
  <2>3. DOMAIN no = {}
    BY ONLY DEF no
  <2> QED
    BY ONLY <2>1, <2>2, <2>3
<1>7. /\ IsSeq(frames) /\ Len(frames) = 1 /\ frames[1] = fr
      /\ IsSeq(calls) /\ Len(calls) = 1 /\ calls[1] = c
  BY <1>5, Displayed
<1>8. /\ fr.code = 1 /\ fr.pc = 0 /\ fr.stack = no /\ fr.fast = no /\ fr.locals = no
      /\ fr \in [code : DOMAIN Codes, pc : Nat, stack : {fr.stack}, fast : {fr.fast},
                 locals : {fr.locals}]
  BY <1>4 DEF NewFrame
<1>9. c.frame = 1 /\ c.gen = 0 /\ c \in [frame : 1..1, gen : 0..0]
  BY DEF Activation
<1> HIDE DEF fr, c, no
<1>10. GoodFrame(Codes, heap, fr)
  BY <1>4, <1>5, <1>6, <1>8 DEF GoodFrame
<1>11. FramesOK(Codes, frames, heap)
  <2>1. \A f \in 1..Len(frames) : f = 1
    BY <1>7
  <2> QED
    BY <1>7, <1>10, <2>1 DEF FramesOK
<1>12. HeapOK(Codes, frames, heap)
  BY <1>5, <1>6 DEF HeapOK
<1>13. CallsOK(Codes, frames, calls, heap)
  <2>1. \A k \in 1..Len(calls) : k = 1
    BY <1>7
  <2>2. GoodCall(Codes, frames, heap, c)
    BY <1>4, <1>5, <1>6, <1>7, <1>8, <1>9 DEF GoodCall
  <2> QED
    BY <1>7, <1>9, <2>1, <2>2 DEF CallsOK
<1>14. NamesOK(Codes, heap, globals)
  BY <1>5, GoodMade DEF NamesOK
<1>15. DepthOK(Codes, TheFlows, frames, calls, heap)
  BY <1>4, <1>5, <1>6, <1>7, <1>8, <1>9 DEF DepthOK, AtDepth
<1> QED
  BY <1>11, <1>12, <1>13, <1>14, <1>15 DEF StateOK

LEMMA StepInv ==
  ASSUME IInv, CodeVerified, OrdinaryGenerators, OrdinaryGenerators', [Next]_vars
  PROVE  IInv'
<1>1. CASE EvalOne
  BY <1>1, EvalRuns, VerifiedReady, StepReady
<1>2. CASE UNCHANGED vars
  BY <1>2 DEF vars, IInv, ProgramOK, StateOK, Codes, FramesOK, HeapOK, CallsOK, NamesOK,
     DepthOK, Active, IsBody
<1> QED
  BY <1>1, <1>2 DEF Next, Ended

LEMMA InvDepth ==
  ASSUME IInv, CodeVerified PROVE DepthAsVerified
<1>1. SUFFICES ASSUME status = "running" PROVE DepthAsVerified
  BY DEF DepthAsVerified
<1>2. Ready
  BY <1>1, VerifiedReady
<1>3. <<Top.pc, Len(Top.stack)>> \in Flows[program.id][Top.code]
  BY <1>2, CodeFacts DEF TheFlows
<1>4. ASSUME NEW h \in DOMAIN heap, heap[h].kind = "generator", ~heap[h].exhausted,
             \A k \in DOMAIN calls : calls[k].gen # h
      PROVE  LET f == frames[heap[h].frame]
             IN <<f.pc, Len(f.stack) + 1>> \in Flows[program.id][f.code]
  <2>1. h \in 1..Len(heap) /\ DOMAIN calls = 1..Len(calls)
    BY <1>2, TopFacts, SeqLength
  <2>2. ~Active(calls, h) /\ IsBody(heap, h)
    BY <1>4, <2>1 DEF Active, IsBody
  <2>3. DepthOK(Codes, TheFlows, frames, calls, heap)
    BY <1>2, TopFacts
  <2> QED
    BY <1>4, <2>1, <2>2, <2>3 DEF DepthOK, AtDepth, TheFlows
<1> QED
  BY <1>3, <1>4 DEF DepthAsVerified

(* The evaluator does not look before it pops, and reads its pools without a *)
(* bound: what it takes from the stack has to be there, the instruction has  *)
(* to be inside the code, and its operand inside the pool it indexes.        *)
OperandsPresent ==
  status = "running" =>
    /\ Top.pc \in 0..Len(Code.insts) - 1
    /\ Pops(Inst) <= Len(Top.stack)
    /\ Inst[1] \in Indexes => Inst[2] \in 0..PoolSize(Code, Inst[1]) - 1
    /\ Inst[1] \in {"LOAD_FAST", "STORE_FAST"} => Inst[2] \in 0..Len(Top.fast) - 1

LEMMA InvOperands ==
  ASSUME IInv, CodeVerified PROVE OperandsPresent
<1>1. SUFFICES ASSUME status = "running" PROVE OperandsPresent
  BY DEF OperandsPresent
<1>2. Ready
  BY <1>1, VerifiedReady
<1>3. Verified(Code, TheFlows[Top.code]) /\ <<Top.pc, Len(Top.stack)>> \in TheFlows[Top.code]
  BY <1>2, CodeFacts
<1> DEFINE at == <<Top.pc, Len(Top.stack)>>
<1>4. Inside(Code, at)
  BY <1>3 DEF Verified
<1>5. at[1] = Top.pc
  OBVIOUS
<1> HIDE DEF at
<1>6. Top.pc \in 0..Len(Code.insts) - 1
  BY <1>4, <1>5 DEF Inside
<1>7. /\ Pops(Inst) <= Len(Top.stack)
      /\ Inst[1] \in Indexes => Inst[2] \in 0..PoolSize(Code, Inst[1]) - 1
  BY <1>2, CodeFacts
<1>8. ASSUME Inst[1] \in {"LOAD_FAST", "STORE_FAST"} PROVE Inst[2] \in 0..Len(Top.fast) - 1
  <2> DEFINE n == Code.nLocals
             m == Len(Top.fast)
             k == Inst[2]
  <2>1. k \in 0..n - 1
    BY <1>7, <1>8 DEF Indexes, PoolSize
  <2>2. m >= n /\ m \in Nat
    BY <1>2, TopFacts, SeqLength DEF GoodFrame, GoodSeq, Code
  <2>3. n \in Nat
    BY <1>3 DEF Verified
  <2> HIDE DEF n, m, k
  <2>4. k \in 0..m - 1
    BY ONLY <2>1, <2>2, <2>3
  <2> QED
    BY ONLY <2>4 DEF k, m
<1> QED
  BY <1>6, <1>7, <1>8 DEF OperandsPresent

(* Whatever programs the compiler made, if their codes are verified, and if *)
(* no generator is resumed from its own body or returns a generator, then   *)
(* PyFrame::Eval is at each instruction, and each waiting generator will be *)
(* resumed, at the depth the verification found.                            *)
THEOREM DepthKept ==
  Spec /\ []CodeVerified /\ []OrdinaryGenerators => []DepthAsVerified
<1>1. Init /\ CodeVerified => IInv
  BY StartInv
<1>2. IInv /\ CodeVerified /\ OrdinaryGenerators /\ OrdinaryGenerators' /\ [Next]_vars => IInv'
  BY StepInv
<1>3. IInv /\ CodeVerified => DepthAsVerified
  BY InvDepth
<1> QED
  BY <1>1, <1>2, <1>3, PTL DEF Spec

(* The evaluator never takes an operand that is not there, nor reads past    *)
(* the end of its code, its constants, its names or its fast locals.         *)
THEOREM OperandsThere ==
  Spec /\ []CodeVerified /\ []OrdinaryGenerators => []OperandsPresent
<1>1. Init /\ CodeVerified => IInv
  BY StartInv
<1>2. IInv /\ CodeVerified /\ OrdinaryGenerators /\ OrdinaryGenerators' /\ [Next]_vars => IInv'
  BY StepInv
<1>3. IInv /\ CodeVerified => OperandsPresent
  BY InvOperands
<1> QED
  BY <1>1, <1>2, <1>3, PTL DEF Spec
=============================================================================
