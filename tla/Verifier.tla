---- MODULE Verifier ----
(* The flow of a code object: where control can go in it, and how deep the      *)
(* operand stack is there, found by following every path from its entry.        *)
EXTENDS ByteCode

(* Only places inside the code are gone on from, and those the first time.      *)
RECURSIVE ReachFrom(_, _, _)
ReachFrom(code, todo, seen) ==
  LET go == {at \in todo : Inside(code, at) /\ \A s \in seen : s[1] # at[1]}
      next == UNION {Successors(code.insts[at[1] + 1], at[1], at[2]) : at \in go}
  IN IF todo = {} THEN seen
     ELSE ReachFrom(code, next \ (seen \cup todo), seen \cup todo)

Flow(code) == ReachFrom(code, {Entry(code)}, {})
====
