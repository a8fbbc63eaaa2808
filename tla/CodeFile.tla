---- MODULE CodeFile ----
(* Byte-code files.  A file is the sequence of what is written to it: a token is*)
(* a width and a value, so that a reader that takes another width than was      *)
(* written is out of step from there on.  Sizes count tokens.                   *)
EXTENDS Codegen

U8(x)  == <<<<"u8", x>>>>
U16(x) == <<<<"u16", x>>>>
U64(x) == <<<<"u64", x>>>>
I64(x) == <<<<"i64", x>>>>
Chars(s) == <<<<"chars", s>>>>

------------------------------------------------------------------------------
(* Writing.                                                                     *)

(* InstTraits: what an instruction's operand is.                                *)
IndexOps == {"LOAD_CONST", "LOAD_NAME", "STORE_NAME", "LOAD_FAST", "STORE_FAST",
             "LOAD_ATTR", "STORE_ATTR", "CALL_FUNCTION", "BUILD_LIST", "BUILD_MAP",
             "JUMP_ABSOLUTE", "JUMP_FORWARD", "FOR_ITER"}
NoOffsets == {}   \* mutant: a jump's traits are forgotten

OffsetOps == {"POP_JUMP_IF_FALSE"}

SerializeInst(inst) ==
  U8(inst[1]) \o CASE inst[1] \in IndexOps    -> U64(inst[2])
                   [] inst[1] \in OffsetOps   -> I64(inst[2])
                   [] inst[1] = "COMPARE_OP"  -> U8(inst[2])
                   [] OTHER                   -> <<>>

SerializeString(s) == U8("STRING") \o U64(1) \o Chars(s)

(* Zero is a literal of its own: its digits would be no bytes at all.           *)
SerializeInteger(n) ==
  IF n = 0 THEN U8("ZERO")
  ELSE U8("INTEGER") \o U64(1) \o U8(IF n < 0 THEN "-" ELSE "+")
                     \o U16(IF n < 0 THEN -n ELSE n)

SerializeList(items) == U8("LIST") \o U64(Len(items)) \o FlattenSeq(items)

(* The instructions are a list that is written as bytes, and those as an object.*)
SerializeBytes(bytes) == U8("BYTES") \o U64(Len(bytes)) \o bytes

RECURSIVE SerializeCode(_, _)
SerializeConst(codes, v) ==
  CASE v[1] = "str"  -> SerializeString(v[2])
    [] v[1] = "int"  -> SerializeInteger(v[2])
    [] v[1] = "bool" -> U8(IF v[2] THEN "TRUE_LITERAL" ELSE "FALSE_LITERAL")
    [] v[1] = "none" -> U8("NONE")
    [] v[1] = "code" -> SerializeCode(codes, v[2])

Each(F(_), seq) == [i \in DOMAIN seq |-> F(seq[i])]

SerializeCode(codes, c) ==
  LET code == codes[c] IN
  U8("CODE")
  \o SerializeList(Each(LAMBDA v : SerializeConst(codes, v), code.consts))
  \o SerializeList(Each(SerializeString, code.names))
  \o SerializeList(Each(SerializeString, code.varNames))
  \o SerializeString(code.name) \o U64(code.nLocals)
  \o U8(IF code.isGenerator THEN "TRUE_LITERAL" ELSE "FALSE_LITERAL")
  \o SerializeBytes(SerializeList(Each(SerializeInst, code.insts)))

------------------------------------------------------------------------------
(* Reading.  A reader is the rest of the file, what was read, and whether it was*)
(* all of the widths that were asked for.                                       *)

Reader(file) == [rest |-> file, got |-> <<>>, ok |-> TRUE]

Read(width, r) ==
  IF ~r.ok \/ r.rest = <<>> \/ Head(r.rest)[1] # width THEN [r EXCEPT !.ok = FALSE]
  ELSE [r EXCEPT !.rest = Tail(@), !.got = Append(@, Head(r.rest)[2])]

Keep(r, v) == [r EXCEPT !.got = v]
Fresh(r)   == Keep(r, <<>>)

(* One of the U64 size: the size of the digits is only looked at first.         *)
ReadInteger(r) ==
  LET d == Read("u16", Read("u8", Read("u64", Fresh(r)))) IN
  IF ~d.ok THEN d
  ELSE Keep(d, Num(IF d.got[2] = "-" THEN -d.got[3] ELSE d.got[3]))

ReadString(r) ==
  LET s == Read("chars", Read("u64", Fresh(r)))
  IN IF s.ok THEN Keep(s, Str(s.got[2])) ELSE s

ReadBytes(r) ==
  LET n == Read("u64", Fresh(r)) IN
  IF ~n.ok \/ n.got[1] > Len(n.rest) THEN [n EXCEPT !.ok = FALSE]
  ELSE [n EXCEPT !.got = SubSeq(n.rest, 1, n.got[1]),
                 !.rest = SubSeq(@, n.got[1] + 1, Len(@))]

(* n of what a list holds, one after the other.                                 *)
RECURSIVE ReadObject(_), ReadObjects(_, _, _)
ReadObjects(n, items, r) ==
  IF n = 0 THEN Keep(r, items)
  ELSE LET o == ReadObject(r)
       IN IF o.ok THEN ReadObjects(n - 1, Append(items, o.got), o) ELSE o

ReadList(r) ==
  LET n == Read("u64", Fresh(r)) IN IF n.ok THEN ReadObjects(n.got[1], <<>>, n) ELSE n

(* ParseByteCode: an opcode says what follows it.                               *)
NoOperand == Range(UnaryInst) \cup Range(BinaryInst) \cup
  {"MAKE_FUNCTION", "RETURN_VALUE", "POP_TOP", "BUILD_SLICE", "GET_ITER",
   "LOAD_BUILD_CLASS", "NOP", "YIELD_VALUE"}
U64Operand ==
  {"LOAD_CONST", "STORE_FAST", "LOAD_FAST", "CALL_FUNCTION", "LOAD_NAME", "STORE_NAME",
   "LOAD_GLOBAL", "LOAD_ATTR", "BUILD_LIST", "BUILD_MAP", "JUMP_ABSOLUTE", "FOR_ITER",
   "STORE_ATTR", "JUMP_FORWARD", "STORE_GLOBAL"}

ParseInst(r) ==
  LET op == Read("u8", Fresh(r)) IN
  CASE ~op.ok -> op
    [] op.ok /\ op.got[1] \in NoOperand  -> Keep(op, <<op.got[1], 0>>)
    [] op.ok /\ op.got[1] \in U64Operand -> Read("u64", op)
    [] op.ok /\ op.got[1] \in {"POP_JUMP_IF_FALSE", "POP_JUMP_IF_TRUE"} -> Read("i64", op)
    [] op.ok /\ op.got[1] = "COMPARE_OP" -> Read("u8", op)

RECURSIVE ParseInsts(_, _, _)
ParseInsts(n, insts, r) ==
  IF n = 0 THEN Keep(r, insts)
  ELSE LET i == ParseInst(r)
       IN IF i.ok THEN ParseInsts(n - 1, Append(insts, i.got), i) ELSE i

ParseByteCode(bytes) ==
  LET n == Read("u64", Read("u8", Reader(bytes)))
  IN IF ~n.ok \/ n.got[1] # "LIST" THEN [n EXCEPT !.ok = FALSE]
     ELSE ParseInsts(n.got[2], <<>>, n)

(* A code that was read has its nested codes inside it.                         *)
ReadCode(r) ==
  LET consts    == ReadObject(r)
      names     == ReadObject(consts)
      varNames  == ReadObject(names)
      name      == ReadObject(varNames)
      flags     == Read("u8", Read("u64", Fresh(name)))
      byteCode  == ReadObject(flags)
      insts     == ParseByteCode(byteCode.got)
      Strings(pool) == [i \in DOMAIN pool |-> pool[i][2]]
  IN IF ~byteCode.ok \/ ~insts.ok THEN [r EXCEPT !.ok = FALSE]
     ELSE Keep(byteCode,
               <<"code", [name |-> name.got[2], consts |-> consts.got,
                          names |-> Strings(names.got), varNames |-> Strings(varNames.got),
                          nLocals |-> flags.got[1], insts |-> insts.got,
                          isGenerator |-> flags.got[2] = "TRUE_LITERAL"]>>)

ReadObject(r) ==
  LET type == Read("u8", Fresh(r))
      literal == type.got[1]
  IN CASE ~type.ok -> type
       [] type.ok /\ literal = "STRING"  -> ReadString(type)
       [] type.ok /\ literal = "INTEGER" -> ReadInteger(type)
       [] type.ok /\ literal = "LIST"    -> ReadList(type)
       [] type.ok /\ literal = "TRUE_LITERAL"  -> Keep(type, Bool(TRUE))
       [] type.ok /\ literal = "FALSE_LITERAL" -> Keep(type, Bool(FALSE))
       [] type.ok /\ literal = "NONE"    -> Keep(type, None)
       [] type.ok /\ literal = "ZERO"    -> Keep(type, Num(0))
       [] type.ok /\ literal = "CODE"    -> ReadCode(type)
       [] type.ok /\ literal = "BYTES"   -> ReadBytes(type)

------------------------------------------------------------------------------
(* What a file has to keep of code c: all but the scope, which is only asked for*)
(* by the compiler.                                                             *)
RECURSIVE Kept(_, _)
Kept(codes, c) ==
  LET code == codes[c]
      Nested(v) == IF v[1] = "code" THEN Kept(codes, v[2]) ELSE v
  IN <<"code", [name |-> code.name, consts |-> Each(Nested, code.consts),
                names |-> code.names, varNames |-> code.varNames,
                nLocals |-> code.nLocals, insts |-> code.insts,
                isGenerator |-> code.isGenerator]>>

ReadsBack(codes) ==
  LET r == ReadObject(Reader(SerializeCode(codes, 1)))
  IN r.ok /\ r.rest = <<>> /\ r.got = Kept(codes, 1)
====
