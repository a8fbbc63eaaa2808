-------------------------------- MODULE Integer --------------------------------
(***************************************************************************)
(* Collections::Integer, the integers of the language: digits of DigitBits *)
(* bits in words of twice that width, and a sign.                          *)
(*                                                                         *)
(* A program computes with one integer, `integer`; `val` is what it should *)
(* be, and `off` the cases met in which the code gives something else.  A  *)
(* computation stops there.  An operation is the set of its results: {} if *)
(* it throws, or does not end.                                             *)
(***************************************************************************)
EXTENDS Decimal

LOCAL INSTANCE SequencesExt
LOCAL INSTANCE Bitwise

CONSTANTS
  DigitBits,   \* Integer::radix, 16: bits in a digit
  NibbleBits,  \* 4: bits in a hexadecimal digit
  WordDigits,  \* 4: digits in 64 bits
  Operand,     \* the integers the program computes with
  MaxDigits    \* bound: digits of the result

ASSUME IntegerAssumption ==
  /\ DigitBits \in Nat \ {0} /\ NibbleBits \in Nat \ {0}
  /\ DigitBits % NibbleBits = 0
  /\ WordDigits \in Nat \ {0} /\ MaxDigits \in Nat
  /\ Operand \subseteq Int

VARIABLES
  integer, \* an Integer: its parts and its sign
  val,     \* history: the number it should be
  off      \* history: why it may be another one

integerVars == <<integer, val, off>>

Base == 2 ^ DigitBits
Word == Base * Base
Zero == Signed(<<0>>, FALSE)
One  == Signed(<<1>>, FALSE)

IntegerValue(n) == Magnitude(n.parts, Base) * (IF n.sign THEN -1 ELSE 1)

-----------------------------------------------------------------------------
(* Conversions.                                                             *)

\* CreateDecimalWithInteger: multiply by the base, add the next digit.
DecimalOf(n) ==
  LET shift(d, part) == DecAdd(DecMultiply(d, DecWithU32(Base)), DecWithU32(part))
  IN Signed(FoldLeft(shift, DecZero, n.parts).parts, n.sign)

\* CreateIntegerWithDecimal: the remainders of dividing by the base, however
\* many decimal digits they have.
RECURSIVE DecimalParts(_)
DecimalParts(d) ==
  IF IsZero(d) THEN <<>>
  ELSE LET qr == CHOOSE x \in DecDivMod(d, DecWithU32(Base)) : TRUE
       IN Append(DecimalParts(qr.quotient), Magnitude(qr.remainder.parts, Radix))
IntegerOf(d) == Signed(DecimalParts(d), d.sign)

\* CreateIntegerWithU64: no digit for zero.
RECURSIVE U64Parts(_)
U64Parts(value) ==
  IF value = 0 THEN <<>> ELSE Append(U64Parts(value \div Base), value % Base)

WithI64(value) ==
  IF value = 0 THEN Zero
  ELSE IF value < 0 THEN Signed(U64Parts(-value), TRUE)
  ELSE Signed(U64Parts(value), FALSE)

ToU64(n) ==
  IF IsZero(n) THEN {0}
  ELSE IF n.sign \/ Len(n.parts) > WordDigits THEN {}
  ELSE {Magnitude(n.parts, Base)}

\* The digits are shifted into a signed word.
Wrapped(m) == IF m >= Base ^ WordDigits \div 2 THEN m - Base ^ WordDigits ELSE m
ToI64(n) ==
  IF Len(n.parts) > WordDigits /\ ~IsZero(n) THEN {}
  ELSE {Wrapped(Magnitude(n.parts, Base)) * (IF n.sign THEN -1 ELSE 1)}

\* The hexadecimal digits, without those zeros in front; the sign is lost.
NibblesPerDigit == DigitBits \div NibbleBits
ToHex(n) ==
  IF IsZero(n) THEN <<0>>
  ELSE TrimLeadingZero(
         [k \in 1..Len(n.parts) * NibblesPerDigit |->
            LET part == n.parts[(k - 1) \div NibblesPerDigit + 1]
                below == NibblesPerDigit - 1 - ((k - 1) % NibblesPerDigit)
            IN (part \div 2 ^ (below * NibbleBits)) % 2 ^ NibbleBits])

\* CreateIntegerWithString, of a text that begins with 0x: from its end, as many
\* to a part as fit.
OfHex(nibbles) ==
  LET n == (Len(nibbles) + NibblesPerDigit - 1) \div NibblesPerDigit
      part(i) == FoldLeft(LAMBDA m, j : m * 2 ^ NibbleBits + Low(nibbles, j), 0,
                          Reverse([j \in 1..NibblesPerDigit |-> (i - 1) * NibblesPerDigit + j]))
  IN Signed([k \in 1..n |-> part(n + 1 - k)], FALSE)

-----------------------------------------------------------------------------
(* Comparisons.                                                             *)

GreaterThan(l, r) ==
  IF IsZero(l) /\ IsZero(r) THEN FALSE
  ELSE IF IsZero(l) THEN r.sign
  ELSE IF IsZero(r) THEN ~l.sign
  ELSE IF l.sign # r.sign THEN r.sign
  ELSE Larger(l, r)

LessThan(l, r) == ~GreaterThan(l, r) /\ ~Equal(l, r)

-----------------------------------------------------------------------------
(* Operations.                                                              *)

Difference(l, r) ==
  Signed(DigitDifference(l.parts, r.parts, Base), l.sign # Exceeds(r.parts, l.parts))

SumOrDifference(l, r) ==
  IF l.sign = r.sign THEN Signed(DigitSum(l.parts, r.parts, Base), l.sign)
  ELSE Difference(l, Opposite(r))

Add(l, r) == {SumOrDifference(l, r)}

Subtract(l, r) ==
  {IF l.sign = r.sign THEN Difference(l, r) ELSE SumOrDifference(l, Opposite(r))}

Multiply(l, r) ==
  {IF IsZero(l) \/ IsZero(r) THEN Zero
   ELSE Signed(DigitProduct(l.parts, r.parts, Base), l.sign # r.sign)}

\* The quotient keeps the zeros in front of its digits; from the quotient and
\* from the remainder it is the zeros at their end that are trimmed.
DivMod(l, r) ==
  IF IsZero(r) THEN {}
  ELSE IF IsZero(l) \/ LessThan(l, r) THEN {[quotient |-> Zero, remainder |-> l]}
  ELSE IF Equal(l, r) THEN {[quotient |-> One, remainder |-> Zero]}
  ELSE IF Len(l.parts) + 1 < Len(r.parts) THEN {}
  ELSE LET d == DigitDivMod(l.parts, r.parts, Base)
       IN {[quotient  |-> Signed(TrimTrailingZero(d.quotient), l.sign # r.sign),
            remainder |-> Signed(TrimTrailingZero(d.dividend), FALSE)]}

Divide(l, r) == {d.quotient : d \in DivMod(l, r)}
Modulo(l, r) == {d.remainder : d \in DivMod(l, r)}

\* By `count` bits: digits are taken away in front of the last one.
ShiftedRight(n, count) ==
  LET size   == Len(n.parts)
      blocks == count \div DigitBits
      bits   == count % DigitBits
      kept   == SubSeq(n.parts, 1, size - 1 - blocks) \o <<n.parts[size]>>
      digit(i) == LET high == IF i = 1 THEN 0 ELSE kept[i - 1] % 2 ^ (bits + 1)
                  IN (kept[i] \div 2 ^ bits) + ((high * 2 ^ (DigitBits - bits)) % Base)
  IN IF count >= DigitBits * size THEN Zero
     ELSE IF bits = 0 THEN Signed(kept, n.sign)
     ELSE Signed(TrimLeadingZero([i \in 1..Len(kept) |-> digit(i)]), n.sign)

RightShift(l, r) ==
  IF r.sign THEN {}
  ELSE IF IsZero(r) THEN {l}
  ELSE {ShiftedRight(l, count) : count \in ToU64(r)}

\* Zeros behind the digits, then back by the bits that are too many.
ShiftedLeft(n, count) ==
  LET blocks == (count - 1) \div DigitBits + 1
      back   == (DigitBits - (count % DigitBits)) % DigitBits
      longer == Signed(n.parts \o [i \in 1..blocks |-> 0], n.sign)
  IN IF back = 0 THEN longer ELSE ShiftedRight(longer, back)

LeftShift(l, r) ==
  IF r.sign THEN {}
  ELSE IF IsZero(r) THEN {l}
  ELSE {ShiftedLeft(l, count) : count \in ToU64(r)}

\* By squaring; whether the exponent is odd is read from its first digit.
RECURSIVE PowerOf(_, _, _)
PowerOf(result, base, exponent) ==
  IF IsZero(exponent) THEN result
  ELSE LET times(a, b) == CHOOSE x \in Multiply(a, b) : TRUE
       IN PowerOf(IF exponent.parts[1] % 2 = 1 THEN times(result, base) ELSE result,
                  times(base, base), ShiftedRight(exponent, 1))

Power(l, r) ==
  IF r.sign THEN {}
  ELSE IF IsZero(r) THEN {One}
  ELSE IF Equal(r, One) THEN {l}
  ELSE IF Equal(r, Signed(<<2>>, FALSE)) THEN Multiply(l, l)
  ELSE {PowerOf(One, l, r)}

\* Digit by digit; the loop over numbers of different length passes below the
\* first digit of one of them, and throws.
BitWise(l, r, Op(_, _)) ==
  IF Len(l.parts) # Len(r.parts) THEN {}
  ELSE {Signed([i \in 1..Len(l.parts) |-> Op(l.parts[i], r.parts[i])], l.sign # r.sign)}
BitWiseAnd(l, r) == BitWise(l, r, LAMBDA a, b : a & b)
BitWiseOr(l, r)  == BitWise(l, r, LAMBDA a, b : a | b)
BitWiseXor(l, r) == BitWise(l, r, LAMBDA a, b : a ^^ b)

\* All bits of the words.
BitWiseNot(n) == Signed([i \in 1..Len(n.parts) |-> Word - 1 - n.parts[i]], ~n.sign)

-----------------------------------------------------------------------------
(* A computation.                                                           *)

IntegerInit == integer \in {Zero, IntegerOf(DecZero)} /\ val = 0 /\ off = {}

\* Where the code departs from arithmetic, as cases about the operands.
Where(condition, why) == IF condition THEN {why} ELSE {}

LeadingZeros(q, a, b) == q < Base ^ (Len(U64Parts(a)) - Len(U64Parts(b)))
EndsInZero(n) == n # 0 /\ n % Base = 0

DivisionOff(a, b, result) ==
  IF a < 0 THEN {"negative dividend"}
  ELSE Where(b < 0, "negative divisor")
       \cup Where(EndsInZero(result), "zeros at the end are trimmed")
QuotientOff(a, b) ==
  DivisionOff(a, b, a \div b)
  \cup Where(a >= b /\ b > 0 /\ LeadingZeros(a \div b, a, b), "zeros in front are kept")

\* The result of an operation becomes the integer of the program.
Computes(results, number, why) ==
  /\ integer' \in {n \in results : Len(n.parts) <= MaxDigits}
  /\ val' = number
  /\ off' = why

\* A decimal number in the text of the program, with or without a minus sign.
Literals ==
  [a \in Operand |-> IF a < 0 THEN Opposite(IntegerOf(DecWithU32(-a)))
                             ELSE IntegerOf(DecWithU32(a))]
Literal(a) == Literals[a]

Loads(a) == Computes({Literal(a)}, a, {})
AddsLiteral(a) == Computes(Add(integer, Literal(a)), val + a, {})
SubtractsLiteral(a) == Computes(Subtract(integer, Literal(a)), val - a, {})
SubtractsFromLiteral(a) == Computes(Subtract(Literal(a), integer), a - val, {})
MultipliesLiteral(a) == Computes(Multiply(integer, Literal(a)), val * a, {})
ChangesSign == Computes({Opposite(integer)}, -val, {})

DividesByLiteral(a) ==
  a # 0 /\ Computes(Divide(integer, Literal(a)), IF a < 0 THEN 0 ELSE val \div a,
                    IF a < 0 THEN {"negative divisor"} ELSE QuotientOff(val, a))
RemainsByLiteral(a) ==
  a # 0 /\ Computes(Modulo(integer, Literal(a)), IF a < 0 THEN 0 ELSE val % a,
                    IF a < 0 THEN {"negative divisor"} ELSE DivisionOff(val, a, val % a))

\* The count is not negative: a negative one is refused, and so is a zero with
\* a sign.
ShiftsLeft(a) ==
  a >= 0 /\ Computes(LeftShift(integer, Literal(a)), val * 2 ^ a,
                     Where(val = 0 /\ a > 0 /\ a % DigitBits = 0, "zeros in front are kept"))
ShiftsRight(a) ==
  a >= 0 /\ Computes(RightShift(integer, Literal(a)), val \div 2 ^ a,
                     Where(val < 0, "negative number")
                     \cup Where(a >= DigitBits /\ val >= Base ^ (a \div DigitBits), "another digit is taken away"))

\* Bound: powers that TLC's integers can hold.
RaisesToLiteral(a) ==
  /\ a \in 0..3 \/ (a \in 0..2 * Base /\ val \in -2..2)
  /\ Computes(Power(integer, Literal(a)), IF a = 0 THEN 1 ELSE val ^ a,
              Where(a >= Base, "first digit of the exponent"))

Bits(a) ==
  \/ Computes(BitWiseAnd(integer, Literal(a)), IF a < 0 \/ val < 0 THEN 0 ELSE val & a,
              Where(a < 0 \/ integer.sign, "a sign")
              \cup Where(a >= Base /\ val >= Base, "zeros in front are kept"))
  \/ Computes(BitWiseOr(integer, Literal(a)), IF a < 0 \/ val < 0 THEN 0 ELSE val | a,
              Where(a < 0 \/ integer.sign, "a sign"))
  \/ Computes(BitWiseXor(integer, Literal(a)), IF a < 0 \/ val < 0 THEN 0 ELSE val ^^ a,
              Where(a < 0 \/ integer.sign, "a sign")
              \cup Where(a >= Base /\ val >= Base, "zeros in front are kept"))
Inverts == Computes({BitWiseNot(integer)}, -val - 1, {"all bits of the words"})

\* int(str(integer)), and what indices and lengths are made of.
ThroughText ==
  Computes({IntegerOf(DecimalOf(integer))}, val, Where(val <= -Base, "a negative text is one digit"))
ThroughHex ==
  Computes({OfHex(ToHex(integer))}, val, Where(val < 0, "negative number"))
ThroughI64 ==
  Computes({WithI64(i) : i \in ToI64(integer)}, val,
           Where(val \notin -(Base ^ WordDigits \div 2) + 1..Base ^ WordDigits \div 2 - 1, "too large a word"))

IntegerNext ==
  /\ off = {}
  /\ \/ ChangesSign \/ Inverts \/ ThroughText \/ ThroughHex \/ ThroughI64
     \/ \E a \in Operand :
          \/ Loads(a) \/ AddsLiteral(a) \/ SubtractsLiteral(a) \/ SubtractsFromLiteral(a)
          \/ MultipliesLiteral(a) \/ DividesByLiteral(a) \/ RemainsByLiteral(a)
          \/ ShiftsLeft(a) \/ ShiftsRight(a) \/ RaisesToLiteral(a) \/ Bits(a)

-----------------------------------------------------------------------------
\* Digits of the base, and no zero in front of others.
Canonical(n) ==
  /\ \A i \in 1..Len(n.parts) : n.parts[i] \in 0..Base - 1
  /\ Len(n.parts) > 1 => n.parts[1] # 0

\* Whatever operations follow each other, with digits that carry and borrow and
\* a zero that has no digit, one, or a sign: outside the cases of `off` the
\* integer is the number it should be, and compares and prints like it.
IntegersExact ==
  off = {} =>
    /\ Canonical(integer)
    /\ IntegerValue(integer) = val
    /\ \A a \in Operand :
         /\ GreaterThan(integer, Literal(a)) <=> val > a
         /\ Equal(integer, Literal(a)) <=> val = a
    /\ LET text == DecimalOf(integer)
       IN Magnitude(text.parts, Radix) * (IF text.sign THEN -1 ELSE 1) = val
=============================================================================
