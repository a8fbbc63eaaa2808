-------------------------------- MODULE Decimal --------------------------------
(***************************************************************************)
(* Collections::Decimal: numbers as decimal digits with a sign, through    *)
(* which an Integer is read from text and written to it.                   *)
(***************************************************************************)
EXTENDS Digits

CONSTANT Radix  \* Decimal::radix, 10

ASSUME RadixAssumption == Radix \in Nat /\ Radix > 1

Signed(parts, sign) == [parts |-> parts, sign |-> sign]
IsZero(n) == AllZero(n.parts)
Opposite(n) == Signed(n.parts, ~n.sign)

\* Where the sign and the lengths do not decide, the digits do.
Larger(l, r) == l.parts # r.parts /\ l.sign # Exceeds(l.parts, r.parts)

Equal(l, r) == (IsZero(l) /\ IsZero(r)) \/ l = r

DecZero == Signed(<<>>, FALSE)

\* CreateDecimalWithU32.
RECURSIVE DecWithU32(_)
DecWithU32(value) ==
  IF value = 0 THEN DecZero
  ELSE Signed(Append(DecWithU32(value \div Radix).parts, value % Radix), FALSE)

DecGreaterThan(l, r) ==
  IF IsZero(l) THEN r.sign
  ELSE IF IsZero(r) THEN ~l.sign
  ELSE IF l.sign # r.sign THEN r.sign
  ELSE Larger(l, r)

DecLessThan(l, r) == ~DecGreaterThan(l, r) /\ ~Equal(l, r)

\* Of two numbers of the same sign.
DecDifference(l, r) ==
  Signed(DigitDifference(l.parts, r.parts, Radix), l.sign # Exceeds(r.parts, l.parts))

DecAdd(l, r) ==
  IF IsZero(l) THEN r
  ELSE IF l.sign = r.sign THEN Signed(DigitSum(l.parts, r.parts, Radix), l.sign)
  ELSE DecDifference(l, Opposite(r))

DecSubtract(l, r) ==
  IF l.sign = r.sign THEN DecDifference(l, r) ELSE DecAdd(l, Opposite(r))

DecMultiply(l, r) ==
  IF IsZero(l) \/ IsZero(r) THEN DecZero
  ELSE Signed(DigitProduct(l.parts, r.parts, Radix), l.sign # r.sign)

\* The set of results, empty if it throws or if it does not end: with two
\* digits more in r than in l an unsigned difference passes below zero.
DecDivMod(l, r) ==
  IF IsZero(r) THEN {}
  ELSE IF IsZero(l) \/ DecLessThan(l, r) THEN {[quotient |-> DecZero, remainder |-> l]}
  ELSE IF Equal(l, r) THEN {[quotient |-> DecWithU32(1), remainder |-> DecZero]}
  ELSE IF Len(l.parts) + 1 < Len(r.parts) THEN {}
  ELSE LET d == DigitDivMod(l.parts, r.parts, Radix)
       IN {[quotient  |-> Signed(TrimLeadingZero(d.quotient), l.sign # r.sign),
            remainder |-> Signed(TrimLeadingZero(d.dividend), FALSE)]}
=============================================================================
