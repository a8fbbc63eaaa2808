-------------------------------- MODULE Digits --------------------------------
(***************************************************************************)
(* The school algorithms on lists of digits, the most significant first,   *)
(* which Collections::Integer and Collections::Decimal both spell out.     *)
(* They differ in the base, and Integer's division in what it trims.       *)
(***************************************************************************)
EXTENDS Integers, Sequences

LOCAL INSTANCE SequencesExt

\* The digit of weight base^(i - 1), or 0 in front of the digits.
Low(parts, i) == IF i <= Len(parts) THEN parts[Len(parts) + 1 - i] ELSE 0

Longest(a, b) == IF Len(a) > Len(b) THEN Len(a) ELSE Len(b)
Shortest(a, b) == IF Len(a) < Len(b) THEN Len(a) ELSE Len(b)

AllZero(parts) == \A i \in 1..Len(parts) : parts[i] = 0

\* What the digits stand for.
Magnitude(parts, base) == FoldLeft(LAMBDA m, digit : m * base + digit, 0, parts)

\* One digit at least stays, if there was one.
TrimLeadingZero(parts) ==
  IF parts = <<>> THEN parts
  ELSE LET first == CHOOSE i \in 1..Len(parts) :
                      /\ parts[i] # 0 \/ i = Len(parts)
                      /\ \A j \in 1..i - 1 : parts[j] = 0
       IN SubSeq(parts, first, Len(parts))

TrimTrailingZero(parts) == Reverse(TrimLeadingZero(Reverse(parts)))

\* The comparison: more digits, or the larger one where they first differ.
Exceeds(a, b) ==
  \/ Len(a) > Len(b)
  \/ /\ Len(a) = Len(b)
     /\ \E i \in 1..Len(a) : a[i] > b[i] /\ \A j \in 1..i - 1 : a[j] = b[j]

\* A faulty variant: a carry out of the last digits is lost.
SumOfLength(a, b, base) ==
  LET n == Longest(a, b)
      carry[i \in 0..n] ==
        IF i = 0 THEN 0 ELSE (Low(a, i) + Low(b, i) + carry[i - 1]) \div base
  IN [k \in 1..n |-> (Low(a, n + 1 - k) + Low(b, n + 1 - k) + carry[n - k]) % base]

DigitSum(a, b, base) ==
  LET n == Longest(a, b)
      carry[i \in 0..n] ==
        IF i = 0 THEN 0 ELSE (Low(a, i) + Low(b, i) + carry[i - 1]) \div base
      digits == [k \in 1..n |-> (Low(a, n + 1 - k) + Low(b, n + 1 - k) + carry[n - k]) % base]
  IN IF carry[n] = 0 THEN digits ELSE <<carry[n]>> \o digits

\* The smaller, by that comparison, from the larger.
DigitDifference(a, b, base) ==
  LET large == IF Exceeds(b, a) THEN b ELSE a
      small == IF Exceeds(b, a) THEN a ELSE b
      n == Longest(a, b)
      borrow[i \in 0..n] ==
        IF i > 0 /\ Low(large, i) < Low(small, i) + borrow[i - 1] THEN 1 ELSE 0
  IN TrimLeadingZero(
       [k \in 1..n |->
          LET i == n + 1 - k
          IN (base + Low(large, i) - Low(small, i) - borrow[i - 1]) % base])

\* Each product goes to its place in the result, least significant first, and
\* what is too much there to the next.
DigitProduct(a, b, base) ==
  LET place(result, ij) ==
        LET k == ij[1] + ij[2] - 1
            t == result[k] + Low(a, ij[1]) * Low(b, ij[2])
        IN [result EXCEPT ![k] = t % base, ![k + 1] = @ + t \div base]
      pairs == [m \in 1..Len(a) * Len(b) |->
                  <<(m - 1) \div Len(b) + 1, ((m - 1) % Len(b)) + 1>>]
      zeros == [k \in 1..Len(a) + Len(b) + 1 |-> 0]
  IN Reverse(TrimTrailingZero(FoldLeft(place, zeros, pairs)))

AtLeast(a, b) == Exceeds(a, b) \/ a = b \/ (AllZero(a) /\ AllZero(b))

\* How often `divisor` can be taken away, and what stays.
RECURSIVE TakeAway(_, _, _, _)
TakeAway(dividend, divisor, base, count) ==
  IF AtLeast(dividend, divisor)
    THEN TakeAway(DigitDifference(dividend, divisor, base), divisor, base, count + 1)
    ELSE [dividend |-> dividend, count |-> count]

\* Long division of a by b, which has at most one digit more: a digit of the
\* quotient for every place of b below a.
DigitDivMod(a, b, base) ==
  LET step(s, i) ==
        LET taken == TakeAway(s.dividend, b, base, 0)
            down  == IF i + Len(b) <= Len(a) THEN <<a[i + Len(b)]>> ELSE <<>>
        IN [dividend |-> TrimLeadingZero(taken.dividend \o down),
            quotient |-> Append(s.quotient, taken.count)]
  IN FoldLeft(step,
              [dividend |-> SubSeq(a, 1, Shortest(a, b)), quotient |-> <<>>],
              [i \in 1..Len(a) - Len(b) + 1 |-> i])
=============================================================================
