------------------------------- MODULE BigNat -------------------------------
(***************************************************************************)
(* Natural numbers of any size, as sequences of digits to the base 2^13,   *)
(* the least one first and the last one not zero: the words of secp256k1   *)
(* do not fit into TLC's integers.                                         *)
(***************************************************************************)
EXTENDS Integers, Sequences

Digit == 13
Radix == 8192

Zero == <<>>
Big(n) == IF n = 0 THEN <<>> ELSE IF n < Radix THEN <<n>> ELSE <<n % Radix, n \div Radix>>
RECURSIVE Trim(_)
Trim(s) == IF s # <<>> /\ s[Len(s)] = 0 THEN Trim(SubSeq(s, 1, Len(s) - 1)) ELSE s
At(a, i) == IF i <= Len(a) THEN a[i] ELSE 0

\* The digits of a + k * b from the place i on, with the carry c.
RECURSIVE Digits(_, _, _, _, _)
DigitThen(t, a, b, k, i) == <<t % Radix>> \o Digits(a, b, k, i + 1, t \div Radix)
Digits(a, b, k, i, c) ==
  IF i > Len(a) /\ i > Len(b) /\ c = 0 THEN <<>> ELSE DigitThen(At(a, i) + k * At(b, i) + c, a, b, k, i)
a ++ b == Digits(a, b, 1, 1, 0)
\* The difference, of a number and one that is not larger.
a -- b == Trim(Digits(a, b, -1, 1, 0))

\* The digits of a * b from the place k on, with the carry c.
RECURSIVE Column(_, _, _, _)
Column(a, b, k, i) == IF i > Len(a) \/ i > k THEN 0 ELSE a[i] * At(b, k + 1 - i) + Column(a, b, k, i + 1)
RECURSIVE Product(_, _, _, _)
ColumnThen(t, a, b, k) == <<t % Radix>> \o Product(a, b, k + 1, t \div Radix)
Product(a, b, k, c) == IF k >= Len(a) + Len(b) /\ c = 0 THEN <<>> ELSE ColumnThen(Column(a, b, k, 1) + c, a, b, k)
a ** b == IF a = <<>> \/ b = <<>> THEN <<>> ELSE Product(a, b, 1, 0)

\* By whole digits, and then by less than one.
RECURSIVE Shr(_, _)
Shr(a, n) ==
  IF n < Digit THEN Trim([i \in 1 .. Len(a) |-> a[i] \div 2^n + (At(a, i + 1) % 2^n) * 2^(Digit - n)])
  ELSE IF Len(a) <= n \div Digit THEN <<>> ELSE Shr(SubSeq(a, n \div Digit + 1, Len(a)), n % Digit)
Zeros(n) == [i \in 1 .. n |-> 0]
Shl(a, n) == IF a = <<>> THEN <<>> ELSE Zeros(n \div Digit) \o Digits(<<>>, a, 2^(n % Digit), 1, 0)
\* The n lowest bits.
LowDigits(a, q, r) == IF Len(a) <= q THEN a ELSE Trim(SubSeq(a, 1, q) \o <<a[q + 1] % r>>)
Low(a, n) == LowDigits(a, n \div Digit, 2^(n % Digit))
\* a has n bits at most.
Fits(a, n) == Shr(a, n) = <<>>
Pow2(n) == Zeros(n \div Digit) \o <<2^(n % Digit)>>
Ones(n) == Trim([i \in 1 .. n \div Digit |-> Radix - 1] \o <<2^(n % Digit) - 1>>)
BitAt(a, i) == (At(a, i \div Digit + 1) \div 2^(i % Digit)) % 2

RECURSIVE Less(_, _, _)
Less(a, b, i) == i > 0 /\ (a[i] < b[i] \/ (a[i] = b[i] /\ Less(a, b, i - 1)))
a \prec b == Len(a) < Len(b) \/ (Len(a) = Len(b) /\ Less(a, b, Len(a)))
a \preceq b == a = b \/ a \prec b

\* The number with the limbs t of w bits, the lowest one first.
RECURSIVE Value(_, _)
Halves(t, n, w) == Value(SubSeq(t, 1, n), w) ++ Shl(Value(SubSeq(t, n + 1, Len(t)), w), w * n)
Value(t, w) == CASE t = <<>> -> <<>> [] Len(t) = 1 -> t[1] [] OTHER -> Halves(t, Len(t) \div 2, w)
\* The number with the digits s of w bits, the highest one first.
FromDigits(s, w) == Value([i \in 1 .. Len(s) |-> Big(s[Len(s) + 1 - i])], w)
Words16(s) == FromDigits(s, 16)

\* Words of 32 and of 64 bits, of 16 bits each.
Word32(hi, lo) == Trim(<<lo % Radix, (8 * hi + lo \div Radix) % Radix, hi \div 1024>>)
Word64(w3, w2, w1, w0) == Word32(w1, w0) ++ Shl(Word32(w3, w2), 32)

\* x modulo 2^256 - c, by 2^256 = c.
RECURSIVE ModC(_, _)
ModC(x, c) ==
  IF ~Fits(x, 256) THEN ModC(Low(x, 256) ++ (Shr(x, 256) ** c), c)
  ELSE IF Fits(x ++ c, 256) THEN x ELSE Low(x ++ c, 256)
=============================================================================
