----------------------------- MODULE ScalarLimbs -----------------------------
(***************************************************************************)
(* Scalars modulo the order of the curve, at their full width of 256 bits, *)
(* in words of Word bits, the lowest one first.  A result is a pair of the *)
(* words d and of ok, which tells that every VERIFY_CHECK held.            *)
(***************************************************************************)
EXTENDS BigNat
LOCAL INSTANCE SequencesExt

CONSTANTS Word,                      \* 64 with 128-bit products, else 32
          N, NC, NH                  \* the words of the order, of 2^256 less it, and of its half

Limbs == 256 \div Word
W(a) == Low(a, Word)
RECURSIVE Split(_, _)
Split(x, k) == IF k = 0 THEN <<>> ELSE <<W(x)>> \o Split(Shr(x, Word), k - 1)

Ok(d) == [d |-> d, ok |-> TRUE]
IsZero(a) == \A i \in 1 .. Limbs : a.d[i] = Zero
SetInt(v) == Ok(<<Big(v)>> \o [i \in 1 .. Limbs - 1 |-> Zero])

\* Sums of words that carry into the next: the words and the last carry.
RECURSIVE Chain(_, _, _)
Chain(cols, t, out) ==
  IF cols = <<>> THEN [d |-> out, carry |-> t]
  ELSE LET s == t ++ Head(cols) IN Chain(Tail(cols), Shr(s, Word), Append(out, W(s)))
Sums(cols) == Chain(cols, Zero, <<>>)

CheckOverflow(a) ==
  \E k \in 1 .. Limbs : /\ IF k = 1 THEN N[k] \preceq a[k] ELSE N[k] \prec a[k]
                        /\ \A j \in k + 1 .. Limbs : ~(a[j] \prec N[j])
OverflowBit(a) == IF CheckOverflow(a) THEN Big(1) ELSE Zero
Reduce(d, overflow) ==
  [d |-> Sums([i \in 1 .. Limbs |-> d[i] ++ (overflow ** (IF i <= Len(NC) THEN NC[i] ELSE Zero))]).d,
   ok |-> overflow \preceq Big(1)]

\* The sums s with their carry, reduced once.
ReduceSums(s) == Reduce(s.d, s.carry ++ OverflowBit(s.d))
If(ok, r) == [r EXCEPT !.ok = @ /\ ok]
AddScalar(a, b) == If(a.ok /\ b.ok, ReduceSums(Sums([i \in 1 .. Limbs |-> a.d[i] ++ b.d[i]])))
\* A flag of 0 moves the bit beyond the last word.
CaddBit(r, bit, flag) ==
  LET b == IF flag = 1 THEN bit ELSE bit + 256
      s == Sums([i \in 1 .. Limbs |-> r.d[i] ++ (IF b \div Word = i - 1 THEN Pow2(b % Word) ELSE Zero)])
  IN [d |-> s.d, ok |-> r.ok /\ bit < 256 /\ s.carry = Zero /\ ~CheckOverflow(s.d)]
Not(x) == Ones(Word) -- x
Negate(a) ==
  LET s == Sums([i \in 1 .. Limbs |-> Not(a.d[i]) ++ N[i] ++ (IF i = 1 THEN Big(1) ELSE Zero)])
  IN [a EXCEPT !.d = IF IsZero(a) THEN [i \in 1 .. Limbs |-> Zero] ELSE s.d]
\* A flag of 0 masks the complement and the order away.
CondNegate(r, flag) ==
  LET s == Sums([i \in 1 .. Limbs |-> IF flag = 1 THEN Not(r.d[i]) ++ W(N[i] ++ (IF i = 1 THEN Big(1) ELSE Zero)) ELSE r.d[i]])
  IN [r EXCEPT !.d = IF IsZero(r) THEN [i \in 1 .. Limbs |-> Zero] ELSE s.d]
IsHigh(a) ==
  \E k \in 1 .. Limbs : NH[k] \prec a.d[k] /\ \A j \in k + 1 .. Limbs : ~(a.d[j] \prec NH[j])

Bytes(b) == FromDigits(b, 8)
SetWords(d) == Reduce(d, OverflowBit(d))
SetB32(b) == SetWords(Split(Bytes(b), Limbs))
GetB32(a) ==
  [j \in 1 .. 32 |-> LET bit == 8 * (32 - j) IN At(Low(Shr(a.d[bit \div Word + 1], bit % Word), 8), 1)]
\* count bits from an offset, in one word or across two.
GetBitsVar(a, offset, count) ==
  LET q == offset \div Word + 1  s == offset % Word
  IN At(Low(Shr(a.d[q], s) ++ (IF s + count > Word THEN W(Shl(a.d[q + 1], Word - s)) ELSE Zero), count), 1)
ShrInt(r, n) ==
  [r EXCEPT !.d = [i \in 1 .. Limbs |-> W(Shr(r.d[i], n) ++ (IF i < Limbs THEN W(Shl(r.d[i + 1], Word - n)) ELSE Zero))]]
Split128(a) ==
  LET h == Limbs \div 2  zeros == [i \in 1 .. Limbs \div 2 |-> Zero]
  IN <<[a EXCEPT !.d = SubSeq(a.d, 1, h) \o zeros], [a EXCEPT !.d = SubSeq(a.d, h + 1, Limbs) \o zeros]>>

-----------------------------------------------------------------------------
(* The accumulator of three words c0, c1 and c2. *)

Over(sum, term) == IF sum \prec term THEN Big(1) ELSE Zero

\* The steps of the macros: a word of the accumulator plus x, and a check.
Plus(c, k, x) == [c EXCEPT ![k] = W(@ ++ x)]
Check(c, cond) == [c EXCEPT !.ok = @ /\ cond]

\* The end of a macro: c1 += th, with the carry into c2 or with none to come.
HighChecked(c, th) == Check(c, th \preceq c.c1 \/ c.c2 # Zero)
HighCarried(c, th) == HighChecked(Plus(c, "c2", Over(c.c1, th)), th)
AddHigh(c, th) == HighCarried(Plus(c, "c1", th), th)
HighFast(c, th) == Check(c, th \preceq c.c1)
AddHighFast(c, th) == HighFast(Plus(c, "c1", th), th)

\* The high word of the product t, after its low word was added to c0.
High(c, t) == W(Shr(t, Word) ++ Over(c.c0, W(t)))
LowAdded(c, t) == AddHigh(c, High(c, t))
LowAddedFast(c, t) == AddHighFast(c, High(c, t))
AddProduct(c, t) == LowAdded(Plus(c, "c0", W(t)), t)
AddProductFast(c, t) == LowAddedFast(Plus(c, "c0", W(t)), t)
MulAdd(c, x, y) == AddProduct(c, x ** y)
MulAddFast(c, x, y) == AddProductFast(c, x ** y)

\* A product twice: its high word is doubled, then its low word, which is
\* added to c0; th2 and c2 take the carries in this order.
LowChecked(c, tl2, th2) == Check(c, tl2 \preceq c.c0 \/ th2 # Zero \/ c.c2 # Zero)
LowCarried(c, tl2, th2) == AddHigh(LowChecked(Plus(c, "c2", IF c.c0 \prec tl2 /\ th2 = Zero THEN Big(1) ELSE Zero), tl2, th2), th2)
LowTwice(c, tl2, th2) == LowCarried(c, tl2, W(th2 ++ Over(c.c0, tl2)))
AddLowTwice(c, tl, tl2, th2) == LowTwice(Plus(c, "c0", tl2), tl2, W(th2 ++ Over(tl2, tl)))
TwiceChecked(c, th, th2) == Check(c, th \preceq th2 \/ c.c2 # Zero)
HighTwice(c, tl, th, th2) == AddLowTwice(TwiceChecked(Plus(c, "c2", Over(th2, th)), th, th2), tl, W(Shl(tl, 1)), th2)
AddWordsTwice(c, tl, th) == HighTwice(c, tl, th, W(Shl(th, 1)))
AddTwice(c, t) == AddWordsTwice(c, W(t), Shr(t, Word))
MulAdd2(c, x, y) == AddTwice(c, x ** y)

OverHigh(c, over) == Plus(c, "c2", Over(c.c1, over))
AddOver(c, over) == OverHigh(Plus(c, "c1", over), over)
SumCarried(c, x) == AddOver(c, Over(c.c0, x))
SumAdd(c, x) == SumCarried(Plus(c, "c0", x), x)
SumChecked(c, x) == Check(c, (c.c1 # Zero \/ x \preceq c.c0) /\ c.c2 = Zero)
SumCarriedFast(c, x) == SumChecked(Plus(c, "c1", Over(c.c0, x)), x)
SumAddFast(c, x) == SumCarriedFast(Plus(c, "c0", x), x)
Extract(c) == [c EXCEPT !.out = Append(c.out, c.c0), !.c0 = c.c1, !.c1 = c.c2, !.c2 = Zero]
ExtractFast(c) == [c EXCEPT !.out = Append(c.out, c.c0), !.c0 = c.c1, !.c1 = Zero, !.ok = c.ok /\ c.c2 = Zero]

\* A column is a sequence of macro calls that ends in an extraction.
Do(c, step) ==
  CASE step[1] = "muladd" -> MulAdd(c, step[2], step[3])
    [] step[1] = "muladd_fast" -> MulAddFast(c, step[2], step[3])
    [] step[1] = "muladd2" -> MulAdd2(c, step[2], step[3])
    [] step[1] = "sumadd" -> SumAdd(c, step[2])
    [] step[1] = "sumadd_fast" -> SumAddFast(c, step[2])
    [] step[1] = "extract" -> Extract(c)
    [] step[1] = "extract_fast" -> ExtractFast(c)
FastOf == [muladd |-> "muladd_fast", sumadd |-> "sumadd_fast", extract |-> "extract_fast"]
\* The first half of the steps, and then (once its result is known) the second.
RECURSIVE Perform(_, _)
PerformRest(c, steps) == IF c.ok \in BOOLEAN THEN Perform(c, steps) ELSE c
Perform(c, steps) ==
  LET n == Len(steps) \div 2
  IN IF n = 0 THEN Do(c, steps[1])
     ELSE PerformRest(Perform(c, SubSeq(steps, 1, n)), SubSeq(steps, n + 1, Len(steps)))
Acc(c0) == [c0 |-> c0, c1 |-> Zero, c2 |-> Zero, out |-> <<>>, ok |-> TRUE]
\* The integers from lo to hi, as a sequence.
Interval(lo, hi) == [i \in 1 .. (IF hi < lo THEN 0 ELSE hi - lo + 1) |-> lo + i - 1]

\* l[0 .. Limbs-1] + n * NC in one pass of the columns 0 to last; the ones
\* that cannot overflow two words are done by the fast macros.
FoldSteps(l, n, last) ==
  LET K == Len(NC) - 1
      muls(k) == Interval(IF k > Len(n) - 1 THEN k - Len(n) + 1 ELSE 0, IF k < K - 1 THEN k ELSE K - 1)
      kind(k, name) == IF k = 0 \/ k = last THEN FastOf[name] ELSE name
      column(k) ==
        (IF 0 < k /\ k < Limbs THEN <<<<IF k = 1 THEN "sumadd_fast" ELSE kind(k, "sumadd"), l[k + 1]>>>> ELSE <<>>)
        \o [i \in 1 .. Len(muls(k)) |-> <<kind(k, "muladd"), n[k - muls(k)[i] + 1], NC[muls(k)[i] + 1]>>]
        \o (IF K <= k /\ k - K < Len(n) THEN <<<<kind(k, "sumadd"), n[k - K + 1]>>>> ELSE <<>>)
        \o <<<<kind(k, "extract")>>>>
  IN FlattenSeq([k \in 1 .. last + 1 |-> column(k - 1)])
FoldColumns(l, n, last) == Perform(Acc(l[1]), FoldSteps(l, n, last))

\* 512 bits to 385, to 258, to 256, and the final reduction.
FoldTo256(out, p4) ==
  If(p4 \preceq Big(2), ReduceSums(Sums([i \in 1 .. Limbs |-> out[i] ++ (IF i <= Len(NC) THEN NC[i] ** p4 ELSE Zero)])))
FoldTo258(m6, p) == If(p.ok /\ m6 \preceq Big(1), FoldTo256(p.out, p.c0 ++ m6))
FoldTo385(m) ==
  If(m.ok, FoldTo258(m.c0, FoldColumns(SubSeq(m.out, 1, Limbs), Append(SubSeq(m.out, Limbs + 1, Len(m.out)), m.c0), Limbs - 1)))
Reduce512(l) == FoldTo385(FoldColumns(SubSeq(l, 1, Limbs), SubSeq(l, Limbs + 1, 2 * Limbs), Limbs + Limbs \div 2 - 1))

\* The product of two scalars, and the square of one, in 2 * Limbs words.
First(k) == IF k < Limbs THEN 0 ELSE k - Limbs + 1
Fast(k, name) == IF k \in {0, 2 * Limbs - 2} THEN FastOf[name] ELSE name
MulSteps(a, b) ==
  LET column(k) == [i \in 1 .. k - 2 * First(k) + 1 |-> <<Fast(k, "muladd"), a.d[First(k) + i], b.d[k - First(k) - i + 2]>>]
                   \o <<<<Fast(k, "extract")>>>>
  IN FlattenSeq([k \in 1 .. 2 * Limbs - 1 |-> column(k - 1)])
SqrSteps(a) ==
  LET pairs(k) == Interval(First(k), (k - 1) \div 2)
      column(k) == [i \in 1 .. Len(pairs(k)) |-> <<"muladd2", a.d[pairs(k)[i] + 1], a.d[k - pairs(k)[i] + 1]>>]
                   \o (IF k % 2 = 0 THEN <<<<Fast(k, "muladd"), a.d[k \div 2 + 1], a.d[k \div 2 + 1]>>>> ELSE <<>>)
                   \o <<<<Fast(k, "extract")>>>>
  IN FlattenSeq([k \in 1 .. 2 * Limbs - 1 |-> column(k - 1)])
AllWords(c) == [l |-> Append(c.out, c.c0), ok |-> c.ok /\ c.c1 = Zero]
Product512(steps) == AllWords(Perform(Acc(Zero), steps))
Mul512(a, b) == Product512(MulSteps(a, b))
Sqr512(a) == Product512(SqrSteps(a))
\* Nothing is computed from what a failed check has left.
Failed == [SetInt(0) EXCEPT !.ok = FALSE]
Reduced(q) == IF q.ok THEN Reduce512(q.l) ELSE Failed
Mul(a, b) == IF a.ok /\ b.ok THEN Reduced(Mul512(a, b)) ELSE Failed
Sqr(a) == IF a.ok THEN Reduced(Sqr512(a)) ELSE Failed

\* (a * b) / 2^shift, rounded by the highest bit that is shifted out.
ShiftedWord(l, shift, i) ==
  LET sl == shift \div Word  low == shift % Word
  IN IF shift < 512 - Word * (i - 1)
     THEN Shr(l[i + sl], low) ++ (IF shift < 512 - Word * i /\ low # 0 THEN W(Shl(l[i + 1 + sl], Word - low)) ELSE Zero)
     ELSE Zero
RoundedShift(q, shift) ==
  IF q.ok THEN CaddBit(Ok([i \in 1 .. Limbs |-> ShiftedWord(q.l, shift, i)]), 0, BitAt(q.l[(shift - 1) \div Word + 1], (shift - 1) % Word))
  ELSE Failed
MulShiftVar(a, b, shift) == IF a.ok /\ b.ok /\ shift >= 256 THEN RoundedShift(Mul512(a, b), shift) ELSE Failed

\* secp256k1_scalar_split_lambda
Const(w) == Ok(Split(Words16(w), Limbs))
MinusLambda == Const(<<44188, 21171, 16291, 53023, 23257, 58365, 30701, 39844, 43136, 47612, 36551, 14786, 57551, 51216, 46354, 33743>>)
MinusB1 == Const(<<58435, 32470, 270, 34856, 28500, 32681, 2751, 58563>>)
MinusB2 == Const([i \in 1 .. 7 |-> 65535] \o <<65534, 35368, 2757, 1908, 13421, 55141, 52648, 15793, 22060>>)
G1 == Const(<<12422, 53793, 42964, 27597, 59500, 37092, 37508, 60181, 15787>>)
G2 == Const(<<58435, 32470, 270, 34856, 28500, 32681, 2751, 58564, 8722>>)
SplitFrom(a, r2, l2) == IF l2.ok THEN <<AddScalar(l2, a), r2>> ELSE <<Failed, r2>>
SplitBy(a, r2) == SplitFrom(a, r2, Mul(r2, MinusLambda))
SumOf(c1, c2) == IF c1.ok /\ c2.ok THEN AddScalar(c1, c2) ELSE Failed
SplitLambda(a) == SplitBy(a, SumOf(Mul(MulShiftVar(a, G1, 272), MinusB1), Mul(MulShiftVar(a, G2, 272), MinusB2)))

-----------------------------------------------------------------------------
(* The same columns in assembly: one accumulator of three words, whose     *)
(* carries run by adc; the fast forms end at the second word and lose what *)
(* exceeds it.  Nothing is checked.                                        *)

AddWords(c, x, words) == [c EXCEPT !.acc = Low(Low(c.acc, words * Word) ++ x, words * Word)]
AsmExtract(c) == [c EXCEPT !.out = Append(c.out, W(c.acc)), !.acc = Shr(c.acc, Word)]
AsmDo(c, step) ==
  CASE step[1] = "muladd" -> AddWords(c, step[2] ** step[3], 3)
    [] step[1] = "muladd_fast" -> AddWords(c, step[2] ** step[3], 2)
    [] step[1] = "muladd2" -> AddWords(AddWords(c, step[2] ** step[3], 3), step[2] ** step[3], 3)
    [] step[1] = "sumadd" -> AddWords(c, step[2], 3)
    [] step[1] = "sumadd_fast" -> AddWords(c, step[2], 2)
    [] step[1] \in {"extract", "extract_fast"} -> AsmExtract(c)
RECURSIVE AsmPerform(_, _)
AsmRest(c, steps) == IF c.ok \in BOOLEAN THEN AsmPerform(c, steps) ELSE c
AsmPerform(c, steps) ==
  LET n == Len(steps) \div 2
  IN IF n = 0 THEN AsmDo(c, steps[1])
     ELSE AsmRest(AsmPerform(c, SubSeq(steps, 1, n)), SubSeq(steps, n + 1, Len(steps)))
AsmAcc(x) == [acc |-> x, out |-> <<>>, ok |-> TRUE]
AsmFold(l, n, last) == AsmPerform(AsmAcc(l[1]), FoldSteps(l, n, last))
AsmTo256(out, p4) == ReduceSums(Sums([i \in 1 .. Limbs |-> out[i] ++ (IF i <= Len(NC) THEN NC[i] ** p4 ELSE Zero)]))
AsmTo258(m6, p) == AsmTo256(p.out, W(p.acc ++ m6))
AsmTo385(out, m6) == AsmTo258(m6, AsmFold(SubSeq(out, 1, Limbs), Append(SubSeq(out, Limbs + 1, Len(out)), m6), Limbs - 1))
AsmFolded(m) == AsmTo385(m.out, W(m.acc))
AsmReduce512(l) == AsmFolded(AsmFold(SubSeq(l, 1, Limbs), SubSeq(l, Limbs + 1, 2 * Limbs), Limbs + Limbs \div 2 - 1))
AsmWords(c) == Append(c.out, W(c.acc))
AsmProduct(steps) == AsmWords(AsmPerform(AsmAcc(Zero), steps))
AsmMul(a, b) == AsmReduce512(AsmProduct(MulSteps(a, b)))
AsmSqr(a) == AsmReduce512(AsmProduct(SqrSteps(a)))
=============================================================================
