------------------------------ MODULE Field5x52 ------------------------------
(***************************************************************************)
(* Field elements in five limbs of 52 bits in words of 64 bits, at their   *)
(* full width: n is the limbs, the lowest one first; ok tells that every   *)
(* VERIFY_CHECK held.                                                      *)
(***************************************************************************)
EXTENDS BigNat

M == Ones(52)
T == Ones(48)                       \* the mask of the highest limb
C == Pow2(32) ++ Big(977)           \* 0x1000003D1: 2^256 modulo p
P0 == Pow2(52) -- C                 \* the lowest limb of p
R == Shl(C, 4)
W64(a) == Low(a, 64)

\* secp256k1_fe_verify
Verify(a) ==
  LET m == Big(IF a.norm THEN 1 ELSE 2 * a.mag) IN
  /\ \A i \in 1 .. 4 : a.n[i] \preceq (M ** m)
  /\ a.n[5] \preceq (T ** m) /\ a.mag <= 2048
  /\ a.norm => a.mag <= 1 /\ (a.n[5] = T /\ a.n[4] = M /\ a.n[3] = M /\ a.n[2] = M => a.n[1] \prec P0)
Verified(a, ok) == [a EXCEPT !.ok = ok /\ Verify(a)]
Fe(n, mag, norm, ok) == Verified([n |-> n, mag |-> mag, norm |-> norm, ok |-> TRUE], ok)

\* Every limb but the last gives what exceeds 52 bits to the next one.
RECURSIVE Pass(_)
Pass(t) ==
  IF Len(t) = 1 THEN t
  ELSE <<Low(t[1], 52)>> \o Pass(<<W64(t[2] ++ Shr(t[1], 52))>> \o SubSeq(t, 3, Len(t)))
AddC(t, x) == <<W64(t[1] ++ (x ** C))>> \o SubSeq(t, 2, 5)
\* The first pass: what exceeds 48 bits in the highest limb is folded.
Folded(n) == Pass(AddC(SubSeq(n, 1, 4) \o <<Low(n[5], 48)>>, Shr(n[5], 48)))
\* t is p or more, without a carry.
AtLeastP(t) == t[5] = T /\ t[4] = M /\ t[3] = M /\ t[2] = M /\ P0 \preceq t[1]

\* The second pass adds C when x is 1; the carry out of it must be x.
Normalized(u, x, ok) == Fe(SubSeq(u, 1, 4) \o <<Low(u[5], 48)>>, 1, TRUE, ok /\ Shr(u[5], 48) = x)
FinalPass(t, x, ok) == Normalized(Pass(AddC(t, x)), x, ok)
TooLarge(t) == Shr(t[5], 48) # Zero \/ AtLeastP(t)
ReduceOnce(t, ok) == FinalPass(t, IF TooLarge(t) THEN Big(1) ELSE Zero, ok /\ Fits(t[5], 49))
ReduceOnceVar(t, ok) == IF TooLarge(t) THEN FinalPass(t, Big(1), ok /\ Fits(t[5], 49)) ELSE Fe(t, 1, TRUE, ok /\ Fits(t[5], 49))
WeaklyReduced(t, norm, ok) == Fe(t, 1, norm, ok /\ Fits(t[5], 49))
Normalize(r) == ReduceOnce(Folded(r.n), r.ok)
NormalizeVar(r) == ReduceOnceVar(Folded(r.n), r.ok)
NormalizeWeak(r) == WeaklyReduced(Folded(r.n), r.norm, r.ok)

\* A raw zero, or a raw p: the masks z0 and z1.
IsRawZero(t) == \A i \in 1 .. 5 : t[i] = Zero
IsRawP(t) == t[1] = P0 /\ t[2] = M /\ t[3] = M /\ t[4] = M /\ t[5] = T
IsZeroModP(t) == IsRawZero(t) \/ IsRawP(t)
NormalizesToZero(r) == IsZeroModP(Folded(r.n))
\* The lowest limb decides most cases.
NormalizesToZeroVar(r) ==
  LET z0 == Low(W64(r.n[1] ++ (Shr(r.n[5], 48) ** C)), 52)
  IN (z0 = Zero \/ z0 = P0) /\ NormalizesToZero(r)

SetInt(i) == Fe(<<Big(i), Zero, Zero, Zero, Zero>>, 1, TRUE, TRUE)
\* What the limbs are subtracted from, for magnitude m.
Minuend(m) == [i \in 1 .. 5 |-> (CASE i = 1 -> P0 [] i = 5 -> T [] OTHER -> M) ** Big(2 * (m + 1))]
Negate(a, m) == Fe([i \in 1 .. 5 |-> W64((Minuend(m)[i] ++ Pow2(64)) -- a.n[i])], m + 1, FALSE, a.ok /\ a.mag <= m)
MulInt(r, i) == Fe([j \in 1 .. 5 |-> W64(r.n[j] ** Big(i))], r.mag * i, FALSE, r.ok)
AddFe(r, a) == Fe([i \in 1 .. 5 |-> W64(r.n[i] ++ a.n[i])], r.mag + a.mag, FALSE, r.ok /\ a.ok)
Cmov(r, a, flag) ==
  Fe(IF flag THEN a.n ELSE r.n, IF a.mag > r.mag THEN a.mag ELSE r.mag, r.norm /\ a.norm, r.ok /\ a.ok)
\* secp256k1_fe_cmp_var: the highest limb that differs decides.
FeLess(a, b) == \E i \in 1 .. 5 : a.n[i] \prec b.n[i] /\ \A j \in i + 1 .. 5 : a.n[j] = b.n[j]
IsOdd(a) == BitAt(a.n[1], 0) = 1

\* Bytes are numbers below 256, the highest one first.
Bytes(b) == FromDigits(b, 8)
SetB32(b) == [i \in 1 .. 5 |-> Low(Shr(Bytes(b), 52 * (i - 1)), IF i = 5 THEN 48 ELSE 52)]
SetB32Ok(b) == ~AtLeastP(SetB32(b))
\* A byte that begins at bit 48 of its limb has its high half in the next one.
GetB32(a) ==
  [j \in 1 .. 32 |->
    LET bit == 8 * (32 - j)  i == bit \div 52 + 1  s == bit % 52
    IN At(Low(Shr(a.n[i], s), IF s = 48 /\ i < 5 THEN 4 ELSE 8)
          ++ (IF s = 48 /\ i < 5 THEN Shl(Low(a.n[i + 1], 4), 4) ELSE Zero), 1)]

ToStorage(a) ==
  <<W64(a.n[1] ++ Shl(a.n[2], 52)), W64(Shr(a.n[2], 12) ++ Shl(a.n[3], 40)),
    W64(Shr(a.n[3], 24) ++ Shl(a.n[4], 28)), W64(Shr(a.n[4], 36) ++ Shl(a.n[5], 16))>>
FromStorage(s) ==
  Fe(<<Low(s[1], 52), Shr(s[1], 52) ++ Low(Shl(s[2], 12), 52), Shr(s[2], 40) ++ Low(Shl(s[3], 24), 52),
       Shr(s[3], 28) ++ Low(Shl(s[4], 36), 52), Shr(s[4], 16)>>, 1, TRUE, TRUE)

-----------------------------------------------------------------------------
\* secp256k1_fe_mul_inner and secp256k1_fe_sqr_inner from the columns p[0..8]
\* of the product; b gives the three bounds in which they differ.
\* The carries are c and d, n the limbs so far.
HighLimbs(p) ==
  LET d1 == p[3] ++ (Low(p[8], 52) ** R)
      d2 == Shr(d1, 52) ++ p[4]
      d3 == d2 ++ (Shr(p[8], 52) ** R)
  IN [t3 |-> Low(d1, 52), u4 |-> Low(d3, 52), c |-> Zero, d |-> Shr(d3, 52), n |-> <<>>,
      ok |-> /\ Fits(p[3], 114) /\ Fits(p[8], 112) /\ Fits(d1, 115) /\ Fits(Shr(p[8], 52), 60) /\ Fits(Shr(d1, 52), 63)
             /\ Fits(d2, 115) /\ Fits(d3, 116) /\ Fits(Shr(d3, 52), 64)]
FirstLimb(p, s, b) ==
  LET d == s.d ++ p[5]
      u0 == Shl(Low(d, 52), 4) ++ Shr(s.u4, 48)
      c == p[0] ++ (u0 ** Shr(R, 4))
  IN [s EXCEPT !.n = <<Low(c, 52)>>, !.c = Shr(c, 52), !.d = Shr(d, 52),
               !.ok = /\ @ /\ Fits(Shr(s.u4, 48), 4) /\ Fits(p[0], 112) /\ Fits(d, b[1]) /\ Fits(Shr(d, 52), b[2])
                      /\ Fits(u0, 56) /\ Fits(c, b[3]) /\ Fits(Shr(c, 52), 61)]
NextLimb(p, s, k) ==
  LET d == s.d ++ p[k + 5]
      c == s.c ++ p[k] ++ (Low(d, 52) ** R)
  IN [s EXCEPT !.n = Append(@, Low(c, 52)), !.c = Shr(c, 52), !.d = Shr(d, 52),
               !.ok = /\ @ /\ Fits(s.c ++ p[k], 114) /\ Fits(d, 114) /\ Fits(c, 115)
                      /\ Fits(Shr(d, 52), 62) /\ Fits(Shr(c, 52), 63)]
LastLimbs(s) ==
  LET c == s.c ++ (s.d ** R) ++ s.t3
      r4 == Shr(c, 52) ++ Low(s.u4, 48)
  IN [n |-> s.n \o <<Low(c, 52), r4>>, ok |-> s.ok /\ Fits(c, 100) /\ Fits(Shr(c, 52), 48) /\ Fits(r4, 49)]
Reduced(p, b) == LastLimbs(NextLimb(p, NextLimb(p, FirstLimb(p, HighLimbs(p), b), 1), 2))

RECURSIVE SumOver(_, _, _, _)
\* The sum of a[i] * b[k - i] for i from lo to hi.
SumOver(a, b, k, iv) ==
  LET mid == (iv[1] + iv[2]) \div 2 IN
  IF iv[1] > iv[2] THEN Zero
  ELSE IF iv[1] = iv[2] THEN a[iv[1] + 1] ** b[k - iv[1] + 1]
  ELSE SumOver(a, b, k, <<iv[1], mid>>) ++ SumOver(a, b, k, <<mid + 1, iv[2]>>)
First(k) == IF k > 4 THEN k - 4 ELSE 0
Columns(a, b) == [k \in 0 .. 8 |-> SumOver(a, b, k, <<First(k), k - First(k)>>)]
\* Every pair once, with its first factor doubled, and the square of the middle.
Squares(a) ==
  [k \in 0 .. 8 |-> SumOver([i \in 1 .. 5 |-> W64(Shl(a[i], 1))], a, k, <<First(k), (k - 1) \div 2>>)
                    ++ (IF k % 2 = 0 THEN a[k \div 2 + 1] ** a[k \div 2 + 1] ELSE Zero)]

MulInner(a, b) == Reduced(Columns(a, b), <<115, 63, 115>>)
SqrInner(a) == Reduced(Squares(a), <<114, 62, 113>>)

\* The assembly of both: accumulators of two registers, of which a shift by
\* 52 keeps the lower one only, and into which t3 and t4 are added without
\* a carry.
Acc(x) == Low(x, 128)
Sh(x) == W64(Shr(x, 52))
AsmFirst(p, s, d) ==
  LET c == Acc(p[0] ++ ((Shl(Low(d, 52), 4) ++ Shr(s.u4, 48)) ** Shr(R, 4)))
  IN [t3 |-> s.t3, u4 |-> s.u4, d |-> d, c |-> c, n |-> <<Low(c, 52)>>]
AsmLow(p, s) == AsmFirst(p, s, Acc(Sh(s.d) ++ p[5]))
AsmHigh(p) ==
  LET d1 == Acc(p[3] ++ (Low(p[8], 52) ** R))
      d3 == Acc(Sh(d1) ++ p[4] ++ (Sh(p[8]) ** R))
  IN AsmLow(p, [t3 |-> Low(d1, 52), u4 |-> Low(d3, 52), d |-> d3])
AsmNext(p, s, d, k) ==
  LET c == Acc(Sh(s.c) ++ p[k] ++ (Low(d, 52) ** R)) IN [s EXCEPT !.n = Append(@, Low(c, 52)), !.c = c, !.d = d]
AsmLimb(p, s, k) == AsmNext(p, s, Acc(Sh(s.d) ++ p[k + 5]), k)
AsmLast(s) ==
  LET c == Acc(W64(Sh(s.c) ++ s.t3) ++ (Sh(s.d) ** R)) IN s.n \o <<Low(c, 52), W64(Sh(c) ++ Low(s.u4, 48))>>
AsmReduced(p) == AsmLast(AsmLimb(p, AsmLimb(p, AsmHigh(p), 1), 2))
AsmMulInner(a, b) == AsmReduced(Columns(a, b))
AsmSqrInner(a) == AsmReduced(Squares(a))

SmallLimbs(n) == (\A i \in 1 .. 4 : Fits(n[i], 56)) /\ Fits(n[5], 52)
Made(r, ok) == Fe(r.n, 1, FALSE, r.ok /\ ok)
Mul(a, b) == Made(MulInner(a.n, b.n), a.ok /\ b.ok /\ a.mag <= 8 /\ b.mag <= 8 /\ SmallLimbs(a.n) /\ SmallLimbs(b.n))
Sqr(a) == Made(SqrInner(a.n), a.ok /\ a.mag <= 8 /\ SmallLimbs(a.n))
=============================================================================
