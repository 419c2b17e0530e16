----------------------------- MODULE Field10x26 ------------------------------
(***************************************************************************)
(* Field elements in ten limbs of 26 bits in words of 32 bits, at their    *)
(* full width: the build for machines without 128-bit products.            *)
(***************************************************************************)
EXTENDS BigNat

M == Ones(26)
T == Ones(22)                       \* the mask of the highest limb
C == Pow2(32) ++ Big(977)           \* 2^256 modulo p: 2^6 in the second limb, 0x3D1 in the first
PLimb == [i \in 1 .. 10 |-> CASE i = 1 -> M -- Big(976) [] i = 2 -> M -- Big(64) [] i = 10 -> T [] OTHER -> M]
R0 == Big(15632)                    \* 0x3D10
R1 == Big(1024)
W32(a) == Low(a, 32)
W64(a) == Low(a, 64)

\* With all the higher limbs full, p or more: a carry out of the second limb.
MidFull(t) == \A i \in 3 .. 9 : t[i] = M
LowCarries(t) == M \prec (t[2] ++ Big(64) ++ Shr(t[1] ++ Big(977), 26))
AtLeastP(t) == t[10] = T /\ MidFull(t) /\ LowCarries(t)

\* secp256k1_fe_verify
Verify(a) ==
  LET m == Big(IF a.norm THEN 1 ELSE 2 * a.mag) IN
  /\ \A i \in 1 .. 9 : a.n[i] \preceq (M ** m)
  /\ a.n[10] \preceq (T ** m) /\ a.mag <= 32
  /\ a.norm => a.mag <= 1 /\ ~(a.n[10] = T /\ MidFull(a.n) /\ LowCarries(a.n))
Verified(a, ok) == [a EXCEPT !.ok = ok /\ Verify(a)]
Fe(n, mag, norm, ok) == Verified([n |-> n, mag |-> mag, norm |-> norm, ok |-> TRUE], ok)

RECURSIVE Pass(_)
Pass(t) ==
  IF Len(t) = 1 THEN t
  ELSE <<Low(t[1], 26)>> \o Pass(<<W32(t[2] ++ Shr(t[1], 26))>> \o SubSeq(t, 3, Len(t)))
AddC(t, x) == <<W32(t[1] ++ (x ** Big(977))), W32(t[2] ++ Shl(x, 6))>> \o SubSeq(t, 3, 10)
Folded(n) == Pass(AddC(SubSeq(n, 1, 9) \o <<Low(n[10], 22)>>, Shr(n[10], 22)))
Masked(t) == SubSeq(t, 1, 9) \o <<Low(t[10], 22)>>

\* The second pass adds C when x is 1; the carry out of it must be x.
Normalized(u, x, ok) == Fe(Masked(u), 1, TRUE, ok /\ Shr(u[10], 22) = x)
FinalPass(t, x, ok) == Normalized(Pass(AddC(t, x)), x, ok)
TooLarge(t) == Shr(t[10], 22) # Zero \/ AtLeastP(t)
ReduceOnce(t, ok) == FinalPass(t, IF TooLarge(t) THEN Big(1) ELSE Zero, ok /\ Fits(t[10], 23))
ReduceOnceVar(t, ok) == IF TooLarge(t) THEN FinalPass(t, Big(1), ok /\ Fits(t[10], 23)) ELSE Fe(t, 1, TRUE, ok /\ Fits(t[10], 23))
WeaklyReduced(t, norm, ok) == Fe(t, 1, norm, ok /\ Fits(t[10], 23))
Normalize(r) == ReduceOnce(Folded(r.n), r.ok)
NormalizeVar(r) == ReduceOnceVar(Folded(r.n), r.ok)
NormalizeWeak(r) == WeaklyReduced(Folded(r.n), r.norm, r.ok)

IsRawZero(t) == \A i \in 1 .. 10 : t[i] = Zero
IsRawP(t) == \A i \in 1 .. 10 : t[i] = PLimb[i]
IsZeroModP(t) == IsRawZero(t) \/ IsRawP(t)
NormalizesToZero(r) == IsZeroModP(Folded(r.n))
NormalizesToZeroVar(r) ==
  LET z0 == Low(W32(r.n[1] ++ (Shr(r.n[10], 22) ** Big(977))), 26)
  IN (z0 = Zero \/ z0 = PLimb[1]) /\ NormalizesToZero(r)

SetInt(i) == Fe([j \in 1 .. 10 |-> IF j = 1 THEN Big(i) ELSE Zero], 1, TRUE, TRUE)
Negate(a, m) ==
  Fe([i \in 1 .. 10 |-> W32(((PLimb[i] ** Big(2 * (m + 1))) ++ Pow2(32)) -- a.n[i])], m + 1, FALSE, a.ok /\ a.mag <= m)
MulInt(r, i) == Fe([j \in 1 .. 10 |-> W32(r.n[j] ** Big(i))], r.mag * i, FALSE, r.ok)
AddFe(r, a) == Fe([i \in 1 .. 10 |-> W32(r.n[i] ++ a.n[i])], r.mag + a.mag, FALSE, r.ok /\ a.ok)
Cmov(r, a, flag) ==
  Fe(IF flag THEN a.n ELSE r.n, IF a.mag > r.mag THEN a.mag ELSE r.mag, r.norm /\ a.norm, r.ok /\ a.ok)
FeLess(a, b) == \E i \in 1 .. 10 : a.n[i] \prec b.n[i] /\ \A j \in i + 1 .. 10 : a.n[j] = b.n[j]
IsOdd(a) == BitAt(a.n[1], 0) = 1

Bytes(b) == FromDigits(b, 8)
SetB32(b) == [i \in 1 .. 10 |-> Low(Shr(Bytes(b), 26 * (i - 1)), IF i = 10 THEN 22 ELSE 26)]
SetB32Ok(b) == ~AtLeastP(SetB32(b))
\* A byte that begins above bit 18 of its limb has the rest in the next one.
GetB32(a) ==
  [j \in 1 .. 32 |->
    LET bit == 8 * (32 - j)  i == bit \div 26 + 1  s == bit % 26
    IN At(Low(Shr(a.n[i], s), 8) ++ (IF s > 18 /\ i < 10 THEN Shl(Low(a.n[i + 1], s - 18), 26 - s) ELSE Zero), 1)]

\* Word k holds the bits 32k to 32k + 31 of the limbs, which do not overlap.
ToStorage(a) ==
  <<W32(a.n[1] ++ Shl(a.n[2], 26)), W32(Shr(a.n[2], 6) ++ Shl(a.n[3], 20)), W32(Shr(a.n[3], 12) ++ Shl(a.n[4], 14)),
    W32(Shr(a.n[4], 18) ++ Shl(a.n[5], 8)), W32(Shr(a.n[5], 24) ++ Shl(a.n[6], 2) ++ Shl(a.n[7], 28)),
    W32(Shr(a.n[7], 4) ++ Shl(a.n[8], 22)), W32(Shr(a.n[8], 10) ++ Shl(a.n[9], 16)), W32(Shr(a.n[9], 16) ++ Shl(a.n[10], 10))>>
FromStorage(s) ==
  LET both(i, right, left) == Shr(s[i], right) ++ Low(Shl(s[i + 1], left), 26)
  IN Fe(<<Low(s[1], 26), both(1, 26, 6), both(2, 20, 12), both(3, 14, 18), both(4, 8, 24), Low(Shr(s[5], 2), 26),
          both(5, 28, 4), both(6, 22, 10), both(7, 16, 16), Shr(s[8], 10)>>, 1, TRUE, TRUE)

-----------------------------------------------------------------------------
\* The bounds asserted of c and d in the round that makes limb k.
CBound == <<Ones(60), Ones(62), Ones(62), Ones(63), Ones(63), Ones(63), Ones(63),
            Word64(32768, 124, 0, 7), Word64(36864, 123, 32768, 8)>>
CBound0 == <<Ones(61), Ones(63), Ones(63), Ones(64), Ones(64), Ones(64), Ones(64),
             Word64(32768, 368, 16383, 49911), Word64(36864, 367, 49151, 49912)>>
CBits1 == <<37, 38, 38, 39, 39, 39, 39, 38, 39>>
DBits == <<63, 63, 63, 63, 62, 62, 61, 58, 57>>
DBits1 == <<37, 37, 37, 37, 36, 36, 35, 32, 31>>

\* A round: column k enters c, column k + 10 enters d, whose low limb u is
\* folded into c, and c gives limb k.
Round(p, s, k) ==
  LET c == W64(s.c ++ p[k])
      d == W64(s.d ++ p[k + 10])
      u == Low(d, 26)
      c0 == W64(c ++ (u ** R0))
      c1 == Shr(c0, 26) ++ (u ** R1)
  IN [t |-> Append(s.t, Low(c0, 26)), c |-> c1, d |-> Shr(d, 26),
      ok |-> /\ s.ok /\ c \preceq CBound[k + 1] /\ c0 \preceq CBound0[k + 1] /\ Fits(c1, CBits1[k + 1])
             /\ Fits(d, DBits[k + 1]) /\ Fits(Shr(d, 26), DBits1[k + 1])]
RECURSIVE Rounds(_, _)
Rounds(p, s) == IF Len(s.t) = 9 THEN s ELSE Rounds(p, Round(p, s, Len(s.t)))

\* The last limb, and what is left of d and c in the three lowest ones.
LowLimbs(s, c1, c2) ==
  LET d0 == (c2 ** Shr(R0, 4)) ++ s.t[1]
      d1 == Shr(d0, 26) ++ (c2 ** Shr(R1, 4)) ++ s.t[2]
      d2 == Shr(d1, 26) ++ s.t[3]
  IN [ok |-> /\ s.ok /\ Fits(c1, 45) /\ Fits(c2, 46) /\ Fits(d0, 56) /\ Fits(Shr(d0, 26), 30)
           /\ Fits(d1, 53) /\ d1 \preceq Word64(16, 0, 1023, 65471)
           /\ Shr(d1, 26) \preceq Pow2(26) /\ Fits(d2, 27),
      n |-> <<Low(d0, 26), Low(d1, 26), d2>> \o SubSeq(s.t, 4, 9) \o <<Low(c1, 22)>>]
LastLimb(s, c1) == LowLimbs(s, c1, Shr(c1, 22) ++ (s.d ** Shl(R1, 4)))
AfterRounds(p, s) == LastLimb(s, s.c ++ (s.d ** R0) ++ Low(p[9], 26))
Reduced(p) == AfterRounds(p, Rounds(p, [t |-> <<>>, c |-> Zero, d |-> Shr(W64(p[9]), 26), ok |-> Fits(p[9], 64)]))

RECURSIVE SumOver(_, _, _, _)
SumOver(a, b, k, iv) ==
  LET mid == (iv[1] + iv[2]) \div 2 IN
  IF iv[1] > iv[2] THEN Zero
  ELSE IF iv[1] = iv[2] THEN a[iv[1] + 1] ** b[k - iv[1] + 1]
  ELSE SumOver(a, b, k, <<iv[1], mid>>) ++ SumOver(a, b, k, <<mid + 1, iv[2]>>)
First(k) == IF k > 9 THEN k - 9 ELSE 0
Columns(a, b) == [k \in 0 .. 18 |-> SumOver(a, b, k, <<First(k), k - First(k)>>)]
\* Every pair once, with its first factor doubled, and the square of the middle.
Squares(a) ==
  [k \in 0 .. 18 |-> SumOver([i \in 1 .. 10 |-> W32(Shl(a[i], 1))], a, k, <<First(k), (k - 1) \div 2>>)
                     ++ (IF k % 2 = 0 THEN a[k \div 2 + 1] ** a[k \div 2 + 1] ELSE Zero)]

MulInner(a, b) == Reduced(Columns(a, b))
SqrInner(a) == Reduced(Squares(a))

SmallLimbs(n) == (\A i \in 1 .. 9 : Fits(n[i], 30)) /\ Fits(n[10], 26)
Made(r, ok) == Fe(r.n, 1, FALSE, r.ok /\ ok)
\* The fold of the highest column into the second limb is dropped.
MutMul(a, b) == Made(Reduced([Columns(a.n, b.n) EXCEPT ![18] = Zero]), TRUE)
Mul(a, b) == Made(MulInner(a.n, b.n), a.ok /\ b.ok /\ a.mag <= 8 /\ b.mag <= 8 /\ SmallLimbs(a.n) /\ SmallLimbs(b.n))
Sqr(a) == Made(SqrInner(a.n), a.ok /\ a.mag <= 8 /\ SmallLimbs(a.n))
=============================================================================
