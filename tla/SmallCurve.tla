----------------------------- MODULE SmallCurve -----------------------------
(***************************************************************************)
(* The group code of secp256k1 over a small curve of prime order.  A field *)
(* element is its value modulo P, the magnitude that bounds its limbs,     *)
(* whether it is normalized, and whether every VERIFY_CHECK on the way to  *)
(* it held.  Points of y^2 = x^3 + CurveB are in affine (ge) and Jacobian  *)
(* (gej) coordinates, formula by formula; the law of the group by the      *)
(* textbook, to which the formulas are compared, is at the end.            *)
(***************************************************************************)
EXTENDS Integers, SequencesExt

CONSTANTS P, MaxMag,
          CurveB, Beta,
          N,      \* the prime order of the group
          GX, GY, \* its generator
          Lambda  \* multiplication by Beta of x is multiplication by Lambda
ASSUME PAssumption == P \in Nat /\ P % 4 = 3 /\ MaxMag \in Nat

Fe(v, mag, norm, ok) == [v |-> v % P, mag |-> mag, norm |-> norm, ok |-> ok /\ mag <= MaxMag]
FeInt(i) == Fe(i, 1, TRUE, TRUE)
FeClear == Fe(0, 0, TRUE, TRUE)

\* The product needs operands of magnitude 8 at most.
FeMul(a, b) == Fe(a.v * b.v, 1, FALSE, a.ok /\ b.ok /\ a.mag <= 8 /\ b.mag <= 8)
FeSqr(a) == FeMul(a, a)
FeMulInt(a, i) == Fe(a.v * i, a.mag * i, FALSE, a.ok)
FeAdd(a, b) == Fe(a.v + b.v, a.mag + b.mag, FALSE, a.ok /\ b.ok)
\* The caller tells a bound on the magnitude of what it negates.
FeNegate(a, m) == Fe((m + 1) * P - a.v, m + 1, FALSE, a.ok /\ a.mag <= m)
FeNormalizeWeak(a) == Fe(a.v, 1, a.norm, a.ok)
FeNormalize(a) == Fe(a.v, 1, TRUE, a.ok)
FeCmov(r, a, flag) ==
  Fe(IF flag THEN a.v ELSE r.v, IF a.mag > r.mag THEN a.mag ELSE r.mag, r.norm /\ a.norm, r.ok /\ a.ok)

NormalizesToZero(a) == a.v = 0
FeIsOdd(a) == a.v % 2 = 1
FeEqual(a, b) == NormalizesToZero(FeAdd(FeNegate(a, 1), b))

PowerOf(h, v) == (h * h * v) % P
RECURSIVE Power(_, _)
Power(v, e) ==
  IF e = 0 THEN 1 ELSE PowerOf(Power(v, e \div 2), IF e % 2 = 1 THEN v ELSE 1)
\* Of v at place v + 1, as sequences that TLC evaluates once.
Inverses == [v \in 1 .. P |-> Power(v - 1, P - 2)] \o <<>>
Roots == [v \in 1 .. P |-> Power(v - 1, (P + 1) \div 4)] \o <<>>
\* The chains of squarings and products for P - 2 and (P + 1) / 4.
FeInv(a) == Fe(Inverses[a.v + 1], 1, FALSE, a.ok /\ a.mag <= 8)
FeSqrt(a) == Fe(Roots[a.v + 1], 1, FALSE, a.ok /\ a.mag <= 8)
\* What secp256k1_fe_sqrt returns.
FeHasSqrt(a) == FeEqual(FeSqr(FeSqrt(a)), a)
IsSquareOf(v, root) == root * root % P = v
FeIsQuad(a) == IsSquareOf(FeNormalize(a).v, Roots[FeNormalize(a).v + 1])

\* The products of all up to i, one inversion, and the inverses backwards.
FeInvAll(a) ==
  LET n == Len(a)
      pre[i \in 1 .. n] == IF i = 1 THEN a[1] ELSE FeMul(pre[i - 1], a[i])
      u[i \in 1 .. n] == IF i = n THEN FeInv(pre[n]) ELSE FeMul(u[i + 1], a[i + 1])
  IN [i \in 1 .. n |-> IF i = 1 THEN u[1] ELSE FeMul(pre[i - 1], u[i])]
-----------------------------------------------------------------------------
Ge(x, y) == [inf |-> FALSE, x |-> x, y |-> y]
Gej(x, y, z) == [inf |-> FALSE, x |-> x, y |-> y, z |-> z]
GeInfinity == [inf |-> TRUE, x |-> FeClear, y |-> FeClear]
GejInfinity == [inf |-> TRUE, x |-> FeClear, y |-> FeClear, z |-> FeClear]
GejSetGe(a) == [inf |-> a.inf, x |-> a.x, y |-> a.y, z |-> FeInt(1)]

\* secp256k1_ge_set_gej_zinv
GeScaled(a, zi2, zi3) == [inf |-> a.inf, x |-> FeMul(a.x, zi2), y |-> FeMul(a.y, zi3)]
GeSetGejZinv(a, zi) == GeScaled(a, FeSqr(zi), FeMul(FeSqr(zi), zi))
\* For infinity the coordinates are left as they were: here zero.
GeSetGejVar(a) == IF a.inf THEN GeInfinity ELSE GeSetGejZinv(a, FeInv(a.z))
GeSetGej(a) == GeSetGejZinv(a, FeInv(a.z))

Finite(a) == SelectSeq(a, LAMBDA p : ~p.inf)
\* secp256k1_ge_set_all_gej_var: the finite points share one inversion.
GeSetAll(a) ==
  LET zi == FeInvAll([i \in 1 .. Len(Finite(a)) |-> Finite(a)[i].z])
      count(i) == Len(Finite(SubSeq(a, 1, i)))
  IN [i \in 1 .. Len(a) |-> IF a[i].inf THEN GeInfinity ELSE GeSetGejZinv(a[i], zi[count(i)])]
\* secp256k1_ge_set_table_gej_var: zr[i] is the ratio of the z of a[i] and of a[i - 1].
GeSetTable(a, zr) ==
  LET n == Len(a)
      zi[i \in 1 .. n] == IF i = n THEN FeInv(a[n].z) ELSE FeMul(zi[i + 1], zr[i + 1])
  IN [i \in 1 .. n |-> GeSetGejZinv(a[i], zi[i])]
\* secp256k1_ge_globalz_set_table_gej: as if all had the z of the last one.
GlobalZTable(a, zr) ==
  LET n == Len(a)
      zs[i \in 1 .. n] == IF i = n THEN FeInt(1) ELSE IF i = n - 1 THEN zr[n] ELSE FeMul(zs[i + 1], zr[i + 1])
  IN [i \in 1 .. n |-> IF i = n THEN Ge(a[n].x, a[n].y) ELSE GeSetGejZinv(a[i], zs[i])]

GeNeg(a) == [a EXCEPT !.y = FeNegate(FeNormalizeWeak(@), 1)]
GejNeg(a) == GeNeg(a)
GeMulLambda(a) == [a EXCEPT !.x = FeMul(@, FeInt(Beta))]
GejScaled(r, s, zz) == [r EXCEPT !.x = FeMul(@, zz), !.y = FeMul(FeMul(@, zz), s), !.z = FeMul(@, s)]
GejRescale(r, s) == GejScaled(r, s, FeSqr(s))

CurveRhs(x) == FeAdd(FeInt(CurveB), FeMul(x, FeSqr(x)))
\* secp256k1_ge_set_xquad: the point with the y that is a square, if c has a root.
OnCurveX(x) == FeHasSqrt(CurveRhs(x))
GeSetXquad(x) == Ge(x, FeSqrt(CurveRhs(x)))
GeWithY(x, y, odd) == Ge(x, IF FeIsOdd(y) # odd THEN FeNegate(y, 1) ELSE y)
GeSetXo(x, odd) == GeWithY(x, FeNormalize(GeSetXquad(x).y), odd)

GejEqX(x, a) == FeEqual(FeMul(FeSqr(a.z), x), FeNormalizeWeak(a.x))
GejIsValid(a) ==
  LET z2 == FeSqr(a.z)
      x3 == FeAdd(FeMul(FeSqr(a.x), a.x), FeMulInt(FeMul(FeSqr(z2), z2), CurveB))
  IN ~a.inf /\ FeEqual(FeSqr(a.y), FeNormalizeWeak(x3))
GeIsValid(a) ==
  ~a.inf /\ FeEqual(FeSqr(a.y), FeNormalizeWeak(FeAdd(FeMul(FeSqr(a.x), a.x), FeInt(CurveB))))
GejHasQuadY(a) == ~a.inf /\ FeIsQuad(FeMul(a.y, a.z))

GeToStorage(a) == [x |-> FeNormalize(a.x).v, y |-> FeNormalize(a.y).v]
GeFromStorage(s) == Ge(FeInt(s.x), FeInt(s.y))

-----------------------------------------------------------------------------
\* The additions give the sum r and the ratio rzr of its z to the one of a.
GejSum(r, rzr) == [r |-> r, rzr |-> rzr]

\* secp256k1_gej_double_var
TangentAt(t1, t2, t3, t4, z) ==
  Gej(FeAdd(FeNegate(FeMulInt(t3, 4), 4), t2),
      FeAdd(FeMul(t1, FeAdd(FeMulInt(t3, 6), FeNegate(t2, 1))), FeNegate(t4, 2)), z)
Tangent(a, t1, u3) == TangentAt(t1, FeSqr(t1), FeMul(u3, a.x), FeMulInt(FeSqr(u3), 2), FeMulInt(FeMul(a.z, a.y), 2))
GejDouble(a) ==
  IF a.inf THEN GejSum(a, FeInt(1))
  ELSE GejSum(Tangent(a, FeMulInt(FeSqr(a.x), 3), FeMulInt(FeSqr(a.y), 2)), FeMulInt(FeNormalizeWeak(a.y), 2))

\* The chord through two different x: the part that the three additions share,
\* for u1, u2, s1, s2 with h = u2 - u1 and i = s2 - s1, and z the new z.
ChordAt(x, t, h3, s1, i, z) == Gej(x, FeAdd(FeMul(FeAdd(FeNegate(x, 5), t), i), FeNegate(FeMul(h3, s1), 1)), z)
ChordX(t, h3, s1, i, z) == ChordAt(FeAdd(FeNegate(FeAdd(FeMulInt(t, 2), h3), 3), FeSqr(i)), t, h3, s1, i, z)
ChordBy(h2, u1, s1, h, i, z) == ChordX(FeMul(u1, h2), FeMul(h, h2), s1, i, z)
Chord(u1, s1, h, i, z) == ChordBy(FeSqr(h), u1, s1, h, i, z)
Diff(u1, u2) == FeAdd(FeNegate(u1, 1), u2)
\* The infinity of r is set and its coordinates are left alone; r is a in the callers.
Cancelled(a) == GejSum([a EXCEPT !.inf = TRUE], FeInt(0))

\* The sum of two finite points, and the tests for equal and for opposite ones.
FiniteSum(a, u1, s1, h, i, hz) ==
  IF NormalizesToZero(h) THEN IF NormalizesToZero(i) THEN GejDouble(a) ELSE Cancelled(a)
  ELSE GejSum(Chord(u1, s1, h, i, FeMul(a.z, hz)), hz)

\* secp256k1_gej_add_var
GejAddBy(a, b, u1, s1, h, i) == FiniteSum(a, u1, s1, h, i, FeMul(h, b.z))
GejAddTo(a, b, u1, u2, s1, s2) == GejAddBy(a, b, u1, s1, Diff(u1, u2), Diff(s1, s2))
GejAddOver(a, b, z22, z12) ==
  GejAddTo(a, b, FeMul(a.x, z22), FeMul(b.x, z12), FeMul(FeMul(a.y, z22), b.z), FeMul(FeMul(b.y, z12), a.z))
GejAdd(a, b) ==
  IF a.inf THEN GejSum(b, FeInt(1)) ELSE IF b.inf THEN GejSum(a, FeInt(1))
  ELSE GejAddOver(a, b, FeSqr(b.z), FeSqr(a.z))

\* An affine b, for the z that a has for it.
MixedBy(a, u1, s1, h, i) == FiniteSum(a, u1, s1, h, i, h)
MixedTo(a, u1, u2, s1, s2) == MixedBy(a, u1, s1, Diff(u1, u2), Diff(s1, s2))
Mixed(a, b, az, z12) ==
  MixedTo(a, FeNormalizeWeak(a.x), FeMul(b.x, z12), FeNormalizeWeak(a.y), FeMul(FeMul(b.y, z12), az))
\* secp256k1_gej_add_ge_var
GejAddGe(a, b) ==
  IF a.inf THEN GejSum(GejSetGe(b), FeInt(1)) ELSE IF b.inf THEN GejSum(a, FeInt(1))
  ELSE Mixed(a, b, a.z, FeSqr(a.z))

\* secp256k1_gej_add_zinv_var: b has z 1/bzinv.
ZinvSet(b, bzinv, bzinv2) == Gej(FeMul(b.x, bzinv2), FeMul(b.y, FeMul(bzinv2, bzinv)), FeInt(1))
ZinvSum(a, b, az) == Mixed(a, b, az, FeSqr(az)).r
GejAddZinv(a, b, bzinv) ==
  IF b.inf THEN a
  ELSE IF a.inf THEN ZinvSet(b, bzinv, FeSqr(bzinv))
  ELSE ZinvSum(a, b, FeMul(a.z, bzinv))

Degenerate(m, rr) == NormalizesToZero(m) /\ NormalizesToZero(rr)

\* secp256k1_gej_add_ge: one formula for addition and doubling, without branches.
UnifiedTo(a, b, x, y, z) ==
  [inf |-> NormalizesToZero(z) /\ ~a.inf,
   x |-> FeCmov(FeMulInt(x, 4), b.x, a.inf),
   y |-> FeCmov(FeMulInt(y, 4), b.y, a.inf),
   z |-> FeCmov(FeMulInt(z, 2), FeInt(1), a.inf)]
UnifiedX(a, b, x, rrAlt, n, q, z) ==
  UnifiedTo(a, b, x, FeNormalizeWeak(FeNegate(FeAdd(FeMul(FeAdd(FeMulInt(x, 2), q), rrAlt), n), 3)), z)
UnifiedQ(a, b, rrAlt, n, q, z) == UnifiedX(a, b, FeNormalizeWeak(FeAdd(FeSqr(rrAlt), q)), rrAlt, n, q, z)
UnifiedN(a, b, t, m, degenerate, rrAlt, mAlt, n2) ==
  UnifiedQ(a, b, rrAlt, FeCmov(FeSqr(n2), m, degenerate), FeNegate(FeMul(n2, t), 1), FeMul(a.z, mAlt))
UnifiedAlt(a, b, t, m, degenerate, rrAlt, mAlt) == UnifiedN(a, b, t, m, degenerate, rrAlt, mAlt, FeSqr(mAlt))
UnifiedIf(a, b, u1, s1, nu2, t, m, rr, degenerate) ==
  UnifiedAlt(a, b, t, m, degenerate, FeCmov(FeMulInt(s1, 2), rr, ~degenerate), FeCmov(FeAdd(nu2, u1), m, ~degenerate))
UnifiedR(a, b, u1, s1, nu2, t, m, rr) == UnifiedIf(a, b, u1, s1, nu2, t, m, rr, Degenerate(m, rr))
UnifiedT(a, b, u1, s1, nu2, t, m) == UnifiedR(a, b, u1, s1, nu2, t, m, FeAdd(FeSqr(t), FeMul(u1, nu2)))
UnifiedU(a, b, u1, u2, s1, s2) == UnifiedT(a, b, u1, s1, FeNegate(u2, 1), FeAdd(u1, u2), FeAdd(s1, s2))
UnifiedZ(a, b, zz) ==
  UnifiedU(a, b, FeNormalizeWeak(a.x), FeMul(b.x, zz), FeNormalizeWeak(a.y), FeMul(FeMul(b.y, zz), a.z))
GejAddGeConst(a, b) == UnifiedZ(a, b, FeSqr(a.z))

-----------------------------------------------------------------------------
\* The law of the group on pairs of numbers; <<>> is the point at infinity.
Slope(p, q) ==
  IF p = q THEN 3 * p[1] * p[1] * Inverses[((2 * p[2]) % P) + 1]
  ELSE (q[2] + P - p[2]) * Inverses[((q[1] + P - p[1]) % P) + 1]
ThirdY(p, l, x) == <<x, (l * (p[1] + P - x) + P - p[2]) % P>>
Third(p, q, l) == ThirdY(p, l, (l * l + 2 * P - p[1] - q[1]) % P)
Plus(p, q) ==
  IF p = <<>> THEN q ELSE IF q = <<>> THEN p
  ELSE IF p[1] = q[1] /\ (p[2] + q[2]) % P = 0 THEN <<>>
  ELSE Third(p, q, Slope(p, q) % P)
RECURSIVE MultiplesTo(_)
Further(m) == Append(m, Plus(Last(m), <<GX, GY>>))
MultiplesTo(i) == IF i = 0 THEN << <<>> >> ELSE Further(MultiplesTo(i - 1))
MultipleSeq == MultiplesTo(N - 1)
Multiple == [i \in 0 .. N - 1 |-> MultipleSeq[i + 1]]
Log(p) == CHOOSE i \in 0 .. N - 1 : Multiple[i] = p
\* Points given as pairs or as multiples of the generator.
Generator == Ge(FeInt(GX), FeInt(GY))
GeOf(p) == IF p = <<>> THEN GeInfinity ELSE Ge(FeInt(p[1]), FeInt(p[2]))
PointOf(a) == IF a.inf THEN <<>> ELSE <<a.x.v, a.y.v>>
Affine(a) == PointOf(GeSetGejVar(a))
Valid(r) == r.x.ok /\ r.y.ok /\ r.z.ok
=============================================================================
