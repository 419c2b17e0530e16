-------------------------------- MODULE Curve --------------------------------
(***************************************************************************)
(* The curve of secp256k1 as a small one, part by part:                    *)
(*   "law"    a Jacobian accumulator under every operation of the group    *)
(*            code, beside the multiple of the generator it must stand for;*)
(*   "mul"    the multiplications of Ecmult;                               *)
(*   "multi"  the batches of Ecmult;                                       *)
(*   "keys", "sign"  the callers of the library of Ecdsa;                  *)
(*   "cert"   the replicas of Ecdsa.                                       *)
(* A behaviour is one part's; the variables of the others rest.            *)
(***************************************************************************)
EXTENDS Ecmult, Ecdsa

CONSTANT Parts  \* the parts that are run

VARIABLES
  part,
  point, mult, ratio   \* "law": ratio says that the ratio of the z that the last addition reported was right
lawVars == <<point, mult, ratio>>
vars == <<part, lawVars, batchVars, mulVars, secret, keyVars, signVars, certVars>>

-----------------------------------------------------------------------------
\* The greatest magnitudes that an operation gives to x, y and z.
MagX == 6
MagY == 4
MagZ == 2
MagGe == 2  \* of the coordinates of an affine point: that of a negated one
LawGe(j, m) == IF j = 0 THEN GeInfinity ELSE Ge(Fe(Multiple[j][1], m, FALSE, TRUE), Fe(Multiple[j][2], m, FALSE, TRUE))
LawGej(j, z) ==
  IF j = 0 THEN GejInfinity
  ELSE Gej(Fe(Multiple[j][1] * z * z, MagX, FALSE, TRUE), Fe(Multiple[j][2] * z * z * z, MagY, FALSE, TRUE), Fe(z, MagZ, FALSE, TRUE))

LawInit == point = GejInfinity /\ mult = 0 /\ ratio = TRUE

Set(p, j) == point' = p /\ mult' = j % N /\ ratio' = TRUE
SetSum(s, j) ==
  /\ point' = s.r /\ mult' = j % N
  /\ ratio' = (point.inf \/ (s.rzr.ok /\ IF s.r.inf THEN s.rzr.v = 0 ELSE s.r.z.v = (point.z.v * s.rzr.v) % P))

Double == SetSum(GejDouble(point), 2 * mult)
AddVar(j, z) == SetSum(GejAdd(point, LawGej(j, z)), mult + j)
AddGeVar(j, m) == SetSum(GejAddGe(point, LawGe(j, m)), mult + j)
AddZinv(j, z) ==
  Set(GejAddZinv(point, LET b == LawGej(j, z) IN [inf |-> b.inf, x |-> FeNormalizeWeak(b.x), y |-> FeNormalizeWeak(b.y)],
                 FeInv(FeInt(z))), mult + j)
AddGeConst(j, m) == j # 0 /\ Set(GejAddGeConst(point, LawGe(j, m)), mult + j)
Neg == Set(GejNeg(point), N - mult)
Rescale(z) == ~point.inf /\ Set(GejRescale(point, FeInt(z)), mult)
Endo == ~point.inf /\ Set(GejSetGe(GeMulLambda(GeSetGejVar(point))), Lambda * mult)
\* A point is put into a table and read again.
Stored == ~point.inf /\ Set(GejSetGe(GeFromStorage(GeToStorage(GeSetGej(point)))), mult)
\* A public key is read into a fresh object, from its x and the parity of its y.
Lift(x, odd) ==
  /\ OnCurveX(FeInt(x))
  /\ \E p \in {GeSetXo(FeInt(x), odd)} : Set(GejSetGe(p), Log(PointOf(p)))

\* Infinity, G, the same and the opposite point, and one with the opposite y and another x.
Addends == {0, 1, mult, (N - mult) % N, (N - Lambda) * mult % N}
LawNext ==
  \/ Double \/ Neg \/ Endo \/ Stored
  \/ \E j \in Addends : \/ \E z \in Scales : AddVar(j, z) \/ AddZinv(j, z)
                        \/ AddGeVar(j, MagGe) \/ AddGeConst(j, MagGe)
  \/ \E z \in Scales : Rescale(z)
  \/ point = GejInfinity /\ \E x \in 0 .. P - 1, odd \in BOOLEAN : Lift(x, odd)

-----------------------------------------------------------------------------
CertOff == printed = <<>> /\ node = <<>> /\ wire = {} /\ tasks = {} /\ verdicts = {} /\ halted = "no"
Off(p) ==
  /\ part = p
  /\ p # "law" => LawInit
  /\ p \notin {"mul", "multi"} => MulOff
  /\ p = "multi" => prep = <<>> /\ buckets = <<>> /\ total = GejInfinity /\ gens = <<>>
  /\ p # "multi" => BatchOff
  /\ p \notin {"keys", "sign"} => secret = 0
  /\ p # "keys" => KeysOff
  /\ p # "sign" => SignOff
  /\ p # "cert" => CertOff
Init ==
  /\ part \in Parts
  /\ \/ Off("law") /\ LawInit
     \/ Off("mul") /\ MulInit
     \/ Off("multi") /\ BatchInit
     \/ Off("keys") /\ KeysInit
     \/ Off("sign") /\ SignInit
     \/ Off("cert") /\ CertInit

Next ==
  \/ part = "law" /\ LawNext /\ UNCHANGED <<part, batchVars, mulVars, secret, keyVars, signVars, certVars>>
  \/ part = "mul" /\ MulNext /\ UNCHANGED <<part, lawVars, batchVars, secret, keyVars, signVars, certVars>>
  \/ part = "multi" /\ BatchNext
     /\ UNCHANGED <<part, lawVars, alg, prep, buckets, total, gens, secret, keyVars, signVars, certVars>>
  \/ part = "keys" /\ KeysNext /\ UNCHANGED <<part, lawVars, batchVars, mulVars, signVars, certVars>>
  \/ part = "sign" /\ SignNext /\ UNCHANGED <<part, lawVars, batchVars, mulVars, keyVars, certVars>>
  \/ part = "cert" /\ CertNext /\ UNCHANGED <<part, lawVars, batchVars, mulVars, secret, keyVars, signVars>>
Spec == Init /\ [][Next]_vars

-----------------------------------------------------------------------------
\* Every operation computes the group law in every case: equal points, opposite
\* points, infinity, and y1 = -y2 with different x, where the unified formula of
\* secp256k1_gej_add_ge is 0/0.
IsMultiple == part = "law" => Affine(point) = Multiple[mult]

\* Whatever the order of operations, no operand is too large for the limbs: the
\* magnitudes the code claims in its calls of fe_negate and fe_mul hold, in the
\* group code and in the tables, rounds and buckets of the multiplications.
MagnitudesHold ==
  /\ Valid(point)
  /\ point.x.mag <= MagX /\ point.y.mag <= MagY /\ point.z.mag <= MagZ
  /\ MulMagnitudes

\* The ratio an addition reports is that of the z of its result and of its
\* first operand: the tables of odd multiples rely on it.
RatioIsReported == part = "law" => ratio

\* The predicates on a Jacobian point agree with those on its affine form.
Predicates ==
  part = "law" /\ ~point.inf =>
    LET q == Multiple[mult] IN
    /\ GejIsValid(point) /\ GeIsValid(GeSetGej(point))
    /\ \A x \in 0 .. P - 1 : GejEqX(FeInt(x), point) <=> x = q[1]
    /\ GejHasQuadY(point) <=> \E y \in 0 .. P - 1 : (y * y) % P = q[2]

\* Conversions that share an inversion give what single ones give, with points
\* at infinity in between.
SharedInversion ==
  part = "law" =>
  \A s \in {<<point, GejInfinity, LawGej(2, 3), point>>} : \A all \in {GeSetAll(s)} :
    \A j \in 1 .. 4 : all[j].inf = s[j].inf /\ PointOf(all[j]) = Affine(s[j])

\* Sums and multiples of points are those of the group, by every algorithm, and
\* none of them outgrows its limbs, its scratch space or its batches.
PointsAreRight ==
  /\ IsMultiple /\ MagnitudesHold /\ RatioIsReported /\ Predicates /\ SharedInversion
  /\ PartialSums /\ IsTheSum /\ NeverInfinity /\ GenIsRight
  /\ EachOnce /\ FramesBalance /\ AllocationsFit /\ NeverRefused /\ FewerFit

\* Keys, signatures and quorum certificates: what a holder of the key signs is
\* accepted, and a certificate is accepted if and only if replicas signed it.
SignaturesAreRight ==
  /\ KeysAgree /\ PointsAreOnCurve /\ CombineIsSum
  /\ SignedIsAccepted /\ SignerIsRecovered /\ VerifyIsEcdsa /\ RecoveredIsAccepted
  /\ GenuineIsAccepted /\ AcceptedIsSigned /\ NoCallFails
=============================================================================
