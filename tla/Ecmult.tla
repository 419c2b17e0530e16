------------------------------- MODULE Ecmult -------------------------------
(***************************************************************************)
(* The multiplications of secp256k1, round by round:                       *)
(*   "strauss"    secp256k1_ecmult_strauss_wnaf, the sum of na[j] * a[j]   *)
(*                and ng * G by interleaved digits;                        *)
(*   "pippenger"  secp256k1_ecmult_pippenger_wnaf, the same by buckets;    *)
(*   "const"      secp256k1_ecmult_const, one scalar and one point with    *)
(*                the same operations whatever the scalar is;              *)
(*   "gen"        contexts for secp256k1_ecmult_gen, whose blinded tables  *)
(*                are built, blinded again, cloned and cleared.            *)
(* The first three exist with and without the endomorphism.                *)
(***************************************************************************)
EXTENDS SmallCurve

CONSTANTS Bits, WindowA, WindowG,
          Half,           \* half the bits, 128 in the code
          NoScalar,       \* the null pointer
          Scales,         \* the z of a point
          Logs, Factors, GFactors,  \* points as multiples of G (0 is infinity), their scalars, those of G
          Few, FewFactors, FewGFactors, \* the same for the algorithm with buckets
          BucketWindows,
          Sizes,          \* the sizes of scalars that callers of the constant-time product tell
          Teeth, Combs,   \* 4 and 64 in the code
          Nums,           \* the multiple of G that "The scalar for this x is unknown" has
          Ctxs, Blinds, Projections \* contexts, nonzero scalars and field elements from the generator of nonces

ASSUME OrderAssumption == Bits \in Nat \ {0} /\ N \in 2^(Bits - 1) + 1 .. 2^Bits - 1 /\ N % 2 = 1

INSTANCE Wnaf WITH Order <- N

VARIABLES
  alg,
  inp,      \* the arguments
  prep,       \* the points that count, with their digits and tables
  buckets, round, total, pc,
  gens      \* the contexts of "gen": prec (built), blind, initial
mulVars == <<alg, inp, prep, buckets, round, total, pc, gens>>
MulOff ==
  alg = "off" /\ inp = <<>> /\ prep = <<>> /\ buckets = <<>> /\ round = 0 /\ total = GejInfinity /\ pc = "start" /\ gens = <<>>
At(a, l) == alg = a /\ pc = l

RECURSIVE RunWnaf(_)
RunWnaf(c) == IF WnafOver(c) THEN c ELSE RunWnaf(WnafTurn(c))
RECURSIVE RunFixed(_)
RunFixed(c) == IF FixedOver(c) THEN c ELSE RunFixed(FixedTurn(c))
RECURSIVE RunConst(_)
RunConst(c) == IF ConstOver(c) THEN c ELSE RunConst(ConstTurn(c))

\* The sums from the first one on, each with the point d added to the last; the
\* points are not at infinity. The tests make TLC evaluate before it goes on.
LongerBy(c, d, n) == IF Len(c) = n - 1 THEN Append(c, GejAddGe(Last(c).r, d)) ELSE <<>>
RECURSIVE Chain(_, _, _)
Chain(first, d, n) ==
  IF first.r.inf \/ d.inf THEN <<>>
  ELSE IF n = 1 THEN <<first>> ELSE LongerBy(Chain(first, d, n - 1), d, n)
RECURSIVE Doubled(_, _)
Doubled(a, n) == IF n > 0 /\ a.inf \in BOOLEAN THEN Doubled(GejDouble(a).r, n - 1) ELSE a
\* secp256k1_ecmult_odd_multiples_table: a, 3a, 5a, ... where 2a is affine.
TableOf(f, n, d) ==
  [prej |-> [j \in 1 .. n - 1 |-> f[j].r] \o <<[f[n].r EXCEPT !.z = FeMul(@, d.z)]>>, zr |-> [j \in 1 .. n |-> f[j].rzr] \o <<>>]
TableFrom(n, a, d, one) == TableOf(Chain(GejSum(Gej(one.x, one.y, a.z), d.z), Ge(d.x, d.y), n), n, d)
TableBy(n, a, d) == TableFrom(n, a, d, GeSetGejZinv(a, d.z))
OddMultiplesTable(n, a) == TableBy(n, a, GejDouble(a).r)
\* secp256k1_ecmult_odd_multiples_table_globalz_windowa
Globalz(t) == [pre |-> GlobalZTable(t.prej, t.zr) \o <<>>, z |-> Last(t.prej).z]
OddMultiplesGlobalz(a) == Globalz(OddMultiplesTable(TableSize(WindowA), a))
\* secp256k1_ecmult_odd_multiples_table_storage_var
ToStorage(ge) == [j \in DOMAIN ge |-> GeToStorage(ge[j])] \o <<>>
StoredTable(t) == ToStorage(GeSetTable(t.prej, t.zr) \o <<>>)
OddMultiplesStorage(n, a) == StoredTable(OddMultiplesTable(n, a))

\* ECMULT_TABLE_GET_GE
TableGet(pre, n) == IF n > 0 THEN pre[(n - 1) \div 2 + 1] ELSE GeNeg(pre[(-n - 1) \div 2 + 1])
\* ECMULT_TABLE_GET_GE_STORAGE
TableGetStorage(pre, n) ==
  IF n > 0 THEN GeFromStorage(pre[(n - 1) \div 2 + 1]) ELSE GeNeg(GeFromStorage(pre[(-n - 1) \div 2 + 1]))

\* secp256k1_scalar_split_lambda of the builds with a small order
SplitTo(k, k2) == <<(k + (N - k2) * Lambda) % N, k2>>
SplitLambda(k) == SplitTo(k, (k + 5) % N)

Starts(a, inputs) ==
  alg = a /\ inp \in inputs /\ prep = <<>> /\ buckets = <<>> /\ round = 0 /\ total = GejInfinity /\ pc = "start" /\ gens = <<>>

-----------------------------------------------------------------------------
\* A point of an argument in Jacobian coordinates.
Scaled(m, z) == Gej(FeInt(m[1] * z * z), FeInt(m[2] * z * z * z), FeInt(z))
GejOf(q) ==
  IF q.k = 0 THEN GejInfinity
  ELSE Scaled(Multiple[q.k], q.z)

\* One point with any scalar, as for secp256k1_ecmult, or several with some.
StraussPoints == [k : Logs, z : Scales, na : Factors]
StraussInputs ==
  [endo : BOOLEAN, pts : {<<>>}, ng : GFactors]
    \cup [endo : BOOLEAN, pts : {<<p>> : p \in [k : Logs, z : Scales, na : 0 .. N - 1]}, ng : GFactors]
    \cup [endo : BOOLEAN, pts : {<<p, q>> : p \in StraussPoints, q \in StraussPoints}, ng : {NoScalar, 1}]

\* The digits of one scalar, and the table they index: that of a point, of its
\* image under the endomorphism, of G or of 2^128 G.
StreamOf(c, tab, log) == [wnaf |-> c.wnaf, bits |-> c.last + 1, tab |-> tab, log |-> log]
Stream(a, len, w, tab, log) == StreamOf(RunWnaf(WnafStart(a, len, w)), tab, log)

IsSkipped(p) == p.na = 0 \/ p.k = 0
SplitStreams(p, j, q) ==
  <<Stream(q[1], Bits, WindowA, <<"a", j>>, p.k), Stream(q[2], Bits, WindowA, <<"lam", j>>, p.k * Lambda)>>
PointStreams(p, j) ==
  IF inp.endo THEN SplitStreams(p, j, SplitLambda(p.na)) ELSE <<Stream(p.na, Bits, WindowA, <<"a", j>>, p.k)>>
GStreams ==
  IF inp.ng = NoScalar THEN <<>>
  ELSE IF inp.endo
  THEN <<Stream(inp.ng % 2^Half, Half + 1, WindowG, <<"g", 0>>, 1),
         Stream(inp.ng \div 2^Half, Half + 1, WindowG, <<"g", 1>>, 2^Half)>>
  ELSE <<Stream(inp.ng, Bits, WindowG, <<"g", 0>>, 1)>>

Streams(live) ==
  [live |-> live, a |-> FlattenSeq([j \in 1 .. Len(live) |-> PointStreams(live[j], j)]), g |-> GStreams,
   prej |-> <<>>, zr |-> <<>>, pre |-> <<>>, Z |-> FeInt(1)]
StraussRecode ==
  /\ At("strauss", "start")
  /\ prep' = Streams(SelectSeq(inp.pts, LAMBDA p : ~IsSkipped(p)))
  /\ pc' = "tables" /\ UNCHANGED <<alg, inp, buckets, round, total, gens>>

\* A later point is scaled by the last z of the table before it.
Related(a, prej) ==
  IF prej = <<>> THEN OddMultiplesTable(TableSize(WindowA), a)
  ELSE [OddMultiplesTable(TableSize(WindowA), GejRescale(a, FeNormalize(Last(prej).z))) EXCEPT !.zr[1] = FeMul(@, a.z)]
WithTable(t) == [prep EXCEPT !.prej = @ \o t.prej, !.zr = @ \o t.zr]
Tables ==
  /\ At("strauss", "tables") /\ Len(prep.prej) < Len(prep.live) * TableSize(WindowA)
  /\ prep' = WithTable(Related(GejOf(prep.live[Len(prep.prej) \div TableSize(WindowA) + 1]), prep.prej))
  /\ UNCHANGED <<alg, inp, buckets, round, total, pc, gens>>
\* All odd multiples get one denominator Z, and total is set to infinity.
OneZ ==
  /\ At("strauss", "tables") /\ Len(prep.prej) = Len(prep.live) * TableSize(WindowA)
  /\ prep' = IF prep.live = <<>> THEN prep
           ELSE [prep EXCEPT !.pre = GlobalZTable(prep.prej, prep.zr) \o <<>>, !.Z = Last(prep.prej).z]
  /\ round' = Max({s.bits : s \in ToSet(prep.a) \cup ToSet(prep.g)} \cup {0}) - 1
  /\ total' = GejInfinity /\ pc' = "loop" /\ UNCHANGED <<alg, inp, buckets, gens>>

PreG == OddMultiplesStorage(TableSize(WindowG), GejSetGe(Generator))
\* 2^128 times the generator, by doubling.
PreGHalf == OddMultiplesStorage(TableSize(WindowG), Doubled(GejSetGe(Generator), Half))

\* Entry n of the table of a stream, the images under the endomorphism by their points.
PointTable(k) == SubSeq(prep.pre, k + 1, k + TableSize(WindowA))
Images(pre) == [j \in DOMAIN pre |-> GeMulLambda(pre[j])]
StreamTable(s) == PointTable((s.tab[2] - 1) * TableSize(WindowA))
StreamEntry(s, n) ==
  CASE s.tab[1] = "a" -> TableGet(StreamTable(s), n)
    [] s.tab[1] = "lam" -> TableGet(Images(StreamTable(s)), n)
    [] OTHER -> TableGetStorage(IF s.tab[2] = 0 THEN PreG ELSE PreGHalf, n)
\* An entry of G is added as if it had the common denominator.
MutAddDigit(acc, s) == IF round < s.bits /\ s.wnaf[round] # 0 THEN GejAddGe(acc, StreamEntry(s, s.wnaf[round])).r ELSE acc
AddEntry(acc, s, e) == IF s.tab[1] = "g" THEN GejAddZinv(acc, e, prep.Z) ELSE GejAddGe(acc, e).r
AddDigit(acc, s) ==
  IF round >= s.bits \/ s.wnaf[round] = 0 THEN acc ELSE AddEntry(acc, s, StreamEntry(s, s.wnaf[round]))
RECURSIVE AddDigits(_, _)
AddDigits(acc, ss) ==
  IF acc.inf \in BOOLEAN /\ ss # <<>> THEN AddDigits(AddDigit(acc, Head(ss)), Tail(ss)) ELSE acc
StraussRound ==
  /\ At("strauss", "loop") /\ round >= 0
  /\ total' = AddDigits(GejDouble(total).r, prep.a \o prep.g)
  /\ round' = round - 1 /\ UNCHANGED <<alg, inp, prep, buckets, pc, gens>>
\* The common denominator goes back into z.
StraussFinish ==
  /\ At("strauss", "loop") /\ round < 0
  /\ total' = IF total.inf THEN total ELSE [total EXCEPT !.z = FeMul(@, prep.Z)]
  /\ pc' = "done" /\ prep' = <<>> /\ round' = 0 /\ UNCHANGED <<alg, inp, buckets, gens>>

-----------------------------------------------------------------------------
FewPoints == [k : Few, na : FewFactors]
PippengerInputs ==
  [endo : BOOLEAN, w : BucketWindows, ng : FewGFactors,
   pts : {<<>>} \cup {<<p>> : p \in FewPoints} \cup {<<p, q>> : p \in FewPoints, q \in FewPoints}]

Entry(k, s, p) == [k |-> k, s |-> s, p |-> p]
EndoHalf(k, s, p) == IF IsHigh(s) THEN Entry(N - k, NegateMod(s), GeNeg(p)) ELSE Entry(k, s, p)
\* secp256k1_ecmult_endo_split
Halves(k, q, p) == <<EndoHalf(k, q[1], p), EndoHalf((k * Lambda) % N, q[2], GeMulLambda(p))>>
EndoSplit(k, s, p) == Halves(k, SplitLambda(s), p)
\* The scalars and points of a batch: G with its scalar, then what the callback gives.
OwnEntries(k, na, p) == IF inp.endo THEN EndoSplit(k, na, p) ELSE <<Entry(k, na, p)>>
Given == (IF inp.ng = NoScalar THEN <<>> ELSE <<[k |-> 1, na |-> inp.ng]>>) \o inp.pts
Entries == FlattenSeq([j \in 1 .. Len(Given) |-> OwnEntries(Given[j].k, Given[j].na, GeOf(Multiple[Given[j].k]))])

NWnaf == WnafSizeBits(Bits, inp.w + 1)
DigitsOf(e, c) == [wnaf |-> c.wnaf, skew |-> c.skew, k |-> e.k, p |-> e.p]
Recoded(live) == [j \in 1 .. Len(live) |-> DigitsOf(live[j], RunFixed(FixedStart(live[j].s, Bits, inp.w + 1)))]
PippengerRecode ==
  /\ At("pippenger", "start")
  /\ prep' = Recoded(SelectSeq(Entries, LAMBDA e : e.s # 0 /\ ~e.p.inf))
  /\ pc' = IF Len(prep') = 0 THEN "done" ELSE "fill"
  /\ round' = NWnaf - 1 /\ total' = GejInfinity /\ UNCHANGED <<alg, inp, buckets, gens>>

AddTo(b, idx, p) == [b EXCEPT ![idx] = GejAddGe(@, p).r]
Unskewed(b, e) == IF round = 0 /\ e.skew = 1 THEN AddTo(b, 1, GeNeg(e.p)) ELSE b
IntoBucket(b, n, p) ==
  IF n > 0 THEN AddTo(b, (n - 1) \div 2 + 1, p) ELSE IF n < 0 THEN AddTo(b, (-(n + 1)) \div 2 + 1, GeNeg(p)) ELSE b
InBucket(b, e) == IntoBucket(b, e.wnaf[round], e.p)
RECURSIVE Filled(_, _)
Filled(b, es) ==
  IF es # <<>> /\ b[1].inf \in BOOLEAN THEN Filled(InBucket(Unskewed(b, Head(es)), Head(es)), Tail(es)) ELSE b
Fill ==
  /\ At("pippenger", "fill") /\ round >= 0
  /\ buckets' = Filled([j \in 1 .. TableSize(inp.w + 2) |-> GejInfinity], prep)
  /\ pc' = "sum" /\ UNCHANGED <<alg, inp, prep, round, total, gens>>

\* From the last bucket to the second, into the running sum and the sum.
RECURSIVE RunningSum(_, _, _)
RunningNext(j, run, acc) == RunningSum(j - 1, run, GejAdd(acc, run).r)
RunningSum(j, run, acc) ==
  IF run.inf \in BOOLEAN /\ acc.inf \in BOOLEAN /\ j > 1 THEN RunningNext(j, GejAdd(run, buckets[j]).r, acc)
  ELSE [run |-> run, acc |-> acc]
WithFirst(q) == GejAdd(GejDouble(q.acc).r, GejAdd(q.run, buckets[1]).r).r
SumUp ==
  /\ At("pippenger", "sum")
  /\ total' = WithFirst(RunningSum(Len(buckets), GejInfinity, Doubled(total, inp.w)))
  /\ round' = round - 1 /\ buckets' = <<>> /\ pc' = "fill" /\ UNCHANGED <<alg, inp, prep, gens>>
\* The digits and scalars are cleared at the end.
PippengerClear ==
  At("pippenger", "fill") /\ round < 0 /\ prep' = <<>> /\ pc' = "done" /\ UNCHANGED <<alg, inp, buckets, round, total, gens>>

-----------------------------------------------------------------------------
W == WindowA - 1
ConstPoint == GeOf(Multiple[inp.k])
\* The point is not infinity, and the scalar fits into the size with room for the skew.
ConstInputs ==
  {q \in [endo : BOOLEAN, k : Logs \ {0}, s : 0 .. N - 1, size : Sizes] : q.size < Bits => q.s + 2 < 2^q.size}

\* Only scalars of more than half the bits are split.
Split == inp.endo /\ inp.size = Bits
ConstScalars == IF Split THEN SplitLambda(inp.s) ELSE <<inp.s>>
Image(j, p) == IF j = 2 THEN GeMulLambda(p) ELSE p

ConstDigits(c) == [wnaf |-> c.wnaf, skew |-> c.skew, fits |-> c.fits]
Prepared(t, scalars) ==
  [d |-> [j \in 1 .. Len(scalars) |-> ConstDigits(RunConst(ConstStart(scalars[j], inp.size, W)))],
   pre |-> [j \in 1 .. Len(t.pre) |-> [t.pre[j] EXCEPT !.y = FeNormalizeWeak(@)]] \o <<>>, Z |-> t.z]
Prepare ==
  /\ At("const", "start")
  /\ prep' = Prepared(OddMultiplesGlobalz(GejSetGe(ConstPoint)), ConstScalars)
  /\ round' = WnafSizeBits(inp.size, W) /\ pc' = "first" /\ UNCHANGED <<alg, inp, buckets, total, gens>>

\* ECMULT_CONST_TABLE_GET_GE: every entry is looked at, one is kept.
WithSign(p, negative) == Ge(p.x, FeCmov(p.y, FeNegate(p.y, 1), negative))
ConstGet(pre, n) == WithSign(pre[(IF n > 0 THEN n ELSE -n) \div 2 + 1], n < 0)
\* The entries at digit i, the second one for the image under the endomorphism.
Digit(j) == ConstGet([x \in DOMAIN prep.pre |-> Image(j, prep.pre[x])] \o <<>>, prep.d[j].wnaf[round])
AddSecond(one) == IF one.inf \in BOOLEAN /\ Len(prep.d) = 2 THEN GejAddGeConst(one, Digit(2)) ELSE one
AddConstDigits(a) == AddSecond(GejAddGeConst(a, Digit(1)))

\* The highest digit sets total without a doubling.
First ==
  /\ At("const", "first")
  /\ total' = AddSecond(GejSetGe(Digit(1)))
  /\ round' = round - 1 /\ pc' = "loop" /\ UNCHANGED <<alg, inp, prep, buckets, gens>>
ConstRound ==
  /\ At("const", "loop") /\ round >= 0
  /\ total' = AddConstDigits(Doubled(total, W))
  /\ round' = round - 1 /\ UNCHANGED <<alg, inp, prep, buckets, pc, gens>>

\* a or 2a, through storage and without a branch.
Correction(skew) ==
  GeFromStorage(GeToStorage(IF skew = 2 THEN GeSetGej(GejDouble(GejSetGe(ConstPoint)).r) ELSE ConstPoint))
CorrectSecond(one) ==
  IF one.inf \in BOOLEAN /\ Len(prep.d) = 2
  THEN GejAddGeConst(one, GeMulLambda(GeNeg(Correction(prep.d[2].skew)))) ELSE one
\* z gets its common factor, and the skew is taken away.
Correct ==
  /\ At("const", "loop") /\ round < 0
  /\ total' = CorrectSecond(GejAddGeConst([total EXCEPT !.z = FeMul(@, prep.Z)], GeNeg(Correction(prep.d[1].skew))))
  /\ pc' = "done" /\ prep' = <<>> /\ round' = 0 /\ UNCHANGED <<alg, inp, buckets, gens>>

-----------------------------------------------------------------------------
\* nums_gej: the point for the string, plus G
NumsGej == GejAddGe(GejSetGe(GeOf(Multiple[Nums])), Generator).r
RowNext(p, step) == IF p # <<>> THEN Append(p, GejAdd(Last(p), step).r) ELSE p
RECURSIVE Row(_, _, _)
Row(base, step, n) == IF n = 1 THEN <<base>> ELSE RowNext(Row(base, step, n - 1), step)
\* In the last iteration the bases before it are cancelled.
NumsFrom(twice, j) == IF j = Combs - 2 THEN GejAdd(GejNeg(twice), NumsGej).r ELSE twice
NumsNext(numsbase, j) == NumsFrom(GejDouble(numsbase).r, j)
RECURSIVE Rows(_, _, _)
Rows(j, gbase, numsbase) ==
  IF gbase.inf \in BOOLEAN /\ numsbase.inf \in BOOLEAN /\ j < Combs
  THEN Row(numsbase, gbase, 2^Teeth) \o Rows(j + 1, Doubled(gbase, Teeth), NumsNext(numsbase, j))
  ELSE <<>>
\* The table of secp256k1_ecmult_gen_context_build: entry i of comb j at 2^Teeth * j + i + 1.
Precj == Rows(0, GejSetGe(Generator), NumsGej)
Prec == ToStorage(GeSetAll(Precj) \o <<>>)

\* secp256k1_ecmult_gen: one addition for each comb, of the entry its bits select.
RECURSIVE Combed(_, _, _)
Combed(a, gnb, j) ==
  IF j < Combs /\ a.inf \in BOOLEAN
  THEN Combed(GejAddGeConst(a, GeFromStorage(Prec[2^Teeth * j + GetBits(gnb, j * Teeth, Teeth) + 1])), gnb, j + 1)
  ELSE a
Gen(c, gn) == Combed(c.initial, (gn + c.blind) % N, 0)

NoGen == [prec |-> FALSE, blind |-> 0, initial |-> GejInfinity]
GenStarts ==
  /\ alg = "gen" /\ inp = <<>> /\ prep = <<>> /\ buckets = <<>> /\ round = 0 /\ total = GejInfinity /\ pc = "start"
  /\ gens = [c \in Ctxs |-> NoGen]

Reset(c) == [c EXCEPT !.initial = GejNeg(GejSetGe(Generator)), !.blind = 1]
\* The projection is changed, then b * G is computed with the old blinding.
Blinded(c, s, b) ==
  [c EXCEPT !.blind = NegateMod(b), !.initial = Gen([c EXCEPT !.initial = GejRescale(@, FeInt(s))], b)]
\* A null seed resets the blinding.
GenBlind(c, seed, s, b) ==
  /\ gens[c].prec
  /\ gens' = [gens EXCEPT ![c] = Blinded(IF seed THEN @ ELSE Reset(@), s, b)]
GenBuild(c, s, b) ==
  gens' = IF gens[c].prec THEN gens ELSE [gens EXCEPT ![c] = Blinded(Reset([@ EXCEPT !.prec = TRUE]), s, b)]
GenClone(c, d) == c # d /\ ~gens[d].prec /\ gens' = [gens EXCEPT ![d] = IF gens[c].prec THEN gens[c] ELSE NoGen]
GenClear(c) == gens' = [gens EXCEPT ![c] = NoGen]
GenStep ==
  /\ alg = "gen"
  /\ \E c \in Ctxs :
       \/ \E s \in Projections, b \in Blinds : GenBuild(c, s, b) \/ \E seed \in BOOLEAN : GenBlind(c, seed, s, b)
       \/ \E d \in Ctxs : GenClone(c, d)
       \/ GenClear(c)
  /\ UNCHANGED <<alg, inp, prep, buckets, round, total, pc>>

-----------------------------------------------------------------------------
MulInit ==
  Starts("strauss", StraussInputs) \/ Starts("pippenger", PippengerInputs) \/ Starts("const", ConstInputs) \/ GenStarts
MulNext ==
  \/ StraussRecode \/ Tables \/ OneZ \/ StraussRound \/ StraussFinish
  \/ PippengerRecode \/ Fill \/ SumUp \/ PippengerClear
  \/ Prepare \/ First \/ ConstRound \/ Correct
  \/ GenStep

\* What the digits from i + 1 up are worth: of a stream in multiples of G, and of an entry.
StreamAbove(s) ==
  LET f[j \in round + 1 .. Bits + 1] == IF j >= s.bits THEN 0 ELSE (s.wnaf[j] + 2 * f[j + 1]) IN (f[round + 1] % N) * s.log
EntryAbove(e) ==
  LET f[j \in round + 1 .. NWnaf] == IF j = NWnaf THEN 0 ELSE e.wnaf[j] + 2^(inp.w + 1) * f[j + 1]
  IN ((f[round + 1] % N) + (IF round < 0 /\ e.skew = 1 THEN N - 1 ELSE 0)) * e.k

\* The loop invariants of the two algorithms: with the common denominator put
\* back, total is the sum of all digits used so far, whichever points and scalars
\* coincide; the deferred doubling of the buckets, the merging of digits and
\* the skew lose nothing.
PartialSums ==
  /\ At("strauss", "loop") =>
       Affine(IF total.inf THEN total ELSE [total EXCEPT !.z = FeMul(@, prep.Z)])
         = Multiple[FoldLeft(LAMBDA s, q : s + StreamAbove(q), 0, prep.a \o prep.g) % N]
  /\ At("pippenger", "fill") => Affine(total) = Multiple[FoldLeft(LAMBDA s, e : s + EntryAbove(e), 0, prep) % N]

\* Every algorithm computes the sum, with zero scalars, a null ng, points at
\* infinity, equal and opposite points in one table or bucket, the generator
\* itself among the points, and in constant time for the scalars 0 and -1.
IsTheSum ==
  pc = "done" =>
    LET sum == IF alg = "const" THEN inp.s * inp.k
               ELSE FoldLeft(LAMBDA s, p : s + p.k * p.na, IF inp.ng = NoScalar THEN 0 ELSE inp.ng, inp.pts)
    IN Affine(total) = Multiple[sum % N]

\* secp256k1_gej_double_nonzero is never given infinity ("VERIFY_CHECK(!secp256k1_gej_is_infinity(a))"):
\* without the endomorphism total stays an odd multiple smaller than the order.
NeverInfinity == At("const", "loop") /\ ~Split => ~total.inf

\* Every magnitude that the group formulas rely on holds in the tables, the
\* rounds and the buckets, although the last entry of a table is not reduced.
MulMagnitudes ==
  /\ Valid(total) /\ \A j \in DOMAIN buckets : Valid(buckets[j])
  /\ At("strauss", "loop") => prep.Z.ok /\ \A q \in ToSet(prep.pre) : q.x.ok /\ q.y.ok /\ GeNeg(q).y.ok
  /\ alg = "const" /\ prep # <<>> => \A j \in DOMAIN prep.d : prep.d[j].fits

\* Whatever the sequence of builds, blindings, clones and clearings, a built
\* context multiplies the generator by exactly the scalar: the blinding value
\* and the initial point cancel, and so do the unknown points of the combs.
GenIsRight ==
  \A c \in DOMAIN gens : gens[c].prec => \A gn \in 0 .. N - 1 : \A q \in {Gen(gens[c], gn)} : Affine(q) = Multiple[gn] /\ Valid(q)
-----------------------------------------------------------------------------
(***************************************************************************)
(* secp256k1_ecmult_multi_var: many products in batches, in the memory of  *)
(* a scratch space, with points and scalars from a callback that may fail. *)
(* The sizes are those of the 64-bit build.                                *)
(***************************************************************************)
CONSTANTS MaxSizes,   \* of the scratch space
          Counts,     \* of points
          Held,       \* sizes of frames that the caller holds already, 0 for none
          MaxPerBatch \* ECMULT_MAX_POINTS_PER_BATCH

Alignment == 16
Objects == 6
MaxBucketWindow == 12
Huge == 2^30          \* SIZE_MAX
SzGe == 88
SzGej == 128
SzFe == 40
SzScalar == 32
SzInt == 4
SzPippengerPoint == 16
SzPippengerState == 16
SzStraussPoint(endo) == IF endo THEN 1120 ELSE 1040
TableA == 8
WnafSize(endo, w) == ((IF endo THEN 128 ELSE 256) + w - 1) \div w

\* inp is endo, the build; n; g, whether there is a scalar for G.  round is the batch.
VARIABLES
  scratch,  \* the size of the scratch space
  frames,   \* its frames: size and offset
  remaining, chosen, perBatch, \* the points left, the algorithm and the points of a batch
  got,      \* for each point, how often its product is in the sum
  gotG,     \* how often G is
  fits      \* no allocation in a frame returned NULL
batchVars == <<scratch, frames, remaining, chosen, perBatch, got, gotG, fits>>
BatchOff == scratch = 0 /\ frames = <<>> /\ remaining = 0 /\ chosen = "none" /\ perBatch = 0 /\ got = <<>> /\ gotG = 0 /\ fits = TRUE

-----------------------------------------------------------------------------
RECURSIVE SumSizes(_)
SumSizes(fr) == IF fr = <<>> THEN 0 ELSE fr[1].size + SumSizes(Tail(fr))
\* secp256k1_scratch_max_allocation
MaxAllocation(fr) == LET free == scratch - SumSizes(fr) IN IF free <= Objects * Alignment THEN 0 ELSE free - Objects * Alignment
\* secp256k1_scratch_allocate_frame
CanAllocate(fr, n) == n <= MaxAllocation(fr)
Frame(n) == [size |-> n + Objects * Alignment, offset |-> 0]
\* secp256k1_scratch_alloc of each size in turn: all of them fit.
RECURSIVE AllAllocated(_, _)
AllAllocated(fr, sizes) ==
  sizes = <<>> \/ LET size == ((Head(sizes) + Alignment - 1) \div Alignment) * Alignment
                  IN /\ size + fr.offset <= fr.size
                     /\ AllAllocated([fr EXCEPT !.offset = @ + size], Tail(sizes))

\* secp256k1_strauss_scratch_size
StraussSize(endo, n) ==
  n * (((IF endo THEN 2 ELSE 1) * SzGe + SzGej + SzFe) * TableA + SzStraussPoint(endo) + SzGej + SzScalar)
StraussObjects(endo, n) ==
  <<n * SzGej, n * SzScalar, n * TableA * SzGej, n * TableA * SzFe,
    n * (IF endo THEN 2 ELSE 1) * TableA * SzGe, n * SzStraussPoint(endo)>>
StraussMaxPoints(endo) == MaxAllocation(frames) \div StraussSize(endo, 1)

Windows(endo) ==
  IF endo THEN <<1, 4, 20, 57, 136, 235, 1260, 1260, 4420, 7880, 16050, Huge>>
  ELSE <<1, 11, 45, 100, 275, 625, 1850, 3400, 9630, 17900, 32800, Huge>>
\* secp256k1_pippenger_bucket_window: never 8 with the endomorphism
BucketWindow(endo, n) ==
  CHOOSE w \in 1 .. MaxBucketWindow : n <= Windows(endo)[w] /\ \A v \in 1 .. w - 1 : n > Windows(endo)[v]
BucketWindowInv(endo, w) == Windows(endo)[w]
PippengerEntries(endo, n) == IF endo THEN 2 * n + 2 ELSE n + 1
EntrySize(endo, w) == SzGe + SzScalar + SzPippengerPoint + (WnafSize(endo, w + 1) + 1) * SzInt
\* secp256k1_pippenger_scratch_size
PippengerSize(endo, n, w) == 2^w * SzGej + SzPippengerState + PippengerEntries(endo, n) * EntrySize(endo, w)
PippengerObjects(endo, n, w) ==
  LET e == PippengerEntries(endo, n)
  IN <<e * SzGe, e * SzScalar, SzPippengerState, e * SzPippengerPoint, e * WnafSize(endo, w + 1) * SzInt, 2^w * SzGej>>

StopsAt(n, w) == n < BucketWindowInv(inp.endo, w)
\* secp256k1_pippenger_max_points
RECURSIVE MaxPointsFrom(_, _)
MaxPointsFrom(w, res) ==
  LET alloc == MaxAllocation(frames)
      entry == (IF inp.endo THEN 2 ELSE 1) * EntrySize(inp.endo, w)
      overhead == 2^w * SzGej + entry + SzPippengerState
      room == (alloc - overhead) \div entry
      n == IF room > BucketWindowInv(inp.endo, w) THEN BucketWindowInv(inp.endo, w) ELSE room
      res2 == IF n > res THEN n ELSE res
  IN IF overhead > alloc THEN res
     ELSE IF w = MaxBucketWindow \/ StopsAt(n, w) THEN res2 ELSE MaxPointsFrom(w + 1, res2)
PippengerMaxPoints == MaxPointsFrom(1, 0)

-----------------------------------------------------------------------------
BatchInit ==
  /\ alg = "multi" /\ inp \in [endo : BOOLEAN, n : Counts, g : BOOLEAN] /\ scratch \in MaxSizes
  /\ \E h \in Held : frames = IF h = 0 THEN <<>> ELSE <<[size |-> h, offset |-> 0]>>
  /\ SumSizes(frames) <= scratch
  /\ remaining = inp.n /\ round = 0 /\ chosen = "none" /\ perBatch = 0
  /\ got = [p \in 0 .. inp.n - 1 |-> 0] /\ gotG = 0 /\ fits = TRUE /\ pc = "start"

Ceil(a, b) == (a + b - 1) \div b
\* The points of a batch, when at most m fit: batches of nearly the same size.
PerBatch(m) == Ceil(remaining, Ceil(remaining, m))
Threshold == IF inp.endo THEN 88 ELSE 160
Choose(how, m) == chosen' = how /\ perBatch' = PerBatch(m) /\ pc' = "batch" /\ UNCHANGED gotG
Fail == pc' = "failed" /\ UNCHANGED <<chosen, perBatch, gotG>>
Start ==
  /\ pc = "start"
  /\ IF inp.n = 0 THEN pc' = "ok" /\ gotG' = (IF inp.g THEN 1 ELSE 0) /\ UNCHANGED <<chosen, perBatch>>
     ELSE LET pm == PippengerMaxPoints
              pmax == IF pm > MaxPerBatch THEN MaxPerBatch ELSE pm
              smax == StraussMaxPoints(inp.endo)
          IN IF pmax = 0 THEN Fail
             ELSE IF PerBatch(pmax) >= Threshold THEN Choose("pippenger", pmax)
             ELSE IF smax = 0 THEN Fail ELSE Choose("strauss", smax)
  /\ UNCHANGED <<inp, scratch, frames, remaining, round, got, fits>>

Taken == IF remaining < perBatch THEN remaining ELSE perBatch
Need == IF chosen = "strauss" THEN StraussSize(inp.endo, Taken)
        ELSE PippengerSize(inp.endo, Taken, BucketWindow(inp.endo, Taken))
Wanted == IF chosen = "strauss" THEN StraussObjects(inp.endo, Taken)
          ELSE PippengerObjects(inp.endo, Taken, BucketWindow(inp.endo, Taken))
\* A batch gets its frame and the objects in it.
Enter ==
  /\ pc = "batch" /\ round < Ceil(inp.n, perBatch)
  /\ IF CanAllocate(frames, Need)
     THEN /\ frames' = Append(frames, Frame(Need))
          /\ fits' = AllAllocated(Frame(Need), Wanted) /\ pc' = "points"
     ELSE pc' = "refused" /\ UNCHANGED <<frames, fits>>
  /\ UNCHANGED <<inp, scratch, remaining, round, chosen, perBatch, got, gotG>>
\* The callback gives every point, from the offset of the batch on; the sum is added to r.
Batch ==
  /\ pc = "points"
  /\ got' = [p \in DOMAIN got |-> IF p \in perBatch * round .. perBatch * round + Taken - 1 THEN got[p] + 1 ELSE got[p]]
  /\ gotG' = IF inp.g /\ round = 0 THEN gotG + 1 ELSE gotG
  /\ frames' = Front(frames) /\ remaining' = remaining - Taken /\ round' = round + 1 /\ pc' = "batch"
  /\ UNCHANGED <<inp, scratch, chosen, perBatch, fits>>
Released == Front(frames)
\* The callback fails: the batch gives its frame back, and the whole fails.
CallbackFails ==
  /\ pc = "points" /\ Taken > 0
  /\ frames' = Released /\ pc' = "failed" /\ UNCHANGED <<inp, scratch, remaining, round, chosen, perBatch, got, gotG, fits>>
Return ==
  /\ pc = "batch" /\ round = Ceil(inp.n, perBatch)
  /\ pc' = "ok" /\ UNCHANGED <<inp, scratch, frames, remaining, round, chosen, perBatch, got, gotG, fits>>
Done == pc \in {"ok", "failed", "refused"} /\ UNCHANGED <<inp, round, pc, batchVars>>

BatchNext == Start \/ Enter \/ Batch \/ CallbackFails \/ Return \/ Done

-----------------------------------------------------------------------------
\* When the multiplication succeeds, every product is in the sum exactly once,
\* whatever the size of the batches, and G is there once if it has a scalar.
EachOnce == At("multi", "ok") => (\A p \in DOMAIN got : got[p] = 1) /\ gotG = (IF inp.g THEN 1 ELSE 0) /\ remaining = 0

\* Every return leaves the scratch space with the frames it had: after a batch,
\* a refused allocation and a callback that failed.
FramesBalance == alg = "multi" /\ pc # "points" => Len(frames) <= 1 /\ (frames # <<>> => frames[1].size \in Held)

\* The size computed "without considering alignment" and the room for the
\* alignment of six objects hold everything a batch allocates: the code uses the
\* pointers of secp256k1_scratch_alloc without a look.
AllocationsFit == fits

\* "The function ensures that fewer points may also be used"
\* (ecmult_impl.h:936): no batch, the shorter last one included, is refused.
NeverRefused == ~At("multi", "refused")

\* The same for every number of points up to the one returned.
FewerFit ==
  At("multi", "start") /\ inp.n > 0 =>
    \A m \in 1 .. PippengerMaxPoints : m <= MaxPerBatch => CanAllocate(frames, PippengerSize(inp.endo, m, BucketWindow(inp.endo, m)))
=============================================================================
