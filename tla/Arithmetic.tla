------------------------------ MODULE Arithmetic ------------------------------
(***************************************************************************)
(* The arithmetic under the curve of secp256k1, part by part:              *)
(*   "limbs"   operations on field elements and scalars at their full      *)
(*             width of 256 bits, from operands at the borders;            *)
(*   "chain"   the addition chains for inverses and roots;                 *)
(*   "wnaf"    the recodings of a scalar into signed digits (Wnaf);        *)
(*   "hash", "rounds"  the hashes (Sha256);                                *)
(*   "der"     the encodings of signatures and keys (Der).                 *)
(* A behaviour is one part's; the variables of the others rest.            *)
(***************************************************************************)
EXTENDS ScalarLimbs, TLC, FiniteSets

CONSTANTS Parts,              \* the parts that are run
          MaxMag52, MaxMag26, \* the largest magnitude an operation on field elements may leave
          Depth,              \* a bound on the operations
          Products,           \* a bound on the steps that may be products of scalars
          WBits, WOrder, WHalf, Windows, \* "wnaf": a small order, its bits, half of them, 128 in the code
          Block, LenLen, DigestLen, MaxLen, MaxPiece, KeyLens, MaxAsked, AskLens,      \* of Sha256
          ScalarLen, DerOrder, SizeT, Scalars, LongSizes, Alphabet, Places, MaxEdits   \* of Der

VARIABLES part,
          kind, r, q, val, steps,   \* "limbs": a register, that of the other build of a scalar, and their number
          chain, chainPc, chainLeft, chainReg, \* "chain"
          recoding, scalar, locals,            \* "wnaf": which recoding, of what, and its local variables
          hkey, written, hash, hmac, gen, asked, rfc, chunks, digest, state, letters, words, roundNo, regs, sched,
          encoded, wrote, input, edits
limbVars == <<kind, r, q, val, steps>>
chainVars == <<chain, chainPc, chainLeft, chainReg>>
wnafVars == <<recoding, scalar, locals>>
hashVars == <<hkey, written, hash, hmac, gen, asked, rfc>>
roundVars == <<chunks, digest, state, letters, words, roundNo, regs, sched>>
derVars == <<encoded, wrote, input, edits>>

A == INSTANCE Field5x52
B == INSTANCE Field10x26

N64 == <<Word64(49106, 24204, 53302, 16705), Word64(47790, 56550, 44872, 41019), Ones(64) -- Big(1), Ones(64)>>
NC64 == [i \in 1 .. 3 |-> IF i = 3 THEN Big(1) ELSE (Ones(64) -- N64[i]) ++ Big(2 - i)]
NH64 == <<Word64(57321, 12102, 26651, 8352), Word64(23895, 28275, 22436, 20509), Ones(64), Ones(63)>>
N32 == <<Word32(53302, 16705), Word32(49106, 24204), Word32(44872, 41019), Word32(47790, 56550),
         Word32(65535, 65534), Ones(32), Ones(32), Ones(32)>>
NC32 == [i \in 1 .. 5 |-> IF i = 5 THEN Big(1) ELSE (Ones(32) -- N32[i]) ++ (IF i = 1 THEN Big(1) ELSE Zero)]
NH32 == <<Word32(26651, 8352), Word32(57321, 12102), Word32(22436, 20509), Word32(23895, 28275),
          Ones(32), Ones(32), Ones(32), Ones(31)>>

\* The build with words of 32 bits: its macros run over twice as many columns.
L == INSTANCE ScalarLimbs WITH Word <- 32, N <- N32, NC <- NC32, NH <- NH32
SetInt32(v) == L!SetInt(v)
GetBitsVar32(a, offset, count) == L!GetBitsVar(a, offset, count)
CheckOverflow32(d) == L!CheckOverflow(d)
Reduce32(d, overflow) == L!Reduce(d, overflow)
Add32(a, b) == L!AddScalar(a, b)
CaddBit32(a, bit, flag) == L!CaddBit(a, bit, flag)
SetB32of32(b) == L!SetB32(b)
GetB32of32(a) == L!GetB32(a)
Negate32(a) == L!Negate(a)
IsHigh32(a) == L!IsHigh(a)
CondNegate32(a, flag) == L!CondNegate(a, flag)
Reduce512in32(l) == L!Reduce512(l)
Mul512in32(a, b) == L!Mul512(a, b)
Sqr512in32(a) == L!Sqr512(a)
Mul32(a, b) == L!Mul(a, b)
ShrInt32(a, n) == L!ShrInt(a, n)
Sqr32(a) == L!Sqr(a)
Split128in32(a) == L!Split128(a)
MulShiftVar32(a, b, shift) == L!MulShiftVar(a, b, shift)

To(new, other, x) ==
  steps < Depth /\ steps' = steps + 1 /\ r' = new /\ q' = other /\ val' = x /\ UNCHANGED kind

-----------------------------------------------------------------------------
(* Field elements *)

Prime == Pow2(256) -- A!C
ModP(x) == ModC(x, A!C)
ModNeg(x) == IF x = Zero THEN Zero ELSE Prime -- x
NumFe(w, a) == Value(a.n, w)
MaxMagFe == (52 :> MaxMag52) @@ (26 :> MaxMag26)

\* The lowest limbs at zero, at the ones of p and around them, and at the bound
\* of the magnitude, the others full or at the bound, the highest one also zero.
Edges52(m) ==
  {A!Fe(<<t[1], t[2], t[2], t[2], t[3]>>, m, FALSE, TRUE) :
     t \in {Zero, A!P0 -- Big(1), A!P0, A!M ** Big(2 * m)} \X {Zero, A!M, A!M ** Big(2 * m)} \X {Zero, A!T, A!T ** Big(2 * m)}}
Limbs26(t0, t1, t2, t9) == <<t0, t1>> \o [i \in 1 .. 7 |-> t2] \o <<t9>>
Edges26(m) ==
  {B!Fe(Limbs26(t[1], t[2], t[3], t[4]), m, FALSE, TRUE) :
     t \in {Zero, B!PLimb[1] -- Big(1), B!PLimb[1]} \X {B!PLimb[2], B!M ** Big(2 * m)}
           \X {B!M, B!M ** Big(2 * m)} \X {Zero, B!T, B!T ** Big(2 * m)}}
EdgesFe(w) == UNION {IF w = 52 THEN Edges52(m) ELSE Edges26(m) : m \in {1, MaxMagFe[w]}}
Last52 == A!Fe(<<A!P0 -- Big(1), A!M, A!M, A!M, A!T>>, 1, TRUE, TRUE)
Last26 == B!Fe(Limbs26(B!PLimb[1] -- Big(1), B!PLimb[2], B!M, B!T), 1, TRUE, TRUE)
OthersFe ==
  (52 :> {Last52, A!Fe([i \in 1 .. 5 |-> (IF i = 5 THEN A!T ELSE A!M) ** Big(16)], 8, FALSE, TRUE)})
  @@ (26 :> {Last26, B!Fe(Limbs26(B!M ** Big(16), B!M ** Big(16), B!M ** Big(16), B!T ** Big(16)), 8, FALSE, TRUE)})
Compared(w) ==
  IF w = 52 THEN {A!Fe(<<A!M, Zero, Zero, Zero, Big(1)>>, 1, TRUE, TRUE), Last52}
  ELSE {B!Fe(Limbs26(B!M, Zero, Zero, Big(1)), 1, TRUE, TRUE), Last26}

StartFe(w) == kind' = w /\ \E a \in EdgesFe(w) : r' = a /\ val' = ModP(NumFe(w, a)) /\ UNCHANGED <<q, steps>>

ToFe(new52, new26, x) ==
  \/ kind = 52 /\ To(new52, q, x)
  \/ kind = 26 /\ To(new26, q, x)
IsFe == kind \in {52, 26}
FeNormalize == ToFe(A!Normalize(r), B!Normalize(r), val)
FeNormalizeVar == ToFe(A!NormalizeVar(r), B!NormalizeVar(r), val)
FeNormalizeWeak == ToFe(A!NormalizeWeak(r), B!NormalizeWeak(r), val)
FeNegate == r.mag < MaxMagFe[kind] /\ ToFe(A!Negate(r, r.mag), B!Negate(r, r.mag), ModNeg(val))
FeMulInt == \E i \in {2, 8} : r.mag * i <= MaxMagFe[kind] /\ ToFe(A!MulInt(r, i), B!MulInt(r, i), ModP(val ** Big(i)))
FeAdd ==
  \E a \in OthersFe[kind] :
    r.mag + a.mag <= MaxMagFe[kind] /\ ToFe(A!AddFe(r, a), B!AddFe(r, a), ModP(val ++ NumFe(kind, a)))
FeMul == r.mag <= 8 /\ \E a \in OthersFe[kind] : ToFe(A!Mul(r, a), B!Mul(r, a), ModP(val ** ModP(NumFe(kind, a))))
FeSqr == r.mag <= 8 /\ ToFe(A!Sqr(r), B!Sqr(r), ModP(val ** val))
FeCmov ==
  \E a \in OthersFe[kind], flag \in BOOLEAN :
    ToFe(A!Cmov(r, a, flag), B!Cmov(r, a, flag), IF flag THEN ModP(NumFe(kind, a)) ELSE val)
FeStore == r.norm /\ ToFe(A!FromStorage(A!ToStorage(r)), B!FromStorage(B!ToStorage(r)), val)
FeBytes ==
  r.norm /\ ToFe(A!Fe(A!SetB32(A!GetB32(r)), 1, TRUE, A!SetB32Ok(A!GetB32(r))),
                 B!Fe(B!SetB32(B!GetB32(r)), 1, TRUE, B!SetB32Ok(B!GetB32(r))), val)
FeSetInt == ToFe(A!SetInt(7), B!SetInt(7), Big(7))

NextFe ==
  IsFe /\ (\/ FeNormalize \/ FeNormalizeVar \/ FeNormalizeWeak \/ FeNegate \/ FeMulInt \/ FeAdd
           \/ FeMul \/ FeSqr \/ FeCmov \/ FeStore \/ FeBytes \/ FeSetInt)
-----------------------------------------------------------------------------
(* Scalars *)

Order == Value(N64, 64)
ModN(x) == ModC(x, Pow2(256) -- Order)
NumSc(a) == Value(a.d, Word)
Of64(x) == Ok(Split(x, Limbs))
Of32(x) == Ok(L!Split(x, 8))
HalfOrder == Shr(Order, 1)

\* Zero, one, the last scalars, the middle ones, and words full of ones.
EdgesSc ==
  {Zero, Big(1), Order -- Big(1), HalfOrder, HalfOrder ++ Big(1), Ones(128), Ones(255) -- Ones(128), Ones(192), Pow2(255) ++ Ones(64)}
OthersSc == {Order -- Big(1), HalfOrder ++ Big(1), Ones(255) -- Ones(96)}
\* Byte strings of numbers that no scalar has, and of one that a scalar has.
Wide == {Order -- Big(1), Order, Order ++ Big(1), Ones(256)}
BytesOf(x) == [j \in 1 .. 32 |-> At(Low(Shr(x, 8 * (32 - j)), 8), 1)]

StartSc == kind' = 64 /\ \E x \in EdgesSc : val' = x /\ r' = Of64(x) /\ q' = Of32(x) /\ UNCHANGED steps

ScAdd == \E x \in OthersSc : To(AddScalar(r, Of64(x)), Add32(q, Of32(x)), ModN(val ++ x))
ScMul == steps < Products /\ \E x \in OthersSc : To(Mul(r, Of64(x)), Mul32(q, Of32(x)), ModN(val ** x))
ScSqr == steps < Products /\ To(Sqr(r), Sqr32(q), ModN(val ** val))
ScNegate == To(Negate(r), Negate32(q), IF val = Zero THEN Zero ELSE Order -- val)
ScCondNegate ==
  \E flag \in {0, 1} :
    To(CondNegate(r, flag), CondNegate32(q, flag), IF val = Zero \/ flag = 0 THEN val ELSE Order -- val)
ScCadd ==
  \E bit \in {0, 63, 255}, flag \in {0, 1} :
    /\ flag = 1 => (val ++ Pow2(bit)) \prec Order
    /\ To(CaddBit(r, bit, flag), CaddBit32(q, bit, flag), IF flag = 1 THEN val ++ Pow2(bit) ELSE val)
ScShr == \E n \in {1, 15} : To(ShrInt(r, n), ShrInt32(q, n), Shr(val, n))
ScMulShift ==
  \E x \in OthersSc, shift \in {256, 272, 384, 511} :
    steps < Products /\ To(MulShiftVar(r, Of64(x), shift), MulShiftVar32(q, Of32(x), shift), Shr((val ** x) ++ Pow2(shift - 1), shift))
ScStore == To(SetB32(GetB32(r)), SetB32of32(GetB32of32(q)), val)
ScSplit128 == \E h \in {1, 2} : To(Split128(r)[h], Split128in32(q)[h], IF h = 1 THEN Low(val, 128) ELSE Shr(val, 128))
\* These two do not look at the register.
ScBytes == val = Zero /\ \E x \in Wide : To(SetB32(BytesOf(x)), SetB32of32(BytesOf(x)), ModN(x))
ScSetInt == val = Zero /\ To(SetInt(5), SetInt32(5), Big(5))

NextSc ==
  kind = 64 /\ (\/ ScAdd \/ ScMul \/ ScSqr \/ ScNegate \/ ScCondNegate \/ ScCadd \/ ScShr \/ ScMulShift
                \/ ScStore \/ ScSplit128 \/ ScBytes \/ ScSetInt)

LimbOff == kind = 0 /\ r = <<>> /\ q = <<>> /\ val = <<>> /\ steps = 0
LimbStart == kind = 0 /\ (StartFe(52) \/ StartFe(26) \/ StartSc)
LimbNext == LimbStart \/ NextFe \/ NextSc

-----------------------------------------------------------------------------
(* Addition chains: what a register holds is x to an exponent; the model keeps the
   exponent, as the set of its one bits. *)

\* dst is src, squared n times, times by ("" for no product).
Step(dst, src, n, by) == [dst |-> dst, src |-> src, n |-> n, by |-> by]

\* The blocks of ones that both field chains start with.
FieldBlocks ==
  << Step("x2", "a", 1, "a"), Step("x3", "x2", 1, "a"), Step("x6", "x3", 3, "x3"), Step("x9", "x6", 3, "x3"),
     Step("x11", "x9", 2, "x2"), Step("x22", "x11", 11, "x11"), Step("x44", "x22", 22, "x22"), Step("x88", "x44", 44, "x44"),
     Step("x176", "x88", 88, "x88"), Step("x220", "x176", 44, "x44"), Step("x223", "x220", 3, "x3") >>
FeSqrtChain == FieldBlocks \o << Step("t", "x223", 23, "x22"), Step("t", "t", 6, "x2"), Step("t", "t", 2, "") >>
FeInvChain == FieldBlocks \o << Step("t", "x223", 23, "x22"), Step("t", "t", 5, "a"), Step("t", "t", 3, "x2"), Step("t", "t", 2, "a") >>

ScalarBlocks ==
  << Step("u2", "a", 1, ""), Step("x2", "u2", 0, "a"), Step("u5", "u2", 0, "x2"), Step("x3", "u5", 0, "u2"), Step("u9", "x3", 0, "u2"),
     Step("u11", "u9", 0, "u2"), Step("u13", "u11", 0, "u2"), Step("x6", "u13", 2, "u11"), Step("x8", "x6", 2, "x2"), Step("x14", "x8", 6, "x6"),
     Step("x28", "x14", 14, "x14"), Step("x56", "x28", 28, "x28"), Step("x112", "x56", 56, "x56"), Step("x126", "x112", 14, "x14") >>
\* The windows of the order, as the squarings and the factor of each.
ScalarWindows ==
  << <<3, "u5">>, <<4, "x3">>, <<4, "u5">>, <<5, "u11">>, <<4, "u11">>, <<4, "x3">>, <<5, "x3">>, <<6, "u13">>, <<4, "u5">>, <<3, "x3">>,
     <<5, "u9">>, <<6, "u5">>, <<10, "x3">>, <<4, "x3">>, <<9, "x8">>, <<5, "u9">>, <<6, "u11">>, <<4, "u13">>, <<5, "x2">>, <<6, "u13">>,
     <<10, "u13">>, <<4, "u9">>, <<6, "a">>, <<8, "x6">> >>
ScalarInverseChain ==
  ScalarBlocks \o [i \in 1 .. Len(ScalarWindows) |->
                     Step("t", IF i = 1 THEN "x126" ELSE "t", ScalarWindows[i][1], ScalarWindows[i][2])]

Chains == [sqrt |-> FeSqrtChain, inv |-> FeInvChain, scalar |-> ScalarInverseChain]

\* The field prime and the order of the group, as bytes.
PrimeBytes == [i \in 1 .. 32 |-> CASE i = 28 -> 254 [] i = 31 -> 252 [] i = 32 -> 47 [] OTHER -> 255]
OrderBytes == [i \in 1 .. 15 |-> 255] \o <<254, 186, 174, 220, 230, 175, 72, 160, 59, 191, 210, 94, 140, 208, 54, 65, 65>>
BitsOf(bytes) ==
  {b \in 0 .. 255 : (bytes[32 - b \div 8] \div 2 ^ (b % 8)) % 2 = 1}

RECURSIVE AddBits(_, _)
AddBits(s, t) == IF t = {} THEN s ELSE AddBits((s \ t) \cup (t \ s), {i + 1 : i \in s \cap t})
ShiftBits(s, n) == {i + n : i \in s}

Registers == {"a", "x2", "x3", "x6", "x8", "x9", "x11", "x14", "x22", "x28", "x44", "x56", "x88", "x112", "x126", "x176", "x220", "x223",
              "u2", "u5", "u9", "u11", "u13", "t"}
BlockOnes == [x2 |-> 2, x3 |-> 3, x6 |-> 6, x8 |-> 8, x9 |-> 9, x11 |-> 11, x14 |-> 14, x22 |-> 22, x28 |-> 28, x44 |-> 44, x56 |-> 56,
         x88 |-> 88, x112 |-> 112, x126 |-> 126, x176 |-> 176, x220 |-> 220, x223 |-> 223]

Cur == Chains[chain][chainPc]
Fresh == 999   \* the step has not started

ChainInit == chain \in DOMAIN Chains /\ chainPc = 1 /\ chainLeft = Fresh /\ chainReg = [x \in Registers |-> IF x = "a" THEN {0} ELSE {}]

ChainRunning == chainPc <= Len(Chains[chain])
ChainLoad == ChainRunning /\ chainLeft = Fresh /\ chainLeft' = Cur.n /\ chainReg' = [chainReg EXCEPT ![Cur.dst] = chainReg[Cur.src]] /\ UNCHANGED <<chain, chainPc>>
ChainSqr == ChainRunning /\ chainLeft \in 1 .. Fresh - 1 /\ chainLeft' = chainLeft - 1 /\ chainReg' = [chainReg EXCEPT ![Cur.dst] = ShiftBits(@, 1)] /\ UNCHANGED <<chain, chainPc>>
ChainMul ==
  /\ ChainRunning /\ chainLeft = 0 /\ chainLeft' = Fresh /\ chainPc' = chainPc + 1
  /\ chainReg' = IF Cur.by = "" THEN chainReg ELSE [chainReg EXCEPT ![Cur.dst] = AddBits(@, chainReg[Cur.by])]
  /\ UNCHANGED chain
ChainNext == ChainLoad \/ ChainSqr \/ ChainMul

-----------------------------------------------------------------------------
(* Recodings *)

Rec == INSTANCE Wnaf WITH Bits <- WBits, Order <- WOrder
AllScalars == 0 .. WOrder - 1
Abs(v) == IF v < 0 THEN -v ELSE v
\* The scalars that the halves of a split stand for: short, or short when negated.
Short == {s \in AllScalars : s < 2^WHalf \/ Rec!NegateMod(s) < 2^WHalf}

\* The lengths the callers pass: all bits, or 128 with 2 or 1 bits of room.
WnafInit ==
  \E w \in Windows :
    \/ /\ recoding = "wnaf"
       /\ \/ scalar \in AllScalars /\ locals = Rec!WnafStart(scalar, WBits, w)
          \/ scalar \in Short /\ locals = Rec!WnafStart(scalar, WHalf + 2, w)
          \/ scalar \in 0 .. 2^WHalf - 1 /\ locals = Rec!WnafStart(scalar, WHalf + 1, w)
    \/ /\ recoding = "fixed"
       /\ \/ scalar \in AllScalars /\ locals = Rec!FixedStart(scalar, WBits, w)
          \/ scalar \in 0 .. 2^WHalf - 1 /\ locals = Rec!FixedStart(scalar, WHalf, w)
    \/ /\ recoding = "const"
       /\ \/ scalar \in AllScalars /\ locals = Rec!ConstStart(scalar, WBits, w)
          \/ scalar \in {s \in Short : s # 2^WHalf - 1 /\ Rec!NegateMod(s) # 2^WHalf - 1} /\ locals = Rec!ConstStart(scalar, WHalf, w)

RecodingOver == CASE recoding = "wnaf" -> Rec!WnafOver(locals) [] recoding = "fixed" -> Rec!FixedOver(locals) [] OTHER -> Rec!ConstOver(locals)
TurnWnaf == recoding = "wnaf" /\ ~Rec!WnafOver(locals) /\ locals' = Rec!WnafTurn(locals)
TurnFixed == recoding = "fixed" /\ ~Rec!FixedOver(locals) /\ locals' = Rec!FixedTurn(locals)
TurnConst == recoding = "const" /\ ~Rec!ConstOver(locals) /\ locals' = Rec!ConstTurn(locals)
WnafNext == (TurnWnaf \/ TurnFixed \/ TurnConst) /\ UNCHANGED <<recoding, scalar>>

-----------------------------------------------------------------------------
(* The hashes and the encodings *)

\* A compression function that tells blocks, states and places apart.
ToyCompress(s, block) ==
  LET sum == (17 + 3 * s[1] + 331 * s[2] + 1009 * s[3] + 4099 * s[4] + 7 * block[1] + 61 * block[2] + 503 * block[3]
              + 911 * block[4] + 2003 * block[5] + 3001 * block[6] + 5003 * block[7] + 7001 * block[8]) % 65521
  IN [i \in 1 .. DigestLen |-> (sum \div (i + 1)) % 256] \o <<>>
ToyIV == [i \in 1 .. DigestLen |-> 50 + i] \o <<>>
Pairs == {<<x, y>> : x, y \in {0, 1}}
SmallArgs == [key : Pairs, msg : Pairs, data : Pairs \cup {<<>>}, algo : {<<0>>, <<1>>, <<>>}]
Hash == INSTANCE Sha256 WITH Compress <- ToyCompress, IV <- ToyIV, Args <- SmallArgs
ASSUME SizeAssumption == 2 * DigestLen = Block /\ LenLen < Block
D == INSTANCE Der WITH Order <- DerOrder

-----------------------------------------------------------------------------
ChainOff == chain = "off" /\ chainPc = 0 /\ chainLeft = 0 /\ chainReg = <<>>
WnafOff == recoding = "off" /\ scalar = 0 /\ locals = <<>>
Starts(p, init) ==
  /\ p \in Parts /\ part = p
  /\ LimbOff /\ init
  /\ p # "chain" => ChainOff
  /\ p # "wnaf" => WnafOff
  /\ p # "hash" => Hash!HashOff
  /\ p # "rounds" => Hash!RoundsOff
  /\ p # "der" => D!DerOff
Init ==
  \/ Starts("limbs", TRUE) \/ Starts("chain", ChainInit) \/ Starts("wnaf", WnafInit)
  \/ Starts("hash", Hash!HashInit) \/ Starts("rounds", Hash!RoundsInit) \/ Starts("der", D!DerInit)
Next ==
  /\ UNCHANGED part
  /\ \/ part = "limbs" /\ LimbNext
        /\ UNCHANGED <<chainVars, wnafVars, hashVars, roundVars, derVars>>
     \/ part = "chain" /\ ChainNext
        /\ UNCHANGED <<limbVars, wnafVars, hashVars, roundVars, derVars>>
     \/ part = "wnaf" /\ WnafNext
        /\ UNCHANGED <<limbVars, chainVars, hashVars, roundVars, derVars>>
     \/ part = "hash" /\ Hash!HashNext
        /\ UNCHANGED <<limbVars, chainVars, wnafVars, roundVars, derVars>>
     \/ part = "rounds" /\ Hash!RoundsNext
        /\ UNCHANGED <<limbVars, chainVars, wnafVars, hashVars, derVars>>
     \/ part = "der" /\ D!DerNext
        /\ UNCHANGED <<limbVars, chainVars, wnafVars, hashVars, roundVars>>
vars == <<part, limbVars, chainVars, wnafVars, hashVars, roundVars, derVars>>
Spec == Init /\ [][Next]_vars

-----------------------------------------------------------------------------
(* Properties *)

\* No word wraps and no carry is lost, from any limbs the magnitude allows: a
\* field element stands for the value of the operations modulo p, and both
\* builds of a scalar hold the value itself, less than the order.
ValueIsRight ==
  kind # 0 =>
  IF IsFe THEN ModP(NumFe(kind, r)) = val ELSE NumSc(r) = val /\ Value(q.d, 32) = val

\* Every VERIFY_CHECK and VERIFY_BITS holds: the magnitude bounds the limbs
\* after every operation, the words of a product never overflow, and no macro
\* that keeps two words of an accumulator ever needs the third.
ChecksHold == kind # 0 => r.ok /\ (~IsFe => q.ok)

\* A normalized element is the one representation of its number: less than
\* p, so that comparing limbs, bytes or storage compares numbers.
Canonical == IsFe => (r.norm => NumFe(kind, r) = val)

\* secp256k1_fe_normalizes_to_zero and its variable-time form agree with
\* normalizing, for a raw zero, a raw p and multiples of p.
ZeroIsSeen ==
  IsFe => /\ (IF kind = 52 THEN A!NormalizesToZero(r) ELSE B!NormalizesToZero(r)) = (val = Zero)
          /\ (IF kind = 52 THEN A!NormalizesToZeroVar(r) ELSE B!NormalizesToZeroVar(r)) = (val = Zero)

\* secp256k1_fe_cmp_var orders, and secp256k1_fe_is_odd reads, the numbers.
Ordered ==
  IsFe => (r.norm =>
    /\ (IF kind = 52 THEN A!IsOdd(r) ELSE B!IsOdd(r)) = (At(val, 1) % 2 = 1)
    /\ \A a \in Compared(kind) :
         (IF kind = 52 THEN A!FeLess(r, a) ELSE B!FeLess(r, a)) = (val \prec NumFe(kind, a)))

\* The assembly gives the same words as the portable code, for field elements
\* and for scalars, although it drops carries and keeps one register of two.
AsmAgrees ==
  kind # 0 =>
  CASE kind = 52 ->
         steps < Depth => (r.mag <= 8 => /\ A!AsmSqrInner(r.n) = A!SqrInner(r.n).n
                                         /\ \A a \in OthersFe[52] : A!AsmMulInner(r.n, a.n) = A!MulInner(r.n, a.n).n)
    [] kind = 64 ->
         steps < Products => AsmSqr(r) = Sqr(r) /\ \A x \in OthersSc : AsmMul(r, Of64(x)) = Mul(r, Of64(x))
    [] OTHER -> TRUE

\* secp256k1_scalar_is_high splits the nonzero scalars in halves that
\* negation exchanges, so that one of s and -s makes a low signature.
OneIsLow ==
  kind = 64 => /\ IsHigh(r) = (HalfOrder \prec val) /\ IsHigh32(q) = (HalfOrder \prec val)
               /\ val # Zero => IsHigh(r) # IsHigh(Negate(r))

\* secp256k1_scalar_get_bits_var reads the same bits within a word and
\* across two.
BitsAreRead ==
  kind = 64 =>
    \A offset \in {0, 28, 60, 62, 124, 251} : \A count \in {1, 5} :
      /\ GetBitsVar(r, offset, count) = At(Low(Shr(val, offset), count), 1)
      /\ GetBitsVar32(q, offset, count) = At(Low(Shr(val, offset), count), 1)

\* secp256k1_scalar_split_lambda gives r1 + lambda * r2 = a with both parts,
\* or their negations, within 128 bits.
IsShort(x) == Fits(x, 128) \/ Fits(Order -- x, 128)
SplitIsShort ==
  kind = 64 => (steps < Products =>
    \A s \in {SplitLambda(r)}, lambda \in {Order -- NumSc(MinusLambda)} :
      /\ s[1].ok /\ s[2].ok
      /\ ModN(NumSc(s[1]) ++ (lambda ** NumSc(s[2]))) = val
      /\ IsShort(NumSc(s[1])) /\ IsShort(NumSc(s[2])))

\* secp256k1_fe_inv computes the power p - 2, secp256k1_fe_sqrt the power
\* (p + 1) / 4 and secp256k1_scalar_inverse the power n - 2, bit for bit.
ExponentIsRight ==
  part = "chain" /\ ~ChainRunning =>
    CASE chain = "inv" -> AddBits(chainReg["t"], {1}) = BitsOf(PrimeBytes)
      [] chain = "sqrt" -> ShiftBits(chainReg["t"], 2) = AddBits(BitsOf(PrimeBytes), {0})
      [] chain = "scalar" -> AddBits(chainReg["t"], {1}) = BitsOf(OrderBytes)

\* A register xN is left with x to the power 2^N - 1: a block of N ones.
BlocksAreOnes ==
  part = "chain" =>
    \A x \in DOMAIN BlockOnes : (\E i \in 1 .. chainPc - 1 : Chains[chain][i].dst = x) => chainReg[x] = 0 .. BlockOnes[x] - 1

\* The digits as a number: digit i counts for 2^(step * i).
Worth(d, step) ==
  LET f[i \in -1 .. Cardinality(DOMAIN d) - 1] == IF i = -1 THEN 0 ELSE f[i - 1] + d[i] * 2^(step * i)
  IN f[Cardinality(DOMAIN d) - 1]
Agree(v, s) == (v - s) % WOrder = 0

\* The loop invariants of the three recodings: what the digits written so far
\* are worth, with what is left of the scalar, is the scalar.  After the last
\* turn nothing is left, and the digits less the skew represent the scalar.
Represents ==
  part = "wnaf" =>
  CASE recoding = "wnaf" ->
         /\ Worth(locals.wnaf, 1) + locals.sign * (locals.s \div 2^locals.bit + locals.carry) * 2^locals.bit = locals.sign * locals.s
         /\ Agree(locals.sign * locals.s, scalar)
         /\ RecodingOver => locals.carry = 0 /\ locals.s \div 2^locals.bit = 0
    [] recoding = "fixed" ->
         /\ Worth(locals.wnaf, locals.w) + (scalar \div 2^(locals.pos * locals.w)) * 2^(locals.pos * locals.w) = scalar + locals.skew
         /\ RecodingOver => Worth(locals.wnaf, locals.w) - locals.skew = scalar
    [] OTHER ->
         /\ ~RecodingOver => Agree(Worth(locals.wnaf, locals.w) + locals.sign * (locals.ulast * 2^(locals.w * locals.word)
                                     + locals.s * 2^(locals.w * (locals.word + 1))), scalar + locals.skew)
         /\ RecodingOver => locals.s = 0 /\ Agree(Worth(locals.wnaf, locals.w) - locals.skew, scalar)

\* "each wnaf[i] is either 0, or an odd integer between ..." (ecmult_impl.h:258),
\* likewise for the others: the finished digits are in the tables and buckets
\* that the multiplications index with them, and none of the constant-time
\* digits is zero.
InTables ==
  part = "wnaf" /\ RecodingOver => \A i \in DOMAIN locals.wnaf :
    LET d == locals.wnaf[i] IN
    /\ d # 0 => d % 2 = 1 /\ Abs(d) < IF recoding = "wnaf" THEN 2^(locals.w - 1) ELSE 2^locals.w
    /\ recoding = "const" => d # 0 /\ locals.fits

\* "two non-zero entries in wnaf are separated by at least w-1 zeroes", and the
\* count returned is at most the length and "at most one more than the number of
\* bits in the (absolute value) of the input" (ecmult_impl.h:259-261).
SparseAndShort ==
  part = "wnaf" /\ recoding = "wnaf" /\ RecodingOver =>
    /\ \A i, j \in DOMAIN locals.wnaf : i < j /\ locals.wnaf[i] # 0 /\ locals.wnaf[j] # 0 => j - i >= locals.w
    /\ locals.last + 1 <= locals.len
    /\ IF locals.s = 0 THEN locals.last = -1 ELSE 2^(locals.last + 1) <= 4 * locals.s

\* The digest does not depend on how the message was cut into writes: it is
\* SHA-256 of it (secp256k1_sha256_write and secp256k1_sha256_finalize).
DigestIsRight == part = "hash" => Hash!DigestIsRight

\* secp256k1_hmac_sha256_* compute HMAC, for keys up to a block and longer ones.
HmacIsRight == part = "hash" => Hash!HmacIsRight

\* What the generator gave is what RFC 6979 gives, also when it is asked again.
GeneratorIsRfc == part = "hash" => Hash!GeneratorIsRfc

\* nonce_function_rfc6979: the bytes it seeds the generator with differ for
\* different keys, messages, data and algorithms.
NoncesAreApart == part = "hash" => Hash!NoncesAreApart

\* The variables that the macros of the transform rotate are the registers of
\* the textbook, and the 16 words reused are its schedule of 64.
RolesAreRegisters == part = "rounds" => Hash!RolesAreRegisters

\* The digests of two messages of one and two blocks are the known ones.
DigestIsKnown == part = "rounds" => Hash!DigestIsKnown

\* A signature, or a key, that is written is read back (secp256k1_ecdsa_sig_serialize
\* then secp256k1_ecdsa_sig_parse, ec_privkey_export_der then ec_privkey_import_der).
WrittenIsRead == part = "der" => D!WrittenIsRead

\* A signature has one encoding that secp256k1_ecdsa_sig_parse accepts.
SignatureIsUnique == part = "der" => D!SignatureIsUnique

\* The parsers look at no byte outside the input, whatever was done to it.
ReadsInside == part = "der" => D!ReadsInside

\* What the strict parser accepts, the lax one accepts, with the same values.
StrictWithinLax == part = "der" => D!StrictWithinLax

\* What ec_privkey_export_der writes is DER: every length is that of what follows.
ExportIsDer == part = "der" => D!ExportIsDer

\* Limbs, addition chains and signed digits compute with the numbers they stand
\* for: at full width, from operands at every border, in every build.
NumbersAreRight ==
  /\ ValueIsRight /\ ChecksHold /\ Canonical /\ ZeroIsSeen /\ Ordered /\ AsmAgrees
  /\ OneIsLow /\ BitsAreRead /\ SplitIsShort
  /\ ExponentIsRight /\ BlocksAreOnes
  /\ Represents /\ InTables /\ SparseAndShort

\* Hashes, nonces and encodings are those of their standards, however a message
\* was cut into pieces and whatever was done to the bytes that are parsed.
BytesAreRight ==
  /\ DigestIsRight /\ HmacIsRight /\ GeneratorIsRfc /\ NoncesAreApart
  /\ RolesAreRegisters /\ DigestIsKnown
  /\ WrittenIsRead /\ SignatureIsUnique /\ ReadsInside /\ StrictWithinLax /\ ExportIsDer
=============================================================================
