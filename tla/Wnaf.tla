-------------------------------- MODULE Wnaf --------------------------------
(***************************************************************************)
(* The three recodings of a scalar into signed digits of secp256k1: for    *)
(* the multiplication with tables (ecmult_wnaf), for the one with buckets  *)
(* (wnaf_fixed) and for the one in constant time (wnaf_const).  Each is a  *)
(* start, a turn of its loop and the condition that ends it, on a record c *)
(* of its local variables.                                                 *)
(***************************************************************************)
EXTENDS Integers

CONSTANTS Bits,   \* the width of a scalar, 256 in the code
          Order   \* the order of the group: its highest bit is bit Bits - 1

GetBits(s, offset, count) == (s \div 2^offset) % 2^count
NegateMod(s) == (Order - s) % Order
IsHigh(s) == s > Order \div 2
\* WNAF_SIZE_BITS and ECMULT_TABLE_SIZE
WnafSizeBits(bits, w) == (bits + w - 1) \div w
TableSize(w) == 2^(w - 2)
Digits(len) == [i \in 0 .. len - 1 |-> 0]

-----------------------------------------------------------------------------
\* secp256k1_ecmult_wnaf
WnafStart(a, len, w) ==
  LET neg == GetBits(a, Bits - 1, 1) = 1
  IN [s |-> IF neg THEN NegateMod(a) ELSE a, sign |-> IF neg THEN -1 ELSE 1,
      carry |-> 0, bit |-> 0, last |-> -1, wnaf |-> Digits(len), len |-> len, w |-> w]
WnafOver(c) == c.bit >= c.len
Window(c) ==
  LET now == IF c.w > c.len - c.bit THEN c.len - c.bit ELSE c.w
      word == GetBits(c.s, c.bit, now) + c.carry
  IN [now |-> now, word |-> word, carry |-> (word \div 2^(c.w - 1)) % 2]
WnafTurn(c) ==
  IF GetBits(c.s, c.bit, 1) = c.carry THEN [c EXCEPT !.bit = @ + 1]
  ELSE LET q == Window(c)
       IN [c EXCEPT !.wnaf[c.bit] = c.sign * (q.word - q.carry * 2^c.w),
                    !.last = c.bit, !.carry = q.carry, !.bit = @ + q.now]

-----------------------------------------------------------------------------
\* secp256k1_wnaf_fixed; bits is WNAF_BITS.
FixedWord(c, pos) ==
  LET size == WnafSizeBits(c.len, c.w)
  IN GetBits(c.s, pos * c.w, IF pos = size - 1 THEN c.len - (size - 1) * c.w ELSE c.w)
\* The skipping of leading zeros and the digit 0; a zero scalar has no other.
FixedStart(s, bits, w) ==
  LET skew == IF s # 0 /\ s % 2 = 0 THEN 1 ELSE 0
      size == WnafSizeBits(bits, w)
      c == [s |-> s, len |-> bits, w |-> w]
      set == {p \in 1 .. size - 1 : FixedWord(c, p) # 0}
      top == IF set = {} THEN 0 ELSE CHOOSE p \in set : \A q \in set : q <= p
  IN [s |-> s, skew |-> skew, pos |-> 1, max |-> top, len |-> bits, w |-> w,
      wnaf |-> [Digits(size) EXCEPT ![0] = IF s = 0 THEN 0 ELSE GetBits(s, 0, w) + skew]]
FixedOver(c) == c.pos > c.max
\* A coefficient of 1 or -1 is merged into the one before it.
MergeOne(d, pos, w) ==
  IF pos >= 2 /\ ((d[pos - 1] = 1 /\ d[pos - 2] < 0) \/ (d[pos - 1] = -1 /\ d[pos - 2] > 0))
  THEN [d EXCEPT ![pos - 2] = @ + d[pos - 1] * 2^w, ![pos - 1] = 0] ELSE d
MakeOdd(d, pos, val, w) ==
  IF val % 2 = 0 THEN [d EXCEPT ![pos - 1] = @ - 2^w, ![pos] = val + 1] ELSE [d EXCEPT ![pos] = val]
FixedTurn(c) ==
  [c EXCEPT !.wnaf = MergeOne(MakeOdd(@, c.pos, FixedWord(c, c.pos), c.w), c.pos, c.w), !.pos = @ + 1]

-----------------------------------------------------------------------------
NotNegOne(s) == NegateMod(s) # 1
\* The scalar made odd, and its sign; secp256k1_scalar_cadd_bit leaves -1 alone.
ConstSkewed(s) ==
  LET bit == IF IsHigh(s) = (s % 2 = 1) THEN 0 ELSE 1
      sum == IF NotNegOne(s) THEN s + 2^bit ELSE s
  IN [fits |-> sum < Order, skew |-> 2^bit,
      s |-> IF IsHigh(s) THEN NegateMod(sum) ELSE sum,
      sign |-> (IF IsHigh(s) THEN -1 ELSE 1) * (IF NotNegOne(s) THEN 1 ELSE -1)]
\* secp256k1_wnaf_const
ConstStart(s, size, w) ==
  LET k == ConstSkewed(s)
  IN [s |-> k.s \div 2^w, sign |-> k.sign, skew |-> k.skew, fits |-> k.fits, ulast |-> k.s % 2^w, u |-> 0,
      word |-> 0, len |-> size, w |-> w, wnaf |-> Digits(WnafSizeBits(size, w) + 1)]
ConstOver(c) == c.word * c.w >= c.len
\* The last digit takes the place of the one after the loop.
ConstTurn(c) ==
  LET u0 == c.s % 2^c.w
      fix == IF u0 % 2 # 0 THEN 0 ELSE IF c.ulast > 0 THEN 1 ELSE -1
      u == u0 + fix
      last == (c.word + 1) * c.w >= c.len
      d == [c.wnaf EXCEPT ![c.word] = (c.ulast - fix * 2^c.w) * c.sign]
  IN [c EXCEPT !.wnaf = IF last THEN [d EXCEPT ![c.word + 1] = u * c.sign] ELSE d,
               !.s = @ \div 2^c.w, !.ulast = u, !.u = u, !.word = @ + 1]
=============================================================================
