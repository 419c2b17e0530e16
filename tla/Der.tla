--------------------------------- MODULE Der ---------------------------------
(***************************************************************************)
(* The encodings of signatures and secret keys: the strict parser and the  *)
(* serializer of ecdsa_impl.h, the lax parser of contrib/ and the secret   *)
(* keys of contrib/, in bytes.  An input is a sequence, a position is the  *)
(* number of bytes before it, and every result says in read how many bytes *)
(* of the input were looked at; a byte past the end reads as 0.  At the    *)
(* end, encodings have bytes changed, inserted, cut off or added.          *)
(***************************************************************************)
EXTENDS Integers, Sequences, SequencesExt

CONSTANTS ScalarLen,   \* bytes of a scalar in a signature, 32 in the code
          Order,       \* the order, as a number
          SizeT,       \* bytes of size_t
          Scalars,     \* the values of r and s
          LongSizes,   \* lengths of integers that need the long form
          Alphabet,    \* bytes that are put into an encoding,
          Places,      \* at one of its first Places places,
          MaxEdits     \* so many times at most

VARIABLES encoded,  \* "sig", "long" or "key"
          wrote,    \* the numbers of the signature, or the key
          input, edits
DerOff == encoded = "off" /\ wrote = <<>> /\ input = <<>> /\ edits = 0

Byte(in, pos) == IF pos < Len(in) THEN in[pos + 1] ELSE 0
RECURSIVE Number(_)
Number(b) == IF b = <<>> THEN 0 ELSE 256 * Number(Front(b)) + Last(b)
Zeros(n) == [i \in 1 .. n |-> 0] \o <<>>
BigEndian(v) == [i \in 1 .. ScalarLen |-> (v \div 256^(ScalarLen - i)) % 256] \o <<>>
Max2(a, b) == IF a > b THEN a ELSE b
RECURSIVE SkipZeros(_, _, _)
SkipZeros(in, pos, n) == IF n > 0 /\ Byte(in, pos) = 0 THEN SkipZeros(in, pos + 1, n - 1) ELSE [pos |-> pos, n |-> n]

-----------------------------------------------------------------------------
\* secp256k1_der_read_len: -1 for what is not allowed.
NoLen(pos, read) == [len |-> -1, pos |-> pos, read |-> read]
RECURSIVE LongLen(_, _, _, _)
LongLen(in, pos, left, ret) ==
  LET r == 256 * ret + Byte(in, pos) IN
  IF left = 0 THEN (IF ret < 128 THEN NoLen(pos, pos) ELSE [len |-> ret, pos |-> pos, read |-> pos])
  ELSE IF r + left > Len(in) - pos THEN NoLen(pos, pos + 1)
  ELSE LongLen(in, pos + 1, left - 1, r)
HasLength(in, pos, left) == left <= Len(in) - pos
DerReadLen(in, pos) ==
  LET b1 == Byte(in, pos)  left == b1 % 128 IN
  IF pos >= Len(in) THEN NoLen(pos, pos)
  ELSE IF b1 \in {128, 255} THEN NoLen(pos + 1, pos + 1)
  ELSE IF b1 < 128 THEN [len |-> b1, pos |-> pos + 1, read |-> pos + 1]
  ELSE IF ~HasLength(in, pos + 1, left) THEN NoLen(pos + 1, pos + 1)
  ELSE IF Byte(in, pos + 1) = 0 \/ left > SizeT THEN NoLen(pos + 1, pos + 2)
  ELSE LongLen(in, pos + 1, left, 0)

\* secp256k1_der_parse_integer: a negative or too large number is 0.
NotInteger(read) == [ok |-> FALSE, v |-> 0, overflow |-> FALSE, pos |-> 0, read |-> read]
\* A leading zero is allowed before any byte.
MutPadded(b0, b1) == b0 = 255 /\ b1 >= 128
Padded(b0, b1) == (b0 = 0 /\ b1 < 128) \/ (b0 = 255 /\ b1 >= 128)
IntegerOf(end, v, overflow) == [ok |-> TRUE, v |-> IF overflow THEN 0 ELSE v, overflow |-> overflow, pos |-> end, read |-> end]
\* The value after its zeros z.
IntegerValue(in, l, z, v) == IntegerOf(l.pos + l.len, v, Byte(in, l.pos) >= 128 \/ z.n > ScalarLen \/ v >= Order)
IntegerFrom(in, l, z) == IntegerValue(in, l, z, Number(SubSeq(in, z.pos + 1, z.pos + z.n)))
IntegerAt(in, pos, l) ==
  IF l.len <= 0 \/ l.pos + l.len > Len(in) THEN NotInteger(Max2(pos + 1, l.read))
  ELSE IF l.len > 1 /\ Padded(Byte(in, l.pos), Byte(in, l.pos + 1)) THEN NotInteger(l.pos + 2)
  ELSE IntegerFrom(in, l, SkipZeros(in, l.pos, l.len))
DerParseInteger(in, pos) ==
  IF pos = Len(in) THEN NotInteger(pos)
  ELSE IF Byte(in, pos) # 2 THEN NotInteger(pos + 1)
  ELSE IntegerAt(in, pos, DerReadLen(in, pos + 1))

NotParsed(read) == [ok |-> FALSE, r |-> 0, s |-> 0, overflow |-> FALSE, read |-> read]
\* secp256k1_ecdsa_sig_parse: nothing after the pair, and nothing in it after s.
SigOf(in, r, s) ==
  IF ~s.ok \/ s.pos # Len(in) THEN NotParsed(Max2(r.read, s.read))
  ELSE [ok |-> TRUE, r |-> r.v, s |-> s.v, overflow |-> r.overflow \/ s.overflow, read |-> s.read]
SigAfter(in, r) == IF ~r.ok THEN NotParsed(r.read) ELSE SigOf(in, r, DerParseInteger(in, r.pos))
SigAt(in, l) ==
  IF l.len < 0 \/ l.pos + l.len # Len(in) THEN NotParsed(l.read) ELSE SigAfter(in, DerParseInteger(in, l.pos))
SigParse(in) ==
  IF in = <<>> \/ in[1] # 48 THEN NotParsed(IF in = <<>> THEN 0 ELSE 1) ELSE SigAt(in, DerReadLen(in, 1))

\* secp256k1_ecdsa_sig_serialize, into a buffer that is large enough
Shorter(b) == Len(b) > 1 /\ b[1] = 0 /\ b[2] < 128
RECURSIVE Shortest(_)
Shortest(b) == IF Shorter(b) THEN Shortest(Tail(b)) ELSE b
SigSerialize(r, s) ==
  LET rp == Shortest(<<0>> \o BigEndian(r))  sp == Shortest(<<0>> \o BigEndian(s))
  IN <<48, 4 + Len(sp) + Len(rp), 2, Len(rp)>> \o rp \o <<2, Len(sp)>> \o sp

-----------------------------------------------------------------------------
\* ecdsa_signature_parse_der_lax: the length of an integer, in any form
LaxLen(in, pos) ==
  LET b == Byte(in, pos)  n == b - 128
      z == SkipZeros(in, pos + 1, n)
  IN IF pos = Len(in) THEN NoLen(pos, pos)
     ELSE IF b < 128 THEN [len |-> b, pos |-> pos + 1, read |-> pos + 1]
     ELSE IF pos + 1 + n > Len(in) THEN NoLen(pos, pos + 1)
     ELSE IF z.n >= SizeT THEN NoLen(pos, pos + 1 + n)
     ELSE [len |-> Number(SubSeq(in, z.pos + 1, z.pos + z.n)), pos |-> z.pos + z.n, read |-> z.pos + z.n]
TooLong(n) == n > ScalarLen
\* The tag and the length; then the value, which must be inside.
LaxFrom(in, end, z) ==
  [ok |-> TRUE, v |-> IF TooLong(z.n) THEN 0 ELSE Number(SubSeq(in, z.pos + 1, z.pos + z.n)),
   overflow |-> TooLong(z.n), pos |-> end, read |-> end]
LaxAt(in, pos, l) ==
  IF l.len < 0 \/ l.len > Len(in) - l.pos THEN NotInteger(Max2(pos + 1, l.read))
  ELSE LaxFrom(in, l.pos + l.len, SkipZeros(in, l.pos, l.len))
LaxInteger(in, pos) ==
  IF pos = Len(in) THEN NotInteger(pos)
  ELSE IF Byte(in, pos) # 2 THEN NotInteger(pos + 1)
  ELSE LaxAt(in, pos, LaxLen(in, pos + 1))
\* The length of the pair is skipped, and nothing is asked of what follows it.
\* A number too large makes both zero (secp256k1_ecdsa_signature_parse_compact).
LaxOf(r, s) ==
  LET overflow == r.overflow \/ s.overflow \/ r.v >= Order \/ s.v >= Order IN
  IF ~s.ok THEN NotParsed(Max2(r.read, s.read))
  ELSE [ok |-> TRUE, r |-> IF overflow THEN 0 ELSE r.v, s |-> IF overflow THEN 0 ELSE s.v,
        overflow |-> overflow, read |-> s.read]
LaxAfter(in, r) == IF ~r.ok THEN NotParsed(r.read) ELSE LaxOf(r, LaxInteger(in, r.pos))
LaxPair(in, start) == IF start > Len(in) THEN NotParsed(2) ELSE LaxAfter(in, LaxInteger(in, start))
LaxParse(in) ==
  IF in = <<>> \/ in[1] # 48 \/ Len(in) = 1 THEN NotParsed(IF in = <<>> THEN 0 ELSE 1)
  ELSE LaxPair(in, IF Byte(in, 1) >= 128 THEN 2 + Byte(in, 1) - 128 ELSE 2)

-----------------------------------------------------------------------------
\* The secret keys of contrib/, with keys of 32 bytes.  What stands for
\* the parameters of the curve is only counted.
KeyLen == 32
Some(n) == [i \in 1 .. n |-> 255] \o <<>>
Middle(compressed) ==
  LET c(a, b) == IF compressed THEN a ELSE b IN
  <<160, 129, c(133, 165), 48, 129, c(130, 162), 2, 1, 1, 48, 44, 6, 7>> \o Some(7) \o <<2, 33>> \o Some(33)
  \o <<48, 6, 4, 1, 0, 4, 1, 7, 4, c(33, 65)>> \o Some(c(33, 65)) \o <<2, 33>> \o Some(33)
  \o <<2, 1, 1, 161, c(36, 68), 3, c(34, 66), 0>>
Begin(compressed) ==
  IF compressed THEN <<48, 129, 211, 2, 1, 1, 4, KeyLen>> ELSE <<48, 130, 1, 19, 2, 1, 1, 4, KeyLen>>
\* ec_privkey_export_der of a valid key
PrivkeyExport(key, compressed) ==
  Begin(compressed) \o key \o Middle(compressed) \o Some(IF compressed THEN 33 ELSE 65)

\* The order of the curve's group, and secp256k1_ec_seckey_verify: a key is a
\* number below it, and not zero.
GroupOrder == Some(15) \o <<254, 186, 174, 220, 230, 175, 72, 160, 59, 191, 210, 94, 140, 208, 54, 65, 65>>
ValidKey(k) ==
  /\ k # Zeros(KeyLen)
  /\ \E i \in 1 .. KeyLen : k[i] < GroupOrder[i] /\ \A j \in 1 .. i - 1 : k[j] = GroupOrder[j]

NoImport(read) == [ok |-> FALSE, key |-> Zeros(KeyLen), read |-> read]
\* ec_privkey_import_der
PrivkeyImport(in) ==
  LET n == Byte(in, 1) - 128
      at == 2 + n
      len == Number(SubSeq(in, 3, at))
      size == Byte(in, at + 4)
      key == Zeros(KeyLen - size) \o SubSeq(in, at + 6, at + 5 + size)
  IN IF in = <<>> \/ in[1] # 48 \/ Len(in) = 1 THEN NoImport(IF in = <<>> THEN 0 ELSE 1)
     ELSE IF n \notin 1 .. 2 \/ at > Len(in) THEN NoImport(2)
     ELSE IF at + len > Len(in) \/ at + 3 > Len(in) THEN NoImport(at)
     ELSE IF SubSeq(in, at + 1, at + 3) # <<2, 1, 1>> \/ at + 5 > Len(in) THEN NoImport(at + 3)
     ELSE IF Byte(in, at + 3) # 4 \/ size > KeyLen \/ at + 5 + size > Len(in) THEN NoImport(at + 5)
     ELSE IF ~ValidKey(key) THEN NoImport(at + 5 + size)
     ELSE [ok |-> TRUE, key |-> key, read |-> at + 5 + size]

-----------------------------------------------------------------------------
SecretKeys == {Zeros(KeyLen - 1) \o <<1>>, <<127>> \o Some(KeyLen - 1)}
\* A pair of which s is an integer of n bytes, with the lengths in long form.
LongForm(n) ==
  LET int == <<2, 129, n, 1>> \o Some(n - 1) IN <<48, 129, Len(int) + 3, 2, 1, 5>> \o int

DerInit ==
  /\ edits = 0
  /\ \/ \E r, s \in Scalars : encoded = "sig" /\ wrote = <<r, s>> /\ input = SigSerialize(r, s)
     \/ \E n \in LongSizes : encoded = "long" /\ wrote = <<5, 0>> /\ input = LongForm(n)
     \/ \E k \in SecretKeys, c \in BOOLEAN : encoded = "key" /\ wrote = k /\ input = PrivkeyExport(k, c)
Edit(to) == edits < MaxEdits /\ edits' = edits + 1 /\ input' = to /\ UNCHANGED <<encoded, wrote>>
DerNext ==
  \/ \E i \in 1 .. (IF Len(input) < Places THEN Len(input) ELSE Places), b \in Alphabet :
       Edit(ReplaceAt(input, i, b)) \/ Edit(InsertAt(input, i, b))
  \/ \E n \in 1 .. (IF Len(input) < Places THEN Len(input) ELSE Places) : Edit(SubSeq(input, 1, Len(input) - n))
  \/ Len(input) > Places /\ Edit(SubSeq(input, 1, Places))
  \/ \E b \in Alphabet : Edit(Append(input, b))

-----------------------------------------------------------------------------
\* What secp256k1_ecdsa_sig_serialize writes, the strict and the lax parser
\* read as the same two numbers.
WrittenIsRead ==
  encoded = "sig" /\ edits = 0 =>
    \A p \in {SigParse(input), LaxParse(input)} : p.ok /\ <<p.r, p.s>> = wrote /\ ~p.overflow

\* Two encodings of one signature are never both accepted by the strict parser:
\* what it accepts is what the serializer writes.
SignatureIsUnique ==
  encoded # "key" => \A p \in {SigParse(input)} : p.ok /\ ~p.overflow => input = SigSerialize(p.r, p.s)

\* No parser looks at a byte behind the end of its input.
ReadsInside ==
  \A p \in {SigParse(input), LaxParse(input)} \cup {PrivkeyImport(input)} : p.read <= Len(input)

\* The lax parser reads whatever the strict one accepts, as the same numbers.
StrictWithinLax ==
  \A p \in {SigParse(input)}, q \in {LaxParse(input)} : p.ok /\ ~p.overflow => q.ok /\ <<q.r, q.s>> = <<p.r, p.s>>

\* DER: the contents of a constructed value are values, one after the other.
RECURSIVE WellFormed(_)
WellFormed(b) ==
  b # <<>> =>
    LET l == DerReadLen(b, 1) IN
    /\ l.len >= 0 /\ l.pos + l.len <= Len(b)
    /\ b[1] \in {48, 160, 161} => WellFormed(SubSeq(b, l.pos + 1, l.pos + l.len))
    /\ WellFormed(SubSeq(b, l.pos + l.len + 1, Len(b)))
\* A secret key is written as well-formed DER, with all its nested lengths
\* right, in both forms, and it is read back.
ExportIsDer ==
  encoded = "key" /\ edits = 0 =>
    WellFormed(input) /\ PrivkeyImport(input).ok /\ PrivkeyImport(input).key = wrote
=============================================================================
