-------------------------------- MODULE Sha256 --------------------------------
(***************************************************************************)
(* hash_impl.h: the compression function of SHA-256, one Round a step with *)
(* words of 32 bits as pairs of halves; around it the buffer of the hash,  *)
(* the keyed hash HMAC and the generator of RFC 6979, in bytes.  There,    *)
(* messages are written in pieces of every length and the generator is     *)
(* asked again and again, next to their definitions.                       *)
(***************************************************************************)
EXTENDS Naturals, Sequences, SequencesExt, Bitwise, FiniteSets

CONSTANTS Block, LenLen, DigestLen,   \* 64, 8 and 32 bytes in the code
          Compress(_, _), IV,         \* secp256k1_sha256_transform and the state it starts from
          MaxLen, MaxPiece,   \* bounds on a message and on one write
          KeyLens, MaxAsked,  \* the lengths of a key of HMAC, and a bound on the calls of the generator
          AskLens,            \* the lengths asked of it
          Args                \* what the nonce function may be called with

VARIABLES hkey,     \* of HMAC
          written,  \* the bytes written so far
          hash, hmac,
          gen, asked,  \* the generator, and the lengths asked of it
          rfc,         \* what RFC 6979 has before the last call
          chunks, digest,   \* the blocks still to be transformed, and the digest to come
          state,    \* the state of the hash
          letters, words,   \* a to h, and w0 to w15
          roundNo,  \* rounds done
          regs, sched  \* the registers and the words of the textbook

HashOff ==
  /\ hkey = <<>> /\ written = 0 /\ hash = <<>> /\ hmac = <<>> /\ gen = <<>> /\ asked = <<>> /\ rfc = <<>>
RoundsOff ==
  /\ chunks = <<>> /\ digest = <<>> /\ state = <<>> /\ letters = <<>> /\ words = <<>>
  /\ roundNo = 0 /\ regs = <<>> /\ sched = <<>>

Bytes(b, n) == [i \in 1 .. n |-> b] \o <<>>

\* secp256k1_sha256
Initialize == [s |-> IV, buf |-> Bytes(0, Block), bytes |-> 0]
Overwritten(buf, at, data) ==
  [i \in 1 .. Block |-> IF i > at /\ i <= at + Len(data) THEN data[i - at] ELSE buf[i]] \o <<>>
RECURSIVE Absorb(_, _, _)
Absorb(h, bufsize, data) ==
  IF Len(h.s) # DigestLen \/ bufsize + Len(data) < Block THEN [h EXCEPT !.buf = Overwritten(@, bufsize, data)]
  ELSE LET n == Block - bufsize
           buf == Overwritten(h.buf, bufsize, SubSeq(data, 1, n))
       IN Absorb([h EXCEPT !.buf = buf, !.s = Compress(@, buf)], 0, SubSeq(data, n + 1, Len(data)))
Write(h, data) == Absorb([h EXCEPT !.bytes = @ + Len(data)], h.bytes % Block, data)

PadLen(bytes) == 1 + ((2 * Block - LenLen - 1 - (bytes % Block)) % Block)
\* The number of bits, most significant byte first.
SizeDesc(bytes) == [i \in 1 .. LenLen |-> ((8 * bytes) \div 256^(LenLen - i)) % 256] \o <<>>
Finalize(h) == Write(Write(h, <<128>> \o Bytes(0, PadLen(h.bytes) - 1)), SizeDesc(h.bytes)).s

-----------------------------------------------------------------------------
\* secp256k1_hmac_sha256
Xored(key, b) == [i \in 1 .. Len(key) |-> key[i] ^^ b] \o <<>>
RKey(key) ==
  IF Len(key) <= Block THEN key \o Bytes(0, Block - Len(key))
  ELSE Finalize(Write(Initialize, key)) \o Bytes(0, Block - DigestLen)
HmacPads(outer) == [outer |-> Write(Initialize, outer), inner |-> Write(Initialize, Xored(outer, 92 ^^ 54))]
HmacInitialize(key) == HmacPads(Xored(RKey(key), 92))
HmacWrite(h, data) == [h EXCEPT !.inner = Write(@, data)]
HmacOuter(h, temp) == IF Len(temp) = DigestLen THEN Finalize(Write(h.outer, temp)) ELSE <<>>
HmacFinalize(h) == HmacOuter(h, Finalize(h.inner))
HmacOf(key, parts) == HmacFinalize(FoldLeft(HmacWrite, HmacInitialize(key), parts))

-----------------------------------------------------------------------------
\* secp256k1_rfc6979_hmac_sha256: the state of the generator
RngKeyed(rng, k) == IF Len(k) = DigestLen THEN [rng EXCEPT !.k = k, !.v = HmacOf(k, <<@>>)] ELSE rng
RngStep(rng, parts) == RngKeyed(rng, HmacOf(rng.k, <<rng.v>> \o parts))
RngStart == [k |-> Bytes(0, DigestLen), v |-> Bytes(1, DigestLen), retry |-> FALSE, out |-> <<>>]
RngInitialize(key) == RngStep(RngStep(RngStart, << <<0>>, key >>), << <<1>>, key >>)
RECURSIVE Fill(_, _)
Filled(rng, v, now, outlen) == Fill([rng EXCEPT !.v = v, !.out = @ \o SubSeq(v, 1, now)], outlen - now)
Fill(rng, outlen) ==
  IF outlen = 0 \/ rng.retry \notin BOOLEAN THEN rng
  ELSE Filled(rng, HmacOf(rng.k, <<rng.v>>), IF outlen > DigestLen THEN DigestLen ELSE outlen, outlen)
Candidate(rng, outlen) == [Fill([rng EXCEPT !.out = <<>>], outlen) EXCEPT !.retry = TRUE]
RngGenerate(rng, outlen) == Candidate(IF rng.retry THEN RngStep(rng, << <<0>> >>) ELSE rng, outlen)

\* nonce_function_rfc6979: <<>> for what the caller leaves out.
Keydata(a) == a.key \o a.msg \o a.data \o a.algo
RECURSIVE Generated(_, _)
Generated(rng, n) == IF n = 0 \/ rng.retry \notin BOOLEAN THEN rng ELSE Generated(RngGenerate(rng, DigestLen), n - 1)
NonceFunction(a, counter) == Generated(RngInitialize(Keydata(a)), counter + 1).out

-----------------------------------------------------------------------------
Message(len) == [i \in 1 .. len |-> (7 * i + 3) % 256] \o <<>>
KeyOf(len) == [i \in 1 .. len |-> (11 * i + 200) % 256] \o <<>>

\* The definitions: FIPS 180-4 section 5.1.1, FIPS 198-1 and RFC 6979 section 3.2.
Padded(m) ==
  LET zeros == CHOOSE z \in 0 .. Block - 1 : (Len(m) + 1 + z + LenLen) % Block = 0
      \* the length as a number of bits
      bits == 8 * Len(m)
  IN m \o <<128>> \o Bytes(0, zeros) \o [i \in 1 .. LenLen |-> (bits \div 256^(LenLen - i)) % 256]
RECURSIVE HashFrom(_, _)
HashFrom(s, p) ==
  IF p = <<>> \/ Len(s) # DigestLen THEN s
  ELSE HashFrom(Compress(s, SubSeq(p, 1, Block)), SubSeq(p, Block + 1, Len(p)))
H(m) == HashFrom(IV, Padded(m))
Pad(k0, b) == [i \in 1 .. Block |-> k0[i] ^^ b]
HmacWith(k0, m) == H(Pad(k0, 92) \o H(Pad(k0, 54) \o m))
Hmac(k, m) == HmacWith((IF Len(k) > Block THEN H(k) ELSE k) \o Bytes(0, Block), m)
\* Steps b to g, then step h: T grows by V, and K and V change after each candidate.
RfcLast(k2, v1) == [k |-> k2, v |-> Hmac(k2, v1)]
RfcStepF(k, k1, v1) == RfcLast(Hmac(k1, v1 \o <<1>> \o k), v1)
RfcStepE(k, k1) == RfcStepF(k, k1, Hmac(k1, Bytes(1, DigestLen)))
RfcState(k) == RfcStepE(k, Hmac(Bytes(0, DigestLen), Bytes(1, DigestLen) \o <<0>> \o k))
RECURSIVE RfcT(_, _, _)
RfcThen(k, w, i) == w \o RfcT(k, w, i - 1)
RfcT(k, v, i) == IF i = 0 THEN <<>> ELSE RfcThen(k, Hmac(k, v), i)
Blocks(l) == (l + DigestLen - 1) \div DigestLen
RfcRetry(k, v) == RfcLast(Hmac(k, v \o <<0>>), v)
LastBlock(t) == SubSeq(t, Len(t) - DigestLen + 1, Len(t))
RfcNext(st, l) == RfcRetry(st.k, LastBlock(st.v \o RfcT(st.k, st.v, Blocks(l))))
-----------------------------------------------------------------------------
HashInit ==
  /\ hkey \in {KeyOf(l) : l \in KeyLens}
  /\ written = 0 /\ hash = Initialize /\ hmac = HmacInitialize(hkey)
  /\ gen = RngInitialize(hkey) /\ asked = <<>> /\ rfc = RfcState(hkey)
WritePiece(l) ==
  /\ asked = <<>> /\ written + l <= MaxLen
  /\ LET data == SubSeq(Message(written + l), written + 1, written + l) IN hash' = Write(hash, data) /\ hmac' = HmacWrite(hmac, data)
  /\ written' = written + l
  /\ UNCHANGED <<hkey, gen, asked, rfc>>
Ask(l) ==
  /\ written = 0 /\ Len(asked) < MaxAsked
  /\ gen' = RngGenerate(gen, l) /\ asked' = Append(asked, l)
  /\ rfc' = IF asked = <<>> THEN rfc ELSE RfcNext(rfc, Last(asked))
  /\ UNCHANGED <<hkey, written, hash, hmac>>
HashNext == (\E l \in 0 .. MaxPiece : WritePiece(l)) \/ (\E l \in AskLens : Ask(l))

-----------------------------------------------------------------------------
\* The digest of a message is that of its padded blocks, however the message
\* was cut into writes: empty ones, ones that end at a block, and ones that
\* span several; what older blocks left in the buffer does not show.
DigestIsRight == Finalize(hash) = H(Message(written))

\* So is the keyed hash, for keys shorter than a block, of a block, and longer.
HmacIsRight == HmacFinalize(hmac) = Hmac(hkey, Message(written))

\* Call after call, the generator gives the candidates of RFC 6979, also of
\* other lengths than a digest.
GeneratorIsRfc ==
  asked # <<>> => gen.out = SubSeq(RfcT(rfc.k, rfc.v, Blocks(Last(asked))), 1, Last(asked))

KeydataApart == Cardinality({Keydata(a) : a \in Args}) = Cardinality(Args)
\* The nonce for a counter is the candidate that one generator gives at that
\* count, and "it is not possible for different argument mixtures to emulate
\* each other": two calls feed the generator the same bytes only with the same
\* arguments.
NoncesAreApart ==
  /\ Len(asked) > 0 /\ (\A i \in 1 .. Len(asked) : asked[i] = DigestLen) =>
       gen.out = NonceFunction([key |-> hkey, msg |-> <<>>, data |-> <<>>, algo |-> <<>>], Len(asked) - 1)
  /\ KeydataApart

-----------------------------------------------------------------------------
\* Words
HalfWord == 2^16
XorW(x, y) == <<x[1] ^^ y[1], x[2] ^^ y[2]>>
AndW(x, y) == <<x[1] & y[1], x[2] & y[2]>>
AddW(x, y) == <<(x[1] + y[1] + ((x[2] + y[2]) \div HalfWord)) % HalfWord, (x[2] + y[2]) % HalfWord>>
AddAll(xs) == FoldLeft(AddW, <<0, 0>>, xs)
ShrW(x, n) == <<x[1] \div 2^n, (x[2] \div 2^n) + (x[1] % 2^n) * 2^(16 - n)>>
Rotr(x, n) ==
  IF n >= 16 THEN LET y == <<x[2], x[1]>> IN <<(y[1] \div 2^(n - 16)) + (y[2] % 2^(n - 16)) * 2^(32 - n), ShrW(y, n - 16)[2]>>
  ELSE <<(x[1] \div 2^n) + (x[2] % 2^n) * 2^(16 - n), ShrW(x, n)[2]>>
Ch(x, y, z) == XorW(z, AndW(x, XorW(y, z)))
OrW(x, y) == <<x[1] | y[1], x[2] | y[2]>>
Maj(x, y, z) == OrW(AndW(x, y), AndW(z, OrW(x, y)))
Sigma0(x) == XorW(XorW(Rotr(x, 2), Rotr(x, 13)), Rotr(x, 22))
Sigma1(x) == XorW(XorW(Rotr(x, 6), Rotr(x, 11)), Rotr(x, 25))
sigma0(x) == XorW(XorW(Rotr(x, 7), Rotr(x, 18)), ShrW(x, 3))
sigma1(x) == XorW(XorW(Rotr(x, 17), Rotr(x, 19)), ShrW(x, 10))

K == <<
  <<\h428a, \h2f98>>, <<\h7137, \h4491>>, <<\hb5c0, \hfbcf>>, <<\he9b5, \hdba5>>,
  <<\h3956, \hc25b>>, <<\h59f1, \h11f1>>, <<\h923f, \h82a4>>, <<\hab1c, \h5ed5>>,
  <<\hd807, \haa98>>, <<\h1283, \h5b01>>, <<\h2431, \h85be>>, <<\h550c, \h7dc3>>,
  <<\h72be, \h5d74>>, <<\h80de, \hb1fe>>, <<\h9bdc, \h06a7>>, <<\hc19b, \hf174>>,
  <<\he49b, \h69c1>>, <<\hefbe, \h4786>>, <<\h0fc1, \h9dc6>>, <<\h240c, \ha1cc>>,
  <<\h2de9, \h2c6f>>, <<\h4a74, \h84aa>>, <<\h5cb0, \ha9dc>>, <<\h76f9, \h88da>>,
  <<\h983e, \h5152>>, <<\ha831, \hc66d>>, <<\hb003, \h27c8>>, <<\hbf59, \h7fc7>>,
  <<\hc6e0, \h0bf3>>, <<\hd5a7, \h9147>>, <<\h06ca, \h6351>>, <<\h1429, \h2967>>,
  <<\h27b7, \h0a85>>, <<\h2e1b, \h2138>>, <<\h4d2c, \h6dfc>>, <<\h5338, \h0d13>>,
  <<\h650a, \h7354>>, <<\h766a, \h0abb>>, <<\h81c2, \hc92e>>, <<\h9272, \h2c85>>,
  <<\ha2bf, \he8a1>>, <<\ha81a, \h664b>>, <<\hc24b, \h8b70>>, <<\hc76c, \h51a3>>,
  <<\hd192, \he819>>, <<\hd699, \h0624>>, <<\hf40e, \h3585>>, <<\h106a, \ha070>>,
  <<\h19a4, \hc116>>, <<\h1e37, \h6c08>>, <<\h2748, \h774c>>, <<\h34b0, \hbcb5>>,
  <<\h391c, \h0cb3>>, <<\h4ed8, \haa4a>>, <<\h5b9c, \hca4f>>, <<\h682e, \h6ff3>>,
  <<\h748f, \h82ee>>, <<\h78a5, \h636f>>, <<\h84c8, \h7814>>, <<\h8cc7, \h0208>>,
  <<\h90be, \hfffa>>, <<\ha450, \h6ceb>>, <<\hbef9, \ha3f7>>, <<\hc671, \h78f2>> >>
IV256 == << <<\h6a09, \he667>>, <<\hbb67, \hae85>>, <<\h3c6e, \hf372>>, <<\ha54f, \hf53a>>,
         <<\h510e, \h527f>>, <<\h9b05, \h688c>>, <<\h1f83, \hd9ab>>, <<\h5be0, \hcd19>> >>

-----------------------------------------------------------------------------
\* The place of the variable with role r (1 for a to 8 for h) in round i.
Place(r, i) == ((r + 7 - (i % 8)) % 8) + 1
Role(r, i) == letters[Place(r, i)]
WordAt(i) == words[(i % 16) + 1]
ScheduleWord(i) == IF i < 16 THEN chunks[1][i + 1] ELSE AddAll(<<WordAt(i), sigma1(WordAt(i - 2)), WordAt(i - 7), sigma0(WordAt(i - 15))>>)

\* Two messages and their digests of run_sha256_tests (secp256k1/src/tests.c):
\* "abc", and one of 56 bytes, whose length goes into a block of its own.
TestVectors == {
  [chunks |-> << << <<\h6162, \h6380>>, <<\h0000, \h0000>>, <<\h0000, \h0000>>, <<\h0000, \h0000>>,
      <<\h0000, \h0000>>, <<\h0000, \h0000>>, <<\h0000, \h0000>>, <<\h0000, \h0000>>,
      <<\h0000, \h0000>>, <<\h0000, \h0000>>, <<\h0000, \h0000>>, <<\h0000, \h0000>>,
      <<\h0000, \h0000>>, <<\h0000, \h0000>>, <<\h0000, \h0000>>, <<\h0000, \h0018>> >> >>,
   digest |-> << <<\hba78, \h16bf>>, <<\h8f01, \hcfea>>, <<\h4141, \h40de>>, <<\h5dae, \h2223>>,
      <<\hb003, \h61a3>>, <<\h9617, \h7a9c>>, <<\hb410, \hff61>>, <<\hf200, \h15ad>> >>],
  [chunks |-> << << <<\h6162, \h6364>>, <<\h6263, \h6465>>, <<\h6364, \h6566>>, <<\h6465, \h6667>>,
      <<\h6566, \h6768>>, <<\h6667, \h6869>>, <<\h6768, \h696a>>, <<\h6869, \h6a6b>>,
      <<\h696a, \h6b6c>>, <<\h6a6b, \h6c6d>>, <<\h6b6c, \h6d6e>>, <<\h6c6d, \h6e6f>>,
      <<\h6d6e, \h6f70>>, <<\h6e6f, \h7071>>, <<\h8000, \h0000>>, <<\h0000, \h0000>> >>,
      << <<\h0000, \h0000>>, <<\h0000, \h0000>>, <<\h0000, \h0000>>, <<\h0000, \h0000>>,
      <<\h0000, \h0000>>, <<\h0000, \h0000>>, <<\h0000, \h0000>>, <<\h0000, \h0000>>,
      <<\h0000, \h0000>>, <<\h0000, \h0000>>, <<\h0000, \h0000>>, <<\h0000, \h0000>>,
      <<\h0000, \h0000>>, <<\h0000, \h0000>>, <<\h0000, \h0000>>, <<\h0000, \h01c0>> >> >>,
   digest |-> << <<\h248d, \h6a61>>, <<\hd206, \h38b8>>, <<\he5c0, \h2693>>, <<\h0c3e, \h6039>>,
      <<\ha33c, \he459>>, <<\h64ff, \h2167>>, <<\hf6ec, \hedd4>>, <<\h19db, \h06c1>> >>] }

RoundsInit ==
  /\ \E m \in TestVectors : chunks = m.chunks /\ digest = m.digest
  /\ state = IV256 /\ letters = IV256 /\ words = [i \in 1 .. 16 |-> <<0, 0>>] /\ roundNo = 0 /\ regs = IV256 /\ sched = <<>>

T1(e, f, g, h, k, x) == AddAll(<<h, Sigma1(e), Ch(e, f, g), k, x>>)
T2(a, b, c) == AddW(Sigma0(a), Maj(a, b, c))
NewD(d, t1) == AddW(d, t1)
Shifted(t1, t2) == <<AddW(t1, t2), regs[1], regs[2], regs[3], AddW(regs[4], t1), regs[5], regs[6], regs[7]>>
Book(x) == Shifted(T1(regs[5], regs[6], regs[7], regs[8], K[roundNo + 1], x), T2(regs[1], regs[2], regs[3]))
BookWord ==
  IF roundNo < 16 THEN chunks[1][roundNo + 1]
  ELSE AddAll(<<sigma1(sched[roundNo - 1]), sched[roundNo - 6], sigma0(sched[roundNo - 14]), sched[roundNo - 15]>>)
\* The words of the last two rounds are used and not kept.
RoundOn(x, t1, t2) ==
  /\ letters' = [letters EXCEPT ![Place(4, roundNo)] = NewD(@, t1), ![Place(8, roundNo)] = AddW(t1, t2)]
  /\ words' = IF roundNo < 62 THEN [words EXCEPT ![(roundNo % 16) + 1] = x] ELSE words
Round ==
  /\ chunks # <<>> /\ roundNo < 64
  /\ \E x \in {ScheduleWord(roundNo)} :
       RoundOn(x, T1(Role(5, roundNo), Role(6, roundNo), Role(7, roundNo), Role(8, roundNo), K[roundNo + 1], x),
               T2(Role(1, roundNo), Role(2, roundNo), Role(3, roundNo)))
  /\ roundNo' = roundNo + 1
  /\ regs' = Book(BookWord) /\ sched' = Append(sched, BookWord)
  /\ UNCHANGED <<chunks, digest, state>>
\* The variables are added to the state, and the next block begins.
EndBlock ==
  /\ chunks # <<>> /\ roundNo = 64
  /\ state' = [r \in 1 .. 8 |-> AddW(state[r], letters[r])] \o <<>>
  /\ letters' = state' /\ roundNo' = 0
  /\ chunks' = Tail(chunks)
  /\ regs' = state' /\ sched' = <<>>
  /\ UNCHANGED <<digest, words>>
RoundsNext == Round \/ EndBlock

-----------------------------------------------------------------------------
\* In every round the variable with each role holds what the textbook has in
\* that register, and the sixteen words are the last sixteen of its schedule.
RolesAreRegisters ==
  /\ \A r \in 1 .. 8 : Role(r, roundNo) = regs[r]
  /\ chunks # <<>> => \A i \in (IF roundNo > 16 THEN roundNo - 16 ELSE 0) .. (IF roundNo < 62 THEN roundNo ELSE 62) - 1 : WordAt(i) = sched[i + 1]

\* The digests of the messages in the tests of the library come out.
DigestIsKnown == chunks = <<>> => state = digest
=============================================================================
