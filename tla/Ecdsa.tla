-------------------------------- MODULE Ecdsa --------------------------------
(***************************************************************************)
(* Keys and signatures as numbers: what eckey_impl.h, ecdsa_impl.h, the    *)
(* recovery module and secp256k1.c compute on a small curve.  Products of  *)
(* points are taken as the module Ecmult shows them to be, in Jacobian     *)
(* coordinates of an arbitrary scale.  32 bytes are a number below 2 * N,  *)
(* as 2^256 is for the order of secp256k1.                                 *)
(*                                                                         *)
(* One caller makes a secret and a public key, changes them in the same    *)
(* way, writes, reads and adds them, under a context that may lack what a  *)
(* call needs.  Another signs with nonces that may be refused, passes the  *)
(* signature on, and checks it or recovers the key from it.                *)
(***************************************************************************)
EXTENDS SmallCurve, Sequences, FiniteSets

CONSTANTS Scale,          \* the z coordinate that a product comes with
          KeyBytes, Tweaks,  \* numbers of 32 bytes that the caller with keys passes
          Coordinates,    \* numbers in the keys that it reads from outside
          SignKeys, Messages, Nonces,  \* numbers of 32 bytes for the one that signs,
          WireS,                   \* and those in the second half of a signature received
          MaxCount                 \* nonces refused in one call

VARIABLES secret,      \* a secret key, 32 bytes
          kctx,     \* sign, verify: what is built; returns: a callback that does not abort
          public,      \* a pair of coordinates; ZeroKey is memset
          other,    \* a public key read from outside
          keySum, enc, \* what secp256k1_ec_pubkey_combine and _serialize wrote, dropped when public changes
          todo,     \* the change already made to secret and not yet to public
          kret,     \* what the two last calls returned
          status,   \* "run", "illegal" after a call with an illegal argument, "aborted"
          stage, digest,
          refused,    \* nonces that were refused
          sig,      \* r, s and the recovery id; NoSig is memset
          sret,     \* what secp256k1_ecdsa_sign_recoverable returned
          compact   \* the compact form: two numbers of 32 bytes, and the id
keyVars == <<kctx, public, other, keySum, enc, todo, kret, status>>
signVars == <<stage, digest, refused, sig, sret, compact>>

Bytes32 == 0 .. 2 * N - 1
SetB32(b) == [v |-> b % N, overflow |-> b >= N]
ScalarInverses == [a \in 1 .. N - 1 |-> CHOOSE i \in 1 .. N - 1 : (a * i) % N = 1]
ScalarInverse(a) == ScalarInverses[a]
ScalarNegate(a) == (N - a) % N
ScalarIsHigh(a) == a > N \div 2

Jacobian(p) == IF p = <<>> THEN GejInfinity ELSE GejRescale(GejSetGe(GeOf(p)), FeInt(Scale))
EcmultG(k) == Jacobian(Multiple[k])
\* na * a + ng * G
EcmultAG(a, na, ng) == Jacobian(Multiple[(na * Log(PointOf(a)) + ng) % N])

-----------------------------------------------------------------------------
\* Of s and -s the lower one; the negation belongs to the opposite point.
LowS(g) ==
  IF ~ScalarIsHigh(g.s) THEN g
  ELSE [g EXCEPT !.s = ScalarNegate(@), !.recid = IF @ % 2 = 0 THEN @ + 1 ELSE @ - 1]
\* secp256k1_ecdsa_sig_sign.  VERIFY_CHECKs on r are not in the library build.
Signed(sec, msg, nonce) ==
  LET p == GeSetGej(EcmultG(nonce))
      r == SetB32(FeNormalize(p.x).v)
      recid == (IF r.overflow THEN 2 ELSE 0) + (IF FeIsOdd(FeNormalize(p.y)) THEN 1 ELSE 0)
      s == ScalarInverse(nonce) * ((r.v * sec + msg) % N) % N
  IN LowS([ok |-> s # 0, r |-> r.v, s |-> s, recid |-> recid])

\* The x coordinate modulo n is compared without an inversion: the claimed r
\* and, where it is below p, r + n.
MatchesX(r, pr) == GejEqX(FeInt(r), pr) \/ (r < P - N /\ GejEqX(FeAdd(FeInt(r), FeInt(N)), pr))
SigVerify(r, s, q, msg) ==
  /\ r # 0 /\ s # 0
  /\ LET sn == ScalarInverse(s)
         pr == EcmultAG(q, sn * r % N, sn * msg % N)
     IN ~pr.inf /\ MatchesX(r, pr)

\* r + n is taken also where it is p or more.
MutSecondX(r) == TRUE
SecondX(r) == r < P - N
\* secp256k1_ecdsa_sig_recover: the point of the nonce from r and the id, then
\* the key; a failure is the point at infinity.
SigRecover(r, s, msg, recid) ==
  LET fx == IF recid >= 2 THEN FeAdd(FeInt(r), FeInt(N)) ELSE FeInt(r)
      rn == ScalarInverse(r)
  IN IF r = 0 \/ s = 0 \/ (recid >= 2 /\ ~SecondX(r)) \/ ~OnCurveX(fx) THEN GeInfinity
     ELSE GeSetGejVar(EcmultAG(GeSetXo(fx, recid % 2 = 1), rn * s % N, ScalarNegate(rn * msg % N)))

-----------------------------------------------------------------------------
\* eckey_impl.h.  An encoded key is its first byte, the length and the two numbers.
Encoded(tag, size, x, y) == [tag |-> tag, size |-> size, x |-> x, y |-> y]
NoKey == [ok |-> FALSE, ge |-> GeInfinity]
Uncompressed(x, y) == LET g == Ge(FeInt(x), FeInt(y)) IN [ok |-> GeIsValid(g), ge |-> g]
PubkeyParse(pub) ==
  IF pub.x >= P THEN NoKey
  ELSE IF pub.size = 33 /\ pub.tag \in {2, 3} /\ OnCurveX(FeInt(pub.x))
       THEN [ok |-> TRUE, ge |-> GeSetXo(FeInt(pub.x), pub.tag = 3)]
  ELSE IF pub.size = 65 /\ pub.tag \in {4, 6, 7} /\ pub.y < P
          /\ (pub.tag \in {6, 7} => FeIsOdd(FeInt(pub.y)) = (pub.tag = 7))
       THEN Uncompressed(pub.x, pub.y)
  ELSE NoKey
PubkeySerialize(ge, compressed) ==
  LET x == FeNormalize(ge.x).v  y == FeNormalize(ge.y).v
  IN IF compressed THEN Encoded(IF y % 2 = 1 THEN 3 ELSE 2, 33, x, 0) ELSE Encoded(4, 65, x, y)

\* The four tweaks: the key and whether there is one.
PrivkeyTweakAdd(key, t) == [ok |-> (key + t) % N # 0, v |-> (key + t) % N]
PrivkeyTweakMul(key, t) == [ok |-> t # 0, v |-> key * t % N]
PubkeyTweakAdd(ge, t) == LET pt == EcmultAG(ge, 1, t) IN [ok |-> ~pt.inf, ge |-> GeSetGejVar(pt)]
PubkeyTweakMul(ge, t) == [ok |-> t # 0, ge |-> GeSetGejVar(EcmultAG(ge, t, 0))]

-----------------------------------------------------------------------------
ZeroKey == [x |-> 0, y |-> 0]
Nothing == [op |-> "none", t |-> 0]
NoEnc == Encoded(0, 0, 0, 0)
NoSum == [x |-> P, y |-> P]

Contexts == [sign : BOOLEAN, verify : BOOLEAN, returns : BOOLEAN]
KeysInit ==
  /\ kctx \in Contexts
  /\ secret = 0 /\ public = ZeroKey /\ other = ZeroKey /\ keySum = NoSum /\ enc = NoEnc
  /\ todo = Nothing /\ kret = [sec |-> FALSE, pub |-> FALSE] /\ status = "run"

KeysIdle == status # "aborted" /\ todo = Nothing
\* ARG_CHECK: the callback, and 0 if it comes back.
Checked(cond) == status' = IF cond THEN status ELSE IF kctx.returns THEN "illegal" ELSE "aborted"
PubkeyLoads(p) == p.x # 0
PubkeyLoad(p) == GeFromStorage(p)
PubkeySave(ge) == GeToStorage(ge)

SeckeyVerify(b) == ~SetB32(b).overflow /\ SetB32(b).v # 0
\* The key is cleared before the context is checked.
PubkeyCreate(b) ==
  /\ KeysIdle
  /\ secret' = b
  /\ Checked(kctx.sign)
  /\ kret' = [sec |-> SeckeyVerify(b), pub |-> kctx.sign /\ SeckeyVerify(b)]
  /\ public' = IF kctx.sign /\ SeckeyVerify(b) THEN PubkeySave(GeSetGej(EcmultG(SetB32(b).v))) ELSE ZeroKey
  /\ enc' = NoEnc /\ keySum' = NoSum
  /\ UNCHANGED <<kctx, other, todo>>

Ops == {[op |-> "negate", t |-> 0]} \cup {[op |-> o, t |-> t] : o \in {"add", "mul"}, t \in Tweaks}
\* The tweak must not overflow; the secret key is reduced.
PrivChanged(b, c) ==
  LET k == SetB32(b).v  t == SetB32(c.t) IN
  CASE c.op = "negate" -> [ok |-> TRUE, v |-> ScalarNegate(k)]
    [] t.overflow -> [ok |-> FALSE, v |-> 0]
    [] c.op = "add" -> PrivkeyTweakAdd(k, t.v)
    [] OTHER -> PrivkeyTweakMul(k, t.v)
PubChanged(p, c) ==
  LET t == SetB32(c.t) IN
  CASE c.op = "negate" -> [ok |-> TRUE, ge |-> GeNeg(PubkeyLoad(p))]
    [] c.op = "add" -> PubkeyTweakAdd(PubkeyLoad(p), t.v)
    [] OTHER -> PubkeyTweakMul(PubkeyLoad(p), t.v)
\* secp256k1_ec_privkey_negate, _tweak_add, _tweak_mul
PrivChange(c) ==
  /\ KeysIdle
  /\ LET r == PrivChanged(secret, c) IN secret' = (IF r.ok THEN r.v ELSE 0) /\ kret' = [sec |-> r.ok, pub |-> FALSE]
  /\ todo' = c
  /\ UNCHANGED <<kctx, public, other, keySum, enc, status>>
\* secp256k1_ec_pubkey_negate, _tweak_add, _tweak_mul: no key is loaded when the tweak overflows.
PubChange ==
  /\ status # "aborted" /\ todo # Nothing
  /\ LET built == todo.op = "negate" \/ kctx.verify
         loads == built /\ ~SetB32(todo.t).overflow
         ok == loads /\ PubkeyLoads(public) /\ PubChanged(public, todo).ok
     IN /\ Checked(built /\ (loads => PubkeyLoads(public)))
        /\ kret' = [kret EXCEPT !.pub = ok]
        /\ public' = IF ok THEN PubkeySave(PubChanged(public, todo).ge) ELSE IF built THEN ZeroKey ELSE public
  /\ todo' = Nothing /\ enc' = NoEnc /\ keySum' = NoSum
  /\ UNCHANGED <<kctx, secret, other>>

WriteKey(compressed) ==
  /\ KeysIdle
  /\ Checked(PubkeyLoads(public))
  /\ enc' = IF PubkeyLoads(public) THEN PubkeySerialize(PubkeyLoad(public), compressed) ELSE NoEnc
  /\ UNCHANGED <<kctx, secret, public, other, keySum, todo, kret>>
Parsed(e) == IF PubkeyParse(e).ok THEN PubkeySave(PubkeyParse(e).ge) ELSE ZeroKey
ParseOwn ==
  /\ KeysIdle /\ enc # NoEnc
  /\ public' = Parsed(enc) /\ enc' = NoEnc
  /\ UNCHANGED <<kctx, secret, other, keySum, todo, kret, status>>
ParseOther(e) ==
  /\ KeysIdle
  /\ other' = Parsed(e) /\ keySum' = NoSum
  /\ UNCHANGED <<kctx, secret, public, enc, todo, kret, status>>

\* A key that does not load is still added when the callback comes back.
Combined(p, q) == GejAddGeConst(GejAddGeConst(GejInfinity, PubkeyLoad(p)), PubkeyLoad(q))
Combine ==
  /\ KeysIdle
  /\ Checked(PubkeyLoads(public) /\ PubkeyLoads(other))
  /\ LET r == Combined(public, other)
     IN keySum' = IF r.inf \/ status' = "aborted" THEN ZeroKey ELSE PubkeySave(GeSetGej(r))
  /\ UNCHANGED <<kctx, secret, public, other, enc, todo, kret>>

KeysNext ==
  \/ \E b \in KeyBytes : PubkeyCreate(b)
  \/ \E c \in Ops : PrivChange(c)
  \/ PubChange
  \/ \E compressed \in BOOLEAN : WriteKey(compressed)
  \/ ParseOwn
  \/ KeysIdle /\ \E tag \in {2, 3, 4, 6, 7}, x \in Coordinates :
       ParseOther(Encoded(tag, 33, x, 0)) \/ \E y \in Coordinates : ParseOther(Encoded(tag, 65, x, y))
  \/ Combine

-----------------------------------------------------------------------------
KeyOf(b) == PubkeySave(GeOf(Multiple[b % N]))
OnCurve == {KeyOf(k) : k \in 1 .. N - 1}

\* A caller that changes the secret and the public key in the same way, any
\* number of times, has a public key that is the one of its secret key, and
\* the two calls fail together: at a tweak that is zero or too large, and at
\* one that would make the key zero.
KeysAgree ==
  status = "run" /\ todo = Nothing =>
    /\ kret.sec = kret.pub
    /\ public = IF kret.sec THEN KeyOf(secret) ELSE ZeroKey

\* A public key that was written in either form and read back, or that came
\* from outside, or that is the outcome of any calls, is a point of the curve
\* other than infinity, or all zero; no other pair of numbers is accepted.
PointsAreOnCurve == status = "run" => {public, other} \subseteq OnCurve \cup {ZeroKey}

\* secp256k1_ec_pubkey_combine adds the two points, also when they are equal,
\* and gives no key when they are opposite.
CombineIsSum ==
  status = "run" /\ keySum # NoSum =>
    LET s == Plus(<<public.x, public.y>>, <<other.x, other.y>>) IN keySum = IF s = <<>> THEN ZeroKey ELSE [x |-> s[1], y |-> s[2]]

-----------------------------------------------------------------------------
NoSig == [r |-> 0, s |-> 0, recid |-> 0]

\* Neither caller runs.
KeysOff ==
  /\ kctx = <<>> /\ public = ZeroKey /\ other = ZeroKey /\ keySum = NoSum /\ enc = NoEnc
  /\ todo = Nothing /\ kret = [sec |-> FALSE, pub |-> FALSE] /\ status = "off"
SignOff == stage = "off" /\ digest = 0 /\ refused = 0 /\ sig = NoSig /\ sret = FALSE /\ compact = NoSig

SignInit ==
  /\ stage = "sign" /\ secret \in SignKeys /\ digest \in Messages
  /\ refused = 0 /\ sig = NoSig /\ sret = FALSE /\ compact = NoSig

SignReturns(ok, g) ==
  /\ stage' = "signed" /\ sret' = ok
  /\ sig' = IF ok THEN [r |-> g.r, s |-> g.s, recid |-> g.recid] ELSE NoSig
InvalidKey ==
  /\ stage = "sign" /\ ~SeckeyVerify(secret)
  /\ SignReturns(FALSE, NoSig)
  /\ UNCHANGED <<secret, digest, refused, compact>>
\* The function of the caller has no nonce.
NonceFails ==
  /\ stage = "sign" /\ SeckeyVerify(secret)
  /\ SignReturns(FALSE, NoSig)
  /\ UNCHANGED <<secret, digest, refused, compact>>
\* One turn of the loop in secp256k1_ecdsa_sign and _sign_recoverable.
TryNonce(b) ==
  /\ stage = "sign" /\ SeckeyVerify(secret)
  /\ LET g == Signed(secret, SetB32(digest).v, SetB32(b).v)
     IN IF ~SetB32(b).overflow /\ SetB32(b).v # 0 /\ g.ok THEN SignReturns(TRUE, g) /\ UNCHANGED refused
        ELSE refused < MaxCount /\ refused' = refused + 1 /\ UNCHANGED <<stage, sig, sret>>
  /\ UNCHANGED <<secret, digest, compact>>

\* secp256k1_ecdsa_recoverable_signature_serialize_compact
WriteSig ==
  /\ stage = "signed"
  /\ stage' = "sent" /\ compact' = sig
  /\ UNCHANGED <<secret, digest, refused, sig, sret>>
\* A signature from elsewhere: any two numbers of 32 bytes.
ReceiveSig(r, s, recid) ==
  /\ stage = "sign" /\ refused = 0 /\ SeckeyVerify(secret)
  /\ stage' = "sent" /\ compact' = [r |-> r, s |-> s, recid |-> recid]
  /\ UNCHANGED <<secret, digest, refused, sig, sret>>
\* ..._signature_parse_compact: both numbers below the order.
ParseCompact ==
  /\ stage = "sent"
  /\ stage' = "parsed"
  /\ sig' = IF SetB32(compact.r).overflow \/ SetB32(compact.s).overflow THEN NoSig ELSE compact
  /\ UNCHANGED <<secret, digest, refused, sret, compact>>
\* secp256k1_ecdsa_signature_normalize after _recoverable_signature_convert
Normalized(g) == [g EXCEPT !.s = IF ScalarIsHigh(@) THEN ScalarNegate(@) ELSE @]

SignNext ==
  \/ InvalidKey \/ NonceFails \/ WriteSig \/ ParseCompact
  \/ \E b \in Nonces : TryNonce(b)
  \/ stage = "sign" /\ \E r \in Bytes32, s \in WireS, recid \in 0 .. 3 : ReceiveSig(r, s, recid)

\* secp256k1_ecdsa_verify accepts only the lower of the two values of s.
Verifies(g, q, m) == ~ScalarIsHigh(g.s) /\ SigVerify(g.r, g.s, q, SetB32(m).v)
\* secp256k1_ecdsa_recover
Recovered(g, m) == SigRecover(g.r, g.s, SetB32(m).v, g.recid)

-----------------------------------------------------------------------------
Signer == Multiple[secret % N]

\* Every signature that is returned is accepted under the public key of the
\* signer, also after it was written and read, whatever nonces were refused
\* before, and also where the x coordinate of the nonce's point is the order
\* or more.
SignedIsAccepted == sret => Verifies(sig, GeOf(Signer), digest)

\* The key recovered from a signature that was returned is the signer's: the
\* id names the right one of up to four points.
SignerIsRecovered == sret => PointOf(Recovered(sig, digest)) = Signer

\* The comparison in Jacobian coordinates, without an inversion and in two
\* cases, accepts exactly the signatures that the textbook accepts.
VerifyIsEcdsa ==
  stage = "parsed" =>
    LET g == Normalized(sig)
        w == ScalarInverse(g.s)
        R == Plus(Multiple[w * SetB32(digest).v % N], Multiple[w * g.r * secret % N])
    IN Verifies(g, GeOf(Signer), digest) = (g.r # 0 /\ g.s # 0 /\ R # <<>> /\ R[1] % N = g.r)

\* A key recovered from any signature at all makes that signature valid.
RecoveredIsAccepted ==
  stage = "parsed" /\ ~Recovered(sig, digest).inf => Verifies(Normalized(sig), Recovered(sig, digest), digest)
-----------------------------------------------------------------------------
(***************************************************************************)
(* Keys and votes of hotstuff/crypto.h over the library: hotstuff-keygen   *)
(* prints the keys, replicas load them from their configuration, sign      *)
(* votes and complaints and check those of others in the verification      *)
(* pool.  A peer may send a message that it received on with other fields. *)
(* A hash is a number of 32 bytes, so that the length of what is signed    *)
(* (check_msg_length) is always right.                                     *)
(***************************************************************************)
CONSTANTS
    NKeys,      \* replicas of the cluster, and lines that hotstuff-keygen prints
    Random,     \* what RAND_bytes may return
    Hashes,     \* hashes of blocks
    Heights,    \* heights that a complaint may name
    VoteNonces,     \* what the nonce function may return
    IdShift,    \* how far the id a replica takes is from its place in the list: 0, but see ClusterSetup
    MaxSent     \* messages on the wire

VARIABLES
    printed,    \* the lines of hotstuff-keygen
    node,       \* of each replica: whether it runs, its private key, the public keys in its ReplicaConfig
    wire,       \* messages sent; one may arrive at any replica, any number of times
    tasks,      \* Secp256k1VeriTasks in the pool
    verdicts,   \* messages with the value that verify(vpool) resolved to
    halted      \* "no", or why a process ended
certVars == <<printed, node, wire, tasks, verdicts, halted>>

Places == 0 .. NKeys - 1

CertInit ==
    /\ printed = <<>>
    /\ node = [i \in Places |-> [up |-> FALSE, sec |-> 0, keys |-> <<>>]]
    /\ wire = {} /\ tasks = {} /\ verdicts = {} /\ halted = "no"

\* The context has the tables for signing or those for verifying.
Secp256k1Context(sign) == IF sign THEN {"sign"} ELSE {"verify"}
default_sign_ctx == Secp256k1Context(TRUE)
default_verify_ctx == Secp256k1Context(FALSE)

-----------------------------------------------------------------------------
\* secp256k1_ec_pubkey_create refuses zero and what is not below the order.
GetPubkey(sec) ==
    LET k == SetB32(sec) IN
    IF k.overflow \/ k.v = 0 THEN NoKey ELSE [ok |-> TRUE, ge |-> GeSetGej(EcmultG(k.v))]

\* PubKeySecp256k1: 33 bytes each way.
Serialized(ge) == PubkeySerialize(ge, TRUE)
Unserialized(pub) == PubkeyParse(pub)

\* One turn of the loop in hotstuff-keygen.  An invalid key ends the program;
\* the lines it printed remain, and it is run again for the others.
Keygen(sec) ==
    /\ Len(printed) < NKeys
    /\ printed' = IF GetPubkey(sec).ok
                  THEN Append(printed, [pub |-> Serialized(GetPubkey(sec).ge), sec |-> sec])
                  ELSE printed
    /\ UNCHANGED <<node, wire, tasks, verdicts, halted>>

\* The public keys that HotStuff::start_mc reads; add_replica stores each under its place.
ReplicaKeys(lines) == [i \in Places |-> Unserialized(lines[i + 1].pub)]

\* The constructor and start_mc.  The private key is copied as it stands; an
\* ill-formed public key ends the replica.
StartReplica(i) ==
    /\ Len(printed) = NKeys /\ ~node[i].up /\ halted = "no"
    /\ LET keys == ReplicaKeys(printed) IN
       IF \A j \in Places : keys[j].ok
       THEN node' = [node EXCEPT ![i] = [up |-> TRUE, sec |-> printed[i + 1].sec, keys |-> [j \in Places |-> keys[j].ge]]]
            /\ UNCHANGED halted
       ELSE halted' = "ill-formed key" /\ UNCHANGED node
    /\ UNCHANGED <<printed, wire, tasks, verdicts>>

-----------------------------------------------------------------------------
Send(m) == Cardinality(wire) < MaxSent /\ wire' = wire \union {m}
Running(i) == node[i].up /\ halted = "no"

\* create_part_cert: the signature by the nonce the library settles on, or "threw".
CanSign(sec) == "sign" \in default_sign_ctx /\ ~SetB32(sec).overflow /\ SetB32(sec).v # 0
Settles(sec, hash, nonce) == SetB32(nonce).v # 0 /\ ~SetB32(nonce).overflow /\ Signed(sec, SetB32(hash).v, nonce).ok
PartCert(sec, hash, nonce) ==
    LET g == Signed(sec, SetB32(hash).v, nonce) IN [obj |-> hash, r |-> g.r, s |-> g.s]

Vote(voter, blk, cert) ==
    [kind |-> "vote", made |-> TRUE, voter |-> voter, height |-> 0, blk |-> blk, obj |-> cert.obj, r |-> cert.r, s |-> cert.s]
\* The certificate covers the hash, not the height.
LComplain(voter, height, blk, cert) ==
    [kind |-> "complain", made |-> TRUE, voter |-> voter, height |-> height, blk |-> blk,
     obj |-> cert.obj, r |-> cert.r, s |-> cert.s]

SendVote(i, blk, nonce) ==
    /\ Running(i)
    /\ IF CanSign(node[i].sec)
       THEN /\ Settles(node[i].sec, blk, nonce)
            /\ Send(Vote(i + IdShift, blk, PartCert(node[i].sec, blk, nonce)))
            /\ UNCHANGED halted
       ELSE halted' = "threw" /\ UNCHANGED wire
    /\ UNCHANGED <<printed, node, tasks, verdicts>>
SendLComplain(i, height, blk, nonce) ==
    /\ Running(i)
    /\ IF CanSign(node[i].sec)
       THEN /\ Settles(node[i].sec, blk, nonce)
            /\ Send(LComplain(i + IdShift, height, blk, PartCert(node[i].sec, blk, nonce)))
            /\ UNCHANGED halted
       ELSE halted' = "threw" /\ UNCHANGED wire
    /\ UNCHANGED <<printed, node, tasks, verdicts>>

\* A faulty peer changes a field of a message, or puts the other value of s; no
\* replica has the id Nobody.
Nobody == Cardinality(Places)
Changed(m) ==
    {[m EXCEPT !.made = FALSE, !.voter = v] : v \in Places \union {Nobody}}
    \union {[m EXCEPT !.made = FALSE, !.blk = h] : h \in Hashes}
    \union {[m EXCEPT !.made = FALSE, !.obj = h] : h \in Hashes}
    \union {[m EXCEPT !.made = FALSE, !.s = s] : s \in {ScalarNegate(m.s), m.s + N}}
Relay(m) ==
    /\ halted = "no"
    /\ \E c \in Changed(m) : Send(c)
    /\ UNCHANGED <<printed, node, tasks, verdicts, halted>>

-----------------------------------------------------------------------------
\* get_info: the iterator is followed also when it is the end of the map.
Known(i, rid) == rid \in DOMAIN node[i].keys

\* secp256k1_ecdsa_signature_parse_compact
WellFormed(m) == ~SetB32(m.r).overflow /\ ~SetB32(m.s).overflow
\* vote_handler and LComplain_handler up to the task.  What cannot be parsed
\* throws, and reg_handler ends the connection.
ReceiveMsg(i, m) ==
    /\ Running(i)
    /\ WellFormed(m)
    /\ IF Known(i, m.voter)
       THEN /\ tasks' = tasks \union {[msg |-> m, pubkey |-> node[i].keys[m.voter]]}
            /\ UNCHANGED halted
       ELSE halted' = "crashed" /\ UNCHANGED tasks
    /\ UNCHANGED <<printed, node, wire, verdicts>>

VeriTaskCtx == default_verify_ctx
\* secp256k1_ecdsa_verify
SigVerifies(m, pubkey) == ~ScalarIsHigh(m.s) /\ SigVerify(m.r, m.s, pubkey, SetB32(m.obj).v)
\* Vote::verify(vpool) and LComplain::verify(vpool), after the task.
Verified(m, result) == result /\ m.obj = m.blk
\* A thread of the pool; a context without the tables is an illegal argument.
Verify(t) ==
    /\ halted = "no"
    /\ IF "verify" \in VeriTaskCtx
       THEN /\ verdicts' = verdicts \union {[msg |-> t.msg, ok |-> Verified(t.msg, SigVerifies(t.msg, t.pubkey))]}
            /\ tasks' = tasks \ {t}
            /\ UNCHANGED halted
       ELSE halted' = "aborted" /\ UNCHANGED <<tasks, verdicts>>
    /\ UNCHANGED <<printed, node, wire>>

CertNext ==
    \/ \E b \in Random : Keygen(b)
    \/ \E i \in Places : StartReplica(i)
    \/ \E i \in Places, h \in Hashes, k \in VoteNonces : SendVote(i, h, k)
    \/ \E i \in Places, x \in Heights, h \in Hashes, k \in VoteNonces : SendLComplain(i, x, h, k)
    \/ \E m \in wire : Relay(m)
    \/ \E i \in Places, m \in wire : ReceiveMsg(i, m)
    \/ \E t \in tasks : Verify(t)

-----------------------------------------------------------------------------
\* Every vote and complaint that a replica made is accepted wherever it
\* arrives: the key that get_pubkey derived, printed, parsed at the receiver
\* and filed under the sender's place fits the private key that was loaded
\* without any check.
GenuineIsAccepted == \A v \in verdicts : v.msg.made => v.ok

\* What is accepted carries a signature, valid by the textbook, of the block
\* that the message names, under the key that was printed for the replica it
\* names; changing the voter, the block, the signed hash or s does not help.
AcceptedIsSigned ==
    \A v \in verdicts : v.ok =>
        LET m == v.msg
            w == ScalarInverse(m.s)
            R == Plus(Multiple[w * m.blk % N], Multiple[w * m.r * printed[m.voter + 1].sec % N])
        IN m.s \in 1 .. N \div 2 /\ R # <<>> /\ R[1] % N = m.r

\* No key that hotstuff-keygen printed makes a replica throw or abort, when
\* it starts, signs or verifies: each call of the library has the context and
\* the arguments it asks for.  A replica stops only at a message that names an
\* id nobody has, where get_info follows the end of the map (entity.h:75-83).
NoCallFails ==
    halted = "no" \/ (halted = "crashed" /\ \E m \in wire : ~m.made /\ m.voter = Nobody)
=============================================================================
