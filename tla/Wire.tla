-------------------------------- MODULE Wire --------------------------------
(***************************************************************************)
(* The messages of HotStuff as bytes.                                       *)
(*                                                                          *)
(* salticidae's DataStream (a byte buffer with a read offset), the integers *)
(* of fixed width, the 256-bit Blob and the bit vector _Bits that every     *)
(* message is made of.  A byte has the values 0 .. Radix - 1, and the       *)
(* widths of the integer types are constants, so that a message is a short  *)
(* sequence.  A stream is [buffer, offset, thrown, out]: thrown stands for  *)
(* the std::ios_base::failure (or std::invalid_argument) that leaves the    *)
(* reader, and out holds the values of the last chain of >> operators.      *)
(* After a throw the reader yields zeros that nobody looks at.              *)
(*                                                                          *)
(* What serialize writes, and what unserialize makes of it at the receiver, *)
(* for certificates, blocks, proposals, votes, complaints,                  *)
(* reconfigurations, block requests and answers, client commands and their  *)
(* results.  serialize and unserialize are separate code for every type,    *)
(* and so they are here.                                                    *)
(*                                                                          *)
(* Messages on their way: a replica or a client serializes one, the bytes   *)
(* arrive whole or cut short, and the receiver parses them, stores the      *)
(* blocks they carry and, for a proposal, decides what to do with it.       *)
(*                                                                          *)
(* A quorum certificate from its creation to the replica that verifies it:  *)
(* the proposer collects the votes for its block into a certificate with a  *)
(* bit for every replica, the certificate travels in the next block, and    *)
(* the receiver verifies what it reads.  Replicas may leave the cluster     *)
(* meanwhile and come back (update_config_parameters); identifiers are      *)
(* never reassigned.                                                        *)
(***************************************************************************)
EXTENDS Integers, SequencesExt, TLC

CONSTANTS
    Radix,               \* number of values of a byte
    U8, U16, U32, U64,   \* sizeof of the integer types
    HashWords,           \* words of 8 * U64 bits in a uint256_t
    SigLen,               \* bytes of a compact signature
    NoBlock,      \* the msg_type whose block is not stored (9 in the code)
    PayloadLen,    \* HOTSTUFF_CMD_REQSIZE
    Bits4,          \* replicas of a cluster whose bit vector fills one word
    Bits5,          \* replicas of a cluster whose bit vector needs two
    MsgTypes,       \* msg_type of the messages between clusters
    Indeterminate,   \* what the fields that Proposal(id, blk, hsc) leaves unset hold
    NReplicas,   \* replicas at the start, 0 .. NReplicas - 1
    Leavers      \* those that may leave and come back

-----------------------------------------------------------------------------
\* Little-endian integers.  A negative int is written in two's complement.

Encode(v, n) == [i \in 1 .. n |-> ((v % Radix^n) \div Radix^(i - 1)) % Radix] \o <<>>

RECURSIVE Decode(_)
Decode(bytes) == IF bytes = <<>> THEN 0 ELSE Head(bytes) + Radix * Decode(Tail(bytes))

Signed(v, n) == IF 2 * v >= Radix^n THEN v - Radix^n ELSE v

\* Blob<256>: HashWords words, least significant byte first; a Blob that was
\* never loaded is written as zeros.
NullHash == [i \in 1 .. HashWords |-> 0] \o <<>>
HashBytes(h) == FlattenSeq([i \in 1 .. HashWords |-> Encode(h[i], U64)])
Load(bytes) == [i \in 1 .. HashWords |-> Decode(SubSeq(bytes, (i - 1) * U64 + 1, i * U64))] \o <<>>

-----------------------------------------------------------------------------
\* DataStream: reading.

Stream(bytes) == [buffer |-> bytes, offset |-> 0, thrown |-> FALSE, out |-> <<>>, kept |-> <<>>]

\* The next n bytes.
Peek(s, n) == SubSeq(s.buffer, s.offset + 1, s.offset + n)
Enough(s, n) == ~s.thrown /\ s.offset + n <= Len(s.buffer)

Sizeof(t) ==
    CASE t = "u8" -> U8
      [] t = "u16" -> U16
      [] t \in {"u32", "int"} -> U32
      [] t = "u64" -> U64
      [] t = "hash" -> HashWords * U64
      [] t = "sig" -> SigLen

Zero(t) == IF t = "hash" THEN NullHash ELSE 0

\* parse_compact refuses r or s above the group order: the highest value.
Refused(t, v) == t = "sig" /\ v = Radix^SigLen - 1

\* operator>> for an integer, a Blob or a signature.
ValueAt(s, t) ==
    CASE t = "hash" -> Load(Peek(s, Sizeof(t)))
      [] t = "int" -> Signed(Decode(Peek(s, U32)), U32)
      [] OTHER -> Decode(Peek(s, Sizeof(t)))
Put(s, t, v, thrown) ==
    [s EXCEPT !.offset = IF thrown THEN @ ELSE @ + Sizeof(t),
              !.thrown = thrown,
              !.out = Append(@, IF thrown THEN Zero(t) ELSE v)]
Checked(s, t, v) == Put(s, t, v, IF Enough(s, Sizeof(t)) THEN Refused(t, v) ELSE TRUE)
Get(s, t) == Checked(s, t, ValueAt(s, t))

\* s >> a >> b >> ...
RECURSIVE GetAll(_, _)
GetAll(s, types) ==
    IF types # <<>> /\ s.thrown \in BOOLEAN THEN GetAll(Get(s, Head(types)), Tail(types)) ELSE s
Read(s, types) == GetAll([s EXCEPT !.out = <<>>], types)
ReadMany(s, t, n) == Read(s, [i \in 1 .. n |-> t] \o <<>>)
\* A count, and as many values.
ManyAfter(n, t) == ReadMany(n, t, n.out[1])
ReadCounted(s, t) == ManyAfter(Read(s, <<"u32">>), t)
\* What was read is kept for the object that is being read.
Kept(s) == [s EXCEPT !.kept = Append(@, s.out)]

\* get_data_inplace: the offset moves before the size is looked at.
Inplace(s, n) ==
    [s EXCEPT !.offset = @ + n,
              !.thrown = ~Enough(s, n),
              !.out = IF Enough(s, n) THEN Peek(s, n) ELSE <<>>]

\* size(): what is left to read.
Size(s) == Len(s.buffer) - s.offset

-----------------------------------------------------------------------------
\* SHA256 of the bytes (external), folded to the width of a Blob.

RECURSIVE Digest(_, _)
Digest(bytes, acc) ==
    IF bytes = <<>> \/ acc \notin Nat THEN acc
    ELSE Digest(Tail(bytes), (acc * 5 + 3 * Head(bytes) + 1) % Radix^(HashWords * U64))
GetHash(bytes) == Load(Encode(Digest(bytes, Len(bytes)), HashWords * U64))

-----------------------------------------------------------------------------
\* _Bits: a bit vector in words of WordBits bits.

RECURSIVE Log2(_)
Log2(n) == IF n <= 1 THEN 0 ELSE 1 + Log2(n \div 2)
WordBits == U64 * Log2(Radix)

Words(nbits) == (nbits + WordBits - 1) \div WordBits

\* _Bits(nbits) followed by clear().
Cleared(nbits) == [nbits |-> nbits, data |-> [i \in 1 .. Words(nbits) |-> 0] \o <<>>]

BitOf(w, pos) == (w \div 2^pos) % 2
BitGet(b, idx) == BitOf(b.data[idx \div WordBits + 1], idx % WordBits)

\* set: data ^= (bit ^ 1) << pos.
BitSet(b, idx) ==
    [b EXCEPT !.data[idx \div WordBits + 1] =
        @ + (1 - BitOf(@, idx % WordBits)) * 2^(idx % WordBits)]

BitsBytes(b) == Encode(b.nbits, U32) \o FlattenSeq([i \in 1 .. Len(b.data) |-> Encode(b.data[i], U64)])

\* unserialize: the number of bits, then as many words as they need.
BitsOf(nbits, r) == [s |-> r, v |-> IF r.thrown THEN Cleared(0) ELSE [nbits |-> nbits, data |-> r.out]]
BitsAfter(n) == BitsOf(n.out[1], ReadMany(n, "u64", Words(n.out[1])))
ReadBits(s) == BitsAfter(Read(s, <<"u32">>))

Each(n, Bytes(_)) == FlattenSeq([i \in 1 .. n |-> Bytes(i)])
InOrder(S) == SetToSortSeq(S, <)

-----------------------------------------------------------------------------
\* Certificates.

PartBytes(pc) == HashBytes(pc.obj_hash) \o Encode(pc.sig, SigLen)
PartOf(r) == [s |-> r, v |-> [obj_hash |-> r.out[1], sig |-> r.out[2]]]
ReadPart(s) == PartOf(Read(s, <<"hash", "sig">>))

\* QuorumCertSecp256k1(config, obj_hash).
NewQc(nreplicas, h) == [obj_hash |-> h, rids |-> Cleared(nreplicas), sigs |-> <<>>]

\* add_part: the first signature of a replica is kept.
AddPart(qc, rid, pc) ==
    [qc EXCEPT !.sigs = @ @@ (rid :> pc.sig), !.rids = BitSet(@, rid)]

Members(rids) == {i \in 0 .. rids.nbits - 1 : BitGet(rids, i) = 1}

QcBytes(qc) ==
    LET rs == InOrder(Members(qc.rids))
    IN  HashBytes(qc.obj_hash) \o BitsBytes(qc.rids)
            \o Each(Len(rs), LAMBDA k : Encode(qc.sigs[rs[k]], SigLen))
QcOf(h, rids, rs, r) ==
    [s |-> r,
     v |-> [obj_hash |-> h, rids |-> rids,
            sigs |-> [i \in ToSet(rs) |-> r.out[CHOOSE k \in 1 .. Len(rs) : rs[k] = i]]]]
QcSigs(h, b, rs) == QcOf(h, b.v, rs, ReadMany(b.s, "sig", Len(rs)))
QcBits(h, b) == QcSigs(h, b, InOrder(Members(b.v)))
QcAfter(h) == QcBits(h.out[1], ReadBits(h))
ReadQc(s) == QcAfter(Read(s, <<"hash">>))

\* The certificates without signatures; the genesis block is hashed with one.
DummyPartBytes(h) == Encode(0, U32) \o HashBytes(h)
DummyQcBytes(h) == Encode(1, U32) \o HashBytes(h)
DummyOf(r) == [s |-> r, v |-> r.out[2]]
ReadDummy(s) == DummyOf(Read(s, <<"u32", "hash">>))

-----------------------------------------------------------------------------
\* Blocks.  The hash covers all that serialize writes.

BlockBytesWith(b, qcBytes) ==
    Encode(Len(b.parent_hashes), U32) \o Each(Len(b.parent_hashes), LAMBDA i : HashBytes(b.parent_hashes[i]))
    \o Encode(Len(b.cmds), U32) \o Each(Len(b.cmds), LAMBDA i : HashBytes(b.cmds[i]))
    \o Each(Len(b.keys), LAMBDA i : Encode(b.keys[i], U32))
    \o Each(Len(b.vals), LAMBDA i : Encode(b.vals[i], U32))
    \o qcBytes \o Encode(Len(b.extra), U32) \o b.extra
BlockBytes(b) == BlockBytesWith(b, QcBytes(b.qc))

Hashed(b) == [b EXCEPT !.hash = GetHash(BlockBytes(b))]
\* Block(parents, cmds, keys, vals, qc, extra, ...).
NewBlock(parent_hashes, cmds, keys, vals, qc, extra) ==
    Hashed([parent_hashes |-> parent_hashes, cmds |-> cmds, keys |-> keys,
            vals |-> vals, qc |-> qc, extra |-> extra, hash |-> NullHash])

\* Block(true, 1), and on_init, which gives it a certificate of its own.
GenesisHash ==
    GetHash(BlockBytesWith([parent_hashes |-> <<>>, cmds |-> <<>>, keys |-> <<>>,
                            vals |-> <<>>, extra |-> <<>>], DummyQcBytes(NullHash)))
GenesisQc(nreplicas) == NewQc(nreplicas, GenesisHash)

\* Block::unserialize: one count for the commands, the keys and the values.
ReadHashes(s) == Kept(ReadCounted(s, "hash"))
ReadInts(s) == Kept(ReadMany(s, "int", Len(s.kept[2])))
QcKept(qc) == [qc.s EXCEPT !.kept = Append(@, qc.v)]
ExtraAfter(n) == IF n.out[1] = 0 THEN [n EXCEPT !.out = <<>>] ELSE Inplace(n, n.out[1])
ReadFields(s) ==
    Kept(ExtraAfter(Read(QcKept(ReadQc(ReadInts(ReadInts(ReadHashes(ReadHashes([s EXCEPT !.kept = <<>>])))))), <<"u32">>)))
MutBlockOf(s) ==
    [s |-> s,
     v |-> [NewBlock(s.kept[1], s.kept[2], s.kept[3], s.kept[4], s.kept[5], s.kept[6]) EXCEPT
               !.hash = NewBlock(s.kept[1], s.kept[2], <<>>, <<>>, s.kept[5], s.kept[6]).hash]]
BlockOf(s) == [s |-> s, v |-> NewBlock(s.kept[1], s.kept[2], s.kept[3], s.kept[4], s.kept[5], s.kept[6])]
MutReadBlock(s) == MutBlockOf(ReadFields(s))   \* the hash is taken before the keys and the values are read
ReadBlock(s) == BlockOf(ReadFields(s))

\* EntityStorage::add_blk: a block whose hash is known is not replaced.
AddBlk(store, b) == IF \E x \in store : x.hash = b.hash THEN store ELSE store \union {b}
FindBlk(store, h) == CHOOSE x \in store : x.hash = h

-----------------------------------------------------------------------------
\* Proposals.  A message of type NoBlock carries a block that is not kept.

ProposalBytes(p) ==
    LET ps == InOrder(p.current_peer_set)
    IN  Encode(p.cluster_number, U32) \o Encode(p.pre_amp_cluster_number, U32)
        \o Encode(p.other_cluster_block_height, U32) \o Encode(p.msg_type, U32)
        \o Encode(p.proposer, U16) \o BlockBytes(p.blk)
        \o Encode(Len(ps), U64) \o Each(Len(ps), LAMBDA i : Encode(ps[i], U32))
        \o Encode(p.reconfig_count, U32)

ProposalOf(head, keep, hash, store, s) ==
    [s |-> s,
     v |-> [cluster_number |-> head[1], pre_amp_cluster_number |-> head[2],
            other_cluster_block_height |-> head[3], msg_type |-> head[4], proposer |-> head[5],
            blk |-> IF keep THEN FindBlk(store, hash) ELSE <<>>,
            current_peer_set |-> ToSet(s.kept[1]), reconfig_count |-> s.out[1]],
     store |-> store]
PeersAfter(n) == Read(Kept(ReadMany(n, "int", n.out[1])), <<"u32">>)
ProposalRest(head, b, keep, store) ==
    ProposalOf(head, keep, b.v.hash, IF keep THEN AddBlk(store, b.v) ELSE store, PeersAfter(Read([b.s EXCEPT !.kept = <<>>], <<"u64">>)))
ProposalBlock(head, b, store) == ProposalRest(head, b, ~b.s.thrown /\ head[4] # NoBlock, store)
ProposalAfter(r, store) == ProposalBlock(r.out, ReadBlock(r), store)
ReadProposal(s, store) == ProposalAfter(Read(s, <<"u32", "u32", "u32", "u32", "u16">>), store)

-----------------------------------------------------------------------------
\* Votes, complaints, reconfigurations.

VoteBytes(v) == Encode(v.voter, U16) \o HashBytes(v.blk_hash) \o PartBytes(v.cert)
VoteOf(r, c) == [s |-> c.s, v |-> [voter |-> r[1], blk_hash |-> r[2], cert |-> c.v]]
VoteAfter(r) == VoteOf(r.out, ReadPart(r))
ReadVote(s) == VoteAfter(Read(s, <<"u16", "hash">>))

ComplainBytes(v) ==
    Encode(v.voter, U16) \o Encode(v.blk_height, U32) \o HashBytes(v.blk_hash) \o PartBytes(v.cert)
ComplainOf(r, c) == [s |-> c.s, v |-> [voter |-> r[1], blk_height |-> r[2], blk_hash |-> r[3], cert |-> c.v]]
ComplainAfter(r) == ComplainOf(r.out, ReadPart(r))
ReadComplain(s) == ComplainAfter(Read(s, <<"u16", "int", "hash">>))

RecsBytes(r) ==
    Encode(r.cluster_number, U32) \o Encode(r.node_number, U32) \o Encode(r.reconfig_mode, U32)
RecsAggBytes(r) == RecsBytes(r.recs) \o Encode(r.type, U32) \o Encode(r.reconfig_count, U32)
RecsOf(r) == [s |-> r, v |-> [cluster_number |-> r.out[1], node_number |-> r.out[2], reconfig_mode |-> r.out[3]]]
ReadRecs(s) == RecsOf(Read(s, <<"int", "int", "int">>))
RecsAggOf(recs, r) == [s |-> r, v |-> [recs |-> recs, type |-> r.out[1], reconfig_count |-> r.out[2]]]
RecsAggAfter(c) == RecsAggOf(c.v, Read(c.s, <<"int", "int">>))
ReadRecsAgg(s) == RecsAggAfter(ReadRecs(s))

-----------------------------------------------------------------------------
\* Block requests and answers.

ReqBlockBytes(hs) == Encode(Len(hs), U32) \o Each(Len(hs), LAMBDA i : HashBytes(hs[i]))
AllRead(r) == [s |-> r, v |-> r.out]
ReadReqBlock(s) == AllRead(ReadCounted(s, "hash"))

RespBlockBytes(bs) == Encode(Len(bs), U32) \o Each(Len(bs), LAMBDA i : BlockBytes(bs[i]))

\* Every block is stored as soon as it is read.
RECURSIVE ReadBlocks(_, _, _, _)
BlockStored(s, n, store, acc, b) == ReadBlocks(s, n - 1, store, IF s.thrown THEN acc ELSE Append(acc, FindBlk(store, b.hash)))
BlockRead(b, n, store, acc) == BlockStored(b.s, n, IF b.s.thrown THEN store ELSE AddBlk(store, b.v), acc, b.v)
ReadBlocks(s, n, store, acc) ==
    IF n = 0 \/ s.thrown THEN [s |-> s, v |-> acc, store |-> store] ELSE BlockRead(ReadBlock(s), n, store, acc)
BlocksAfter(n, store) == ReadBlocks(n, n.out[1], store, <<>>)
ReadRespBlock(s, store) == BlocksAfter(Read(s, <<"u32">>), store)

-----------------------------------------------------------------------------
\* Client commands and what becomes of them.

CommandBytes(c) ==
    Each(7, LAMBDA i : Encode(c.fields[i], U32)) \o c.payload
NewCommand(fields, payload) ==
    LET c == [fields |-> fields, payload |-> payload]
    IN  [fields |-> fields, payload |-> payload, hash |-> GetHash(CommandBytes(c))]
CommandOf(fields, p) == [s |-> p, v |-> NewCommand(fields, p.out)]
CommandAfter(r) == CommandOf(r.out, Inplace(r, PayloadLen))
ReadCommand(s) == CommandAfter(ReadMany(s, "u32", 7))

FinalityBytes(f) ==
    Encode(f.rid, U16) \o Encode(f.decision, U8) \o Encode(f.cmd_idx, U32)
    \o Encode(f.cmd_height, U32) \o HashBytes(f.cmd_hash)
    \o (IF f.decision = 1 THEN HashBytes(f.blk_hash) ELSE <<>>)
FinalityOf(r, b) ==
    [s |-> b,
     v |-> [rid |-> r[1], decision |-> r[2], cmd_idx |-> r[3], cmd_height |-> r[4], cmd_hash |-> r[5], blk_hash |-> b.out[1]]]
FinalityAfter(r) == FinalityOf(r.out, IF r.out[2] = 1 THEN Read(r, <<"hash">>) ELSE [r EXCEPT !.out = <<NullHash>>])
ReadFinality(s) == FinalityAfter(Read(s, <<"u16", "u8", "u32", "u32", "hash">>))

-----------------------------------------------------------------------------
VARIABLES
    kind,    \* type of the message under way, "none" at first
    sent,    \* the message as the sender has it
    wire,    \* its bytes, as they arrive
    whole,   \* whether they arrive whole
    got,     \* what the receiver's parser returned
    blk_cache,   \* the receiver's blk_cache
    fate     \* what propose_handler does with a proposal

wireVars == <<kind, sent, wire, whole, got, blk_cache, fate>>

-----------------------------------------------------------------------------
\* The messages: small, with every count from none to two, both signs of an
\* int, and bit vectors of one word and of two.

H(n) == Load(Encode(n, HashWords * U64))
Part(n) == [obj_hash |-> H(n), sig |-> n % (Radix^SigLen - 1)]
Qcs ==
    {NewQc(Bits4, GenesisHash),
     AddPart(AddPart(NewQc(Bits4, H(9)), 3, Part(9)), 1, Part(1)),
     AddPart(AddPart(NewQc(Bits5, H(6)), 4, Part(2)), 0, Part(6))}
Commands == {<<<<>>, <<>>, <<>>>>, <<<<H(5)>>, <<-1>>, <<3>>>>, <<<<H(5), H(200)>>, <<1, -4>>, <<0, 2>>>>}
Blocks ==
    {NewBlock(ps, c[1], c[2], c[3], qc, ex) :
        ps \in {<<GenesisHash>>, <<H(7), H(100)>>}, c \in Commands, qc \in Qcs, ex \in {<<>>, <<1, 0>>}}
AnyBlock == CHOOSE b \in Blocks : Len(b.cmds) = 2 /\ b.qc.sigs # <<>>

Proposal(blk, type, c, peers, count) ==
    [proposer |-> 1, blk |-> blk, cluster_number |-> c, pre_amp_cluster_number |-> c,
     other_cluster_block_height |-> 2, msg_type |-> type,
     current_peer_set |-> peers, reconfig_count |-> count]
MCs == {Proposal(AnyBlock, t, 1, ps, n) : t \in MsgTypes, ps \in {{}, {2}, {-3, 1}}, n \in {0, 3}}

\* on_propose: the constructor sets the proposer and the block only (and the
\* height of the other cluster's block, to the highest value).
Proposals ==
    {[Proposal(b, t, c, {}, n) EXCEPT !.other_cluster_block_height = Radix^U32 - 1] :
        b \in Blocks, t \in Indeterminate, c \in {1}, n \in {Radix^U32 - 1}}

Votes == {[voter |-> v, blk_hash |-> H(h), cert |-> Part(h)] : v \in {0, 3}, h \in {0, 77}}
Complains == {[voter |-> v, blk_height |-> n, blk_hash |-> H(5), cert |-> Part(5)] : v \in {0, 3}, n \in {-1, 2}}
Recs == {[cluster_number |-> c, node_number |-> n, reconfig_mode |-> m] : c \in {-1, 1}, n \in {-1, 2}, m \in {-1, 0}}
RecsAggs == {[recs |-> r, type |-> t, reconfig_count |-> n] : r \in Recs, t \in {0, 2}, n \in {0, 3}}
Finalities ==
    {[rid |-> 2, decision |-> d, cmd_idx |-> i, cmd_height |-> 3, cmd_hash |-> H(i + 20),
      blk_hash |-> IF d = 1 THEN H(8) ELSE NullHash] : d \in {0, 1}, i \in {0, 2}}
ClientCommands == {NewCommand(<<0, n, 1, 2, 7, 7, m>>, <<1>>) : n \in {0, 5}, m \in {0, 7}}

Messages ==
    ({"propose"} \X Proposals) \union ({"mc"} \X MCs) \union ({"vote"} \X Votes)
    \union ({"complain"} \X Complains) \union ({"recs"} \X Recs) \union ({"recs_agg"} \X RecsAggs)
    \union ({"req_block"} \X {<<>>, <<H(3)>>, <<H(3), H(4)>>})
    \union ({"resp_block"} \X ({<<>>} \union {<<b, AnyBlock>> : b \in Blocks}))
    \union ({"req_cmd"} \X ClientCommands) \union ({"resp_cmd"} \X Finalities)
    \union ({"dummy_qc"} \X {NullHash, H(3)}) \union ({"dummy_part"} \X {H(3)})

\* The constructors of the Msg types: serialized << the message.
Serialized(k, m) ==
    CASE k \in {"propose", "mc"} -> ProposalBytes(m)
      [] k = "vote" -> VoteBytes(m)
      [] k = "complain" -> ComplainBytes(m)
      [] k = "recs" -> RecsBytes(m)
      [] k = "recs_agg" -> RecsAggBytes(m)
      [] k = "req_block" -> ReqBlockBytes(m)
      [] k = "resp_block" -> RespBlockBytes(m)
      [] k = "req_cmd" -> CommandBytes(m)
      [] k = "resp_cmd" -> FinalityBytes(m)
      [] k = "dummy_qc" -> DummyQcBytes(m)
      [] k = "dummy_part" -> DummyPartBytes(m)

\* postponed_parse.
Parsed(k, s) ==
    CASE k = "vote" -> ReadVote(s)
      [] k = "complain" -> ReadComplain(s)
      [] k = "recs" -> ReadRecs(s)
      [] k = "recs_agg" -> ReadRecsAgg(s)
      [] k = "req_block" -> ReadReqBlock(s)
      [] k = "req_cmd" -> ReadCommand(s)
      [] k = "resp_cmd" -> ReadFinality(s)
      [] k \in {"dummy_qc", "dummy_part"} -> ReadDummy(s)

Parse(k, s, st) ==
    CASE k \in {"propose", "mc"} -> ReadProposal(s, st)
      [] k = "resp_block" -> ReadRespBlock(s, st)
      [] OTHER -> LET r == Parsed(k, s) IN [s |-> r.s, v |-> r.v, store |-> st]

\* propose_handler, up to the call of on_receive_proposal.
ProposeHandler(p) ==
    CASE p.blk = <<>> -> "dropped"
      [] p.blk # <<>> /\ p.msg_type = 1 -> "from another cluster"
      [] p.blk # <<>> /\ p.msg_type = 2 -> "from this cluster"
      [] OTHER -> "on_receive_proposal"

-----------------------------------------------------------------------------
Nothing == [s |-> Stream(<<>>), v |-> <<>>]

WireInit ==
    /\ kind = "none" /\ sent = <<>> /\ wire = <<>> /\ whole = TRUE
    /\ got = Nothing /\ blk_cache = {} /\ fate = "none"

Send ==
    /\ kind = "none"
    /\ \E m \in Messages :
        /\ kind' = m[1] /\ sent' = m[2] /\ wire' = Serialized(m[1], m[2])
        /\ UNCHANGED <<whole, got, blk_cache, fate>>

\* The bytes that arrive end too early.
CutShort ==
    /\ kind # "none" /\ got = Nothing /\ whole /\ wire # <<>>
    /\ \E n \in 0 .. Len(wire) - 1 : wire' = SubSeq(wire, 1, n)
    /\ whole' = FALSE
    /\ UNCHANGED <<kind, sent, got, blk_cache, fate>>

Take(r) ==
    /\ got' = [s |-> [r.s EXCEPT !.buffer = <<>>, !.out = <<>>, !.kept = <<>>], v |-> IF r.s.thrown THEN <<>> ELSE r.v]
    /\ blk_cache' = r.store
    /\ fate' = IF kind \in {"propose", "mc"} /\ ~r.s.thrown THEN ProposeHandler(r.v) ELSE "none"
Receive ==
    /\ kind # "none" /\ got = Nothing
    /\ Take(Parse(kind, Stream(wire), blk_cache))
    /\ UNCHANGED <<kind, sent, wire, whole>>

WireNext == Send \/ CutShort \/ Receive

-----------------------------------------------------------------------------
VARIABLES
    members,    \* the current replicas of the cluster
    config,     \* [nreplicas, nmajority], the same at the proposer and the receiver
    sentVotes,  \* replicas whose vote is under way (it may arrive more than once)
    voted,      \* blk->voted
    selfQc,         \* blk->self_qc, or <<>> before the block is proposed
    finished,   \* whether the quorum was reached
    verdict     \* what QuorumCert::verify says at the receiver

qcVars == <<members, config, sentVotes, voted, selfQc, finished, verdict>>

Blk == Load(Encode(9, HashWords * U64))
SigOf(r) == r % (Radix^SigLen - 1)
Cert(r) == [obj_hash |-> Blk, sig |-> SigOf(r)]

\* on_init and update_config_parameters.
Config(n) == [nreplicas |-> n, nmajority |-> n - (n - 1) \div 3]

QcInit ==
    /\ members = 0 .. NReplicas - 1
    /\ config = Config(NReplicas)
    /\ sentVotes = {} /\ voted = {} /\ selfQc = <<>> /\ finished = FALSE
    /\ verdict = "none"

\* on_propose: create_quorum_cert with the current number of replicas.
Propose ==
    /\ selfQc = <<>>
    /\ selfQc' = NewQc(config.nreplicas, Blk)
    /\ UNCHANGED <<members, config, sentVotes, voted, finished, verdict>>

\* on_receive_proposal at another replica, or at the proposer: create_part_cert.
SendVote(r) ==
    /\ selfQc # <<>> /\ r \in members
    /\ sentVotes' = sentVotes \union {r}
    /\ UNCHANGED <<members, config, voted, selfQc, finished, verdict>>

\* on_receive_vote.
ReceiveVote(r) ==
    /\ r \in sentVotes
    /\ Cardinality(voted) < config.nmajority
    /\ r \notin voted
    /\ voted' = voted \union {r}
    /\ selfQc' = AddPart(selfQc, r, Cert(r))
    /\ finished' = (finished \/ Cardinality(voted) + 1 = config.nmajority)
    /\ UNCHANGED <<members, config, sentVotes, verdict>>

\* A replica leaves or comes back; every replica recomputes the configuration.
Reconfigure(r) ==
    /\ r \in Leavers
    /\ members' = IF r \in members THEN members \ {r} ELSE members \union {r}
    /\ config' = Config(Cardinality(members'))
    /\ UNCHANGED <<sentVotes, voted, selfQc, finished, verdict>>

\* QuorumCertSecp256k1::verify.
MutVerify(c) ==   \* a quorum and one more
    /\ Cardinality(DOMAIN c.sigs) > config.nmajority
    /\ \A i \in Members(c.rids) : c.sigs[i] = SigOf(i)
Verify(c) ==
    /\ Cardinality(DOMAIN c.sigs) >= config.nmajority
    /\ \A i \in Members(c.rids) : c.sigs[i] = SigOf(i)

Accepted(c) == LET r == ReadQc(Stream(QcBytes(c))) IN ~r.s.thrown /\ Verify(r.v)

\* The next block carries hqc.second->clone(); the receiver verifies it.
Carry ==
    /\ finished /\ verdict = "none"
    /\ verdict' = IF Accepted(selfQc) THEN "accepted" ELSE "refused"
    /\ UNCHANGED <<members, config, sentVotes, voted, selfQc, finished>>

QcNext ==
    \/ Propose \/ Carry
    \/ \E r \in 0 .. NReplicas - 1 : SendVote(r) \/ ReceiveVote(r) \/ Reconfigure(r)

-----------------------------------------------------------------------------
Received == got # Nothing

\* What the receiver should hold: the message, but no block of type NoBlock.
Expected ==
    IF kind \in {"propose", "mc"} /\ sent.msg_type = NoBlock THEN [sent EXCEPT !.blk = <<>>] ELSE sent

\* unserialize undoes serialize, for every type of message: the receiver holds
\* the message that was sent, the hashes it derives (of blocks and commands)
\* included, and no byte is left over.
RoundTrip ==
    Received /\ whole => ~got.s.thrown /\ got.v = Expected /\ got.s.offset = Len(wire)

\* A message that ends early is refused by the reader that runs out of bytes:
\* no prefix of a message passes for another message.
ShortIsRefused == Received /\ ~whole => got.s.thrown

SentBlocks ==
    CASE kind \in {"propose", "mc"} -> {sent.blk}
      [] kind = "resp_block" -> ToSet(sent)
      [] OTHER -> {}

\* Blocks are stored while the message is still being read, and stay stored
\* when it turns out to be cut short: all the same the receiver's storage only
\* ever holds complete blocks, under the hash the proposer gave them.
OnlySentBlocks == blk_cache \subseteq SentBlocks

\* A replica that reads the certificate in the next block accepts it exactly when
\* the voters that have a bit in it are a quorum of the receiver's configuration,
\* whoever has left or come back since it was created.  It has as many bits as
\* there were replicas when the block was proposed (crypto.cpp:27): after a leave
\* the vote of a replica with a higher id is counted by the proposer and gone for
\* the receiver, which refuses a certificate that is short of it (crypto.cpp:32).
AcceptedByBits ==
    finished =>
        (Accepted(selfQc) <=>
            Cardinality(voted \intersect 0 .. selfQc.rids.nbits - 1) >= config.nmajority)

\* The signatures of the certificate are those of the voters of the block, and
\* its bits are the voters it has a bit for, whatever votes arrive twice, late,
\* or from a replica that has left.
BitsAreVotes ==
    selfQc # <<>> =>
        /\ DOMAIN selfQc.sigs = voted
        /\ Members(selfQc.rids) = voted \intersect 0 .. selfQc.rids.nbits - 1
=============================================================================
