------------------------------- MODULE Library -------------------------------
(***************************************************************************)
(* The libraries a replica and a client are built on, each on its own:     *)
(*   "config"   options, files and command lines,                          *)
(*   "text"     the texts they are made of,                                *)
(*   "setup"    the clusters a process finds in its file (ConfigParse);    *)
(*   "wire"     messages as bytes,                                         *)
(*   "quorum"   certificates on their way to a replica (Wire);             *)
(*   "promise"  promises and their callbacks (Promise);                    *)
(*   "pointer"  the owning pointers of one thread (PointerWalk).           *)
(* A behaviour is one part's; the variables of the others rest.            *)
(***************************************************************************)
EXTENDS Wire

CONSTANTS
  Parts,          \* the parts that are run
  Void, NoHandler, aValue   \* of Promise

VARIABLES
  part,
  opts, conf, optvals, files, cmd, loading, args, optPc,
  text,
  cluster_map, ownIdx, phase, todo, n_clusters, at, flag_intraidx, count_rep_cluster,
  cluster_idx, nfaulty, conns, cid,
  state, value, cbs, stack, made, origin, queued, direct, remaining, ran, calls,
  mem
configVars == <<opts, conf, optvals, files, cmd, loading, args, optPc>>
setupVars == <<cluster_map, ownIdx, phase, todo, n_clusters, at, flag_intraidx, count_rep_cluster,
               cluster_idx, nfaulty, conns, cid>>
promiseVars == <<state, value, cbs, stack, made, origin, queued, direct, remaining, ran, calls>>
vars == <<part, configVars, text, setupVars, wireVars, qcVars, promiseVars, mem>>
-----------------------------------------------------------------------------
\* A part of the options of hotstuff-app: every action and kind of value, and
\* two options that share a short name with an earlier one.
Option(n, s, a, k, init) == [name |-> n, short |-> s, action |-> a, kind |-> k, init |-> init]
AppOptions ==
  << Option("replica", "a", "APPEND", "strvec", <<>>),
     Option("idx", "i", "SET_VAL", "int", 0),
     Option("cport", "c", "SET_VAL", "int", -1),
     Option("privkey", "none", "SET_VAL", "str", ""),
     Option("notls", "s", "SWITCH_ON", "flag", FALSE) >>

\* The lines of the default file, of the file that it names, and the arguments.
Line(k, val) == [key |-> k, val |-> val]
Plain == {Line("none", "none"), Line("none", "too long"), Line("idx", "3x"), Line("idx", "x"),
          Line("replica", "r1"), Line("notls", "0")}
Named == {Line("conf", "extra"), Line("c", "extra"), Line("conf", "absent"), Line("other", "3")}
UpTo2(S) == {<<>>} \cup {<<x>> : x \in S} \cup {<<x, y>> : x \in S, y \in S}
ManyContents ==
  {[f \in {"gen", "extra"} |-> IF f = "gen" THEN g ELSE e] :
      g \in UpTo2(Plain \cup Named), e \in {<<>>} \cup {<<x>> : x \in Plain \cup {Line("idx", "5")}}}
  \cup {[f \in {"extra"} |-> <<Line("replica", "r2"), Line("privkey", "k")>>]}
Arg(l, k, val) == [long |-> l, key |-> k, val |-> val]
ManyCommandLines ==
  UpTo2({Arg(TRUE, "idx", "5"), Arg(TRUE, "replica", "r3"), Arg(FALSE, "c", "extra"),
         Arg(FALSE, "s", "none"), Arg(TRUE, "idx", "none"), Arg(FALSE, "z", "none")})

\* Files that use the cluster numbers from 0 on, in any order: two clusters of
\* five nodes, and up to four clusters of four.
Numbered(n, k) == {f \in [0..(n - 1) -> 0..(k - 1)] : \A c \in 0..(k - 1) : \E i \in 0..(n - 1) : f[i] = c}
ClusterFiles == Numbered(5, 2) \cup UNION {Numbered(4, k) : k \in 1..4}

Conf == INSTANCE ConfigParse WITH
  vals <- optvals, stack <- loading, pc <- optPc, idx <- ownIdx,
  Declared <- AppOptions, DefaultFile <- "gen", Contents <- ManyContents,
  CommandLines <- ManyCommandLines, MaxLen <- 6, Guess <- 4, MaxPort <- 100,
  Files <- ClusterFiles, MaxCid <- 2

\* A cluster whose certificates have words of eight bits.
Quorum == INSTANCE Wire WITH U32 <- 4, U64 <- 8

\* Handlers differ in what their body does and in how they return.
Handler(act, on, ret) == [act |-> act, on |-> on, ret |-> ret, val |-> aValue, from |-> 2]
HandlerPairs ==
  { <<Handler("none", 1, "value"), NoHandler>>, <<NoHandler, Handler("none", 1, "void")>>,
    <<Handler("then", 1, "void"), Handler("reject", 2, "promise")>>,
    <<Handler("resolve", 2, "promise"), NoHandler>> }
Pm == INSTANCE Promise WITH
  None <- NoHandler, todo <- remaining, MaxPromises <- 4, MaxCalls <- 6, Pairs <- HandlerPairs,
  Lists <- {<<1, 2>>, <<2, 2>>, <<3, 1>>}, Plain <- Handler("none", 1, "void")

Pointers == INSTANCE PointerWalk WITH
  NObjects <- 3, Rcs <- {11, 12}, Weaks <- {21, 22}, Boxes <- {31, 32}
-----------------------------------------------------------------------------
Init ==
  /\ part \in Parts
  /\ IF part = "config" THEN Conf!ConfigInit
     ELSE /\ opts = 0 /\ conf = 0 /\ optvals = 0 /\ files = 0 /\ cmd = 0 /\ loading = 0
          /\ args = 0 /\ optPc = 0
  /\ IF part = "text" THEN Conf!TextInit ELSE text = 0
  /\ IF part = "setup" THEN Conf!SetupInit
     ELSE /\ cluster_map = 0 /\ ownIdx = 0 /\ phase = 0 /\ todo = 0 /\ n_clusters = 0 /\ at = 0
          /\ flag_intraidx = 0 /\ count_rep_cluster = 0 /\ cluster_idx = 0 /\ nfaulty = 0
          /\ conns = 0 /\ cid = 0
  /\ WireInit
  /\ IF part = "quorum" THEN Quorum!QcInit
     ELSE /\ members = 0 /\ config = 0 /\ sentVotes = 0 /\ voted = 0 /\ selfQc = 0
          /\ finished = 0 /\ verdict = 0
  /\ IF part = "promise" THEN Pm!Init
     ELSE /\ state = 0 /\ value = 0 /\ cbs = 0 /\ stack = 0 /\ made = 0 /\ origin = 0 /\ queued = 0
          /\ direct = 0 /\ remaining = 0 /\ ran = 0 /\ calls = 0
  /\ IF part = "pointer" THEN Pointers!Init ELSE mem = 0

Next ==
  \/ part = "config" /\ Conf!ConfigNext
     /\ UNCHANGED <<part, text, setupVars, wireVars, qcVars, promiseVars, mem>>
  \/ part = "text" /\ Conf!TextNext
     /\ UNCHANGED <<part, configVars, setupVars, wireVars, qcVars, promiseVars, mem>>
  \/ part = "setup" /\ Conf!SetupNext
     /\ UNCHANGED <<part, configVars, text, wireVars, qcVars, promiseVars, mem>>
  \/ part = "wire" /\ WireNext
     /\ UNCHANGED <<part, configVars, text, setupVars, qcVars, promiseVars, mem>>
  \/ part = "quorum" /\ Quorum!QcNext
     /\ UNCHANGED <<part, configVars, text, setupVars, wireVars, promiseVars, mem>>
  \/ part = "promise" /\ Pm!Next
     /\ UNCHANGED <<part, configVars, text, setupVars, wireVars, qcVars, mem>>
  \/ part = "pointer" /\ Pointers!Next
     /\ UNCHANGED <<part, configVars, text, setupVars, wireVars, qcVars, promiseVars>>

Spec == Init /\ [][Next]_vars
-----------------------------------------------------------------------------
\* When parse returns, an option has the value of the last assignment to it: the
\* command line after the default file, a named file where it is named.
LastAssignmentWins == part = "config" => Conf!LastAssignmentWins
\* parse never returns after an assignment, a line or an argument it must refuse.
InvalidIsRefused == part = "config" => Conf!InvalidIsRefused

\* split takes a text apart without losing anything.
SplitJoins == part = "text" => Conf!SplitJoins
\* "addr;cport" is read for what it is, and any other number of parts refused.
CportIsRead == part = "text" => Conf!CportIsRead
\* The port of an address is the number written, never one cut to 16 bits.
PortIsWritten == part = "text" => Conf!PortIsWritten
\* A key printed by get_hex is loaded as the same bytes.
HexRoundTrip == part = "text" => Conf!HexRoundTrip
\* The formatter returns the text, of any length, but for its last character.
FormatIsText == part = "text" => Conf!FormatIsText

\* Every process counts the clusters alike, whatever order its hash table has, if
\* the last cluster has a node for every other one.
ClustersCounted == part = "setup" => Conf!ClustersCounted
\* Clients and replicas take the same number of faults, the most there may be.
FaultsAgree == part = "setup" => Conf!FaultsAgree
\* A replica takes the id its peers know it by exactly when the nodes of its cluster
\* stand together in the file, up to itself.
IdIsOwnId == part = "setup" => Conf!IdIsOwnId

\* A certificate is accepted where it is read if, and only if, the voters that have
\* a bit in it are a quorum, whoever has left or come back.
CertificateAccepted == part = "quorum" => Quorum!AcceptedByBits
\* The signatures and bits of a certificate are those of the voters.
CertificateIsVotes == part = "quorum" => Quorum!BitsAreVotes

\* Handlers run exactly once, on the side their promise settled on.
HandlersRunOnce == part = "promise" => Pm!HandlersRunOnce
\* Handlers of one promise run in the order of their registration.
RunInOrder == part = "promise" => Pm!RunInOrder
\* A promise made by then, all or race is what its sources say.
ChainsAgree == part = "promise" => Pm!ChainsAgree
\* A settled promise keeps its state and its value for ever.
SettledForGood ==
  [][part = "promise" =>
       \A p \in DOMAIN state : state[p] \in {"Fulfilled", "Rejected"} =>
         state'[p] = state[p] /\ value'[p] = value[p]]_vars
\* The list of callbacks that is being run is not touched by the callbacks, which
\* may call then on the very promise.
ListStableWhileIterated ==
  [][part = "promise" =>
       \A k \in DOMAIN stack : stack[k].op = "loop" =>
         LET p == stack[k].p IN
         cbs'[p][state[p]] = cbs[p][state[p]] \/ (k = 1 /\ cbs'[p][state[p]] = <<>>)]_vars

\* No sequence of copies, moves, locks and deletions touches what is freed.
NoFreedAccess == part = "pointer" => Pointers!NoFreedAccess
\* The counters are the numbers of references.
CountsAreReferences == part = "pointer" => Pointers!CountsAreReferences
\* An object is alive exactly as long as something owns it.
AliveWhileOwned == part = "pointer" => Pointers!AliveWhileOwned

\* What a process is started with is what its operator wrote (Config::parse).
OptionsAreRead == LastAssignmentWins /\ InvalidIsRefused
\* Addresses, ports and keys come out of a text as they were put into it
\* (split, NetAddr, from_hex and vstringprintf).
TextsComeBack == SplitJoins /\ CportIsRead /\ PortIsWritten /\ HexRoundTrip /\ FormatIsText
\* Processes that read the same file take the same number of faults; they agree on
\* the clusters if the last one has nodes enough, and on who is who exactly where
\* the nodes of a cluster stand together (main of hotstuff_app.cpp and of
\* hotstuff_client.cpp).
StartupAgrees == ClustersCounted /\ FaultsAgree /\ IdIsOwnId
\* A message is read as it was written, or refused (DataStream, Msg*::postponed_parse).
MessagesAreRead == RoundTrip /\ ShortIsRefused /\ OnlySentBlocks
\* A certificate stands, wherever it is read, for the votes that have a bit in it,
\* and for no others.
CertificatesCarryVotes == CertificateAccepted /\ CertificateIsVotes
\* Promises keep what they promise, also when handlers settle promises or register
\* handlers themselves (promise.hpp).
PromisesAreKept ==
  [](HandlersRunOnce /\ RunInOrder /\ ChainsAgree) /\ SettledForGood /\ ListStableWhileIterated
\* The pointers of ref.h own what they point to for exactly as long as they exist.
PointersAreSafe == NoFreedAccess /\ CountsAreReferences /\ AliveWhileOwned
=============================================================================
