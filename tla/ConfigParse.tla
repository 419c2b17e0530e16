---------------------------- MODULE ConfigParse -----------------------------
(***************************************************************************)
(* What the programs read when they start.                                  *)
(*                                                                          *)
(* salticidae's Config: options are registered, the default file is loaded, *)
(* then the command line is read; a file or the command line may name a     *)
(* further file, which is loaded on the spot.  A file that is being loaded  *)
(* is a frame of the stack.  The texts of values are a small set; Stoi says *)
(* which of them std::stoi reads, and as what.                              *)
(*                                                                          *)
(* The text utilities: split, trim, the address of a replica, hexadecimal   *)
(* keys, and the formatter behind the log.  A text is a sequence of         *)
(* characters; the walk makes every text of up to MaxLen of them.           *)
(*                                                                          *)
(* What a replica and a client make of cluster_info_hs.txt: the number of   *)
(* clusters, the replica's id within its cluster, its peers and the faults  *)
(* it tolerates; the client's connections and the answers it waits for.     *)
(* Nodes and ids are numbered from 0.                                       *)
(***************************************************************************)
EXTENDS Integers, SequencesExt, TLC

CONSTANTS
  Declared,   \* the options main registers, in order
  DefaultFile,   \* the file name given to the constructor
  Contents,   \* set of contents of the files: functions from names to lines
  CommandLines,   \* set of command lines
  MaxLen,   \* longest text
  Guess,   \* guessed_size, 1024 in the code
  MaxPort,   \* 0xffff in the code
  Files,   \* the contents of the file: functions from 0..n-1 to cluster numbers
  MaxCid   \* bound on the number a client is given

\* An option is [name, short, action, kind, init]; a line of a file and an
\* argument are [key, val], and a line without "=" has None for both.
None == "none"
TooLong == [key |-> None, val |-> "too long"]   \* a line that fills the buffer
ConfOpt == [name |-> "conf", short |-> "c", action |-> "SET_VAL", kind |-> "conf", init |-> None]

\* std::stoi reads the leading digits and leaves the rest.
Stoi == ("3" :> 3) @@ ("3x" :> 3) @@ ("5" :> 5)

VARIABLES
    opts,    \* the options registered, in order
    conf,    \* from names, long and short, to positions in opts
    vals,    \* the value of every option registered
    files,   \* the contents of the files of this run
    cmd,     \* the command line of this run
    stack,   \* the files being loaded, innermost last: [file, line]
    args,    \* the arguments not read yet
    pc       \* "register", "load", "args", "done" or the error thrown

configVars == <<opts, conf, vals, files, cmd, stack, args, pc>>

-----------------------------------------------------------------------------
\* add_opt: a name that exists is refused; a short name that exists is kept
\* for the option that had it.
Bind(c, o, i) == c @@ (o.name :> i) @@ (IF o.short # None THEN o.short :> i ELSE <<>>)

AddOpt(o) ==
    IF o.name \in DOMAIN conf
    THEN pc' = "OPTNAME_ALREADY_EXISTS" /\ UNCHANGED <<opts, conf, vals>>
    ELSE /\ opts' = Append(opts, o)
         /\ conf' = Bind(conf, o, Len(opts) + 1)
         /\ vals' = Append(vals, o.init)
         /\ UNCHANGED pc

\* load: a file that does not exist is skipped.
MutOpen(st, f) == IF f \in DOMAIN files THEN <<[file |-> f, line |-> 1]>> \o st ELSE st   \* loaded afterwards
Open(st, f) == IF f \in DOMAIN files THEN Append(st, [file |-> f, line |-> 1]) ELSE st

\* What switch_on, append and set_val of the OptVal classes store.
Stored(o, old, text) ==
    CASE o.action = "SWITCH_ON" -> TRUE
      [] o.action = "APPEND" -> Append(old, text)
      [] o.kind = "int" -> Stoi[text]
      [] o.kind = "str" -> text
      [] o.kind = "conf" -> old

\* update(opt, optval), on a stack that already stands at the next line.
Update(i, text, st) ==
    LET o == opts[i] IN
    IF o.kind = "int" /\ text \notin DOMAIN Stoi
    THEN pc' = "OPTVAL_INVALID" /\ stack' = <<>> /\ UNCHANGED vals
    ELSE /\ stack' = IF o.kind = "conf" THEN Open(st, text) ELSE st
         /\ vals' = [vals EXCEPT ![i] = Stored(o, @, text)]
         /\ UNCHANGED pc

-----------------------------------------------------------------------------
ConfigInit ==
    /\ opts = <<ConfOpt>> /\ conf = Bind(<<>>, ConfOpt, 1) /\ vals = <<None>>
    /\ files \in Contents /\ cmd \in CommandLines
    /\ stack = <<>> /\ args = cmd /\ pc = "register"

Register ==
    /\ pc = "register" /\ Len(opts) <= Len(Declared)
    /\ AddOpt(Declared[Len(opts)])
    /\ UNCHANGED <<files, cmd, stack, args>>

\* parse loads the default file first.
StartParse ==
    /\ pc = "register" /\ Len(opts) > Len(Declared)
    /\ pc' = "load" /\ stack' = Open(<<>>, DefaultFile)
    /\ UNCHANGED <<opts, conf, vals, files, cmd, args>>

\* The loop of load, for the innermost file.  The names of a file are looked
\* up among all names, the short ones included.
Frame == Last(stack)
Past == ReplaceAt(stack, Len(stack), [Frame EXCEPT !.line = @ + 1])
ReadLine ==
    /\ stack # <<>> /\ Frame.line <= Len(files[Frame.file])
    /\ LET l == files[Frame.file][Frame.line] IN
       CASE l = TooLong -> pc' = "CONFIG_LINE_TOO_LONG" /\ stack' = <<>> /\ UNCHANGED vals
         [] l # TooLong /\ l.key \notin DOMAIN conf -> stack' = Past /\ UNCHANGED <<vals, pc>>
         [] OTHER -> Update(conf[l.key], l.val, Past)
    /\ UNCHANGED <<opts, conf, files, cmd, args>>

EndOfFile ==
    /\ stack # <<>> /\ Frame.line > Len(files[Frame.file])
    /\ stack' = Front(stack)
    /\ UNCHANGED <<opts, conf, vals, files, cmd, args, pc>>

Loaded ==
    /\ pc = "load" /\ stack = <<>>
    /\ pc' = "args"
    /\ UNCHANGED <<opts, conf, vals, files, cmd, stack, args>>

\* getopt_long: a long option by its position in opts, a short one by conf;
\* an option that needs a value and has none, or an unknown one, is refused.
Longs == {opts[i].name : i \in 1 .. Len(opts)}
Shorts == {opts[i].short : i \in 1 .. Len(opts)} \ {None}
HasArg(i) == opts[i].action # "SWITCH_ON"
Known(a) == IF a.long THEN a.key \in Longs ELSE a.key \in Shorts
NextArg ==
    /\ pc = "args" /\ stack = <<>> /\ args # <<>>
    /\ LET a == Head(args) IN
       IF Known(a) => HasArg(conf[a.key]) /\ a.val = None
       THEN pc' = "OPT_INVALID" /\ UNCHANGED <<vals, stack>>
       ELSE Update(conf[a.key], a.val, stack)
    /\ args' = Tail(args)
    /\ UNCHANGED <<opts, conf, files, cmd>>

Done ==
    /\ pc = "args" /\ stack = <<>> /\ args = <<>>
    /\ pc' = "done"
    /\ UNCHANGED <<opts, conf, vals, files, cmd, stack, args>>

ConfigNext == Register \/ StartParse \/ ReadLine \/ EndOfFile \/ Loaded \/ NextArg \/ Done

-----------------------------------------------------------------------------
Space == " "
Semicolon == ";"
Colon == ":"
NotHex == "g"
Digits == [c \in {"0", "1"} |-> IF c = "0" THEN 0 ELSE 1]   \* the digits that occur
HexBase == 16
Chars == {Space, Semicolon, Colon, NotHex} \union DOMAIN Digits
Nul == "NUL"

VARIABLE text

-----------------------------------------------------------------------------
\* split(s, delim) for a delimiter of one character: the loop over find.
RECURSIVE Split(_, _)
Split(s, d) ==
    LET ps == {i \in DOMAIN s : s[i] = d} IN
    IF ps = {} THEN <<s>>
    ELSE LET p == CHOOSE i \in ps : \A j \in ps : i <= j
         IN  <<SubSeq(s, 1, p - 1)>> \o Split(SubSeq(s, p + 1, Len(s)), d)

\* trim(s): find_first_not_of and find_last_not_of.
MutTrim(s) ==   \* new_end - new_begin
    LET ks == {i \in DOMAIN s : s[i] # Space} IN
    IF ks = {} THEN <<>>
    ELSE SubSeq(s, CHOOSE i \in ks : \A j \in ks : i <= j, (CHOOSE i \in ks : \A j \in ks : i >= j) - 1)
Trim(s) ==
    LET ks == {i \in DOMAIN s : s[i] # Space} IN
    IF ks = {} THEN <<>>
    ELSE SubSeq(s, CHOOSE i \in ks : \A j \in ks : i <= j, CHOOSE i \in ks : \A j \in ks : i >= j)

TrimAll(ss) == [i \in DOMAIN ss |-> Trim(ss[i])]

\* split_ip_port_cport: two pieces, or "invalid cport format".
Invalid == [ok |-> FALSE]
SplitCport(s) ==
    LET r == TrimAll(Split(s, Semicolon))
    IN  IF Len(r) # 2 THEN Invalid ELSE [ok |-> TRUE, addr |-> r[1], cport |-> r[2]]

\* std::stol in base 10: leading white space is skipped and the first digits
\* are read; without any there is an invalid_argument.
SkipSpaces(s) == LET ks == {i \in DOMAIN s : s[i] # Space} IN
    IF ks = {} THEN <<>> ELSE SubSeq(s, CHOOSE i \in ks : \A j \in ks : i <= j, Len(s))
Leading(s) == CHOOSE n \in 0 .. Len(s) :
    /\ \A i \in 1 .. n : s[i] \in DOMAIN Digits
    /\ n < Len(s) => s[n + 1] \notin DOMAIN Digits
RECURSIVE NumberOf(_, _)
NumberOf(ds, base) == IF ds = <<>> THEN 0 ELSE Digits[Last(ds)] + base * NumberOf(Front(ds), base)

\* NetAddr(ip_port_addr).
NetAddr(s) ==
    LET ps == {i \in DOMAIN s : s[i] = Colon} IN
    IF ps = {} THEN Invalid
    ELSE LET p == CHOOSE i \in ps : \A j \in ps : i <= j
             t == SkipSpaces(SubSeq(s, p + 1, Len(s)))
             ds == SubSeq(t, 1, Leading(t))
         IN  IF ds = <<>> \/ NumberOf(ds, 10) > MaxPort THEN Invalid
             ELSE [ok |-> TRUE, host |-> SubSeq(s, 1, p - 1), port |-> NumberOf(ds, 10)]

-----------------------------------------------------------------------------
\* get_hex: two digits a byte.
DigitOf(v) == CHOOSE c \in DOMAIN Digits : Digits[c] = v
GetHex(bytes) == FlattenSeq([i \in DOMAIN bytes |-> <<DigitOf(bytes[i] \div HexBase), DigitOf(bytes[i] % HexBase)>>])

\* sscanf("%02x") on the text from position p: white space is skipped, then at
\* most two digits are read, and one is enough.
Scan(s, p) ==
    LET t == SkipSpaces(SubSeq(s, p, Len(s)))
    IN  SubSeq(t, 1, IF Leading(t) < 2 THEN Leading(t) ELSE 2)

\* load_hex.
LoadHex(s) ==
    LET n == Len(s) \div 2 IN
    IF Len(s) % 2 = 1 \/ (\E i \in 1 .. n : Scan(s, 2 * i - 1) = <<>>) THEN Invalid
    ELSE [ok |-> TRUE, bytes |-> [i \in 1 .. n |-> NumberOf(Scan(s, 2 * i - 1), HexBase)]]

\* vsnprintf writes size - 1 characters at most and ends them with NUL;
\* vstringprintf calls it again, with the length it needs, when the text was
\* longer than its guess.
Vsnprintf(s, size) == IF Len(s) < size THEN s ELSE SubSeq(s, 1, size - 1) \o <<Nul>>
Vstringprintf(s) ==
    IF Len(s) > Guess THEN Vsnprintf(s, Len(s))
    ELSE SubSeq(Vsnprintf(s, Guess), 1, Len(s))

-----------------------------------------------------------------------------
TextInit == text = <<>>
Type(c) == Len(text) < MaxLen /\ text' = Append(text, c)
TextNext == \E c \in Chars : Type(c)

-----------------------------------------------------------------------------
VARIABLES
  cluster_map, idx,    \* the file; the node this process runs at
  phase,                  \* "count", "replicas", "replica" or "client" (done)
  todo,                \* entries of cluster_map the iteration has yet to visit
  n_clusters,
  at, flag_intraidx, count_rep_cluster, cluster_idx,   \* the loop over the replicas
  nfaulty, conns, cid
setupVars == <<cluster_map, idx, phase, todo, n_clusters, at, flag_intraidx, count_rep_cluster,
          cluster_idx, nfaulty, conns, cid>>

Nodes == DOMAIN cluster_map
Cluster(c) == {i \in Nodes : cluster_map[i] = c}

SetupInit ==
  /\ cluster_map \in Files /\ idx \in Nodes
  /\ phase = "count" /\ todo = Nodes /\ n_clusters = 0
  /\ at = 0 /\ flag_intraidx = FALSE /\ count_rep_cluster = 0 /\ cluster_idx = 0
  /\ nfaulty = 0 /\ conns = {} /\ cid \in 0..MaxCid

\* One step of the loop over cluster_map, whose order is that of a hash table.
CountClusters(i) ==
  /\ phase = "count" /\ i \in todo /\ todo' = todo \ {i}
  /\ n_clusters' = (IF cluster_map[i] > n_clusters THEN n_clusters + 1 ELSE n_clusters)
                   + (IF todo' = {} THEN 1 ELSE 0)
  /\ phase' = IF todo' = {} THEN "replicas" ELSE phase
  /\ UNCHANGED <<cluster_map, idx, at, flag_intraidx, count_rep_cluster, cluster_idx, nfaulty, conns, cid>>

\* The replicas of clusters before the own one are counted too.
MutTakeReplica ==
  /\ phase = "replicas" /\ at \in Nodes
  /\ flag_intraidx' = TRUE
  /\ cluster_idx' = IF at = idx THEN count_rep_cluster ELSE cluster_idx
  /\ count_rep_cluster' = count_rep_cluster + 1
  /\ at' = at + 1
  /\ UNCHANGED <<cluster_map, idx, phase, todo, n_clusters, nfaulty, conns, cid>>

\* One step of the replica's loop over the list of replicas.
TakeReplica ==
  /\ phase = "replicas" /\ at \in Nodes
  /\ flag_intraidx' = (flag_intraidx \/ cluster_map[idx] = cluster_map[at])
  /\ cluster_idx' = IF flag_intraidx' /\ at = idx THEN count_rep_cluster ELSE cluster_idx
  /\ count_rep_cluster' = IF flag_intraidx' THEN count_rep_cluster + 1 ELSE count_rep_cluster
  /\ at' = at + 1
  /\ UNCHANGED <<cluster_map, idx, phase, todo, n_clusters, nfaulty, conns, cid>>

\* start_mc: the peers are the replicas of the cluster at other addresses.
StartMc ==
  /\ phase = "replicas" /\ at \notin Nodes
  /\ nfaulty' = Cardinality(Cluster(cluster_map[idx]) \ {idx}) \div 3
  /\ phase' = "replica"
  /\ UNCHANGED <<cluster_map, idx, todo, n_clusters, at, flag_intraidx, count_rep_cluster, cluster_idx, conns, cid>>

\* The client, after the same count: connect_all.
ConnectAll ==
  /\ phase = "replicas" /\ at = 0
  /\ conns' = Cluster(cid % n_clusters)
  /\ nfaulty' = (Cardinality(conns') - 1) \div 3
  /\ phase' = "client"
  /\ UNCHANGED <<cluster_map, idx, todo, n_clusters, at, flag_intraidx, count_rep_cluster, cluster_idx, cid>>

SetupNext == (\E i \in todo : CountClusters(i)) \/ TakeReplica \/ StartMc \/ ConnectAll

Clusters == {cluster_map[i] : i \in Nodes}
\* The id add_replica gives to this node: its place among those of its cluster.
OwnId == Cardinality({i \in Cluster(cluster_map[idx]) : i < idx})

-----------------------------------------------------------------------------
\* Reference: the assignments in the order a reader of the files and the
\* command line sees them, a named file in the place that names it.  Files
\* nest at most twice here.

Effective(lines) == SelectSeq(lines, LAMBDA l : l.key \in DOMAIN conf)
FileOf(f) == IF f \in DOMAIN files THEN Effective(files[f]) ELSE <<>>
Inlined(lines) ==
    FlattenSeq([k \in DOMAIN lines |->
                  IF conf[lines[k].key] = 1 THEN FileOf(lines[k].val) ELSE <<lines[k]>>])
Assignments == Inlined(Inlined(FileOf(DefaultFile))) \o Inlined(Inlined(Effective(cmd)))
To(i) == SelectSeq(Assignments, LAMBDA l : conf[l.key] = i)

\* When parse returns, a value is the one of the last assignment to its option
\* (the command line after the default file, a named file where it is named),
\* a list has every value appended to it in order, and a switch is on when it
\* was mentioned at all.
LastAssignmentWins ==
    pc = "done" =>
        \A i \in 2 .. Len(opts) :
            vals[i] = CASE opts[i].action = "APPEND" -> opts[i].init \o [k \in DOMAIN To(i) |-> To(i)[k].val]
                        [] To(i) = <<>> -> opts[i].init
                        [] opts[i].action = "SWITCH_ON" -> TRUE
                        [] opts[i].kind = "int" -> Stoi[Last(To(i)).val]
                        [] OTHER -> Last(To(i)).val

\* parse returns only when no assignment anywhere, overridden later or not,
\* gave an integer option a text that is not a number, no line of the default
\* file is too long, and the command line has no unknown option and none that
\* lacks its value.
InvalidIsRefused ==
    pc = "done" =>
        /\ \A k \in DOMAIN Assignments :
              opts[conf[Assignments[k].key]].kind = "int" => Assignments[k].val \in DOMAIN Stoi
        /\ DefaultFile \in DOMAIN files => TooLong \notin ToSet(files[DefaultFile])
        /\ \A k \in DOMAIN cmd : Known(cmd[k]) /\ (HasArg(conf[cmd[k].key]) => cmd[k].val # None)

RECURSIVE Join(_, _)
Join(ps, d) == IF Len(ps) = 1 THEN ps[1] ELSE ps[1] \o <<d>> \o Join(Tail(ps), d)

\* split takes a text apart without losing anything: the pieces hold no
\* delimiter, and joined by it they are the text again, empty ones included.
SplitJoins ==
    LET ps == Split(text, Semicolon)
    IN  ps # <<>> /\ Join(ps, Semicolon) = text /\ \A i \in DOMAIN ps : Semicolon \notin ToSet(ps[i])

\* White space around the parts of "addr;cport" changes nothing, and no part
\* of the text but white space is lost; any other number of parts is refused.
CportIsRead ==
    LET r == SplitCport(text)
        NoSpaces(s) == SelectSeq(s, LAMBDA c : c # Space)
    IN  /\ r.ok <=> Cardinality({i \in DOMAIN text : text[i] = Semicolon}) = 1
        /\ r.ok => /\ NoSpaces(r.addr) \o <<Semicolon>> \o NoSpaces(r.cport) = NoSpaces(text)
                   /\ \A s \in {r.addr, r.cport} : s = <<>> \/ (Head(s) # Space /\ Last(s) # Space)
                   /\ SplitCport(<<Space>> \o r.addr \o <<Space, Semicolon, Space>> \o r.cport) = r

\* A port that an address is accepted with is the number written after the
\* first colon, never a larger number cut to 16 bits.
PortIsWritten ==
    LET r == NetAddr(text)
    IN  r.ok => \E i, j \in DOMAIN text :
                   /\ text[Len(r.host) + 1] = Colon /\ Colon \notin ToSet(r.host)
                   /\ Len(r.host) + 1 < i /\ i <= j
                   /\ \A k \in Len(r.host) + 2 .. i - 1 : text[k] = Space
                   /\ \A k \in i .. j : text[k] \in DOMAIN Digits
                   /\ j < Len(text) => text[j + 1] \notin DOMAIN Digits
                   /\ r.port = NumberOf(SubSeq(text, i, j), 10)

IsHex(s) == Len(s) % 2 = 0 /\ ToSet(s) \subseteq DOMAIN Digits

\* A key printed by get_hex is loaded as the same bytes, and a text of an odd
\* length is refused.
HexRoundTrip ==
    /\ IsHex(text) => LoadHex(text).ok /\ GetHex(LoadHex(text).bytes) = text
    /\ Len(text) % 2 = 1 => ~LoadHex(text).ok

\* The formatter returns the text when it is shorter than its guess, and at
\* any length a text as long, which differs in its last character at most.
FormatIsText ==
    LET r == Vstringprintf(text)
    IN  /\ Len(text) < Guess => r = text
        /\ Len(r) = Len(text)
        /\ \A i \in 1 .. Len(text) - 1 : r[i] = text[i]

\* Every process counts the clusters alike, whatever order its hash table has, if
\* the last cluster has a node for every other cluster (hotstuff_app.cpp:384-394).
\* With fewer the count depends on the order; it is never too large.
ClustersCounted ==
  phase # "count" =>
    LET m == Cardinality(Clusters)
    IN /\ n_clusters \in 1..m
       /\ Cardinality(Cluster(Max(Clusters))) >= m - 1 => n_clusters = m

\* A client talks to a cluster that exists; it and the replicas of that cluster
\* take the same number of faults, the most that three times as many correct
\* replicas and one more leave room for (hotstuff.cpp:1498,
\* hotstuff_client.cpp:244-260).
FaultsAgree ==
  LET most(n) == Max({f \in 0..n : 3 * f + 1 <= n})
  IN /\ phase = "client" => conns # {} /\ nfaulty = most(Cardinality(conns))
     /\ phase = "replica" => nfaulty = most(Cardinality(Cluster(cluster_map[idx])))

\* A replica takes the id its peers know it by, its place among the nodes of its
\* cluster, exactly when no node of another cluster stands between the first one of
\* its cluster and itself: flag_intraidx is never reset (hotstuff_app.cpp:410-440).
IdIsOwnId ==
  phase = "replica" =>
    LET mine == Cluster(cluster_map[idx])
    IN cluster_idx = OwnId <=> Min(mine)..idx \subseteq mine
=============================================================================
