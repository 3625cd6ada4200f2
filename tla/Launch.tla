------------------------------- MODULE Launch -------------------------------
(***************************************************************************)
(* From the ffrun command to the rank of every process: port selection,    *)
(* rank computation and command lines of tools/ffrun, and what RDMA_Init   *)
(* makes of a command line (arg_parser.hpp, decoder.hpp, rank_alg.hpp,     *)
(* src/fmpi.cc).  ffrun is written in Go, the processes in C++: each side  *)
(* computes the ranks by itself.                                           *)
(*                                                                         *)
(* A host is its place in the order of host names, which both sides        *)
(* compare byte by byte.  An argument is a token: what matters is how it   *)
(* begins and what it is.                                                  *)
(***************************************************************************)
EXTENDS Naturals, FiniteSets, Sequences, SequencesExt

CONSTANTS
    MinPort,      \* 10000 in the code
    PortLimit,    \* 65535 in the code
    Special,      \* the words a shell does not take as they are: $HOME, ;, *
    Jobs          \* the commands a user may give

ASSUME PortAssumption == MinPort \in Nat /\ PortLimit \in Nat /\ MinPort < PortLimit

Tokens == [kind : STRING, is : STRING]   \* tokens the user writes

\* [sudo] singularity exec with options that are one word each, and the image.
IsContainer(args) ==
    LET options == IF args[1][1] = [kind |-> "text", is |-> "sudo"] THEN 4 ELSE 3
        image == Len(args)
        flag(i) == args[i][1].kind \in {"short", "long", "end"}
    IN  /\ \A i \in 1..image : Len(args[i]) = 1
        /\ image >= options /\ ~flag(image) /\ \A i \in options..(image - 1) : flag(i)

\* What follows -- is words, each argument of any number of them; an empty one
\* is an empty word.  A script of ffrun generate is for words that its shell
\* takes as they are, and has no container.
ASSUME JobsAssumption ==
    \A j \in Jobs : j.mode # "manual" =>
        /\ j.mode \in {"np", "generate", "ports"}
        /\ j.text \in Seq(Nat \X (IF j.mode = "ports" THEN Seq(Nat) ELSE Nat))
        /\ j.program \in Tokens /\ j.program.kind = "text"
        /\ {j.args, j.container} \subseteq Seq(Seq(Tokens))
        /\ \A i \in DOMAIN j.args : j.args[i] # <<>>
        /\ j.container # <<>> => IsContainer(j.container)
        /\ j.mode = "generate" =>
             /\ j.container = <<>> /\ j.program \notin Special
             /\ \A i \in DOMAIN j.args : \A k \in DOMAIN j.args[i] : j.args[i][k] \notin Special

VARIABLES
    job,        \* the command
    stage,      \* stage[n]: how far ffrun is at node n
    ports,      \* ports[n]: hostMapPorts there, a list of ports per host
    local,      \* local[n]: the hosts whose processes it starts
    next,       \* next[n]: the position of its CmdResultGenerator
    procs       \* the processes started, by node and position

vars == <<job, stage, ports, local, next, procs>>

Token(kind, is) == [kind |-> kind, is |-> is]
Long(name) == Token("long", name)      \* --name
End == Token("end", "")                \* --
Text(is) == Token("text", is)          \* does not begin with -
Num(n) == Token("num", n)              \* the same, and a number
Blank == Text("")
Unset == Token("unset", "")

\* It begins with -.
IsFlag(token) == token.kind \in {"short", "long", "end"}

-----------------------------------------------------------------------------
(* Hosts and ports *)

Hosts(text) == {text[i][1] : i \in DOMAIN text}

\* HostMapNumproc.FromString: a host that is listed twice keeps its first entry.
ReadNumproc(text) == [h \in Hosts(text) |->
    text[SelectInSeq(text, LAMBDA pair : pair[1] = h)][2]]

\* HostMapPorts.FromString: a host that is listed twice has its last entry.
ReadPorts(text) == [h \in Hosts(text) |->
    text[SelectLastInSeq(text, LAMBDA pair : pair[1] = h)][2]]

\* HostMapPorts.String: the hosts in some order.
Strings(m) == {[i \in DOMAIN hosts |-> <<hosts[i], m[hosts[i]]>>] :
                 hosts \in SetToSeqs(DOMAIN m)}

\* The capacity check of PortSelect.
Panics(num) == PortLimit - MinPort + 1 < num

\* PortSelect: the first num of a random permutation of 0 .. PortLimit - 1
\* that are not below MinPort.
PortSelect(num) ==
    LET available == MinPort..(PortLimit - 1)
        count == IF num < Cardinality(available) THEN num ELSE Cardinality(available)
    IN  {s \in [1..count -> available] : \A i, j \in 1..count : i # j => s[i] # s[j]}

-----------------------------------------------------------------------------
(* Ranks, as ffrun computes them *)

Infos(m, hosts) ==
    FlattenSeq([i \in DOMAIN hosts |->
        [j \in DOMAIN m[hosts[i]] |-> <<hosts[i], m[hosts[i]][j]>>]])

\* Fault: the ports of a host keep the order of the list.
LessByHost(a, b) == a[1] < b[1]

\* ProcessInfoSlice.Less
Less(a, b) == a[1] < b[1] \/ (a[1] = b[1] /\ a[2] < b[2])

\* The entries that sort.Sort puts before entry i.
Earlier(list, i) ==
    {j \in DOMAIN list : Less(list[j], list[i]) \/ (~Less(list[i], list[j]) /\ j < i)}

\* CalculateRank: the rank is the place in the sorted list, the list of the
\* hosts in any order.
CalculateRank(m) ==
    LET list == Infos(m, SetToSeq(DOMAIN m))
    IN  [k \in DOMAIN list |->
           list[CHOOSE i \in DOMAIN list : Cardinality(Earlier(list, i)) = k - 1]]

\* The command line of ffrun, cut for the container: Singularity.Parse takes
\* what comes up to the program as the program.
SingularityParse(args) ==
    LET start == IF args[1][1] = Text("sudo") THEN 4 ELSE 3
        rest == {i \in start..Len(args) : ~IsFlag(args[i][1])}
        image == IF rest = {} THEN Len(args) + 1
                 ELSE CHOOSE i \in rest : \A j \in rest : i =< j
        ok == Len(args) >= 3 /\ image + 1 =< Len(args)
    IN  [ok |-> ok,
         head |-> IF ok THEN SubSeq(args, 1, image + 1) ELSE <<>>,
         tail |-> IF ok THEN SubSeq(args, image + 2, Len(args)) ELSE <<>>]

\* strings.Split of what strings.Join made of the arguments, with blanks.
Split(args) == IF args = <<>> THEN <<Blank>> ELSE FlattenSeq(args)

\* The words of these that the process gets: all of them in a command that ffrun
\* runs; an empty one is none in a script, which a shell reads again.
Words(args) ==
    LET words == Split(args)
    IN  IF job.mode # "generate" THEN words
        ELSE FlattenSeq([i \in DOMAIN words |->
                           IF words[i] = Blank THEN <<>> ELSE <<words[i]>>])

\* What the user wrote after --.
Command == job.container \o <<<<job.program>>>> \o job.args

\* runCmd: program and arguments of the command.
Parsed == IF job.container # <<>> THEN SingularityParse(Command)
          ELSE [ok |-> TRUE, head |-> <<<<job.program>>>>, tail |-> job.args]

\* Fault: a process gets the ports of its own host only.
ToArgvOwnHost(info, text) ==
    Split(Parsed.head) \o <<Long("r_myip"), Text(info[1]), Long("r_myport"), Num(info[2]),
        Long("r_hostmap"), Text(SelectSeq(text, LAMBDA pair : pair[1] = info[1])), End>>
    \o Words(Parsed.tail)

\* CmdResult.ToArgv, as the process gets it.
ToArgv(info, text) ==
    Split(Parsed.head) \o <<Long("r_myip"), Text(info[1]), Long("r_myport"), Num(info[2]),
        Long("r_hostmap"), Text(text), End>>
    \o Words(Parsed.tail)

-----------------------------------------------------------------------------
(* What a process makes of its command line *)

Options == {"r_help", "r_myip", "r_myport", "r_hostmap"}
Needed == Options \ {"r_help"}

\* What ArgParser.parse_args has read so far; last counts the tokens.
NothingRead == [prev |-> "none", last |-> 1, ended |-> FALSE, bad |-> FALSE,
                help |-> FALSE, value |-> [o \in Needed |-> Unset]]

\* A round of the loop in parse_args; end is last_index after a -- that ends
\* the options.  The name of an option may follow one dash or two.
ReadWith(read, token, end) ==
    LET over == read.ended \/ read.bad
        option == token.kind \in {"short", "long"} /\ token.is \in Options
        value == token.kind \in {"text", "num"} /\ read.prev # "none"
        fits == read.prev = "r_myport" => token.kind = "num"
    IN  CASE over -> read
          [] ~over /\ token.kind = "end" -> [read EXCEPT !.ended = TRUE, !.last = end]
          [] ~over /\ option -> [read EXCEPT !.prev = token.is, !.last = @ + 1,
                                             !.help = @ \/ token.is = "r_help"]
          [] ~over /\ value /\ read.prev = "r_help" ->
                [read EXCEPT !.prev = "none", !.last = @ + 1, !.help = FALSE]
          [] ~over /\ value /\ read.prev # "r_help" /\ fits ->
                [read EXCEPT !.prev = "none", !.last = @ + 1, !.value[read.prev] = token]
          [] OTHER -> [read EXCEPT !.bad = TRUE]

\* Fault: last_index stays at the -- that ends the options.
ReadTokenAtEnd(read, token) == ReadWith(read, token, read.last)

ReadToken(read, token) == ReadWith(read, token, read.last + 1)

\* argv[1] is the name of the program.
ParseArgs(argv) ==
    LET read[i \in DOMAIN argv] ==
          IF i = 1 THEN NothingRead ELSE ReadToken(read[i - 1], argv[i])
    IN  read[Len(argv)]

\* checkArgsValid
Valid(read) == ~read.bad /\ ~read.help /\ \A o \in Needed : read.value[o].kind # "unset"

\* Decoder.decode throws: a host is listed twice, or has no port.
Malformed(text) ==
    \/ \E i, j \in DOMAIN text : i # j /\ text[i][1] = text[j][1]
    \/ \E i \in DOMAIN text : text[i][2] = <<>>

\* Decoder.decode: a set of ports per host.
Decode(text) == [h \in Hosts(text) |->
    UNION {Range(text[i][2]) : i \in {j \in DOMAIN text : text[j][1] = h}}]

\* The order in which a std::set or the keys of a std::map are visited.
Ascending(S) ==
    [k \in 1..Cardinality(S) |-> CHOOSE x \in S : Cardinality({y \in S : y < x}) = k - 1]

\* RankAlg.calRank: the entry of rank r is at r + 1.
CalRank(m) == Infos([h \in DOMAIN m |-> Ascending(m[h])], Ascending(DOMAIN m))

\* RankAlg.getRank throws.
Unlisted(world, ip, port) == <<ip, port>> \notin Range(world)

\* RankAlg.getRank
GetRank(world, ip, port) == SelectInSeq(world, LAMBDA info : info = <<ip, port>>) - 1

Exited == [state |-> "exited", rank |-> 0, world |-> <<>>, args |-> <<>>]

\* RDMA_Init up to the construction of RdmaProcess.
RDMAInit(argv) ==
    LET read == ParseArgs(argv)
        ip == read.value["r_myip"].is
        port == read.value["r_myport"].is
        text == read.value["r_hostmap"].is
        world == CalRank(Decode(text))
    IN  IF ~Valid(read) \/ Malformed(text) \/ Unlisted(world, ip, port) THEN Exited
        ELSE [state |-> "up", rank |-> GetRank(world, ip, port), world |-> world,
              args |-> SubSeq(argv, read.last + 1, Len(argv))]

-----------------------------------------------------------------------------
Nodes == DOMAIN job.names
Unread == <<>>      \* no host list yet

Init ==
    /\ job \in Jobs
    /\ stage = [n \in Nodes |-> "new"]
    /\ ports = [n \in Nodes |-> Unread]
    /\ local = [n \in Nodes |-> {}]
    /\ next = [n \in Nodes |-> 0]
    /\ procs = <<>>

\* The host list of the command, or ports chosen for it.
HostPorts ==
    IF job.mode = "ports" THEN {ReadPorts(job.text)}
    ELSE LET np == ReadNumproc(job.text)
         IN  {m \in [DOMAIN np -> UNION {PortSelect(np[h]) : h \in DOMAIN np}] :
                \A h \in DOMAIN np : m[h] \in PortSelect(np[h])}

\* filterHost: one host of the list that is an address of this node.
\* ffrun generate writes the scripts of all hosts.
LocalHosts(n) ==
    IF job.mode = "generate" THEN {Hosts(job.text)}
    ELSE {{h} : h \in Hosts(job.text) \cap job.names[n]}

\* ffrun ends with an error: no host is local, a capacity check panics, a list
\* of ports is empty, or the command of the container is too short.
Fails(n) ==
    \/ LocalHosts(n) = {}
    \/ ~Parsed.ok
    \/ job.mode = "ports" /\ \E i \in DOMAIN job.text : job.text[i][2] = <<>>
    \/ /\ job.mode # "ports"
       /\ \E i \in DOMAIN job.text : Panics(ReadNumproc(job.text)[job.text[i][1]])

Fail(n) ==
    /\ stage[n] = "new" /\ job.mode # "manual" /\ Fails(n)
    /\ stage' = [stage EXCEPT ![n] = "failed"]
    /\ UNCHANGED <<job, ports, local, next, procs>>

\* runCmd and CmdResultGenerator up to the first process.
Prepare(n) ==
    /\ stage[n] = "new" /\ job.mode # "manual" /\ ~Fails(n)
    /\ \E m \in HostPorts : ports' = [ports EXCEPT ![n] = m]
    /\ \E hosts \in LocalHosts(n) : local' = [local EXCEPT ![n] = hosts]
    /\ stage' = [stage EXCEPT ![n] = "running"]
    /\ UNCHANGED <<job, next, procs>>

\* The entries CmdResultGenerator has yet to return.
Ahead(n) == {i \in (next[n] + 1)..Len(CalculateRank(ports[n])) :
               CalculateRank(ports[n])[i][1] \in local[n]}

Started(argv, info) ==
    [argv |-> argv, info |-> info, is |-> [Exited EXCEPT !.state = "started"]]

\* CmdResultGenerator returns the next matching entry; its process is started.
\* Under a container the program sees its own name first.
StartProcess(n) ==
    /\ stage[n] = "running" /\ Ahead(n) # {}
    /\ LET i == CHOOSE j \in Ahead(n) : \A k \in Ahead(n) : j =< k
           info == CalculateRank(ports[n])[i]
       IN  /\ next' = [next EXCEPT ![n] = i]
           /\ \E text \in Strings(ports[n]) :
                 LET argv == ToArgv(info, text)
                     run == SubSeq(argv, Len(job.container) + 1, Len(argv))
                 IN  procs' = [p \in DOMAIN procs \union {<<n, i>>} |->
                        IF p = <<n, i>> THEN Started(run, info) ELSE procs[p]]
    /\ UNCHANGED <<job, stage, ports, local>>

\* CmdResultGenerator has returned all.
AllStarted(n) ==
    /\ stage[n] = "running" /\ Ahead(n) = {}
    /\ stage' = [stage EXCEPT ![n] = "done"]
    /\ UNCHANGED <<job, ports, local, next, procs>>

\* The user starts the processes, with command lines of his own.
StartByHand(n) ==
    /\ stage[n] = "new" /\ job.mode = "manual"
    /\ procs' = [p \in {<<n, i>> : i \in DOMAIN job.argvs} |->
                    Started(job.argvs[p[2]], <<>>)]
    /\ stage' = [stage EXCEPT ![n] = "done"]
    /\ UNCHANGED <<job, ports, local, next>>

\* A process starts with RDMA_Init.
InitProcess(p) ==
    /\ procs[p].is.state = "started"
    /\ procs' = [procs EXCEPT ![p].is = RDMAInit(procs[p].argv)]
    /\ UNCHANGED <<job, stage, ports, local, next>>

\* What ffrun does on all nodes.
Ffrun == \E n \in Nodes : Fail(n) \/ Prepare(n) \/ StartProcess(n) \/ AllStarted(n)
                           \/ StartByHand(n)

-----------------------------------------------------------------------------
(* Properties *)

Up == {p \in DOMAIN procs : procs[p].is.state = "up"}

\* No port is listed twice for a host.
Distinct ==
    job.mode = "ports" => \A h \in Hosts(job.text) : IsInjective(ReadPorts(job.text)[h])

\* The rank a C++ process computes from its command line is the rank the Go
\* program has computed for it (CalculateRank against calRank and getRank):
\* logs and hooks of ffrun are those of the right process.  And in its list of
\* processes it stands there with the address and port it was started for.
\* A port that the user lists twice for a host is two ranks for ffrun only.
RanksAgree ==
    job.mode # "manual" /\ Distinct =>
        \A p \in Up : LET is == procs[p].is
                      IN  /\ is.rank = p[2] - 1
                          /\ is.rank + 1 \in DOMAIN is.world
                          /\ is.world[is.rank + 1] = procs[p].info

\* Every node is one host of the list and every host one node, no port is
\* listed twice.
Proper ==
    /\ job.mode # "manual"
    /\ job.mode # "generate" =>
         /\ \A n \in Nodes : \E h \in Hosts(job.text) : Hosts(job.text) \cap job.names[n] = {h}
         /\ \A h \in Hosts(job.text) :
               \E n \in Nodes : \A q \in Nodes : h \in job.names[q] <=> q = n
    /\ Distinct

\* Where ffrun chooses the ports, it is run once (readme.md): two runs choose
\* different ones.
OneLauncher == job.mode # "ports" => \A n, q \in Nodes : n = q

Finished ==
    /\ \A n \in Nodes : stage[n] = "done"
    /\ \A p \in DOMAIN procs : procs[p].is.state # "started"

\* The number of processes the user asked of ffrun generate or run -H; the
\* capacity check admits one more per host than PortSelect can find a port for.
Asked(size) ==
    job.mode \in {"np", "generate"} =>
        LET np == ReadNumproc(job.text)
        IN  \/ size = Cardinality(UNION {{h} \X (1..np[h]) : h \in DOMAIN np})
            \/ \E h \in DOMAIN np : np[h] > PortLimit - MinPort

\* All processes that were asked for are past RDMA_Init, wherever they were
\* started; they work with the same list of processes, and every rank of it is
\* taken by exactly one.
AsOne ==
    /\ Up = DOMAIN procs /\ Asked(Cardinality(Up))
    /\ \A p, q \in Up :
         /\ procs[p].is.world = procs[q].is.world
         /\ procs[p].is.rank = procs[q].is.rank => p = q
         /\ Len(procs[p].is.world) = Cardinality(Up)

\* A job comes up as a whole or not at all (runCmd, RDMA_Init).
RanksCovered == Proper /\ OneLauncher /\ Finished /\ Up # {} => AsOne

\* The program gets the arguments that were written after --, cut at blanks,
\* with or without a container, and none of the options before it.  Started by
\* ffrun run it gets one empty argument when there are none; in a script of
\* ffrun generate, where the shell cuts the line again (generate.go:33), it gets
\* none, and no empty words either.
ArgsDelivered ==
    job.mode # "manual" => \A p \in Up : procs[p].is.args = Words(job.args)
=============================================================================
