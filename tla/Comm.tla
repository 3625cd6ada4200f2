-------------------------------- MODULE Comm --------------------------------
(***************************************************************************)
(* Communicators: RDMA_Comm_split and RDMA_Comm_free of src/fmpi.cc,       *)
(* splitComm of src/process.cc, the tables of include/comm.hpp.            *)
(*                                                                         *)
(* A communicator exists once per member, as an entry of the member's      *)
(* m_commPool, and its handle is the place there; the entries of one       *)
(* communicator need not have the same handle.  No message carries a       *)
(* communicator: a process tells its messages apart by their order only.   *)
(*                                                                         *)
(* All processes run the same program, a list of splits.  The k-th one     *)
(* splits the communicators that the step `on` has made (0: the root), but *)
(* only members with a color in `who` call it.  Ranks of the root are the  *)
(* names of the processes.                                                 *)
(***************************************************************************)
EXTENDS Integers, FiniteSets, Sequences, Functions

CONSTANTS
    Procs,        \* the root ranks there may be
    Programs,     \* the programs of a run
    Ties          \* priorities per position by which std::sort may order equal keys

UNDEFINED == -1   \* RDMA_UNDEFINED

\* A call of RDMA_Comm_split: the asserts there want no other color and key.
SplitCall ==
    [on : Nat, who : SUBSET (Nat \union {UNDEFINED}),
     color : [Procs -> Nat \union {UNDEFINED}], key : [Procs -> Nat], free : BOOLEAN]

ASSUME ProcsAssumption == Procs \subseteq Nat /\ IsFiniteSet(Procs)

ASSUME ProgramsAssumption ==
    \A prog \in Programs :
        prog \in Seq(SplitCall) /\ \A k \in DOMAIN prog : prog[k].on < k

ASSUME TiesAssumption ==
    \A f \in Ties : f \in [1..Cardinality(Procs) -> Nat] /\ IsInjective(f)

VARIABLES
    program,      \* what all processes execute
    tie,          \* how std::sort orders equal keys: a priority per position
    pool,         \* m_commPool: the communicators of a process
    handle,       \* handle[p][k]: what step k - 1 gave p, 0 is the root
    step,         \* the steps p has behind it
    pc,           \* where p stands in RDMA_Comm_split
    chan,         \* chan[p][q]: messages on the way from p to q
    made          \* made[p][i]: the step that made pool[p][i] and the handle it split

commVars == <<program, tie, pool, handle, step, pc, chan, made>>

Root == 0

\* The rank of m among the members.
Place(members, m) == (CHOOSE i \in DOMAIN members : members[i] = m) - 1

\* RDMA_Communicator after setRank for every member, from the members' root
\* ranks in the order of their new ranks.
Communicator(color, members, me, world) ==
    [color |-> color,
     commWorldSize |-> Len(members),
     commRanks |-> [r \in 0..(world - 1) |->
        IF r \in Range(members) THEN Place(members, r) ELSE -1],
     rootRanks |-> [c \in 0..(world - 1) |->
        IF c < Len(members) THEN members[c + 1] ELSE -1],
     myCommRank |-> Place(members, me)]

World(p) == pool[p][1].commWorldSize
Entry(p, h) == pool[p][h + 1]

\* The other members of the communicator with handle h, by their root ranks.
Others(p, h) ==
    {Entry(p, h).rootRanks[c] : c \in 0..(Entry(p, h).commWorldSize - 1)} \ {p}

Message(config, k) == [config |-> config, step |-> k]

CommInit ==
    /\ program \in Programs
    /\ tie \in Ties
    /\ pool = [p \in Procs |-> <<>>]
    /\ handle = [p \in Procs |-> <<Root>>]
    /\ step = [p \in Procs |-> 0]
    /\ pc = [p \in Procs |-> "out"]
    /\ chan = [p \in Procs |-> [q \in Procs |-> <<>>]]
    /\ made = [p \in Procs |-> <<[step |-> 0, from |-> Root]>>]

\* setupRootCommWorld of a process with rank p in a world of n.
SetupRoot(p, n) ==
    /\ pc[p] = "out"
    /\ pool' = [pool EXCEPT ![p] =
                  <<Communicator(0, [i \in 1..n |-> i - 1], p, n)>>]
    /\ pc' = [pc EXCEPT ![p] = "run"]
    /\ UNCHANGED <<program, tie, handle, step, chan, made>>

-----------------------------------------------------------------------------
(* RDMA_Comm_split *)

Now(p) == program[step[p] + 1]
From(p) == handle[p][Now(p).on + 1]
Config(p) == [color |-> Now(p).color[p], key |-> Now(p).key[p]]

\* Does p call the step at all?
Called(p) == From(p) >= 0 /\ Entry(p, From(p)).color \in Now(p).who

\* The call, or no call: the handle is -1 then, as after RDMA_Comm_free.
NextStep(p, h) ==
    /\ handle' = [handle EXCEPT ![p] = Append(@, h)]
    /\ step' = [step EXCEPT ![p] = @ + 1]

Skip(p) ==
    /\ pc[p] = "run" /\ step[p] < Len(program) /\ ~Called(p)
    /\ NextStep(p, -1)
    /\ UNCHANGED <<program, tie, pool, pc, chan, made>>

Sent(p, to, m) ==
    chan' = [chan EXCEPT ![p] = [q \in Procs |-> IF q \in to THEN Append(@[q], m) ELSE @[q]]]

\* RDMA_Allgather_exp over the parent: every member sends its color and key to
\* every other one.  A single member has nobody but itself to send to and ends
\* at the null entry of m_socketPool.
CommSplit(p) ==
    /\ pc[p] = "run" /\ step[p] < Len(program) /\ Called(p)
    /\ IF Others(p, From(p)) = {}
       THEN /\ pc' = [pc EXCEPT ![p] = "crashed"]
            /\ UNCHANGED chan
       ELSE /\ Sent(p, Others(p, From(p)), Message(Config(p), step[p] + 1))
            /\ pc' = [pc EXCEPT ![p] = "gather"]
    /\ UNCHANGED <<program, tie, pool, handle, step, made>>

\* What RDMA_Allgather_exp returns, by rank in the parent.
Gathered(p) ==
    LET parent == Entry(p, From(p))
        member(i) == parent.rootRanks[i - 1]
    IN  [i \in 1..parent.commWorldSize |->
           IF member(i) = p THEN Config(p) ELSE Head(chan[member(i)][p]).config]

\* The members of the parent, by their rank there, with the color of the caller.
SameColor(parent, configs) ==
    {i \in DOMAIN configs : configs[i].color = configs[parent.myCommRank + 1].color}

\* Their root ranks in a new order: rank[i] is the new rank of i.
InOrder(parent, rank) ==
    [r \in 1..Cardinality(DOMAIN rank) |->
        parent.rootRanks[(CHOOSE i \in DOMAIN rank : rank[i] = r - 1) - 1]]

\* Fault: the process itself comes first among equal keys.
MembersOwnFirst(parent, configs) ==
    LET me == parent.myCommRank + 1
        same == SameColor(parent, configs)
        before(i, j) == \/ configs[i].key < configs[j].key
                        \/ configs[i].key = configs[j].key /\ i # j
                             /\ (i = me \/ (j # me /\ tie[i] < tie[j]))
    IN  IF configs[me].color = UNDEFINED THEN <<parent.rootRanks[me - 1]>>
        ELSE InOrder(parent, [i \in same |-> Cardinality({j \in same : before(j, i)})])

\* Fault: the members are not sorted.
MembersUnsorted(parent, configs) ==
    LET me == parent.myCommRank + 1
        same == SameColor(parent, configs)
    IN  IF configs[me].color = UNDEFINED THEN <<parent.rootRanks[me - 1]>>
        ELSE InOrder(parent, [i \in same |-> Cardinality({j \in same : j < i})])

\* std::sort may order equal keys in any way, but the same on every process:
\* its input is the same.
Before(configs, i, j) ==
    \/ configs[i].key < configs[j].key
    \/ configs[i].key = configs[j].key /\ tie[i] < tie[j]

\* splitComm: the members with my color, sorted by key.
Members(parent, configs) ==
    LET me == parent.myCommRank + 1
        same == SameColor(parent, configs)
    IN  IF configs[me].color = UNDEFINED THEN <<parent.rootRanks[me - 1]>>
        ELSE InOrder(parent, [i \in same |-> Cardinality({j \in same : Before(configs, j, i)})])

Received(p, from, ch) ==
    [q \in Procs |-> IF q \in from THEN [ch[q] EXCEPT ![p] = Tail(@)] ELSE ch[q]]

\* The all-gather returns, splitComm makes the entry, and RDMA_Barrier begins:
\* everybody but rank 0 of the parent reports to that rank.
Gather(p) ==
    LET parent == Entry(p, From(p))
        others == Others(p, From(p))
        root == parent.rootRanks[0]
        left == Received(p, others, chan)
        report == Message([color |-> UNDEFINED, key |-> 0], step[p] + 1)
    IN  /\ pc[p] = "gather"
        /\ \A q \in others : chan[q][p] # <<>>
        /\ pool' = [pool EXCEPT ![p] = Append(@,
              Communicator(Config(p).color, Members(parent, Gathered(p)), p, World(p)))]
        /\ made' = [made EXCEPT ![p] = Append(@, [step |-> step[p] + 1, from |-> From(p)])]
        /\ chan' = IF p = root THEN left
                   ELSE [left EXCEPT ![p][root] = Append(@, report)]
        /\ pc' = [pc EXCEPT ![p] = "barrier"]
        /\ UNCHANGED <<program, tie, handle, step>>

\* Fault: everybody waits for everybody.
AwaitedAll(p) == Others(p, From(p))

\* Those whose next message p takes: in the barrier rank 0 takes the reports,
\* the others the answer of rank 0.
Awaited(p) ==
    LET root == Entry(p, From(p)).rootRanks[0]
    IN  IF pc[p] = "gather" \/ p = root THEN Others(p, From(p)) ELSE {root}

\* Fault: rank 0 answers without waiting for the reports.
BarrierRootDeaf(p) ==
    LET root == Entry(p, From(p)).rootRanks[0]
        others == Others(p, From(p))
        from == IF p = root THEN {} ELSE {root}
        left == Received(p, from, chan)
        answer == Message([color |-> UNDEFINED, key |-> 0], step[p] + 1)
    IN  /\ pc[p] = "barrier"
        /\ \A q \in from : chan[q][p] # <<>>
        /\ chan' = IF p # root THEN left
                   ELSE [left EXCEPT ![p] = [q \in Procs |->
                           IF q \in others THEN Append(@[q], answer) ELSE @[q]]]
        /\ NextStep(p, Len(pool[p]) - 1)
        /\ pc' = [pc EXCEPT ![p] = "run"]
        /\ UNCHANGED <<program, tie, pool, made>>

\* The end of RDMA_Barrier: rank 0 has all reports and answers, the others
\* have the answer.  RDMA_Comm_split returns the place of the new entry.
Barrier(p) ==
    LET root == Entry(p, From(p)).rootRanks[0]
        from == Awaited(p)
        left == Received(p, from, chan)
        answer == Message([color |-> UNDEFINED, key |-> 0], step[p] + 1)
    IN  /\ pc[p] = "barrier"
        /\ \A q \in from : chan[q][p] # <<>>
        /\ chan' = IF p # root THEN left
                   ELSE [left EXCEPT ![p] = [q \in Procs |->
                           IF q \in from THEN Append(@[q], answer) ELSE @[q]]]
        /\ NextStep(p, Len(pool[p]) - 1)
        /\ pc' = [pc EXCEPT ![p] = "run"]
        /\ UNCHANGED <<program, tie, pool, made>>

\* RDMA_Comm_free sets the caller's handle to -1 and leaves the entry.
Free(p) ==
    /\ pc[p] = "run"
    /\ \E k \in 2..Len(handle[p]) :
         /\ handle[p][k] >= 0 /\ program[k - 1].free
         /\ \A i \in (step[p] + 1)..Len(program) : program[i].on # k - 1
         /\ handle' = [handle EXCEPT ![p][k] = -1]
    /\ UNCHANGED <<program, tie, pool, step, pc, chan, made>>

CommNext(p) == Skip(p) \/ CommSplit(p) \/ Gather(p) \/ Barrier(p) \/ Free(p)

\* Rank r is connected with all others.
Connected(r) == pool[r] # <<>> /\ \A q \in 0..(World(r) - 1) : pool[q] # <<>>

\* A job of n processes: RDMA_Init lets nobody on before all are there.
JobNext(n) ==
    \E p \in 0..(n - 1) : \/ SetupRoot(p, n)
                          \/ Connected(p) /\ CommNext(p)

JobSpec(n) == CommInit /\ [][JobNext(n)]_commVars

-----------------------------------------------------------------------------
(* Properties *)

Group(e) == {e.rootRanks[c] : c \in 0..(e.commWorldSize - 1)}

\* Whoever made a communicator in a step has the same one as every other
\* member that has: the same members with the same ranks, also where
\* std::sort was free to order equal keys, and also where their handles
\* differ.  Both tables say the same (splitComm, setRank).
GroupsAgree ==
    \A p \in Procs : \A i \in DOMAIN pool[p] :
        LET e == pool[p][i]
        IN  /\ e.commRanks[p] = e.myCommRank /\ e.rootRanks[e.myCommRank] = p
            /\ \A r \in Group(e) : e.rootRanks[e.commRanks[r]] = r
            /\ \A q \in Group(e) : \A j \in DOMAIN pool[q] :
                 made[q][j].step = made[p][i].step =>
                     pool[q][j] = [e EXCEPT !.myCommRank = pool[q][j].myCommRank]

\* A split yields the members of the parent with the caller's color, in the
\* order of their keys, or the caller alone for RDMA_UNDEFINED: nobody has
\* taken the color or key of another step or another rank.  And it may be used
\* at once: the barrier at its end lets nobody go before every member of the
\* parent has made its entry.
SplitRight ==
    \A p \in Procs : \A i \in DOMAIN pool[p] \ {1} :
        LET e == pool[p][i]
            parent == pool[p][made[p][i].from + 1]
            call == program[made[p][i].step]
        IN  /\ e.color = call.color[p]
            /\ Group(e) = IF e.color = UNDEFINED THEN {p}
                            ELSE {q \in Group(parent) : call.color[q] = e.color}
            /\ \A q, r \in Group(e) :
                 call.key[q] < call.key[r] => e.commRanks[q] < e.commRanks[r]
            /\ made[p][i].step =< step[p] =>
                 \A q \in Group(parent) :
                    \E j \in DOMAIN pool[q] : made[q][j].step = made[p][i].step

\* What a process is about to take was sent in the step it is in, though no
\* message says to which communicator and operation it belongs.
NoMixup ==
    \A p \in Procs : pc[p] \in {"gather", "barrier"} =>
        \A q \in Awaited(p) :
            chan[q][p] # <<>> => Head(chan[q][p]).step = step[p] + 1
=============================================================================
