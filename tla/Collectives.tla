---------------------------- MODULE Collectives ----------------------------
(***************************************************************************)
(* The collective operations of src/mpi.cc, run by N processes over one    *)
(* FIFO connection per pair: all but RDMA_Allgatherv_exp, which scales the *)
(* count and displacement arrays of its caller in place (mpi.cc:142-145)   *)
(* and so can be called only once with the same ones.                      *)
(*                                                                         *)
(* Every process makes the calls of the same program, in order.  A call    *)
(* runs a script: the sends, receives and copies of its function for the   *)
(* caller's rank, in the order of the code.  Messages carry no tag, so     *)
(* that a receive gets the message its call sent rests on the order of     *)
(* the scripts alone.                                                      *)
(*                                                                         *)
(* A connection behaves as Channel; send_ blocks while capacity messages   *)
(* are on their way.  The real limit is MDBUFFERSIZE = 50 records, and the *)
(* peer also takes records in when it sends: a small capacity has fewer    *)
(* behaviours than the code, a large one more.                             *)
(***************************************************************************)
EXTENDS Integers, Sequences, Functions

CONSTANTS
    N,          \* number of processes, the size of the root communicator
    Programs,   \* the sequences of calls to consider
    Capacities  \* messages on their way per connection and direction

ASSUME NAssumption == N \in Nat /\ N > 1
ASSUME CapacitiesAssumption == Capacities \subseteq Nat \ {0}

Procs == 0..(N - 1)

(***************************************************************************)
(* A call: its kind, its root and its communicator, a sequence of the root *)
(* ranks of the members (RDMA_Communicator.rootRanks, from rank 0).  The   *)
(* root is a rank of the communicator, and 0 where there is none.          *)
(***************************************************************************)
Kinds == {"Bcast", "Allgather_exp", "Allgather", "Alltoall", "Gather",
          "Scatter", "Reduce", "Allreduce", "Barrier", "SendRecv"}

Size(call) == Len(call.comm)
Ranks(call) == 0..(Size(call) - 1)
Members(call) == {call.comm[i] : i \in DOMAIN call.comm}
RootRank(call, rank) == call.comm[rank + 1]
Rank(call, p) == CHOOSE r \in Ranks(call) : RootRank(call, r) = p

\* The calls have a root in the communicator, and nobody is a member twice or
\* alone.
ASSUME ProgramsAssumption ==
    \A prog \in Programs :
        /\ prog \in Seq([kind : Kinds, root : Nat, comm : Seq(Procs)])
        /\ \A k \in DOMAIN prog :
             /\ prog[k].root \in Ranks(prog[k]) /\ Size(prog[k]) > 1
             /\ IsInjective(prog[k].comm)

(***************************************************************************)
(* A block of data is a sequence of contributions <<call, rank, block>>:   *)
(* which call, whose send buffer, which block of it.  Reduction appends.   *)
(***************************************************************************)
Own(k, rank, i) == <<<<k, rank, i>>>>

-----------------------------------------------------------------------------
(* Scripts.  A buffer is "in" (sendbuf) or "out" (recvbuf, or the buf of a   *)
(* Bcast); i is a block of it; ranks are ranks of the call's communicator.   *)

Snd(rank, buf, i) == <<[act |-> "send", peer |-> rank, buf |-> buf, block |-> i]>>
Rcv(rank, i) == <<[act |-> "recv", peer |-> rank, buf |-> "out", block |-> i]>>
Combine(rank) == <<[act |-> "combine", peer |-> rank, buf |-> "out", block |-> 0]>>
\* memcpy of a block of sendbuf to a block of recvbuf.
Copy(from, i) == <<[act |-> "copy", peer |-> from, buf |-> "out", block |-> i]>>

\* The loop for(i = lo; i <= hi; i++) body[i].
For(lo, hi, body) ==
    LET loop[i \in (lo - 1)..hi] == IF i < lo THEN <<>> ELSE loop[i - 1] \o body[i]
    IN  IF hi < lo THEN <<>> ELSE loop[hi]

\* Fault: the comparison forgets that the last rank is n - 1.
RightPastEnd(n, me, offset) == IF me + offset > n THEN me + offset - n ELSE me + offset

\* RDMA_GetOffsetRank to the right and to the left.
Right(n, me, offset) == IF me + offset > n - 1 THEN me + offset - n ELSE me + offset
Left(n, me, offset) == IF me - offset < 0 THEN me - offset + n ELSE me - offset

\* RDMA_Bcast of block i of buf; the others receive it in the same place.
BcastScript(n, me, root, buf, i) ==
    IF me = root
      THEN For(0, n - 1, [r \in 0..(n - 1) |-> IF r = me THEN <<>> ELSE Snd(r, buf, i)])
      ELSE Rcv(root, i)

\* Fault: receive before the first send.
AllgatherExpScriptRecvFirst(n, me) ==
    For(1, n - 1, [i \in 1..(n - 1) |-> Rcv(Left(n, me, i), Left(n, me, i))
                                        \o Snd(Right(n, me, i), "in", 0)])
    \o Copy(0, me)

\* RDMA_Allgather_exp: one send ahead of the receives.
AllgatherExpScript(n, me) ==
    Snd(Right(n, me, 1), "in", 0) \o Copy(0, me)
    \o For(2, n - 1, [i \in 2..(n - 1) |->
            Snd(Right(n, me, i), "in", 0) \o Rcv(Left(n, me, i - 1), Left(n, me, i - 1))])
    \o Rcv(Left(n, me, n - 1), Left(n, me, n - 1))

\* RDMA_Allgather: a broadcast per rank.
AllgatherScript(n, me) ==
    For(0, n - 1, [i \in 0..(n - 1) |->
        IF i = me THEN BcastScript(n, me, i, "in", 0) \o Copy(0, i)
                  ELSE BcastScript(n, me, i, "out", i)])

\* Fault: the blocks are taken in the order of the loop.
AlltoallScriptByLoop(n, me) ==
    Snd(Right(n, me, 1), "in", Right(n, me, 1)) \o Copy(me, me)
    \o For(2, n - 1, [i \in 2..(n - 1) |->
            Snd(Right(n, me, i), "in", i) \o Rcv(Left(n, me, i - 1), Left(n, me, i - 1))])
    \o Rcv(Left(n, me, n - 1), Left(n, me, n - 1))

AlltoallScript(n, me) ==
    Snd(Right(n, me, 1), "in", Right(n, me, 1)) \o Copy(me, me)
    \o For(2, n - 1, [i \in 2..(n - 1) |->
            Snd(Right(n, me, i), "in", Right(n, me, i))
            \o Rcv(Left(n, me, i - 1), Left(n, me, i - 1))])
    \o Rcv(Left(n, me, n - 1), Left(n, me, n - 1))

GatherScript(n, me, root) ==
    IF me = root
      THEN For(0, n - 1, [i \in 0..(n - 1) |-> IF i = me THEN Copy(0, i) ELSE Rcv(i, i)])
      ELSE Snd(root, "in", 0)

ScatterScript(n, me, root) ==
    IF me = root
      THEN For(0, n - 1, [i \in 0..(n - 1) |-> IF i = me THEN Copy(i, 0) ELSE Snd(i, "in", i)])
      ELSE Rcv(root, 0)

ReduceScript(n, me, root) ==
    IF me = root
      THEN Copy(0, 0)
           \o For(0, n - 1, [i \in 0..(n - 1) |-> IF i = root THEN <<>> ELSE Combine(i)])
      ELSE Snd(root, "in", 0)

\* Fault: rank 0 tells the others to go on before it has heard from all.
BarrierScriptEarly(n, me) ==
    IF me = 0
      THEN For(1, n - 2, [i \in 1..(n - 2) |-> Rcv(i, 0)]) \o BcastScript(n, 0, 0, "out", 0)
           \o Rcv(n - 1, 0)
      ELSE Snd(0, "in", 0) \o Rcv(0, 0)

\* RDMA_Barrier: everybody reports to rank 0, which then broadcasts.
BarrierScript(n, me) ==
    IF me = 0
      THEN For(1, n - 1, [i \in 1..(n - 1) |-> Rcv(i, 0)]) \o BcastScript(n, 0, 0, "out", 0)
      ELSE Snd(0, "in", 0) \o Rcv(0, 0)

\* A call of RDMA_Send at the root for one of RDMA_Recv at the next rank.
SendRecvScript(n, me, root) ==
    IF me = root THEN Snd(Right(n, root, 1), "in", 0)
    ELSE IF me = Right(n, root, 1) THEN Rcv(root, 0) ELSE <<>>

Script(call, p) ==
    LET n == Size(call)
        me == Rank(call, p)
    IN  CASE call.kind = "Bcast" -> BcastScript(n, me, call.root, "in", 0)
          [] call.kind = "Allgather_exp" -> AllgatherExpScript(n, me)
          [] call.kind = "Allgather" -> AllgatherScript(n, me)
          [] call.kind = "Alltoall" -> AlltoallScript(n, me)
          [] call.kind = "Gather" -> GatherScript(n, me, call.root)
          [] call.kind = "Scatter" -> ScatterScript(n, me, call.root)
          [] call.kind = "Reduce" -> ReduceScript(n, me, call.root)
          [] call.kind = "Allreduce" -> ReduceScript(n, me, 0)
                                        \o BcastScript(n, me, 0, "out", 0)
          [] call.kind = "Barrier" -> BarrierScript(n, me)
          [] call.kind = "SendRecv" -> SendRecvScript(n, me, call.root)

-----------------------------------------------------------------------------
VARIABLES
    program,    \* the calls that every process makes
    capacity,   \* how many messages a connection holds
    at,         \* at[p]: calls that p has begun (or that do not concern it)
    rest,       \* rest[p]: the steps of its current call still to do
    out,        \* out[p]: the blocks of its receive buffer
    chan,       \* chan[p][q]: messages from p to q on their way
    results     \* results[p]: the receive buffers of its finished calls

env == <<program, capacity>>
vars == <<env, at, rest, out, chan, results>>

Call(p) == program[at[p]]

\* p is in a call, or has returned from it: Len(results[p]) says which.
InCall(p) == Len(results[p]) < at[p]

Blank == [i \in Procs |-> <<>>]

Init ==
    /\ program \in Programs
    /\ capacity \in Capacities
    /\ at = [p \in Procs |-> 0]
    /\ rest = [p \in Procs |-> <<>>]
    /\ out = [p \in Procs |-> Blank]
    /\ chan = [p \in Procs |-> [q \in Procs |-> <<>>]]
    /\ results = [p \in Procs |-> <<>>]

\* The next call; one on a communicator without p is not p's.
Begin(p) ==
    /\ ~InCall(p) /\ at[p] < Len(program)
    /\ at' = [at EXCEPT ![p] = @ + 1]
    /\ rest' = [rest EXCEPT ![p] =
                  LET call == program[at[p] + 1] IN
                    IF p \in Members(call) THEN Script(call, p) ELSE <<>>]
    /\ out' = [out EXCEPT ![p] = Blank]
    /\ UNCHANGED <<env, chan, results>>

Step(p) == Head(rest[p])
Todo(p, act) == rest[p] # <<>> /\ Step(p).act = act
Done(p) == rest' = [rest EXCEPT ![p] = Tail(@)]

\* Fault: a rank of the communicator is taken for a root rank.
PeerUntranslated(p) == Step(p).peer

\* RDMA_Socket: the process behind a rank of the communicator.
Peer(p) == RootRank(Call(p), Step(p).peer)

\* The data a step of p reads from its own buffers.
Data(p, buf, i) ==
    IF buf = "out" THEN out[p][i] ELSE Own(at[p], Rank(Call(p), p), i)

SendStep(p) ==
    /\ Todo(p, "send")
    /\ Len(chan[p][Peer(p)]) < capacity
    /\ chan' = [chan EXCEPT ![p][Peer(p)] =
                  Append(@, [call |-> at[p],
                             data |-> Data(p, Step(p).buf, Step(p).block)])]
    /\ Done(p)
    /\ UNCHANGED <<env, at, out, results>>

RecvStep(p) ==
    /\ Todo(p, "recv") \/ Todo(p, "combine")
    /\ LET q == Peer(p) IN
         /\ chan[q][p] # <<>>
         /\ out' = [out EXCEPT ![p][Step(p).block] =
                      IF Step(p).act = "combine" THEN @ \o Head(chan[q][p]).data
                                                 ELSE Head(chan[q][p]).data]
         /\ chan' = [chan EXCEPT ![q][p] = Tail(@)]
    /\ Done(p)
    /\ UNCHANGED <<env, at, results>>

CopyStep(p) ==
    /\ Todo(p, "copy")
    /\ out' = [out EXCEPT ![p][Step(p).block] = Data(p, "in", Step(p).peer)]
    /\ Done(p)
    /\ UNCHANGED <<env, at, chan, results>>

Return(p) ==
    /\ InCall(p) /\ rest[p] = <<>>
    /\ results' = [results EXCEPT ![p] = Append(@, out[p])]
    /\ UNCHANGED <<env, at, rest, out, chan>>

Finished == \A p \in Procs : ~InCall(p) /\ at[p] = Len(program)

\* All have made all calls: the processes exit.
Exit == Finished /\ UNCHANGED vars

Process(p) == Begin(p) \/ SendStep(p) \/ RecvStep(p) \/ CopyStep(p) \/ Return(p)

Next == (\E p \in Procs : Process(p)) \/ Exit

Spec == Init /\ [][Next]_vars

\* Fairness: every process that can take a step takes it.
FairSpec == Spec /\ \A p \in Procs : WF_vars(Process(p))

-----------------------------------------------------------------------------
TypeOK ==
    /\ program \in Programs /\ capacity \in Capacities
    /\ at \in [Procs -> 0..Len(program)]
    /\ \A p \in Procs :
          /\ Len(results[p]) \in {at[p], at[p] - 1}
          /\ DOMAIN out[p] = Procs
          /\ \A i \in DOMAIN rest[p] : rest[p][i].peer \in Ranks(Call(p))
          /\ \A q \in Procs : Len(chan[p][q]) =< capacity

\* Reference: the operation puts block j of the send buffer of rank
\* r into block i of the receive buffer of rank me, for each <<i, r, j>>.
Moves(call, me) ==
    CASE call.kind = "Bcast" ->
            IF me # call.root THEN {<<0, call.root, 0>>} ELSE {}
      [] call.kind \in {"Allgather", "Allgather_exp"} ->
            {<<r, r, 0>> : r \in Ranks(call)}
      [] call.kind = "Alltoall" -> {<<r, r, me>> : r \in Ranks(call)}
      [] call.kind = "Gather" ->
            IF me = call.root THEN {<<r, r, 0>> : r \in Ranks(call)} ELSE {}
      [] call.kind = "Scatter" -> {<<0, call.root, me>>}
      [] call.kind = "SendRecv" ->
            IF me = (call.root + 1) % Size(call) THEN {<<0, call.root, 0>>} ELSE {}

\* Each rank contributed once, whatever the order.
AllCombined(k, block) ==
    /\ Len(block) = Size(program[k])
    /\ \A r \in Ranks(program[k]) : \E j \in DOMAIN block : block[j] = <<k, r, 0>>

CorrectResult(k, p) ==
    LET call == program[k]
        me == Rank(call, p)
        block == results[p][k]
    IN  CASE call.kind = "Barrier" -> TRUE
          [] call.kind = "Reduce" -> me = call.root => AllCombined(k, block[0])
          [] call.kind = "Allreduce" ->
                /\ AllCombined(k, block[0])
                /\ \A q \in Members(call) :
                      Len(results[q]) >= k => results[q][k][0] = block[0]
          [] OTHER ->
                \A i \in Procs :
                    LET here == {m \in Moves(call, me) : m[1] = i} IN
                      IF here = {} THEN block[i] = <<>>
                      ELSE \A m \in here : block[i] = Own(k, m[2], m[3])

(***************************************************************************)
(* RDMA_Bcast, Allgather_exp, Allgather, Alltoall, Gather, Scatter,        *)
(* Reduce, Allreduce, Send and Recv leave in each receive buffer exactly   *)
(* the blocks it should hold, whatever calls came before without any       *)
(* synchronisation.  Blocks have one size, a count is what both sides of a *)
(* message say; nothing is claimed of RDMA_Allgatherv_exp.                 *)
(***************************************************************************)
ResultsCorrect ==
    \A p \in Procs : \A k \in 1..Len(results[p]) :
        p \in Members(program[k]) => CorrectResult(k, p)

(***************************************************************************)
(* A process receives only messages that were sent in the same call: a     *)
(* fast process may run ahead of the others, its messages wait their turn. *)
(***************************************************************************)
CallsMatched ==
    [][\A p, q \in Procs :
          chan[q][p] # <<>> /\ chan'[q][p] = Tail(chan[q][p])
             => Head(chan[q][p]).call = at[p]]_vars

(***************************************************************************)
(* A barrier separates: when a process has returned from it, all members   *)
(* have entered it.                                                        *)
(***************************************************************************)
BarrierSeparates ==
    \A k \in DOMAIN program : program[k].kind = "Barrier" =>
        \A p, q \in Members(program[k]) : Len(results[p]) >= k => at[q] >= k

\* Every program comes to its end on every process, and no message is left over
\* for whatever follows.
Termination == <>(Finished /\ \A p, q \in Procs : chan[p][q] = <<>>)
=============================================================================
