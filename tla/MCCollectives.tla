--------------------------- MODULE MCCollectives ---------------------------
(* Model-checking instances of Collectives. *)
EXTENDS Collectives

World == [i \in 1..N |-> i - 1]

\* The last and the first process, in this order: rank 0 is process N - 1.
Pair == <<N - 1, 0>>

Rooted == {"Bcast", "Gather", "Scatter", "Reduce", "SendRecv"}

CallsOn(comm) ==
    [kind : Rooted, root : 0..(Len(comm) - 1), comm : {comm}]
    \cup [kind : Kinds \ Rooted, root : {0}, comm : {comm}]

\* One call of each kind, with the middle process as the root.
OneOfEach == {call \in CallsOn(World) : call.root = IF call.kind \in Rooted THEN 1 ELSE 0}

\* Any two calls on the root communicator.
Pairs == {<<a, b>> : a, b \in CallsOn(World)}

\* A call on the root communicator, one on the pair, the first one again.
Mixed == {<<a, b, a>> : a \in OneOfEach, b \in CallsOn(Pair)}

\* A call, a barrier, the call again.
Barriers == {<<a, [kind |-> "Barrier", root |-> 0, comm |-> World], a>> :
                a \in OneOfEach}

SomePrograms == Pairs \cup Mixed \cup Barriers
=============================================================================
