------------------------------ MODULE Mailbox ------------------------------
(***************************************************************************)
(* What a Receiver promises (rsocket/README.md, the functions              *)
(* receiver_bind and receiver_recv): the frames of a connection come in    *)
(* order, each once, and the frames of one multi-frame message are not     *)
(* separated by frames of other connections, unless the connection closes  *)
(* in the middle of it.                                                    *)
(***************************************************************************)
EXTENDS Naturals, Sequences, FiniteSets

CONSTANTS
    Conns,      \* the connections of the receiver
    Frame       \* a frame: [from, n, more], the n-th one of a connection

VARIABLES
    acked,      \* acked[c]: frames taken from connection c, in order
    closed,     \* closed[c]: connection c has ended
    delivered   \* what receiver_recv returned, in order

vars == <<acked, closed, delivered>>

Init == /\ acked = [c \in Conns |-> <<>>]
        /\ closed = [c \in Conns |-> FALSE]
        /\ delivered = <<>>

\* Some frames arrive; their sender knows that they did.
Put == /\ acked' \in [Conns -> Seq(Frame)]
       /\ \A c \in Conns :
             /\ SubSeq(acked'[c], 1, Len(acked[c])) = acked[c]
             /\ closed[c] => acked'[c] = acked[c]
       /\ UNCHANGED <<closed, delivered>>

Close(c) == /\ closed' = [closed EXCEPT ![c] = TRUE]
            /\ UNCHANGED <<acked, delivered>>

\* How many frames of c were returned.
Count(c) == Cardinality({i \in DOMAIN delivered : delivered[i].from = c})

\* The last message returned is complete, or cut off, or c's.
MayTurnTo(c) ==
    \/ delivered = <<>>
    \/ LET f == delivered[Len(delivered)] IN ~f.more \/ closed[f.from] \/ f.from = c

Get(c) == /\ Count(c) < Len(acked[c])
          /\ MayTurnTo(c)
          /\ delivered' = Append(delivered, acked[c][Count(c) + 1])
          /\ UNCHANGED <<acked, closed>>

Next == Put \/ \E c \in Conns : Close(c) \/ Get(c)

Spec == Init /\ [][Next]_vars
=============================================================================
