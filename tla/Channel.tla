------------------------------ MODULE Channel ------------------------------
(***************************************************************************)
(* What a connected pair of rsocket endpoints promises to the code above   *)
(* it (mpi.cc, receiver.cpp): messages accepted by send_ at one end are    *)
(* returned by recv_ or irecv_ at the other end, each exactly once and in  *)
(* the order in which they were sent.  RSocket implements this module.     *)
(***************************************************************************)
EXTENDS Naturals, Sequences

CONSTANTS
    Ends,       \* the two endpoints of the connection
    Msg         \* what a message can carry

VARIABLES
    sent,       \* sent[e]: the messages send_ was called with at e, in order
    delivered   \* delivered[e]: the messages recv_/irecv_ returned at e

vars == <<sent, delivered>>

Peer(e) == CHOOSE p \in Ends : p # e

Init == /\ sent = [e \in Ends |-> <<>>]
        /\ delivered = [e \in Ends |-> <<>>]

Send(e, m) == /\ sent' = [sent EXCEPT ![e] = Append(@, m)]
              /\ UNCHANGED delivered

\* The next message the peer sent is returned to the caller.
Receive(e) ==
    /\ Len(delivered[e]) < Len(sent[Peer(e)])
    /\ delivered' = [delivered EXCEPT
                       ![e] = Append(@, sent[Peer(e)][Len(@) + 1])]
    /\ UNCHANGED sent

Next == \E e \in Ends : Receive(e) \/ \E m \in Msg : Send(e, m)

Spec == Init /\ [][Next]_vars

\* What was delivered at one end is a prefix of what the other end sent.
InOrder == \A e \in Ends :
    /\ Len(delivered[e]) =< Len(sent[Peer(e)])
    /\ \A i \in DOMAIN delivered[e] : delivered[e][i] = sent[Peer(e)][i]
=============================================================================
