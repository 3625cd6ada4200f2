------------------------------ MODULE Teardown ------------------------------
(***************************************************************************)
(* What the end of a connection is to its two ends: each disconnects only  *)
(* when one of them has asked for it, destroys what it has for the         *)
(* connection after that and once, and frees the socket last.  A process   *)
(* may be killed before that: it counts as one that has asked.             *)
(***************************************************************************)
CONSTANT Ends

VARIABLES
    asked,      \* the ends that have called rdma_disconnect
    life        \* life[e]: what e has of the connection

Init == asked = {} /\ life = [e \in Ends |-> "open"]

Ask(e) ==
    /\ asked' = asked \union {e}
    /\ life' = [life EXCEPT ![e] = IF @ = "open" THEN "down" ELSE @]

\* The queue pair fails because the other end is there no longer.
Drop(e) ==
    /\ life[e] = "open" /\ asked # {}
    /\ life' = [life EXCEPT ![e] = "down"]
    /\ UNCHANGED asked

Destroy(e) ==
    /\ life[e] = "down" /\ e \in asked
    /\ life' = [life EXCEPT ![e] = "destroyed"]
    /\ UNCHANGED asked

Free(e) ==
    /\ life[e] = "destroyed"
    /\ life' = [life EXCEPT ![e] = "freed"]
    /\ UNCHANGED asked

Crash(e) ==
    /\ life[e] \notin {"freed", "crashed"}
    /\ asked' = asked \union {e}
    /\ life' = [life EXCEPT ![e] = "crashed"]

Next == \E e \in Ends : Ask(e) \/ Drop(e) \/ Destroy(e) \/ Free(e) \/ Crash(e)

Spec == Init /\ [][Next]_<<asked, life>>
=============================================================================
