------------------------------ MODULE MCSetup ------------------------------
(* Model-checking instances of Setup. *)
EXTENDS Setup

\* The ranks reconnect in pairs, as in test/process/hello_4.cc, twice.
Partner(p) == IF p % 2 = 0 THEN p + 1 ELSE p - 1
Twice == [p \in Procs |-> IF Partner(p) \in Procs THEN <<Partner(p), Partner(p)>>
                                                  ELSE <<>>]

\* All lower ranks reconnect to the last one, which expects them in order.
ToLast == [p \in Procs |-> IF p = N - 1 THEN [i \in 1..p |-> i - 1]
                                        ELSE <<N - 1>>]

Both == {Twice, ToLast}
OnlyTwice == {Twice}
=============================================================================
