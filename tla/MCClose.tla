------------------------------ MODULE MCClose ------------------------------
(* A model-checking instance of Close. *)
EXTENDS Close

CONSTANTS e1, e2

\* What the ends do with the connection before they close it.
Uses == { <<<<>>, <<>>>>,
          <<<<>>, <<"recv", "irecv">>>>,
          <<<<"send">>, <<"send">>>>,
          <<<<"recv">>, <<"send", "irecv">>>> }

SomePrograms ==
    {[e \in Ends |-> Append(IF e = Client THEN uses[1] ELSE uses[2], "close")] : uses \in Uses}
=============================================================================
