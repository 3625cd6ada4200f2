------------------------------- MODULE World -------------------------------
(***************************************************************************)
(* A job from the ffrun command to the communicators of its processes:     *)
(* Launch starts the processes and gives them their ranks, Comm is what    *)
(* they do with the ranks.  RDMA_Init hands the rank and the list of       *)
(* processes over (RdmaProcess::Init, setupRootCommWorld) and returns when *)
(* the process is connected to every other one, which module Setup         *)
(* examines; here nobody returns before all ranks are there.               *)
(***************************************************************************)
EXTENDS Launch, Comm

CONSTANT Runs     \* which commands start which programs

worldVars == <<vars, commVars>>

WorldInit == Init /\ CommInit /\ [job |-> job, program |-> program] \in Runs

\* RDMA_Init of one process: it joins as the rank it has computed, or exits.
\* Two of the same rank, both started by hand, are two jobs; Comm follows one.
Join(p) ==
    /\ InitProcess(p)
    /\ LET is == procs'[p].is
       IN  IF is.state = "up" /\ pool[is.rank] = <<>> THEN SetupRoot(is.rank, Len(is.world))
           ELSE UNCHANGED commVars

\* A process that has returned from RDMA_Init works with its communicators.
Work(r) ==
    /\ Connected(r) /\ CommNext(r)
    /\ UNCHANGED vars

WorldNext == \/ Ffrun /\ UNCHANGED commVars
             \/ \E p \in DOMAIN procs : Join(p)
             \/ \E r \in Procs : Work(r)

\* A process that runs goes on.
WorldSpec == /\ WorldInit /\ [][WorldNext]_worldVars
             /\ \A r \in Procs : WF_worldVars(Work(r))

-----------------------------------------------------------------------------
(* Properties *)

\* The number of processes that one of the processes counts.
Size == IF Up = {} THEN 0 ELSE Len(procs[CHOOSE p \in Up : TRUE].is.world)

\* The processes of one ffrun job join it, and work in it, as one job of Comm:
\* all with the same number of processes, each under a rank of its own.
JoinsAgree ==
    [][Proper /\ OneLauncher =>
        /\ \A p \in Up' : Len(procs'[p].is.world) = Size'
        /\ JobNext(Size')]_commVars

Idle(r) == step[r] = Len(program)
Alone(r) == pc[r] = "crashed" /\ Entry(r, From(r)).commWorldSize = 1

\* A connected job comes to the end of its splits: the only thing that stops it
\* is a process that splits a communicator in which it is alone, which
\* RDMA_Allgather_exp does not survive.
SplitsEnd ==
    (\E r \in Procs : Connected(r)) ~>
        \A r \in Procs : pool[r] # <<>> => Idle(r) \/ \E q \in Procs : Alone(q)
=============================================================================
