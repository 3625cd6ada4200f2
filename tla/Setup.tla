-------------------------------- MODULE Setup --------------------------------
(***************************************************************************)
(* How the processes of a program get connected and reconnected: setup,    *)
(* reconnect and what they call in src/process.cc, connect_ and accept_ of *)
(* rsocket/src/rdma_socket.cpp, createConnectToServer of src/utils/        *)
(* socket.cc.                                                              *)
(*                                                                         *)
(* Every process listens (rank 0 does not), connects to every higher rank, *)
(* one after the other, then accepts as many connections as there are      *)
(* lower ranks.  connect_ returns only when the other side has taken the   *)
(* request in accept_, so the processes wait for each other.               *)
(*                                                                         *)
(* Connections are numbered in the order of their acceptance.  The         *)
(* connection manager is external: it rejects a request if nobody listens  *)
(* and otherwise keeps it until it is taken; it does not time out.         *)
(*                                                                         *)
(* reconnect closes the old connection, at both ends at once, before it    *)
(* stores the new one.  Module Close has what close_ does: here it returns *)
(* or does not, because it polls or waits for ever (the process stays, but *)
(* does nothing any more) or because what is destroyed is used (the        *)
(* process may be gone).                                                   *)
(***************************************************************************)
EXTENDS Naturals, Sequences

CONSTANTS
    N,            \* number of processes
    Retries,      \* how often setup retries a connection (10 in the code)
    ReRetries,    \* how often reconnect does (5 in the code)
    Programs,     \* program[p]: the ranks p calls reconnect with, in order
    Barrier       \* does the program call RDMA_Barrier before that?

ASSUME NAssumption == N \in Nat /\ N > 1
ASSUME RetriesAssumption == Retries \in Nat /\ ReRetries \in Nat
ASSUME BarrierAssumption == Barrier \in BOOLEAN

Procs == 0..(N - 1)
None == N     \* no process

ASSUME ProgramsAssumption ==
    \A calls \in Programs :
        /\ calls \in [Procs -> Seq(Procs)]
        /\ \A p \in Procs : \A i \in DOMAIN calls[p] : calls[p][i] # p

VARIABLES
    program,    \* what the processes do after setup
    late,       \* may a process listen only when others have given up?
    state,      \* where a process stands
    target,     \* the rank it connects to, or expects in reconnect
    link,       \* the attempt it makes as a client
    retry,      \* retryCnt
    listening,  \* m_listenSocket listens
    inbox,      \* connection requests in the channel of the listener
    serving,    \* the connection accept_ works on, 0 for none
    accepted,   \* connections accepted in setupAccept
    client,     \* client[n]: who requested connection n
    named,      \* connections whose client has sent its rank
    pool,       \* m_socketPool: a connection or 0 (nullptr) per rank
    fresh,      \* the connection reconnect has made and not stored yet, or 0
    redone      \* calls of reconnect that have returned

env == <<program, late>>
cm == <<inbox, serving, client, named>>
socks == <<pool, fresh>>
vars == <<env, state, target, link, retry, listening, cm, accepted, socks, redone>>

Init ==
    /\ program \in Programs
    /\ late \in BOOLEAN
    /\ state = [p \in Procs |-> "init"]
    /\ target = [p \in Procs |-> None]
    /\ link = [p \in Procs |-> "none"]
    /\ retry = [p \in Procs |-> 0]
    /\ listening = [p \in Procs |-> FALSE]
    /\ inbox = [p \in Procs |-> <<>>]
    /\ serving = [p \in Procs |-> 0]
    /\ accepted = [p \in Procs |-> 0]
    /\ client = <<>>
    /\ named = {}
    /\ pool = [p \in Procs |-> [q \in Procs |-> 0]]
    /\ fresh = [p \in Procs |-> 0]
    /\ redone = [p \in Procs |-> 0]

\* Start an attempt at rank q, or stop being a client.
ConnectTo(p, q) ==
    /\ target' = [target EXCEPT ![p] = q]
    /\ link' = [link EXCEPT ![p] = IF q = None THEN "none" ELSE "try"]
    /\ retry' = [retry EXCEPT ![p] = 0]

\* Fault: the last rank is left out.
AfterTargetShort(q) == IF q + 1 < N - 1 THEN q + 1 ELSE None

\* The loop of setupAsClient: the rank after q, if there is one.
AfterTarget(q) == IF q + 1 < N THEN q + 1 ELSE None

\* Fault: one client less is accepted.
AfterConnectShort(p, done) == IF done + 1 < p THEN "accept" ELSE "up"

\* The loop of setupAccept: as many clients as there are lower ranks.
AfterConnect(p, done) == IF done < p THEN "accept" ELSE "up"

-----------------------------------------------------------------------------
(* setup *)

\* setupAsServer, and the first step of setupAsClient.
Start(p) ==
    /\ state[p] = "init"
    /\ listening' = [listening EXCEPT ![p] = (p # 0)]
    /\ ConnectTo(p, AfterTarget(p))
    /\ state' = [state EXCEPT ![p] = IF AfterTarget(p) # None THEN "connect"
                                     ELSE AfterConnect(p, 0)]
    /\ UNCHANGED <<env, cm, accepted, socks, redone>>

\* rdma_connect: the listener's channel gets a request.
Request(p) ==
    /\ link[p] = "try" /\ listening[target[p]]
    /\ link' = [link EXCEPT ![p] = "asked"]
    /\ inbox' = [inbox EXCEPT ![target[p]] = Append(@, p)]
    /\ UNCHANGED <<env, state, target, retry, listening, serving, accepted,
                   client, named, socks, redone>>

Limit(p) == IF state[p] = "connect" THEN Retries ELSE ReRetries

\* The process throws and ends: it listens no longer, its requests are gone.
Throw(p) ==
    /\ state' = [state EXCEPT ![p] = "failed"]
    /\ listening' = [listening EXCEPT ![p] = FALSE]
    /\ inbox' = [inbox EXCEPT ![p] = <<>>]

\* accept_ at the target has taken the request of p.
Taken(p) ==
    /\ link[p] = "asked"
    /\ serving[target[p]] # 0 /\ client[serving[target[p]]] = p

\* Nobody listens at the target (any more).
Refused(p) ==
    /\ link[p] \in {"try", "asked"} /\ state[p] # "failed"
    /\ ~listening[target[p]] /\ ~Taken(p)

\* Fault: one more retry than the policy allows.
RetryOnceMore(p) ==
    /\ Refused(p) /\ retry[p] =< Limit(p)
    /\ retry' = [retry EXCEPT ![p] = @ + 1]
    /\ link' = [link EXCEPT ![p] = "sleep"]
    /\ UNCHANGED <<env, state, target, listening, cm, accepted, socks, redone>>

\* connect_ fails: sleep before the next attempt.
Retry(p) ==
    /\ Refused(p) /\ retry[p] < Limit(p)
    /\ retry' = [retry EXCEPT ![p] = @ + 1]
    /\ link' = [link EXCEPT ![p] = "sleep"]
    /\ UNCHANGED <<env, state, target, listening, cm, accepted, socks, redone>>

\* The target starts in time, unless late: the last attempt is not refused.
GiveUp(p) ==
    /\ Refused(p) /\ retry[p] >= Limit(p)
    /\ late \/ state[target[p]] \in {"failed", "lost"}
    /\ Throw(p)
    /\ link' = [link EXCEPT ![p] = "none"]
    /\ UNCHANGED <<env, target, retry, serving, accepted, client, named, socks,
                   redone>>

WakeUp(p) ==
    /\ link[p] = "sleep"
    /\ link' = [link EXCEPT ![p] = "try"]
    /\ UNCHANGED <<env, state, target, retry, listening, cm, accepted, socks,
                   redone>>

\* reconnect has the connection c and goes to close_ with the old one.
Renewed(p, c) ==
    /\ fresh' = [fresh EXCEPT ![p] = c]
    /\ state' = [state EXCEPT ![p] = "closing"]

\* The request was taken: connect_ sends the rank of p and returns the socket.
Connected(p) ==
    LET q == target[p] IN
    /\ Taken(p) /\ serving[q] \notin named
    /\ named' = named \cup {serving[q]}
    /\ \/ /\ state[p] = "connect"
          /\ pool' = [pool EXCEPT ![p][q] = serving[q]]
          /\ ConnectTo(p, AfterTarget(q))
          /\ state' = [state EXCEPT ![p] = IF AfterTarget(q) # None THEN @
                                           ELSE AfterConnect(p, 0)]
          /\ UNCHANGED fresh
       \/ /\ state[p] = "reconnect"
          /\ Renewed(p, serving[q])
          /\ link' = [link EXCEPT ![p] = "none"]
          /\ retry' = [retry EXCEPT ![p] = 0]
          /\ UNCHANGED <<pool, target>>
    /\ UNCHANGED <<env, listening, inbox, serving, accepted, client, redone>>

\* accept_ takes the oldest request, whoever it is from.
TakeRequest(p) ==
    /\ state[p] \in {"accept", "reaccept"} /\ serving[p] = 0
    /\ inbox[p] # <<>>
    /\ client' = Append(client, Head(inbox[p]))
    /\ serving' = [serving EXCEPT ![p] = Len(client) + 1]
    /\ inbox' = [inbox EXCEPT ![p] = Tail(@)]
    /\ UNCHANGED <<env, state, target, link, retry, listening, accepted, named,
                   socks, redone>>

\* accept_ has received the rank of its client and returns.
AcceptReturns(p) == serving[p] \in named /\ serving' = [serving EXCEPT ![p] = 0]

Accept(p) ==
    /\ state[p] = "accept" /\ AcceptReturns(p)
    /\ pool' = [pool EXCEPT ![p][client[serving[p]]] = serving[p]]
    /\ accepted' = [accepted EXCEPT ![p] = @ + 1]
    /\ state' = [state EXCEPT ![p] = AfterConnect(p, accepted[p] + 1)]
    /\ UNCHANGED <<env, target, link, retry, listening, inbox, client, named,
                   fresh, redone>>

-----------------------------------------------------------------------------
(* reconnect *)

SetUp(p) == state[p] \in {"up", "reconnect", "reaccept", "closing", "lost"}
PastSetup(p) == accepted[p] = p /\ state[p] \notin {"init", "connect"}

\* The higher rank accepts, the lower one connects.
Reconnect(p) ==
    /\ state[p] = "up" /\ redone[p] < Len(program[p])
    /\ Barrier => \A q \in Procs : PastSetup(q)
    /\ LET q == program[p][redone[p] + 1] IN
         \/ /\ q > p
            /\ ConnectTo(p, q)
            /\ state' = [state EXCEPT ![p] = "reconnect"]
         \/ /\ q < p
            /\ target' = [target EXCEPT ![p] = q]
            /\ state' = [state EXCEPT ![p] = "reaccept"]
            /\ UNCHANGED <<link, retry>>
    /\ UNCHANGED <<env, listening, cm, accepted, socks, redone>>

\* Fault: whoever connects is taken for the expected rank.
ReacceptAnybody(p) ==
    /\ state[p] = "reaccept" /\ AcceptReturns(p)
    /\ Renewed(p, serving[p])
    /\ UNCHANGED <<env, target, link, retry, listening, inbox, accepted, client,
                   named, pool, redone>>

Reaccept(p) ==
    /\ state[p] = "reaccept" /\ AcceptReturns(p)
    /\ client[serving[p]] = target[p]
    /\ Renewed(p, serving[p])
    /\ UNCHANGED <<env, target, link, retry, listening, inbox, accepted, client,
                   named, pool, redone>>

\* Another rank than the expected one has connected.
ReacceptThrows(p) ==
    /\ state[p] = "reaccept" /\ AcceptReturns(p)
    /\ client[serving[p]] # target[p]
    /\ Throw(p)
    /\ UNCHANGED <<env, target, link, retry, accepted, client, named, socks,
                   redone>>

\* close_ of the old connection returns, m_socketPool gets the new one.
CloseReturns(p) ==
    /\ state[p] = "closing"
    /\ pool' = [pool EXCEPT ![p][target[p]] = fresh[p]]
    /\ fresh' = [fresh EXCEPT ![p] = 0]
    /\ redone' = [redone EXCEPT ![p] = @ + 1]
    /\ state' = [state EXCEPT ![p] = "up"]
    /\ UNCHANGED <<env, target, link, retry, listening, cm, accepted>>

\* close_ never returns, and the process may be gone.
CloseLost(p) ==
    /\ state[p] = "closing"
    /\ state' = [state EXCEPT ![p] = "lost"]
    /\ \/ UNCHANGED <<listening, inbox>>
       \/ /\ listening' = [listening EXCEPT ![p] = FALSE]
          /\ inbox' = [inbox EXCEPT ![p] = <<>>]
    /\ UNCHANGED <<env, target, link, retry, serving, client, named, accepted, socks,
                   redone>>

-----------------------------------------------------------------------------
Process(p) ==
    \/ Start(p) \/ Request(p) \/ Retry(p) \/ GiveUp(p) \/ WakeUp(p)
    \/ Connected(p) \/ TakeRequest(p) \/ Accept(p)
    \/ Reconnect(p) \/ Reaccept(p) \/ ReacceptThrows(p)
    \/ CloseReturns(p) \/ CloseLost(p)

Next == \E p \in Procs : Process(p)

Spec == Init /\ [][Next]_vars

\* Fairness: every process starts and runs.
FairSpec == Spec /\ \A p \in Procs : WF_vars(Process(p))

-----------------------------------------------------------------------------
TypeOK ==
    /\ program \in Programs /\ late \in BOOLEAN
    /\ state \in [Procs -> {"init", "connect", "accept", "up", "reconnect",
                            "reaccept", "closing", "lost", "failed"}]
    /\ target \in [Procs -> Procs \cup {None}]
    /\ link \in [Procs -> {"none", "try", "asked", "sleep"}]
    /\ retry \in [Procs -> Nat]
    /\ \A p \in Procs : retry[p] =< Limit(p) \/ state[p] = "failed"
    /\ listening \in [Procs -> BOOLEAN]
    /\ inbox \in [Procs -> Seq(Procs)]
    /\ client \in Seq(Procs)
    /\ serving \in [Procs -> 0..Len(client)]
    /\ accepted \in [Procs -> Nat] /\ \A p \in Procs : accepted[p] =< p
    /\ named \subseteq DOMAIN client
    /\ pool \in [Procs -> [Procs -> 0..Len(client)]]
    /\ fresh \in [Procs -> 0..Len(client)]
    /\ redone \in [Procs -> Nat] /\ \A p \in Procs : redone[p] =< Len(program[p])

(***************************************************************************)
(* A process that has set itself up has a connection to every other rank   *)
(* and none to itself.                                                     *)
(***************************************************************************)
SetupComplete ==
    \A p, q \in Procs :
        SetUp(p) => (pool[p][q] = 0 <=> p = q)

\* The connection a process keeps for a lower rank leads to that rank.
LeadsThere ==
    \A p \in Procs : \A q \in 0..(p - 1) :
        pool[p][q] # 0 => client[pool[p][q]] = q

(***************************************************************************)
(* However many clients knock at the same time, a process keeps for a rank *)
(* a connection that leads there.  The two agree on it: whenever both are  *)
(* out of setup and reconnect, m_socketPool holds the two ends of the same *)
(* connection, whether or not their calls of reconnect match.              *)
(***************************************************************************)
RightPeer ==
    /\ LeadsThere
    /\ \A p, q \in Procs :
        state[p] = "up" /\ state[q] = "up" => pool[p][q] = pool[q][p]

Partners(p) == {program[p][i] : i \in DOMAIN program[p]}

\* Who reconnects does so with one other rank, as often as that one with it.
InPairs ==
    \A p \in Procs : \A q \in Partners(p) :
        Partners(q) = {p} /\ Len(program[q]) = Len(program[p])

(***************************************************************************)
(* If no process is too late, all get connected, in whatever order they    *)
(* start, and then all calls of reconnect made in pairs return, except     *)
(* those of a pair of which one has not come back from the close_ of the   *)
(* old connection.                                                         *)
(***************************************************************************)
AllUp ==
    ~late /\ InPairs =>
        <>(\A p \in Procs :
             \/ state[p] = "up" /\ redone[p] = Len(program[p])
             \/ \E q \in {p} \cup Partners(p) : state[q] = "lost")
=============================================================================
