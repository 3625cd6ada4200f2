---------------------------- MODULE SetupProofs ----------------------------
(***************************************************************************)
(* Theorems about Setup: types and the retry policies, the two ends of     *)
(* every connection, and the completeness of setup.                        *)
(*                                                                         *)
(* The inductive invariant is Base, for every step; AgreeInv and LeadsInv, *)
(* which speak of the connection that reconnect has not stored yet as well *)
(* as of the pool, on top of it for RightPeer; BarrierInv, HigherAt and    *)
(* LowerAt for SetupComplete.                                              *)
(***************************************************************************)
EXTENDS Setup, FiniteSetTheorems, TLAPS

(***************************************************************************)
(* The parts of TypeOK: every variable is a function of its kind, and the  *)
(* counters are bounded.                                                   *)
(***************************************************************************)
States == {"init", "connect", "accept", "up", "reconnect", "reaccept", "closing", "lost",
           "failed"}

Shape ==
    /\ program \in Programs /\ late \in BOOLEAN
    /\ state \in [Procs -> States]
    /\ target \in [Procs -> Procs \cup {None}]
    /\ link \in [Procs -> {"none", "try", "asked", "sleep"}]
    /\ retry \in [Procs -> Nat]
    /\ listening \in [Procs -> BOOLEAN]
    /\ inbox \in [Procs -> Seq(Procs)]
    /\ client \in Seq(Procs)
    /\ serving \in [Procs -> 0..Len(client)]
    /\ accepted \in [Procs -> Nat]
    /\ named \subseteq DOMAIN client
    /\ pool \in [Procs -> [Procs -> 0..Len(client)]]
    /\ fresh \in [Procs -> 0..Len(client)]
    /\ redone \in [Procs -> Nat]

BoundsAt(p) ==
    /\ retry[p] =< Limit(p) \/ state[p] = "failed"
    /\ accepted[p] =< p
    /\ redone[p] =< Len(program[p])

\* A process is a client exactly while it has an attempt under way, at a higher
\* rank; it expects a lower one; it has a new connection exactly while it closes
\* the old one.
ClientAt(p) ==
    /\ link[p] # "none" <=> state[p] \in {"connect", "reconnect"}
    /\ link[p] # "none" => target[p] \in Procs /\ p < target[p]
    /\ state[p] = "reaccept" => target[p] \in Procs /\ target[p] < p
    /\ fresh[p] # 0 <=> state[p] \in {"closing", "lost"}
    /\ state[p] \in {"closing", "lost"} => target[p] \in Procs /\ target[p] # p
    /\ state[p] \in {"init", "accept", "up", "reaccept", "closing", "lost"} => retry[p] = 0

\* Only lower ranks ask a process, which works on a request in accept_ only.
ServerAt(p) ==
    /\ listening[p] => p # 0 /\ state[p] \notin {"init", "failed"}
    /\ p # 0 /\ state[p] \notin {"init", "failed", "lost"} => listening[p]
    /\ ~listening[p] => inbox[p] = <<>>
    /\ \A i \in DOMAIN inbox[p] : inbox[p][i] < p
    /\ serving[p] # 0 => state[p] \in {"accept", "reaccept"} /\ client[serving[p]] < p

\* What setup and reconnect have reached.
CountAt(p) ==
    /\ state[p] \in {"init", "connect"} => accepted[p] = 0
    /\ state[p] = "accept" => accepted[p] < p
    /\ SetUp(p) => accepted[p] = p
    /\ state[p] \in {"reconnect", "reaccept", "closing"} => redone[p] < Len(program[p])

ProcessAt(p) == BoundsAt(p) /\ ClientAt(p) /\ ServerAt(p) /\ CountAt(p)

\* No two processes work on the same connection.
ServersDiffer ==
    \A p, q \in Procs : serving[p] # 0 /\ serving[p] = serving[q] => p = q

Base == Shape /\ ServersDiffer /\ \A p \in Procs : ProcessAt(p)

\* accept_ of q has the name of its client p, which has connect_ behind it.
Named(q, p) == serving[q] # 0 /\ client[serving[q]] = p /\ serving[q] \in named

\* The connection p has with q, stored or not.
Held(p, q) == IF fresh[p] # 0 /\ target[p] = q THEN fresh[p] ELSE pool[p][q]

AgreeInv ==
    \A p, q \in Procs : p < q /\ state[q] # "failed" =>
        Held(p, q) = IF Named(q, p) THEN serving[q] ELSE Held(q, p)

\* A new connection with a lower rank leads there.
FreshLeads ==
    \A p \in Procs : fresh[p] # 0 /\ target[p] < p => client[fresh[p]] = target[p]

\* Has q asked p, or gone past p?
HasAsked(q, p) ==
    /\ state[q] # "init"
    /\ state[q] = "connect" =>
         target[q] > p \/ (target[q] = p /\ link[q] = "asked")

Lower(p) == {q \in 0..(p - 1) : pool[p][q] # 0}

Fresh(p) ==
    /\ \A i \in DOMAIN inbox[p] :
         LET q == inbox[p][i] IN
         /\ HasAsked(q, p) /\ pool[p][q] = 0
         /\ serving[p] # 0 => client[serving[p]] # q
         /\ \A j \in DOMAIN inbox[p] : inbox[p][j] = q => j = i
    /\ serving[p] # 0 => HasAsked(client[serving[p]], p) /\ pool[p][client[serving[p]]] = 0
    /\ \A q \in Lower(p) : HasAsked(q, p)

\* Processes reconnect only after all are past setup.
BarrierInv ==
    \A p \in Procs : state[p] \in {"reconnect", "reaccept"} => \A q \in Procs : PastSetup(q)

\* setupAsClient has connected p to the higher ranks it has gone past.
HigherAt(p) ==
    /\ pool[p][p] = 0
    /\ state[p] = "connect" => \A q \in Procs : p < q /\ q < target[p] => pool[p][q] # 0
    /\ state[p] \in {"accept", "up", "reconnect", "reaccept", "closing", "lost"} =>
          \A q \in Procs : p < q => pool[p][q] # 0

\* setupAccept counts the lower ranks it has accepted, each of them once.
LowerAt(p) ==
    /\ accepted[p] = Cardinality(Lower(p))
    /\ state[p] \in {"connect", "accept"} => Fresh(p)

-----------------------------------------------------------------------------

LEMMA TypeParts == TypeOK <=> Shape /\ \A p \in Procs : BoundsAt(p)
  BY DEF TypeOK, Shape, States, BoundsAt

LEMMA Numbers ==
    /\ N \in Nat /\ N > 1 /\ None \notin Procs
    /\ \A p \in Procs : p \in Nat /\ p < N
    /\ \A p \in Procs : AfterTarget(p) \in Procs \cup {None}
    /\ \A p \in Procs : AfterTarget(p) # None => AfterTarget(p) = p + 1
    /\ \A p \in Procs : AfterTarget(p) = None => p = N - 1
    /\ \A p \in Procs, n \in Nat :
          AfterConnect(p, n) = IF n < p THEN "accept" ELSE "up"
  BY NAssumption DEF Procs, None, AfterTarget, AfterConnect

LEMMA Calls ==
    ASSUME Shape, NEW p \in Procs
    PROVE  /\ program[p] \in Seq(Procs) /\ Len(program[p]) \in Nat
           /\ \A i \in 1..Len(program[p]) : program[p][i] \in Procs /\ program[p][i] # p
<1>1. program \in [Procs -> Seq(Procs)] /\ \A i \in DOMAIN program[p] : program[p][i] # p
  BY ProgramsAssumption DEF Shape
<1>2. program[p] \in Seq(Procs)
  BY <1>1
<1> QED
  BY <1>1, <1>2

-----------------------------------------------------------------------------
(* What the steps do *)

\* The function v is changed at p only.
Becomes(v, w, p, e) ==
    /\ w = [v EXCEPT ![p] = e]
    /\ w[p] = e /\ \A x \in Procs : x # p => w[x] = v[x]

LEMMA Stays ==
    ASSUME NEW S, NEW v \in [Procs -> S], NEW w, NEW p \in Procs, NEW e \in S,
           Becomes(v, w, p, e)
    PROVE  w \in [Procs -> S]
  BY DEF Becomes

LEMMA Typed ==
    ASSUME Shape, NEW p \in Procs
    PROVE  /\ state[p] \in States
           /\ target[p] \in Procs \cup {None}
           /\ retry[p] \in Nat /\ accepted[p] \in Nat /\ redone[p] \in Nat
           /\ listening[p] \in BOOLEAN /\ inbox[p] \in Seq(Procs) /\ client \in Seq(Procs)
           /\ Len(client) \in Nat /\ serving[p] \in 0..Len(client)
           /\ pool[p] \in [Procs -> 0..Len(client)]
           /\ serving[p] # 0 => serving[p] \in DOMAIN client /\ client[serving[p]] \in Procs
           /\ \A n \in named : n \in 1..Len(client) /\ client[n] \in Procs /\ n # 0
<1>1. /\ state[p] \in States
      /\ target[p] \in Procs \cup {None}
      /\ retry[p] \in Nat /\ accepted[p] \in Nat /\ redone[p] \in Nat
      /\ listening[p] \in BOOLEAN /\ inbox[p] \in Seq(Procs)
  BY DEF Shape
<1>2. client \in Seq(Procs) /\ Len(client) \in Nat /\ serving[p] \in 0..Len(client)
  BY DEF Shape
<1>3. DOMAIN client = 1..Len(client) /\ \A n \in DOMAIN client : client[n] \in Procs
  BY <1>2
<1>4. pool[p] \in [Procs -> 0..Len(client)] /\ named \subseteq DOMAIN client
  BY DEF Shape
<1>5. serving[p] # 0 => serving[p] \in DOMAIN client
  BY <1>2, <1>3
<1> QED
  BY <1>1, <1>2, <1>3, <1>4, <1>5

LEMMA StartIs ==
    ASSUME Shape, NEW p \in Procs, Start(p)
    PROVE  /\ state[p] = "init"
           /\ Becomes(listening, listening', p, (p # 0))
           /\ Becomes(target, target', p, AfterTarget(p))
           /\ Becomes(link, link', p, (IF AfterTarget(p) = None THEN "none" ELSE "try"))
           /\ Becomes(retry, retry', p, 0)
           /\ Becomes(state, state', p, (IF AfterTarget(p) # None THEN "connect" ELSE AfterConnect(p, 0)))
           /\ UNCHANGED <<program, late, inbox, serving, client, named, accepted, pool, fresh, redone>>
  BY DEF Shape, Becomes, Start, ConnectTo, env, cm, socks

LEMMA RequestIs ==
    ASSUME Shape, NEW p \in Procs, Request(p), target[p] \in Procs
    PROVE  /\ link[p] = "try" /\ listening[target[p]]
           /\ Becomes(link, link', p, "asked")
           /\ Becomes(inbox, inbox', target[p], Append(inbox[target[p]], p))
           /\ UNCHANGED <<program, late, state, target, retry, listening, serving, accepted, client, named,
                      pool, fresh, redone>>
  BY DEF Shape, Becomes, Request, env, socks

LEMMA RetryIs ==
    ASSUME Shape, NEW p \in Procs, Retry(p)
    PROVE  /\ Refused(p)
           /\ retry[p] < Limit(p)
           /\ Becomes(retry, retry', p, retry[p] + 1)
           /\ Becomes(link, link', p, "sleep")
           /\ UNCHANGED <<program, late, state, target, listening, inbox, serving, client, named, accepted,
                      pool, fresh, redone>>
  BY DEF Shape, Becomes, Retry, env, cm, socks

LEMMA GiveUpIs ==
    ASSUME Shape, NEW p \in Procs, GiveUp(p)
    PROVE  /\ Refused(p)
           /\ Becomes(state, state', p, "failed")
           /\ Becomes(listening, listening', p, FALSE)
           /\ Becomes(inbox, inbox', p, <<>>)
           /\ Becomes(link, link', p, "none")
           /\ UNCHANGED <<program, late, target, retry, serving, accepted, client, named, pool, fresh, redone>>
  BY DEF Shape, Becomes, GiveUp, Throw, env, socks

LEMMA WakeUpIs ==
    ASSUME Shape, NEW p \in Procs, WakeUp(p)
    PROVE  /\ link[p] = "sleep"
           /\ Becomes(link, link', p, "try")
           /\ UNCHANGED <<program, late, state, target, retry, listening, inbox, serving, client, named,
                      accepted, pool, fresh, redone>>
  BY DEF Shape, Becomes, WakeUp, env, cm, socks

LEMMA ConnectedIs ==
    ASSUME Shape, NEW p \in Procs, Connected(p), target[p] \in Procs
    PROVE  /\ Taken(p)
           /\ serving[target[p]] \notin named
           /\ state[p] \in {"connect", "reconnect"}
           /\ named' = named \cup {serving[target[p]]}
           /\ Becomes(retry, retry', p, 0)
           /\ Becomes(target, target', p, (IF state[p] = "connect" THEN AfterTarget(target[p])
                                           ELSE target[p]))
           /\ Becomes(link, link', p, (IF state[p] = "connect" /\ AfterTarget(target[p]) # None
                                       THEN "try" ELSE "none"))
           /\ Becomes(state, state', p, (IF state[p] = "reconnect" THEN "closing"
                 ELSE IF AfterTarget(target[p]) # None THEN "connect" ELSE AfterConnect(p, 0)))
           /\ Becomes(pool, pool', p, (IF state[p] = "connect"
                 THEN [pool[p] EXCEPT ![target[p]] = serving[target[p]]] ELSE pool[p]))
           /\ Becomes(fresh, fresh', p, (IF state[p] = "connect" THEN fresh[p]
                                         ELSE serving[target[p]]))
           /\ UNCHANGED <<program, late, listening, inbox, serving, accepted, client, redone>>
<1>1. CASE state[p] = "connect"
  BY <1>1, SMTT(30) DEF Shape, Becomes, Connected, ConnectTo, env
<1>2. CASE state[p] = "reconnect"
  BY <1>2, SMTT(30) DEF Shape, Becomes, Connected, Renewed, env
<1> QED
  BY <1>1, <1>2 DEF Connected

LEMMA TakeRequestIs ==
    ASSUME Shape, NEW p \in Procs, TakeRequest(p)
    PROVE  /\ state[p] \in {"accept", "reaccept"} /\ serving[p] = 0 /\ inbox[p] # <<>>
           /\ client' = Append(client, Head(inbox[p]))
           /\ Becomes(serving, serving', p, Len(client) + 1)
           /\ Becomes(inbox, inbox', p, Tail(inbox[p]))
           /\ UNCHANGED <<program, late, state, target, link, retry, listening, accepted, named, pool, fresh, redone>>
  BY DEF Shape, Becomes, TakeRequest, env, socks

LEMMA AcceptIs ==
    ASSUME Shape, NEW p \in Procs, Accept(p), client[serving[p]] \in Procs
    PROVE  /\ state[p] = "accept"
           /\ serving[p] \in named
           /\ Becomes(serving, serving', p, 0)
           /\ Becomes(pool, pool', p, [pool[p] EXCEPT ![client[serving[p]]] = serving[p]])
           /\ Becomes(accepted, accepted', p, accepted[p] + 1)
           /\ Becomes(state, state', p, AfterConnect(p, accepted[p] + 1))
           /\ UNCHANGED <<program, late, target, link, retry, listening, inbox, client, named, fresh, redone>>
  BY DEF Shape, Becomes, Accept, AcceptReturns, env

\* The rank p calls reconnect with.
NextCall(p) == program[p][redone[p] + 1]

LEMMA ReconnectIs ==
    ASSUME Shape, NEW p \in Procs, Reconnect(p)
    PROVE  /\ state[p] = "up" /\ redone[p] < Len(program[p])
           /\ NextCall(p) \in Procs /\ NextCall(p) # p
           /\ Barrier => \A q \in Procs : PastSetup(q)
           /\ NextCall(p) > p => /\ Becomes(link, link', p, "try")
                                 /\ Becomes(retry, retry', p, 0)
                                 /\ Becomes(state, state', p, "reconnect")
           /\ NextCall(p) < p => /\ Becomes(state, state', p, "reaccept")
                                 /\ UNCHANGED <<link, retry>>
           /\ Becomes(target, target', p, NextCall(p))
           /\ UNCHANGED <<program, late, listening, inbox, serving, client, named, accepted,
                          pool, fresh, redone>>
<1>1. /\ state[p] = "up" /\ redone[p] < Len(program[p])
      /\ Barrier => \A q \in Procs : PastSetup(q)
      /\ UNCHANGED <<program, late, listening, inbox, serving, client, named, accepted,
                     pool, fresh, redone>>
  BY DEF Reconnect, env, cm, socks
<1>2. redone[p] + 1 \in 1..Len(program[p])
  <2>1. redone[p] \in Nat
    BY DEF Shape
  <2>2. Len(program[p]) \in Nat
    BY Calls
  <2> QED
    BY <1>1, <2>1, <2>2
<1>3. NextCall(p) \in Procs /\ NextCall(p) # p /\ NextCall(p) # None
  BY <1>2, Calls, Numbers DEF NextCall
<1>4. \/ /\ NextCall(p) > p /\ ConnectTo(p, NextCall(p))
         /\ state' = [state EXCEPT ![p] = "reconnect"]
      \/ /\ NextCall(p) < p /\ target' = [target EXCEPT ![p] = NextCall(p)]
         /\ state' = [state EXCEPT ![p] = "reaccept"] /\ UNCHANGED <<link, retry>>
  BY DEF Reconnect, NextCall
<1> HIDE DEF NextCall
<1>5. p \in Nat /\ NextCall(p) \in Nat
  BY <1>3, Numbers
<1>6. Becomes(target, target', p, NextCall(p))
  BY <1>4 DEF Shape, Becomes, ConnectTo
<1>7. ASSUME NextCall(p) > p
      PROVE  /\ Becomes(link, link', p, "try") /\ Becomes(retry, retry', p, 0)
             /\ Becomes(state, state', p, "reconnect")
  <2>1. ConnectTo(p, NextCall(p)) /\ state' = [state EXCEPT ![p] = "reconnect"]
    BY <1>4, <1>5, <1>7
  <2>2. link' = [link EXCEPT ![p] = "try"] /\ retry' = [retry EXCEPT ![p] = 0]
    BY <1>3, <2>1 DEF ConnectTo
  <2> QED
    BY <2>1, <2>2 DEF Shape, Becomes
<1>8. ASSUME NextCall(p) < p
      PROVE  Becomes(state, state', p, "reaccept") /\ UNCHANGED <<link, retry>>
  BY <1>4, <1>5, <1>8 DEF Shape, Becomes
<1> QED
  BY <1>1, <1>3, <1>6, <1>7, <1>8

LEMMA ReacceptIs ==
    ASSUME Shape, NEW p \in Procs, Reaccept(p)
    PROVE  /\ state[p] = "reaccept"
           /\ serving[p] \in named
           /\ client[serving[p]] = target[p]
           /\ Becomes(serving, serving', p, 0)
           /\ Becomes(fresh, fresh', p, serving[p])
           /\ Becomes(state, state', p, "closing")
           /\ UNCHANGED <<program, late, target, link, retry, listening, inbox, accepted, client,
                          named, pool, redone>>
  BY DEF Shape, Becomes, Reaccept, AcceptReturns, Renewed, env

LEMMA ReacceptThrowsIs ==
    ASSUME Shape, NEW p \in Procs, ReacceptThrows(p)
    PROVE  /\ state[p] = "reaccept"
           /\ Becomes(serving, serving', p, 0)
           /\ Becomes(state, state', p, "failed")
           /\ Becomes(listening, listening', p, FALSE)
           /\ Becomes(inbox, inbox', p, <<>>)
           /\ UNCHANGED <<program, late, target, link, retry, accepted, client, named, pool, fresh, redone>>
  BY DEF Shape, Becomes, ReacceptThrows, AcceptReturns, Throw, env, socks

LEMMA CloseReturnsIs ==
    ASSUME Shape, NEW p \in Procs, CloseReturns(p), target[p] \in Procs
    PROVE  /\ state[p] = "closing"
           /\ Becomes(pool, pool', p, [pool[p] EXCEPT ![target[p]] = fresh[p]])
           /\ Becomes(fresh, fresh', p, 0)
           /\ Becomes(redone, redone', p, redone[p] + 1)
           /\ Becomes(state, state', p, "up")
           /\ UNCHANGED <<program, late, target, link, retry, listening, inbox, serving, client,
                          named, accepted>>
  BY DEF Shape, Becomes, CloseReturns, env, cm

LEMMA CloseLostIs ==
    ASSUME Shape, NEW p \in Procs, CloseLost(p)
    PROVE  /\ state[p] = "closing"
           /\ Becomes(state, state', p, "lost")
           /\ \E alive \in BOOLEAN :
                /\ Becomes(listening, listening', p, (listening[p] /\ alive))
                /\ Becomes(inbox, inbox', p, (IF alive THEN inbox[p] ELSE <<>>))
           /\ UNCHANGED <<program, late, target, link, retry, serving, client, named, accepted,
                          pool, fresh, redone>>
<1>1. /\ state[p] = "closing" /\ Becomes(state, state', p, "lost")
      /\ UNCHANGED <<program, late, target, link, retry, serving, client, named, accepted,
                     pool, fresh, redone>>
  BY DEF Shape, Becomes, CloseLost, env, socks
<1>2. CASE UNCHANGED <<listening, inbox>>
  <2>1. /\ Becomes(listening, listening', p, (listening[p] /\ TRUE))
        /\ Becomes(inbox, inbox', p, (IF TRUE THEN inbox[p] ELSE <<>>))
    BY <1>2 DEF Shape, Becomes
  <2> QED
    BY <1>1, <2>1
<1>3. CASE ~UNCHANGED <<listening, inbox>>
  <2>1. /\ Becomes(listening, listening', p, (listening[p] /\ FALSE))
        /\ Becomes(inbox, inbox', p, (IF FALSE THEN inbox[p] ELSE <<>>))
    BY <1>3 DEF Shape, Becomes, CloseLost
  <2> QED
    BY <1>1, <2>1
<1> QED
  BY <1>2, <1>3

-----------------------------------------------------------------------------
(* Types, and where clients and servers stand *)

LEMMA BaseInit == Init => Base
<1> SUFFICES ASSUME Init PROVE Base
  OBVIOUS
<1>1. Shape
  BY DEF States, Init, Shape
<1>2. ASSUME NEW p \in Procs PROVE ProcessAt(p)
  BY <1>1, <1>2, Calls, Numbers, RetriesAssumption
     DEF Init, ProcessAt, BoundsAt, ClientAt, ServerAt, CountAt, Limit, SetUp
<1>3. ServersDiffer
  BY DEF Init, ServersDiffer
<1> QED
  BY <1>1, <1>2, <1>3 DEF Base

LEMMA StartBase == ASSUME Base, NEW p \in Procs, Start(p) PROVE Base'
<1>1. Shape /\ ProcessAt(p) /\ ServersDiffer
  BY DEF Base
<1>2. /\ Becomes(listening, listening', p, (p # 0))
      /\ Becomes(target, target', p, AfterTarget(p))
      /\ Becomes(link, link', p, (IF AfterTarget(p) = None THEN "none" ELSE "try"))
      /\ Becomes(retry, retry', p, 0)
      /\ Becomes(state, state', p, (IF AfterTarget(p) # None THEN "connect" ELSE AfterConnect(p, 0)))
  BY <1>1, StartIs
<1>3. /\ state[p] = "init"
      /\ UNCHANGED <<program, late, inbox, serving, client, named, accepted, pool, fresh, redone>>
  BY <1>1, StartIs
<1>4. /\ listening'[p] = (p # 0)
      /\ target'[p] = AfterTarget(p)
      /\ link'[p] = (IF AfterTarget(p) = None THEN "none" ELSE "try")
      /\ retry'[p] = 0
      /\ state'[p] = (IF AfterTarget(p) # None THEN "connect" ELSE AfterConnect(p, 0))
  BY <1>2 DEF Becomes
<1>5. \A x \in Procs : x # p =>
        listening'[x] = listening[x] /\ target'[x] = target[x] /\ link'[x] = link[x] /\ retry'[x] = retry[x] /\ state'[x] = state[x]
  BY <1>2 DEF Becomes
<1>6. Shape'
  <2>1. listening' \in [Procs -> BOOLEAN]
    BY <1>1, <1>2, Numbers, Stays DEF Shape
  <2>2. target' \in [Procs -> Procs \cup {None}]
    BY <1>1, <1>2, Numbers, Stays DEF Shape
  <2>3. link' \in [Procs -> {"none", "try", "asked", "sleep"}]
    BY <1>1, <1>2, Numbers, Stays DEF Shape
  <2>4. retry' \in [Procs -> Nat]
    BY <1>1, <1>2, Numbers, Stays DEF Shape
  <2>5. state' \in [Procs -> States]
    <3>1. (IF AfterTarget(p) # None THEN "connect" ELSE AfterConnect(p, 0)) \in States
      BY Numbers DEF States
    <3> QED
      BY <1>1, <1>2, <3>1, Stays DEF Shape
  <2> QED
    BY <1>1, <1>3, <2>1, <2>2, <2>3, <2>4, <2>5 DEF Shape
<1>7. ASSUME NEW x \in Procs, x # p PROVE ProcessAt(x)'
  <2>1. ProcessAt(x)
    BY DEF Base
  <2> QED
    BY <1>3, <1>5, <1>7, <2>1
       DEF ProcessAt, BoundsAt, ClientAt, ServerAt, CountAt, Limit, SetUp
<1>8. ProcessAt(p)'
  <2>0. retry[p] \in Nat /\ accepted[p] \in Nat /\ redone[p] \in Nat /\ p \in Nat
    BY <1>1, Typed, Numbers
  <2>1. BoundsAt(p)'
    BY <1>1, <1>3, <1>4, <2>0, Numbers, RetriesAssumption
       DEF ProcessAt, BoundsAt, ClientAt, CountAt, Limit
  <2>2. ClientAt(p)'
    <3>1. fresh[p] = 0 /\ AfterConnect(p, 0) \in {"accept", "up"}
      BY <1>1, <1>3, Numbers DEF ProcessAt, ClientAt
    <3>2. AfterTarget(p) # None => AfterTarget(p) \in Procs /\ p < AfterTarget(p)
      BY <2>0, Numbers
    <3> QED
      BY <1>3, <1>4, <3>1, <3>2 DEF ClientAt
  <2>3. ServerAt(p)'
    <3>1. ServerAt(p) /\ state'[p] \in {"connect", "accept", "up"}
      BY <1>1, <1>4, Numbers DEF ProcessAt
    <3>2. serving[p] = 0 /\ inbox[p] = <<>>
      BY <1>3, <3>1 DEF ServerAt
    <3> QED
      BY <1>3, <1>4, <3>1, <3>2 DEF ServerAt
  <2>4. CountAt(p)'
    BY <1>1, <1>3, <1>4, <2>0, Numbers DEF ProcessAt, BoundsAt, ClientAt, CountAt, SetUp
  <2> QED
    BY <2>1, <2>2, <2>3, <2>4 DEF ProcessAt
<1>9. ServersDiffer'
  BY <1>1, <1>3 DEF ServersDiffer
<1> QED
  BY <1>6, <1>7, <1>8, <1>9 DEF Base

LEMMA RequestBase == ASSUME Base, NEW p \in Procs, Request(p) PROVE Base'
<1>1. Shape /\ ProcessAt(p) /\ ServersDiffer
  BY DEF Base
<1>0. target[p] \in Procs /\ p < target[p] /\ p # target[p]
  BY <1>1, Numbers DEF Request, ProcessAt, ClientAt
<1>2. /\ Becomes(link, link', p, "asked")
      /\ Becomes(inbox, inbox', target[p], Append(inbox[target[p]], p))
  BY <1>1, <1>0, RequestIs
<1>3. /\ link[p] = "try" /\ listening[target[p]]
      /\ UNCHANGED <<program, late, state, target, retry, listening, serving, accepted, client, named,
                     pool, fresh, redone>>
  BY <1>1, <1>0, RequestIs
<1>4. /\ link'[p] = "asked"
  BY <1>2 DEF Becomes
<1>5. \A x \in Procs : x # p =>
        link'[x] = link[x]
  BY <1>2 DEF Becomes
<1>6. Shape'
  <2>1. link' \in [Procs -> {"none", "try", "asked", "sleep"}]
    BY <1>1, <1>2, Numbers, Stays DEF Shape
  <2>2. inbox' \in [Procs -> Seq(Procs)]
    <3>1. Append(inbox[target[p]], p) \in Seq(Procs)
      BY <1>0, <1>1, Typed
    <3> QED
      BY <1>0, <1>1, <1>2, <3>1, Stays DEF Shape
  <2> QED
    BY <1>1, <1>3, <2>1, <2>2 DEF Shape
<1>7. ASSUME NEW x \in Procs, x # p PROVE ProcessAt(x)'
  <2>1. ProcessAt(x)
    BY DEF Base
  <2>2. BoundsAt(x)' /\ ClientAt(x)' /\ CountAt(x)'
    BY <1>3, <1>5, <1>7, <2>1 DEF ProcessAt, BoundsAt, ClientAt, CountAt, Limit, SetUp
  <2>3. ServerAt(x)'
    <3>1. CASE x # target[p]
      <4>1. inbox'[x] = inbox[x]
        BY <1>2, <3>1 DEF Becomes
      <4> QED
        BY <1>3, <2>1, <4>1 DEF ProcessAt, ServerAt
    <3>2. CASE x = target[p]
      <4>1. inbox'[x] = Append(inbox[x], p) /\ inbox[x] \in Seq(Procs)
        BY <1>1, <1>2, <3>2, Typed DEF Becomes
      <4>2. \A i \in DOMAIN inbox'[x] : inbox'[x][i] < x
        BY <1>0, <2>1, <3>2, <4>1 DEF ProcessAt, ServerAt
      <4> QED
        BY <1>3, <2>1, <3>2, <4>2 DEF ProcessAt, ServerAt
    <3> QED
      BY <3>1, <3>2
  <2> QED
    BY <2>2, <2>3 DEF ProcessAt
<1>8. ProcessAt(p)'
  <2>0. retry[p] \in Nat /\ accepted[p] \in Nat /\ redone[p] \in Nat /\ p \in Nat
    BY <1>1, Typed, Numbers
  <2>1. BoundsAt(p)'
    BY <1>1, <1>3, <1>4, <2>0, Numbers, RetriesAssumption
       DEF ProcessAt, BoundsAt, ClientAt, CountAt, Limit
  <2>2. ClientAt(p)'
    BY <1>1, <1>3, <1>4, <2>0, Numbers DEF ProcessAt, ClientAt
  <2>3. ServerAt(p)'
    <3>1. inbox'[p] = inbox[p]
      BY <1>0, <1>2 DEF Becomes
    <3> QED
      BY <1>1, <1>3, <3>1 DEF ProcessAt, ServerAt
  <2>4. CountAt(p)'
    BY <1>1, <1>3, <1>4, <2>0, Numbers DEF ProcessAt, BoundsAt, ClientAt, CountAt, SetUp
  <2> QED
    BY <2>1, <2>2, <2>3, <2>4 DEF ProcessAt
<1>9. ServersDiffer'
  BY <1>1, <1>3 DEF ServersDiffer
<1> QED
  BY <1>6, <1>7, <1>8, <1>9 DEF Base

LEMMA RetryBase == ASSUME Base, NEW p \in Procs, Retry(p) PROVE Base'
<1>1. Shape /\ ProcessAt(p) /\ ServersDiffer
  BY DEF Base
<1>2. /\ Becomes(retry, retry', p, retry[p] + 1)
      /\ Becomes(link, link', p, "sleep")
  BY <1>1, RetryIs
<1>3. /\ Refused(p) /\ retry[p] < Limit(p)
      /\ UNCHANGED <<program, late, state, target, listening, inbox, serving, client, named, accepted,
                     pool, fresh, redone>>
  BY <1>1, RetryIs
<1>4. /\ retry'[p] = retry[p] + 1
      /\ link'[p] = "sleep"
  BY <1>2 DEF Becomes
<1>5. \A x \in Procs : x # p =>
        retry'[x] = retry[x] /\ link'[x] = link[x]
  BY <1>2 DEF Becomes
<1>6. Shape'
  <2>1. retry' \in [Procs -> Nat]
    <3>1. retry[p] + 1 \in Nat
      BY <1>1 DEF Shape
    <3> QED
      BY <1>1, <1>2, <3>1, Stays DEF Shape
  <2>2. link' \in [Procs -> {"none", "try", "asked", "sleep"}]
    BY <1>1, <1>2, Numbers, Stays DEF Shape
  <2> QED
    BY <1>1, <1>3, <2>1, <2>2 DEF Shape
<1>7. ASSUME NEW x \in Procs, x # p PROVE ProcessAt(x)'
  <2>1. ProcessAt(x)
    BY DEF Base
  <2> QED
    BY <1>3, <1>5, <1>7, <2>1
       DEF ProcessAt, BoundsAt, ClientAt, ServerAt, CountAt, Limit, SetUp
<1>8. ProcessAt(p)'
  <2>0. retry[p] \in Nat /\ accepted[p] \in Nat /\ redone[p] \in Nat /\ p \in Nat
    BY <1>1, Typed, Numbers
  <2>1. BoundsAt(p)'
    BY <1>1, <1>3, <1>4, <2>0, Numbers, RetriesAssumption
       DEF ProcessAt, BoundsAt, ClientAt, CountAt, Limit
  <2>2. ClientAt(p)'
    BY <1>1, <1>3, <1>4 DEF ProcessAt, ClientAt, Refused
  <2>3. ServerAt(p)'
    BY <1>1, <1>3, <1>4, <2>0, Numbers DEF ProcessAt, ClientAt, ServerAt
  <2>4. CountAt(p)'
    BY <1>1, <1>3, <1>4, <2>0, Numbers DEF ProcessAt, BoundsAt, ClientAt, CountAt, SetUp
  <2> QED
    BY <2>1, <2>2, <2>3, <2>4 DEF ProcessAt
<1>9. ServersDiffer'
  BY <1>1, <1>3 DEF ServersDiffer
<1> QED
  BY <1>6, <1>7, <1>8, <1>9 DEF Base

LEMMA GiveUpBase == ASSUME Base, NEW p \in Procs, GiveUp(p) PROVE Base'
<1>1. Shape /\ ProcessAt(p) /\ ServersDiffer
  BY DEF Base
<1>2. /\ Becomes(state, state', p, "failed")
      /\ Becomes(listening, listening', p, FALSE)
      /\ Becomes(inbox, inbox', p, <<>>)
      /\ Becomes(link, link', p, "none")
  BY <1>1, GiveUpIs
<1>3. /\ Refused(p)
      /\ UNCHANGED <<program, late, target, retry, serving, accepted, client, named, pool, fresh, redone>>
  BY <1>1, GiveUpIs
<1>4. /\ state'[p] = "failed"
      /\ listening'[p] = FALSE
      /\ inbox'[p] = <<>>
      /\ link'[p] = "none"
  BY <1>2 DEF Becomes
<1>5. \A x \in Procs : x # p =>
        state'[x] = state[x] /\ listening'[x] = listening[x] /\ inbox'[x] = inbox[x] /\ link'[x] = link[x]
  BY <1>2 DEF Becomes
<1>6. Shape'
  <2>1. state' \in [Procs -> States]
    BY <1>1, <1>2, Numbers, Stays DEF States, Shape
  <2>2. listening' \in [Procs -> BOOLEAN]
    BY <1>1, <1>2, Numbers, Stays DEF Shape
  <2>3. inbox' \in [Procs -> Seq(Procs)]
    <3>1. <<>> \in Seq(Procs)
      OBVIOUS
    <3> QED
      BY <1>1, <1>2, <3>1, Stays DEF Shape
  <2>4. link' \in [Procs -> {"none", "try", "asked", "sleep"}]
    BY <1>1, <1>2, Numbers, Stays DEF Shape
  <2> QED
    BY <1>1, <1>3, <2>1, <2>2, <2>3, <2>4 DEF Shape
<1>7. ASSUME NEW x \in Procs, x # p PROVE ProcessAt(x)'
  <2>1. ProcessAt(x)
    BY DEF Base
  <2> QED
    BY <1>3, <1>5, <1>7, <2>1
       DEF ProcessAt, BoundsAt, ClientAt, ServerAt, CountAt, Limit, SetUp
<1>8. ProcessAt(p)'
  <2>0. retry[p] \in Nat /\ accepted[p] \in Nat /\ redone[p] \in Nat /\ p \in Nat
    BY <1>1, Typed, Numbers
  <2>1. BoundsAt(p)'
    BY <1>1, <1>3, <1>4, <2>0, Numbers, RetriesAssumption
       DEF ProcessAt, BoundsAt, ClientAt, CountAt, Limit
  <2>2. ClientAt(p)'
    <3>1. fresh[p] = 0
      BY <1>1, <1>3 DEF ProcessAt, ClientAt, Refused
    <3> QED
      BY <1>3, <1>4, <3>1 DEF ClientAt
  <2>3. ServerAt(p)'
    <3>1. state[p] \in {"connect", "reconnect"}
      BY <1>1, <1>3 DEF ProcessAt, ClientAt, Refused
    <3>2. serving[p] = 0
      BY <1>1, <3>1 DEF ProcessAt, ServerAt
    <3> QED
      BY <1>3, <1>4, <3>2 DEF ServerAt
  <2>4. CountAt(p)'
    BY <1>1, <1>3, <1>4, <2>0, Numbers DEF ProcessAt, BoundsAt, ClientAt, CountAt, SetUp
  <2> QED
    BY <2>1, <2>2, <2>3, <2>4 DEF ProcessAt
<1>9. ServersDiffer'
  BY <1>1, <1>3 DEF ServersDiffer
<1> QED
  BY <1>6, <1>7, <1>8, <1>9 DEF Base

LEMMA WakeUpBase == ASSUME Base, NEW p \in Procs, WakeUp(p) PROVE Base'
<1>1. Shape /\ ProcessAt(p) /\ ServersDiffer
  BY DEF Base
<1>2. /\ Becomes(link, link', p, "try")
  BY <1>1, WakeUpIs
<1>3. /\ link[p] = "sleep"
      /\ UNCHANGED <<program, late, state, target, retry, listening, inbox, serving, client, named,
                     accepted, pool, fresh, redone>>
  BY <1>1, WakeUpIs
<1>4. /\ link'[p] = "try"
  BY <1>2 DEF Becomes
<1>5. \A x \in Procs : x # p =>
        link'[x] = link[x]
  BY <1>2 DEF Becomes
<1>6. Shape'
  <2>1. link' \in [Procs -> {"none", "try", "asked", "sleep"}]
    BY <1>1, <1>2, Numbers, Stays DEF Shape
  <2> QED
    BY <1>1, <1>3, <2>1 DEF Shape
<1>7. ASSUME NEW x \in Procs, x # p PROVE ProcessAt(x)'
  <2>1. ProcessAt(x)
    BY DEF Base
  <2> QED
    BY <1>3, <1>5, <1>7, <2>1
       DEF ProcessAt, BoundsAt, ClientAt, ServerAt, CountAt, Limit, SetUp
<1>8. ProcessAt(p)'
  <2>0. retry[p] \in Nat /\ accepted[p] \in Nat /\ redone[p] \in Nat /\ p \in Nat
    BY <1>1, Typed, Numbers
  <2>1. BoundsAt(p)'
    BY <1>1, <1>3, <1>4, <2>0, Numbers, RetriesAssumption
       DEF ProcessAt, BoundsAt, ClientAt, CountAt, Limit
  <2>2. ClientAt(p)'
    BY <1>1, <1>3, <1>4, <2>0, Numbers DEF ProcessAt, ClientAt
  <2>3. ServerAt(p)'
    BY <1>1, <1>3, <1>4, <2>0, Numbers DEF ProcessAt, ClientAt, ServerAt
  <2>4. CountAt(p)'
    BY <1>1, <1>3, <1>4, <2>0, Numbers DEF ProcessAt, BoundsAt, ClientAt, CountAt, SetUp
  <2> QED
    BY <2>1, <2>2, <2>3, <2>4 DEF ProcessAt
<1>9. ServersDiffer'
  BY <1>1, <1>3 DEF ServersDiffer
<1> QED
  BY <1>6, <1>7, <1>8, <1>9 DEF Base

LEMMA ConnectedBase == ASSUME Base, NEW p \in Procs, Connected(p) PROVE Base'
<1>1. Shape /\ ProcessAt(p) /\ ServersDiffer
  BY DEF Base
<1>0. target[p] \in Procs /\ p < target[p]
  BY <1>1 DEF Connected, Taken, ProcessAt, ClientAt
<1>2. /\ Becomes(pool, pool', p, (IF state[p] = "connect"
             THEN [pool[p] EXCEPT ![target[p]] = serving[target[p]]] ELSE pool[p]))
      /\ Becomes(fresh, fresh', p, (IF state[p] = "connect" THEN fresh[p]
                                    ELSE serving[target[p]]))
      /\ Becomes(retry, retry', p, 0)
      /\ Becomes(target, target', p, (IF state[p] = "connect" THEN AfterTarget(target[p])
                                      ELSE target[p]))
      /\ Becomes(link, link', p, (IF state[p] = "connect" /\ AfterTarget(target[p]) # None
                                  THEN "try" ELSE "none"))
      /\ Becomes(state, state', p, (IF state[p] = "reconnect" THEN "closing"
             ELSE IF AfterTarget(target[p]) # None THEN "connect" ELSE AfterConnect(p, 0)))
  BY <1>1, <1>0, ConnectedIs
<1>3. /\ state[p] \in {"connect", "reconnect"} /\ Taken(p)
      /\ named' = named \cup {serving[target[p]]}
      /\ UNCHANGED <<program, late, listening, inbox, serving, accepted, client, redone>>
  BY <1>1, <1>0, ConnectedIs
<1>4. /\ fresh'[p] = (IF state[p] = "connect" THEN fresh[p] ELSE serving[target[p]])
      /\ retry'[p] = 0
      /\ target'[p] = (IF state[p] = "connect" THEN AfterTarget(target[p]) ELSE target[p])
      /\ link'[p] = (IF state[p] = "connect" /\ AfterTarget(target[p]) # None
                                  THEN "try" ELSE "none")
      /\ state'[p] = (IF state[p] = "reconnect" THEN "closing"
             ELSE IF AfterTarget(target[p]) # None THEN "connect" ELSE AfterConnect(p, 0))
  BY <1>2 DEF Becomes
<1>5. \A x \in Procs : x # p =>
        /\ fresh'[x] = fresh[x] /\ retry'[x] = retry[x] /\ target'[x] = target[x]
        /\ link'[x] = link[x] /\ state'[x] = state[x]
  BY <1>2 DEF Becomes
<1>6. Shape'
  <2>1. pool' \in [Procs -> [Procs -> 0..Len(client')]]
    <3>1. /\ pool[p] \in [Procs -> 0..Len(client)] /\ serving[target[p]] \in 0..Len(client)
          /\ pool \in [Procs -> [Procs -> 0..Len(client)]] /\ client' = client
      BY <1>0, <1>1, <1>3, Typed DEF Shape
    <3>2. (IF state[p] = "connect" THEN [pool[p] EXCEPT ![target[p]] = serving[target[p]]]
           ELSE pool[p]) \in [Procs -> 0..Len(client')]
      BY <3>1
    <3> QED
      BY <1>2, <3>1, <3>2, Stays
  <2>2. retry' \in [Procs -> Nat]
    BY <1>1, <1>2, <1>0, Numbers, Stays DEF Shape
  <2>3. target' \in [Procs -> Procs \cup {None}]
    BY <1>1, <1>2, <1>0, Numbers, Stays DEF Shape
  <2>4. link' \in [Procs -> {"none", "try", "asked", "sleep"}]
    BY <1>1, <1>2, <1>0, Numbers, Stays DEF Shape
  <2>5. state' \in [Procs -> States]
    <3>1. (IF state[p] = "reconnect" THEN "closing"
             ELSE IF AfterTarget(target[p]) # None THEN "connect" ELSE AfterConnect(p, 0)) \in States
      BY Numbers DEF States
    <3> QED
      BY <1>1, <1>2, <3>1, Stays DEF Shape
  <2>6. fresh' \in [Procs -> 0..Len(client')]
    <3>1. /\ fresh \in [Procs -> 0..Len(client)] /\ serving[target[p]] \in 0..Len(client)
          /\ client' = client
      BY <1>0, <1>1, <1>3, Typed DEF Shape
    <3>2. (IF state[p] = "connect" THEN fresh[p] ELSE serving[target[p]]) \in 0..Len(client')
      BY <3>1
    <3> QED
      BY <1>2, <3>1, <3>2, Stays
  <2>7. named' \subseteq DOMAIN client'
    BY <1>0, <1>1, <1>3, Typed DEF Shape, Taken
  <2> QED
    BY <1>1, <1>3, <2>7, <2>1, <2>2, <2>3, <2>4, <2>5, <2>6 DEF Shape
<1>7. ASSUME NEW x \in Procs, x # p PROVE ProcessAt(x)'
  <2>1. ProcessAt(x)
    BY DEF Base
  <2> QED
    BY <1>3, <1>5, <1>7, <2>1
       DEF ProcessAt, BoundsAt, ClientAt, ServerAt, CountAt, Limit, SetUp
<1>8. ProcessAt(p)'
  <2>0. retry[p] \in Nat /\ accepted[p] \in Nat /\ redone[p] \in Nat /\ p \in Nat
    BY <1>1, Typed, Numbers
  <2>1. BoundsAt(p)'
    BY <1>1, <1>3, <1>4, <2>0, Numbers, RetriesAssumption, <1>0, Calls
       DEF ProcessAt, BoundsAt, ClientAt, CountAt, Limit
  <2>2. ClientAt(p)'
    <3>1. AfterTarget(target[p]) # None => /\ AfterTarget(target[p]) \in Procs
                                           /\ p < AfterTarget(target[p])
      <4>1. target[p] \in Nat /\ p \in Nat /\ p < target[p]
        BY <1>0, <2>0, Numbers
      <4>2. AfterTarget(target[p]) # None =>
              AfterTarget(target[p]) \in Procs /\ AfterTarget(target[p]) = target[p] + 1
        BY <1>0, Numbers
      <4> QED
        BY <4>1, <4>2
    <3>2. AfterConnect(p, 0) \in {"accept", "up"}
      BY Numbers
    <3>3. CASE state[p] = "connect"
      <4>1. fresh'[p] = 0
        BY <1>1, <1>4, <3>3 DEF ProcessAt, ClientAt
      <4> QED
        BY <1>4, <3>1, <3>2, <3>3, <4>1 DEF ClientAt
    <3>4. CASE state[p] = "reconnect"
      <4>1. serving[target[p]] # 0 /\ target[p] # p
        BY <1>0, <1>3, Numbers DEF Taken
      <4> QED
        BY <1>0, <1>4, <3>4, <4>1 DEF ClientAt
    <3> QED
      BY <1>3, <3>3, <3>4
  <2>3. ServerAt(p)'
    BY <1>1, <1>3, <1>4, <2>0, Numbers, <1>0, Calls DEF ProcessAt, ClientAt, ServerAt
  <2>4. CountAt(p)'
    BY <1>1, <1>3, <1>4, <2>0, Numbers, <1>0, Calls DEF ProcessAt, BoundsAt, ClientAt, CountAt, SetUp
  <2> QED
    BY <2>1, <2>2, <2>3, <2>4 DEF ProcessAt
<1>9. ServersDiffer'
  BY <1>1, <1>3 DEF ServersDiffer
<1> QED
  BY <1>6, <1>7, <1>8, <1>9 DEF Base

LEMMA TakeRequestBase == ASSUME Base, NEW p \in Procs, TakeRequest(p) PROVE Base'
<1>1. Shape /\ ProcessAt(p) /\ ServersDiffer
  BY DEF Base
<1>2. /\ Becomes(serving, serving', p, Len(client) + 1)
      /\ Becomes(inbox, inbox', p, Tail(inbox[p]))
  BY <1>1, TakeRequestIs
<1>3. /\ state[p] \in {"accept", "reaccept"} /\ serving[p] = 0 /\ inbox[p] # <<>>
      /\ client' = Append(client, Head(inbox[p]))
      /\ UNCHANGED <<program, late, state, target, link, retry, listening, accepted, named, pool, fresh, redone>>
  BY <1>1, TakeRequestIs
<1>4. /\ serving'[p] = Len(client) + 1
      /\ inbox'[p] = Tail(inbox[p])
  BY <1>2 DEF Becomes
<1>5. \A x \in Procs : x # p =>
        serving'[x] = serving[x] /\ inbox'[x] = inbox[x]
  BY <1>2 DEF Becomes
<1> DEFINE f == Head(inbox[p])
           n == Len(client)
<1>6. /\ f \in Procs /\ f < p /\ Tail(inbox[p]) \in Seq(Procs)
      /\ \A i \in DOMAIN Tail(inbox[p]) : Tail(inbox[p])[i] < p
      /\ n \in Nat /\ client' \in Seq(Procs) /\ Len(client') = n + 1
      /\ DOMAIN client = 1..n /\ DOMAIN client' = 1..(n + 1)
      /\ client'[n + 1] = f /\ \A k \in 1..n : client'[k] = client[k]
  <2>1. inbox[p] \in Seq(Procs) /\ client \in Seq(Procs)
    BY <1>1, Typed
  <2>2. 1 \in DOMAIN inbox[p] /\ f = inbox[p][1] /\ f \in Procs /\ Tail(inbox[p]) \in Seq(Procs)
        /\ \A i \in DOMAIN Tail(inbox[p]) :
              i + 1 \in DOMAIN inbox[p] /\ Tail(inbox[p])[i] = inbox[p][i + 1]
    BY <1>3, <2>1
  <2>3. \A i \in DOMAIN inbox[p] : inbox[p][i] < p
    BY <1>1 DEF ProcessAt, ServerAt
  <2>4. f < p /\ \A i \in DOMAIN Tail(inbox[p]) : Tail(inbox[p])[i] < p
    BY <2>2, <2>3
  <2> HIDE DEF f
  <2>5. \A c \in Seq(Procs), g \in Procs :
           /\ Len(c) \in Nat /\ Append(c, g) \in Seq(Procs) /\ Len(Append(c, g)) = Len(c) + 1
           /\ DOMAIN c = 1..Len(c) /\ DOMAIN Append(c, g) = 1..(Len(c) + 1)
           /\ Append(c, g)[Len(c) + 1] = g
           /\ \A k \in 1..Len(c) : Append(c, g)[k] = c[k]
    OBVIOUS
  <2>6. client' = Append(client, f)
    BY <1>3 DEF f
  <2> QED
    BY <2>1, <2>2, <2>4, <2>5, <2>6
<1> HIDE DEF f, n
<1>7. Shape'
  <2>1. 0..n \subseteq 0..(n + 1) /\ n + 1 \in 0..(n + 1) /\ 1..n \subseteq 1..(n + 1)
    BY <1>6
  <2>2. /\ serving \in [Procs -> 0..n] /\ fresh \in [Procs -> 0..n]
        /\ pool \in [Procs -> [Procs -> 0..n]]
    BY <1>1 DEF Shape, n
  <2>3. /\ serving \in [Procs -> 0..(n + 1)] /\ fresh \in [Procs -> 0..(n + 1)]
        /\ pool \in [Procs -> [Procs -> 0..(n + 1)]]
    BY <2>1, <2>2
  <2>4. /\ serving' \in [Procs -> 0..Len(client')] /\ fresh' \in [Procs -> 0..Len(client')]
        /\ pool' \in [Procs -> [Procs -> 0..Len(client')]]
    <3>1. Becomes(serving, serving', p, n + 1)
      BY <1>2 DEF n
    <3> QED
      BY <1>3, <1>6, <2>1, <2>3, <3>1, Stays
  <2>5. inbox' \in [Procs -> Seq(Procs)]
    BY <1>1, <1>2, <1>6, Stays DEF Shape
  <2>6. named' \subseteq DOMAIN client'
    BY <1>1, <1>3, <1>6, <2>1 DEF Shape
  <2> QED
    BY <1>1, <1>3, <1>6, <2>4, <2>5, <2>6 DEF Shape
<1>8. ASSUME NEW x \in Procs, serving[x] # 0
       PROVE  serving[x] \in 1..n /\ client'[serving[x]] = client[serving[x]]
  BY <1>1, <1>6, <1>8, Typed DEF n
<1>9. ASSUME NEW x \in Procs, x # p PROVE ProcessAt(x)'
  <2>1. ProcessAt(x)
    BY DEF Base
  <2> QED
    BY <1>3, <1>5, <1>8, <1>9, <2>1
       DEF ProcessAt, BoundsAt, ClientAt, ServerAt, CountAt, Limit, SetUp
<1>10. ProcessAt(p)'
  <2>0. retry[p] \in Nat /\ accepted[p] \in Nat /\ redone[p] \in Nat /\ p \in Nat
    BY <1>1, Typed, Numbers
  <2>1. BoundsAt(p)'
    BY <1>1, <1>3, <1>4, <2>0, Numbers, RetriesAssumption
       DEF ProcessAt, BoundsAt, ClientAt, CountAt, Limit
  <2>2. ClientAt(p)'
    BY <1>1, <1>3, <1>4, <2>0, Numbers DEF ProcessAt, ClientAt
  <2>3. ServerAt(p)'
    <3>1. client'[serving'[p]] < p
      BY <1>4, <1>6 DEF n
    <3>2. \A i \in DOMAIN inbox'[p] : inbox'[p][i] < p
      BY <1>4, <1>6
    <3> QED
      BY <1>1, <1>3, <3>1, <3>2, Numbers DEF ProcessAt, ServerAt
  <2>4. CountAt(p)'
    BY <1>1, <1>3, <1>4, <2>0, Numbers DEF ProcessAt, BoundsAt, ClientAt, CountAt, SetUp
  <2> QED
    BY <2>1, <2>2, <2>3, <2>4 DEF ProcessAt
<1>11. ServersDiffer'
  <2> SUFFICES ASSUME NEW x \in Procs, NEW y \in Procs, serving'[x] # 0,
                      serving'[x] = serving'[y], x # y
               PROVE  FALSE
    BY DEF ServersDiffer
  <2>1. \A z \in Procs : z # p /\ serving[z] # 0 => serving[z] # n + 1
    BY <1>6, <1>8
  <2>2. serving'[p] = n + 1
    BY <1>4 DEF n
  <2> QED
    BY <1>1, <1>5, <2>1, <2>2 DEF ServersDiffer
<1> QED
  BY <1>7, <1>10, <1>11, <1>9 DEF Base

LEMMA AcceptBase == ASSUME Base, NEW p \in Procs, Accept(p) PROVE Base'
<1>1. Shape /\ ProcessAt(p) /\ ServersDiffer
  BY DEF Base
<1>0. client[serving[p]] \in Procs /\ serving[p] \in 0..Len(client)
  BY <1>1, Typed DEF Accept, AcceptReturns
<1>2. /\ Becomes(serving, serving', p, 0)
      /\ Becomes(pool, pool', p, [pool[p] EXCEPT ![client[serving[p]]] = serving[p]])
      /\ Becomes(accepted, accepted', p, accepted[p] + 1)
      /\ Becomes(state, state', p, AfterConnect(p, accepted[p] + 1))
  BY <1>1, <1>0, AcceptIs
<1>3. /\ state[p] = "accept" /\ serving[p] \in named
      /\ UNCHANGED <<program, late, target, link, retry, listening, inbox, client, named, fresh,
                     redone>>
  BY <1>1, <1>0, AcceptIs
<1>4. /\ serving'[p] = 0
      /\ pool'[p] = [pool[p] EXCEPT ![client[serving[p]]] = serving[p]]
      /\ accepted'[p] = accepted[p] + 1
      /\ state'[p] = AfterConnect(p, accepted[p] + 1)
  BY <1>2 DEF Becomes
<1>5. \A x \in Procs : x # p =>
        serving'[x] = serving[x] /\ pool'[x] = pool[x] /\ accepted'[x] = accepted[x] /\ state'[x] = state[x]
  BY <1>2 DEF Becomes
<1>6. Shape'
  <2>1. serving' \in [Procs -> 0..Len(client')]
    <3>1. client' = client /\ Len(client) \in Nat /\ serving \in [Procs -> 0..Len(client)]
      BY <1>1, <1>3, Typed DEF Shape
    <3>2. 0 \in 0..Len(client')
      BY <3>1
    <3> QED
      BY <1>2, <3>1, <3>2, Stays
  <2>2. pool' \in [Procs -> [Procs -> 0..Len(client')]]
    <3>1. /\ pool[p] \in [Procs -> 0..Len(client)] /\ serving[p] \in 0..Len(client)
          /\ pool \in [Procs -> [Procs -> 0..Len(client)]] /\ client' = client
      BY <1>1, <1>3, Typed DEF Shape
    <3>2. [pool[p] EXCEPT ![client[serving[p]]] = serving[p]] \in [Procs -> 0..Len(client')]
      BY <1>0, <3>1
    <3> QED
      BY <1>2, <3>1, <3>2, Stays
  <2>3. accepted' \in [Procs -> Nat]
    <3>1. accepted[p] + 1 \in Nat
      BY <1>1 DEF Shape
    <3> QED
      BY <1>1, <1>2, <3>1, Stays DEF Shape
  <2>4. state' \in [Procs -> States]
    <3>1. accepted[p] + 1 \in Nat
      BY <1>1 DEF Shape
    <3>2. AfterConnect(p, accepted[p] + 1) \in States
      BY <3>1, Numbers DEF States
    <3> QED
      BY <1>1, <1>2, <3>2, Stays DEF Shape
  <2> QED
    BY <1>1, <1>3, <2>1, <2>2, <2>3, <2>4 DEF Shape
<1>7. ASSUME NEW x \in Procs, x # p PROVE ProcessAt(x)'
  <2>1. ProcessAt(x)
    BY DEF Base
  <2> QED
    BY <1>3, <1>5, <1>7, <2>1
       DEF ProcessAt, BoundsAt, ClientAt, ServerAt, CountAt, Limit, SetUp
<1>8. ProcessAt(p)'
  <2>0. retry[p] \in Nat /\ accepted[p] \in Nat /\ redone[p] \in Nat /\ p \in Nat
    BY <1>1, Typed, Numbers
  <2>1. BoundsAt(p)'
    BY <1>1, <1>3, <1>4, <2>0, Numbers, RetriesAssumption
       DEF ProcessAt, BoundsAt, ClientAt, CountAt, Limit
  <2>2. ClientAt(p)'
    BY <1>1, <1>3, <1>4, <2>0, Numbers DEF ProcessAt, ClientAt
  <2>3. ServerAt(p)'
    BY <1>1, <1>3, <1>4, <2>0, Numbers DEF ProcessAt, ClientAt, ServerAt
  <2>4. CountAt(p)'
    BY <1>1, <1>3, <1>4, <2>0, Numbers DEF ProcessAt, BoundsAt, ClientAt, CountAt, SetUp
  <2> QED
    BY <2>1, <2>2, <2>3, <2>4 DEF ProcessAt
<1>9. ServersDiffer'
  BY <1>1, <1>3, <1>4, <1>5 DEF ServersDiffer
<1> QED
  BY <1>6, <1>7, <1>8, <1>9 DEF Base

LEMMA ReconnectBase == ASSUME Base, NEW p \in Procs, Reconnect(p) PROVE Base'
<1>1. Shape /\ ProcessAt(p) /\ ServersDiffer
  BY DEF Base
<1>2. /\ Becomes(target, target', p, NextCall(p))
  BY <1>1, ReconnectIs
<1>3. /\ state[p] = "up" /\ redone[p] < Len(program[p])
      /\ NextCall(p) \in Procs /\ NextCall(p) # p
      /\ NextCall(p) > p => /\ Becomes(link, link', p, "try")
                            /\ Becomes(retry, retry', p, 0)
                            /\ Becomes(state, state', p, "reconnect")
      /\ NextCall(p) < p => /\ Becomes(state, state', p, "reaccept")
                            /\ UNCHANGED <<link, retry>>
      /\ UNCHANGED <<program, late, listening, inbox, serving, client, named, accepted, pool, fresh, redone>>
  BY <1>1, ReconnectIs
<1>4. /\ target'[p] = NextCall(p)
  BY <1>2 DEF Becomes
<1>5. \A x \in Procs : x # p =>
        target'[x] = target[x]
  BY <1>2 DEF Becomes
<1>6. p \in Nat /\ NextCall(p) \in Nat /\ (NextCall(p) < p \/ NextCall(p) > p)
  BY <1>3, Numbers
<1>7. Shape'
  <2>1. target' \in [Procs -> Procs \cup {None}]
    BY <1>1, <1>2, <1>3, Stays DEF Shape
  <2>2. CASE NextCall(p) > p
    <3>1. link' \in [Procs -> {"none", "try", "asked", "sleep"}] /\ retry' \in [Procs -> Nat]
      BY <1>1, <1>3, <2>2, Stays DEF Shape
    <3>2. state' \in [Procs -> States]
      BY <1>1, <1>3, <2>2, Stays DEF States, Shape
    <3> QED
      BY <1>1, <1>3, <2>1, <3>1, <3>2 DEF Shape
  <2>3. CASE NextCall(p) < p
    <3>1. state' \in [Procs -> States]
      BY <1>1, <1>3, <2>3, Stays DEF States, Shape
    <3>2. UNCHANGED <<link, retry>>
      BY <1>3, <2>3
    <3> QED
      BY <1>1, <1>3, <2>1, <3>1, <3>2 DEF Shape
  <2> QED
    BY <1>6, <2>2, <2>3
<1>8. /\ NextCall(p) > p => link'[p] = "try" /\ retry'[p] = 0 /\ state'[p] = "reconnect"
      /\ NextCall(p) < p => link'[p] = link[p] /\ retry'[p] = retry[p] /\ state'[p] = "reaccept"
      /\ \A x \in Procs : x # p =>
           link'[x] = link[x] /\ retry'[x] = retry[x] /\ state'[x] = state[x]
  BY <1>3, <1>6 DEF Becomes
<1>9. ASSUME NEW x \in Procs, x # p PROVE ProcessAt(x)'
  <2>1. ProcessAt(x)
    BY DEF Base
  <2> QED
    BY <1>3, <1>5, <1>8, <1>9, <2>1
       DEF ProcessAt, BoundsAt, ClientAt, ServerAt, CountAt, Limit, SetUp
<1>10. ProcessAt(p)'
  <2>0. /\ state[p] = "up" /\ redone[p] < Len(program[p])
        /\ UNCHANGED <<program, listening, inbox, serving, client, accepted, redone>>
    BY <1>3
  <2>1. BoundsAt(p)'
    <3>1. retry'[p] = 0 /\ Limit(p)' \in Nat /\ 0 =< Limit(p)'
      BY <1>1, <1>6, <1>8, <2>0, RetriesAssumption DEF ProcessAt, ClientAt, Limit
    <3> QED
      BY <1>1, <2>0, <3>1 DEF ProcessAt, BoundsAt
  <2>2. ClientAt(p)'
    <3>1. target'[p] = NextCall(p) /\ NextCall(p) \in Procs
      BY <1>3, <1>4
    <3>2. link[p] = "none" /\ retry[p] = 0 /\ fresh'[p] = 0
      BY <1>1, <1>3, <2>0 DEF ProcessAt, ClientAt
    <3> QED
      BY <1>6, <1>8, <3>1, <3>2 DEF ClientAt
  <2>3. ServerAt(p)'
    BY <1>1, <1>6, <1>8, <2>0 DEF ProcessAt, ServerAt
  <2>4. CountAt(p)'
    BY <1>1, <1>6, <1>8, <2>0 DEF ProcessAt, CountAt, SetUp
  <2> QED
    BY <2>1, <2>2, <2>3, <2>4 DEF ProcessAt
<1>11. ServersDiffer'
  BY <1>1, <1>3 DEF ServersDiffer
<1> QED
  BY <1>7, <1>9, <1>10, <1>11 DEF Base

LEMMA ReacceptBase == ASSUME Base, NEW p \in Procs, Reaccept(p) PROVE Base'
<1>1. Shape /\ ProcessAt(p) /\ ServersDiffer
  BY DEF Base
<1>0. target[p] \in Procs /\ target[p] < p
  BY <1>1 DEF Reaccept, ProcessAt, ClientAt
<1>2. /\ Becomes(serving, serving', p, 0)
      /\ Becomes(fresh, fresh', p, serving[p])
      /\ Becomes(state, state', p, "closing")
  BY <1>1, <1>0, ReacceptIs
<1>3. /\ state[p] = "reaccept" /\ serving[p] \in named
      /\ UNCHANGED <<program, late, target, link, retry, listening, inbox, accepted, client,
                     named, pool, redone>>
  BY <1>1, <1>0, ReacceptIs
<1>4. /\ serving'[p] = 0
      /\ fresh'[p] = serving[p]
      /\ state'[p] = "closing"
  BY <1>2 DEF Becomes
<1>5. \A x \in Procs : x # p =>
        serving'[x] = serving[x] /\ fresh'[x] = fresh[x] /\ state'[x] = state[x]
  BY <1>2 DEF Becomes
<1>6. Shape'
  <2>1. serving' \in [Procs -> 0..Len(client')]
    <3>1. client' = client /\ Len(client) \in Nat /\ serving \in [Procs -> 0..Len(client)]
      BY <1>1, <1>3, Typed DEF Shape
    <3>2. 0 \in 0..Len(client')
      BY <3>1
    <3> QED
      BY <1>2, <3>1, <3>2, Stays
  <2>2. fresh' \in [Procs -> 0..Len(client')]
    <3>1. /\ fresh \in [Procs -> 0..Len(client)] /\ serving[p] \in 0..Len(client)
          /\ client' = client
      BY <1>1, <1>3, Typed DEF Shape
    <3> QED
      BY <1>2, <3>1, Stays
  <2>3. state' \in [Procs -> States]
    BY <1>1, <1>2, <1>0, Numbers, Stays DEF States, Shape
  <2> QED
    BY <1>1, <1>3, <2>1, <2>2, <2>3 DEF Shape
<1>7. ASSUME NEW x \in Procs, x # p PROVE ProcessAt(x)'
  <2>1. ProcessAt(x)
    BY DEF Base
  <2> QED
    BY <1>3, <1>5, <1>7, <2>1
       DEF ProcessAt, BoundsAt, ClientAt, ServerAt, CountAt, Limit, SetUp
<1>8. ProcessAt(p)'
  <2>0. retry[p] \in Nat /\ accepted[p] \in Nat /\ redone[p] \in Nat /\ p \in Nat
    BY <1>1, Typed, Numbers
  <2>1. BoundsAt(p)'
    BY <1>1, <1>3, <1>4, <2>0, Numbers, RetriesAssumption, Calls
       DEF ProcessAt, BoundsAt, ClientAt, CountAt, Limit
  <2>2. ClientAt(p)'
    <3>1. target[p] # p /\ serving[p] # 0
      BY <1>0, <1>1, <1>3, Numbers, Typed
    <3> QED
      BY <1>0, <1>1, <1>3, <1>4, <3>1 DEF ProcessAt, ClientAt
  <2>3. ServerAt(p)'
    BY <1>1, <1>3, <1>4, <2>0, Numbers, Calls DEF ProcessAt, ClientAt, ServerAt
  <2>4. CountAt(p)'
    BY <1>1, <1>3, <1>4, <2>0, Numbers, Calls DEF ProcessAt, BoundsAt, ClientAt, CountAt, SetUp
  <2> QED
    BY <2>1, <2>2, <2>3, <2>4 DEF ProcessAt
<1>9. ServersDiffer'
  BY <1>1, <1>3, <1>4, <1>5 DEF ServersDiffer
<1> QED
  BY <1>6, <1>7, <1>8, <1>9 DEF Base

LEMMA ReacceptThrowsBase == ASSUME Base, NEW p \in Procs, ReacceptThrows(p) PROVE Base'
<1>1. Shape /\ ProcessAt(p) /\ ServersDiffer
  BY DEF Base
<1>2. /\ Becomes(serving, serving', p, 0)
      /\ Becomes(state, state', p, "failed")
      /\ Becomes(listening, listening', p, FALSE)
      /\ Becomes(inbox, inbox', p, <<>>)
  BY <1>1, ReacceptThrowsIs
<1>3. /\ state[p] = "reaccept"
      /\ UNCHANGED <<program, late, target, link, retry, accepted, client, named, pool, fresh, redone>>
  BY <1>1, ReacceptThrowsIs
<1>4. /\ serving'[p] = 0
      /\ state'[p] = "failed"
      /\ listening'[p] = FALSE
      /\ inbox'[p] = <<>>
  BY <1>2 DEF Becomes
<1>5. \A x \in Procs : x # p =>
        serving'[x] = serving[x] /\ state'[x] = state[x] /\ listening'[x] = listening[x] /\ inbox'[x] = inbox[x]
  BY <1>2 DEF Becomes
<1>6. Shape'
  <2>1. serving' \in [Procs -> 0..Len(client')]
    <3>1. client' = client /\ Len(client) \in Nat /\ serving \in [Procs -> 0..Len(client)]
      BY <1>1, <1>3, Typed DEF Shape
    <3>2. 0 \in 0..Len(client')
      BY <3>1
    <3> QED
      BY <1>2, <3>1, <3>2, Stays
  <2>2. state' \in [Procs -> States]
    BY <1>1, <1>2, Numbers, Stays DEF States, Shape
  <2>3. listening' \in [Procs -> BOOLEAN]
    BY <1>1, <1>2, Numbers, Stays DEF Shape
  <2>4. inbox' \in [Procs -> Seq(Procs)]
    <3>1. <<>> \in Seq(Procs)
      OBVIOUS
    <3> QED
      BY <1>1, <1>2, <3>1, Stays DEF Shape
  <2> QED
    BY <1>1, <1>3, <2>1, <2>2, <2>3, <2>4 DEF Shape
<1>7. ASSUME NEW x \in Procs, x # p PROVE ProcessAt(x)'
  <2>1. ProcessAt(x)
    BY DEF Base
  <2> QED
    BY <1>3, <1>5, <1>7, <2>1
       DEF ProcessAt, BoundsAt, ClientAt, ServerAt, CountAt, Limit, SetUp
<1>8. ProcessAt(p)'
  <2>0. retry[p] \in Nat /\ accepted[p] \in Nat /\ redone[p] \in Nat /\ p \in Nat
    BY <1>1, Typed, Numbers
  <2>1. BoundsAt(p)'
    BY <1>1, <1>3, <1>4, <2>0, Numbers, RetriesAssumption
       DEF ProcessAt, BoundsAt, ClientAt, CountAt, Limit
  <2>2. ClientAt(p)'
    BY <1>1, <1>3, <1>4, <2>0, Numbers DEF ProcessAt, ClientAt
  <2>3. ServerAt(p)'
    BY <1>1, <1>3, <1>4, <2>0, Numbers DEF ProcessAt, ClientAt, ServerAt
  <2>4. CountAt(p)'
    BY <1>1, <1>3, <1>4, <2>0, Numbers DEF ProcessAt, BoundsAt, ClientAt, CountAt, SetUp
  <2> QED
    BY <2>1, <2>2, <2>3, <2>4 DEF ProcessAt
<1>9. ServersDiffer'
  BY <1>1, <1>3, <1>4, <1>5 DEF ServersDiffer
<1> QED
  BY <1>6, <1>7, <1>8, <1>9 DEF Base

LEMMA CloseReturnsBase == ASSUME Base, NEW p \in Procs, CloseReturns(p) PROVE Base'
<1>1. Shape /\ ProcessAt(p) /\ ServersDiffer
  BY DEF Base
<1>0. target[p] \in Procs /\ target[p] # p
  BY <1>1 DEF CloseReturns, ProcessAt, ClientAt
<1>2. /\ Becomes(pool, pool', p, [pool[p] EXCEPT ![target[p]] = fresh[p]])
      /\ Becomes(fresh, fresh', p, 0)
      /\ Becomes(redone, redone', p, redone[p] + 1)
      /\ Becomes(state, state', p, "up")
  BY <1>1, <1>0, CloseReturnsIs
<1>3. /\ state[p] = "closing"
      /\ UNCHANGED <<program, late, target, link, retry, listening, inbox, serving, client,
                     named, accepted>>
  BY <1>1, <1>0, CloseReturnsIs
<1>4. fresh'[p] = 0 /\ redone'[p] = redone[p] + 1 /\ state'[p] = "up"
  BY <1>2 DEF Becomes
<1>5. \A x \in Procs : x # p =>
        fresh'[x] = fresh[x] /\ redone'[x] = redone[x] /\ state'[x] = state[x]
  BY <1>2 DEF Becomes
<1>6. Shape'
  <2>0. /\ pool \in [Procs -> [Procs -> 0..Len(client)]] /\ pool[p] \in [Procs -> 0..Len(client)]
        /\ fresh \in [Procs -> 0..Len(client)] /\ fresh[p] \in 0..Len(client)
        /\ Len(client) \in Nat /\ client' = client
    BY <1>1, <1>3, Typed DEF Shape
  <2>1. pool' \in [Procs -> [Procs -> 0..Len(client')]]
    <3>1. [pool[p] EXCEPT ![target[p]] = fresh[p]] \in [Procs -> 0..Len(client')]
      BY <1>0, <2>0
    <3> QED
      BY <1>2, <2>0, <3>1, Stays
  <2>2. fresh' \in [Procs -> 0..Len(client')]
    <3>1. 0 \in 0..Len(client')
      BY <2>0
    <3> QED
      BY <1>2, <2>0, <3>1, Stays
  <2>3. redone' \in [Procs -> Nat]
    <3>1. redone[p] + 1 \in Nat
      BY <1>1 DEF Shape
    <3> QED
      BY <1>1, <1>2, <3>1, Stays DEF Shape
  <2>4. state' \in [Procs -> States]
    BY <1>1, <1>2, Stays DEF States, Shape
  <2> QED
    BY <1>1, <1>3, <2>1, <2>2, <2>3, <2>4 DEF Shape
<1>7. ASSUME NEW x \in Procs, x # p PROVE ProcessAt(x)'
  <2>1. ProcessAt(x)
    BY DEF Base
  <2> QED
    BY <1>3, <1>5, <1>7, <2>1
       DEF ProcessAt, BoundsAt, ClientAt, ServerAt, CountAt, Limit, SetUp
<1>8. ProcessAt(p)'
  <2>0. retry[p] \in Nat /\ accepted[p] \in Nat /\ redone[p] \in Nat /\ p \in Nat
    BY <1>1, Typed, Numbers
  <2>1. BoundsAt(p)'
    BY <1>1, <1>3, <1>4, <2>0, RetriesAssumption, Calls
       DEF ProcessAt, BoundsAt, ClientAt, CountAt, Limit
  <2>2. ClientAt(p)'
    BY <1>1, <1>3, <1>4 DEF ProcessAt, ClientAt
  <2>3. ServerAt(p)'
    BY <1>1, <1>3, <1>4 DEF ProcessAt, ServerAt
  <2>4. CountAt(p)'
    BY <1>1, <1>3, <1>4 DEF ProcessAt, CountAt, SetUp
  <2> QED
    BY <2>1, <2>2, <2>3, <2>4 DEF ProcessAt
<1>9. ServersDiffer'
  BY <1>1, <1>3 DEF ServersDiffer
<1> QED
  BY <1>6, <1>7, <1>8, <1>9 DEF Base

LEMMA CloseLostBase == ASSUME Base, NEW p \in Procs, CloseLost(p) PROVE Base'
<1>1. Shape /\ ProcessAt(p) /\ ServersDiffer
  BY DEF Base
<1>2. PICK alive \in BOOLEAN :
        /\ Becomes(listening, listening', p, (listening[p] /\ alive))
        /\ Becomes(inbox, inbox', p, (IF alive THEN inbox[p] ELSE <<>>))
  BY <1>1, CloseLostIs
<1>3. /\ state[p] = "closing" /\ Becomes(state, state', p, "lost")
      /\ UNCHANGED <<program, late, target, link, retry, serving, client, named, accepted,
                     pool, fresh, redone>>
  BY <1>1, CloseLostIs
<1>4. /\ state'[p] = "lost" /\ listening'[p] = (listening[p] /\ alive)
      /\ inbox'[p] = (IF alive THEN inbox[p] ELSE <<>>)
  BY <1>2, <1>3 DEF Becomes
<1>5. \A x \in Procs : x # p =>
        listening'[x] = listening[x] /\ inbox'[x] = inbox[x] /\ state'[x] = state[x]
  BY <1>2, <1>3 DEF Becomes
<1>6. Shape'
  <2>1. listening' \in [Procs -> BOOLEAN]
    BY <1>1, <1>2, Stays DEF Shape
  <2>2. inbox' \in [Procs -> Seq(Procs)]
    <3>1. (IF alive THEN inbox[p] ELSE <<>>) \in Seq(Procs)
      BY <1>1, Typed
    <3> QED
      BY <1>1, <1>2, <3>1, Stays DEF Shape
  <2>3. state' \in [Procs -> States]
    BY <1>1, <1>3, Stays DEF States, Shape
  <2> QED
    BY <1>1, <1>3, <2>1, <2>2, <2>3 DEF Shape
<1>7. ASSUME NEW x \in Procs, x # p PROVE ProcessAt(x)'
  <2>1. ProcessAt(x)
    BY DEF Base
  <2> QED
    BY <1>3, <1>5, <1>7, <2>1
       DEF ProcessAt, BoundsAt, ClientAt, ServerAt, CountAt, Limit, SetUp
<1>8. ProcessAt(p)'
  <2>1. BoundsAt(p)'
    BY <1>1, <1>3, <1>4 DEF ProcessAt, BoundsAt, ClientAt, Limit
  <2>2. ClientAt(p)'
    BY <1>1, <1>3, <1>4 DEF ProcessAt, ClientAt
  <2>3. ServerAt(p)'
    <3>1. serving[p] = 0
      BY <1>1, <1>3 DEF ProcessAt, ServerAt
    <3>2. CASE alive
      BY <1>1, <1>3, <1>4, <3>1, <3>2 DEF ProcessAt, ServerAt
    <3>3. CASE ~alive
      BY <1>3, <1>4, <3>1, <3>3 DEF ServerAt
    <3> QED
      BY <3>2, <3>3
  <2>4. CountAt(p)'
    BY <1>1, <1>3, <1>4 DEF ProcessAt, CountAt, SetUp
  <2> QED
    BY <2>1, <2>2, <2>3, <2>4 DEF ProcessAt
<1>9. ServersDiffer'
  BY <1>1, <1>3 DEF ServersDiffer
<1> QED
  BY <1>6, <1>7, <1>8, <1>9 DEF Base

LEMMA BaseNext == ASSUME Base, [Next]_vars PROVE Base'
<1>1. CASE UNCHANGED vars
  <2>1. Shape'
    BY <1>1 DEF Base, Shape, vars, env, cm, socks
  <2>2. ServersDiffer'
    BY <1>1 DEF Base, ServersDiffer, vars, cm
  <2>3. ASSUME NEW p \in Procs PROVE ProcessAt(p)'
    <3>1. ProcessAt(p)
      BY DEF Base
    <3> QED
      BY <1>1, <3>1 DEF ProcessAt, BoundsAt, ClientAt, ServerAt, CountAt, Limit, SetUp,
                        vars, env, cm, socks
  <2> QED
    BY <2>1, <2>2, <2>3 DEF Base
<1>2. ASSUME NEW p \in Procs, Process(p) PROVE Base'
  BY <1>2, StartBase, RequestBase, RetryBase, GiveUpBase, WakeUpBase, ConnectedBase,
     TakeRequestBase, AcceptBase, ReconnectBase, ReacceptBase, ReacceptThrowsBase,
     CloseReturnsBase, CloseLostBase DEF Process
<1> QED
  BY <1>1, <1>2 DEF Next

(***************************************************************************)
(* The variables keep their types, no policy retries more often than it    *)
(* says, setupAccept takes no more clients than there are lower ranks.     *)
(***************************************************************************)
THEOREM TypeCorrect == Spec => []TypeOK
<1>1. Spec => []Base
  BY BaseInit, BaseNext, PTL DEF Spec
<1>2. Base => TypeOK
  BY TypeParts DEF Base, ProcessAt
<1> QED
  BY <1>1, <1>2, PTL

-----------------------------------------------------------------------------
(* The two ends of a connection *)

LEMMA PoolWritten ==
    ASSUME Shape, NEW p \in Procs, NEW q \in Procs, NEW e,
           Becomes(pool, pool', p, [pool[p] EXCEPT ![q] = e])
    PROVE  /\ pool'[p][q] = e
           /\ \A x, y \in Procs : x # p \/ y # q => pool'[x][y] = pool[x][y]
<1>1. pool'[p] = [pool[p] EXCEPT ![q] = e] /\ \A x \in Procs : x # p => pool'[x] = pool[x]
  BY DEF Becomes
<1>2. pool[p] \in [Procs -> 0..Len(client)]
  BY Typed
<1> QED
  BY <1>1, <1>2

\* A step that leaves the sockets of a process alone, and its target while it
\* has a new one, does not change what it holds.
LEMMA HeldStays ==
    ASSUME Shape, NEW x \in Procs, pool'[x] = pool[x], fresh'[x] = fresh[x],
           fresh[x] = 0 \/ target'[x] = target[x]
    PROVE  \A y \in Procs : Held(x, y)' = Held(x, y)
  BY DEF Held

\* p holds the connection e with q now, and nothing else has changed.
Holds(p, q, e) ==
    /\ Held(p, q)' = e
    /\ \A x, y \in Procs : x # p \/ y # q => Held(x, y)' = Held(x, y)

LEMMA ConnectedHolds ==
    ASSUME Base, NEW p \in Procs, Connected(p), NEW t \in Procs, t = target[p]
    PROVE  Holds(p, t, serving[t])
<1> DEFINE s == serving[t]
<1>1. Shape /\ ProcessAt(p)
  BY DEF Base
<1>2. t \in Procs
  OBVIOUS
<1>3. /\ Becomes(pool, pool', p, (IF state[p] = "connect" THEN [pool[p] EXCEPT ![t] = s]
                                  ELSE pool[p]))
      /\ Becomes(fresh, fresh', p, (IF state[p] = "connect" THEN fresh[p] ELSE s))
      /\ Becomes(target, target', p, (IF state[p] = "connect" THEN AfterTarget(t) ELSE t))
      /\ s # 0 /\ state[p] \in {"connect", "reconnect"}
  BY <1>1, <1>2, ConnectedIs DEF Taken
<1>4. fresh[p] = 0
  BY <1>1, <1>3 DEF ProcessAt, ClientAt
<1>5. ASSUME NEW x \in Procs, x # p PROVE \A y \in Procs : Held(x, y)' = Held(x, y)
  BY <1>1, <1>3, <1>5, HeldStays DEF Becomes
<1>6. CASE state[p] = "connect"
  <2>1. fresh'[p] = 0 /\ Becomes(pool, pool', p, [pool[p] EXCEPT ![t] = s])
    BY <1>3, <1>4, <1>6 DEF Becomes
  <2>2. pool'[p][t] = s /\ \A x, y \in Procs : x # p \/ y # t => pool'[x][y] = pool[x][y]
    BY <1>1, <1>2, <2>1, PoolWritten
  <2>3. \A y \in Procs : Held(p, y)' = pool'[p][y] /\ Held(p, y) = pool[p][y]
    BY <1>4, <2>1 DEF Held
  <2> QED
    BY <1>2, <1>5, <2>2, <2>3 DEF Holds
<1>7. CASE state[p] = "reconnect"
  <2>1. fresh'[p] = s /\ target'[p] = t /\ pool'[p] = pool[p]
    BY <1>3, <1>7 DEF Becomes
  <2>2. Held(p, t)' = s /\ \A y \in Procs : y # t => Held(p, y)' = Held(p, y)
    BY <1>3, <1>4, <2>1 DEF Held
  <2> QED
    BY <1>5, <2>2 DEF Holds
<1> QED
  BY <1>3, <1>6, <1>7

LEMMA AcceptHolds ==
    ASSUME Base, NEW p \in Procs, Accept(p), NEW c \in Procs, c = client[serving[p]]
    PROVE  Holds(p, c, serving[p])
<1>1. Shape /\ ProcessAt(p)
  BY DEF Base
<1>2. c \in Procs
  OBVIOUS
<1>3. /\ Becomes(pool, pool', p, [pool[p] EXCEPT ![c] = serving[p]])
      /\ state[p] = "accept" /\ UNCHANGED <<fresh, target>>
  BY <1>1, <1>2, AcceptIs
<1>4. fresh[p] = 0
  BY <1>1, <1>3 DEF ProcessAt, ClientAt
<1>5. ASSUME NEW x \in Procs, x # p PROVE \A y \in Procs : Held(x, y)' = Held(x, y)
  BY <1>1, <1>3, <1>5, HeldStays DEF Becomes
<1>6. /\ pool'[p][c] = serving[p]
      /\ \A x, y \in Procs : x # p \/ y # c => pool'[x][y] = pool[x][y]
  BY <1>1, <1>2, <1>3, PoolWritten
<1>7. \A y \in Procs : Held(p, y)' = pool'[p][y] /\ Held(p, y) = pool[p][y]
  BY <1>3, <1>4 DEF Held
<1> QED
  BY <1>2, <1>5, <1>6, <1>7 DEF Holds

LEMMA ReacceptHolds ==
    ASSUME Base, NEW p \in Procs, Reaccept(p), NEW c \in Procs, c = target[p]
    PROVE  Holds(p, c, serving[p])
<1>1. Shape /\ ProcessAt(p)
  BY DEF Base
<1>2. /\ Becomes(fresh, fresh', p, serving[p]) /\ serving[p] \in named
      /\ state[p] = "reaccept" /\ UNCHANGED <<pool, target>>
  BY <1>1, ReacceptIs
<1>3. fresh[p] = 0 /\ serving[p] # 0
  BY <1>1, <1>2, Typed DEF ProcessAt, ClientAt
<1>4. ASSUME NEW x \in Procs, x # p PROVE \A y \in Procs : Held(x, y)' = Held(x, y)
  BY <1>1, <1>2, <1>4, HeldStays DEF Becomes
<1>5. /\ Held(p, c)' = serving[p]
      /\ \A y \in Procs : y # c => Held(p, y)' = Held(p, y)
  BY <1>2, <1>3 DEF Becomes, Held
<1> QED
  BY <1>4, <1>5 DEF Holds

\* To store a new connection changes nothing of what is held.
LEMMA CloseReturnsHolds ==
    ASSUME Base, NEW p \in Procs, CloseReturns(p)
    PROVE  \A x, y \in Procs : Held(x, y)' = Held(x, y)
<1>1. Shape /\ ProcessAt(p)
  BY DEF Base
<1>2. target[p] \in Procs /\ fresh[p] # 0
  BY <1>1 DEF CloseReturns, ProcessAt, ClientAt
<1>3. /\ Becomes(pool, pool', p, [pool[p] EXCEPT ![target[p]] = fresh[p]])
      /\ Becomes(fresh, fresh', p, 0) /\ target' = target
  BY <1>1, <1>2, CloseReturnsIs
<1>4. ASSUME NEW x \in Procs, x # p PROVE \A y \in Procs : Held(x, y)' = Held(x, y)
  BY <1>1, <1>3, <1>4, HeldStays DEF Becomes
<1>5. /\ pool'[p][target[p]] = fresh[p]
      /\ \A x, y \in Procs : x # p \/ y # target[p] => pool'[x][y] = pool[x][y]
  BY <1>1, <1>2, <1>3, PoolWritten
<1>6. \A y \in Procs : Held(p, y)' = Held(p, y)
  BY <1>2, <1>3, <1>5 DEF Becomes, Held
<1> QED
  BY <1>4, <1>6

\* Processes that only fail, wait or store leave the connections alone.
LEMMA AgreeStays ==
    ASSUME AgreeInv, UNCHANGED <<serving, client, named>>,
           \A x, y \in Procs : Held(x, y)' = Held(x, y),
           \A x \in Procs : state'[x] # "failed" => state[x] # "failed"
    PROVE  AgreeInv'
<1> SUFFICES ASSUME NEW x \in Procs, NEW y \in Procs, x < y, state'[y] # "failed"
             PROVE  Held(x, y)' = IF Named(y, x)' THEN serving'[y] ELSE Held(y, x)'
  BY DEF AgreeInv
<1>1. Held(x, y) = IF Named(y, x) THEN serving[y] ELSE Held(y, x)
  BY DEF AgreeInv
<1>2. Named(y, x)' <=> Named(y, x)
  BY DEF Named
<1> QED
  BY <1>1, <1>2

LEMMA ConnectedAgree == ASSUME Base, AgreeInv, NEW p \in Procs, Connected(p) PROVE AgreeInv'
<1>1. Shape /\ ServersDiffer /\ ProcessAt(p)
  BY DEF Base
<1>2. PICK t \in Procs : t = target[p] /\ p < t
  BY <1>1, Numbers DEF Connected, Taken, ProcessAt, ClientAt
<1> DEFINE s == serving[t]
<1>3. /\ s # 0 /\ client[s] = p /\ s \notin named /\ named' = named \cup {s}
      /\ UNCHANGED <<serving, client>>
  BY <1>1, <1>2, ConnectedIs DEF Taken
<1>4. /\ Held(p, t)' = s
      /\ \A x, y \in Procs : x # p \/ y # t => Held(x, y)' = Held(x, y)
  BY <1>2, ConnectedHolds DEF Holds
<1>5. \A y \in Procs : y # t => (serving[y] # 0 => serving[y] # s)
  BY <1>1, <1>2 DEF ServersDiffer
<1>6. /\ state[p] # "failed" /\ \A y \in Procs : y # p => state'[y] = state[y]
  BY <1>1, <1>2, ConnectedIs DEF Becomes
<1> SUFFICES ASSUME NEW x \in Procs, NEW y \in Procs, x < y, state'[y] # "failed"
             PROVE  Held(x, y)' = IF Named(y, x)' THEN serving'[y] ELSE Held(y, x)'
  BY DEF AgreeInv
<1>7. Held(x, y) = IF Named(y, x) THEN serving[y] ELSE Held(y, x)
  BY <1>6 DEF AgreeInv
<1>8. p \in Nat /\ t \in Nat /\ x \in Nat /\ y \in Nat
  BY <1>2, Numbers
<1>9. CASE y = t /\ x = p
  <2>1. Named(y, x)'
    BY <1>3, <1>9 DEF Named
  <2> QED
    BY <2>1, <1>3, <1>4, <1>9
<1>10. CASE y = t /\ x # p
  <2>1. ~Named(y, x)' /\ ~Named(y, x)
    BY <1>3, <1>10 DEF Named
  <2>2. y # p
    BY <1>2, <1>8, <1>10
  <2> QED
    BY <2>1, <2>2, <1>4, <1>7, <1>10
<1>11. CASE y # t
  <2>1. Named(y, x)' <=> Named(y, x)
    BY <1>3, <1>5, <1>11 DEF Named
  <2>2. y # p \/ x # t
    BY <1>2, <1>8
  <2> QED
    BY <2>1, <2>2, <1>3, <1>4, <1>7, <1>11
<1> QED
  BY <1>9, <1>10, <1>11

LEMMA TakeRequestAgree == ASSUME Base, AgreeInv, NEW p \in Procs, TakeRequest(p) PROVE AgreeInv'
<1>1. Shape
  BY DEF Base
<1>2. /\ serving[p] = 0 /\ serving'[p] = Len(client) + 1
      /\ client' = Append(client, Head(inbox[p]))
      /\ \A x \in Procs : x # p => serving'[x] = serving[x]
      /\ UNCHANGED <<state, named, pool, fresh, target>>
  BY <1>1, TakeRequestIs DEF Becomes
<1>3. Len(client) \in Nat /\ client \in Seq(Procs) /\ \A n \in named : n \in 1..Len(client)
  BY <1>1, Typed
<1>4. Len(client) + 1 \notin named
  BY <1>3
<1>5. \A n \in 1..Len(client) : client'[n] = client[n]
  BY <1>2, <1>3
<1> SUFFICES ASSUME NEW x \in Procs, NEW y \in Procs, x < y, state'[y] # "failed"
             PROVE  Held(x, y)' = IF Named(y, x)' THEN serving'[y] ELSE Held(y, x)'
  BY DEF AgreeInv
<1>6. Held(x, y) = IF Named(y, x) THEN serving[y] ELSE Held(y, x)
  BY <1>2 DEF AgreeInv
<1>9. Held(x, y)' = Held(x, y) /\ Held(y, x)' = Held(y, x)
  BY <1>2 DEF Held
<1>7. CASE y = p
  BY <1>2, <1>4, <1>6, <1>7, <1>9 DEF Named
<1>8. CASE y # p
  <2>1. Named(y, x)' <=> Named(y, x)
    BY <1>2, <1>3, <1>5, <1>8 DEF Named
  <2> QED
    BY <2>1, <1>2, <1>6, <1>8, <1>9
<1> QED
  BY <1>7, <1>8

\* accept_ returns at p with a connection whose client is c.
LEMMA AcceptReturnsAgree ==
    ASSUME Base, AgreeInv, NEW p \in Procs, NEW c \in Procs, c < p, state[p] # "failed",
           serving[p] \in named, client[serving[p]] = c,
           Becomes(serving, serving', p, 0),
           Holds(p, c, serving[p]),
           \A x \in Procs : x # p => state'[x] = state[x],
           UNCHANGED <<client, named>>
    PROVE  AgreeInv'
<1>1. Shape
  BY DEF Base
<1>2. serving[p] # 0 /\ serving'[p] = 0 /\ \A x \in Procs : x # p => serving'[x] = serving[x]
  BY <1>1, Typed DEF Becomes
<1>3. /\ Held(p, c)' = serving[p]
      /\ \A x, y \in Procs : x # p \/ y # c => Held(x, y)' = Held(x, y)
  BY DEF Holds
<1> SUFFICES ASSUME NEW x \in Procs, NEW y \in Procs, x < y, state'[y] # "failed"
             PROVE  Held(x, y)' = IF Named(y, x)' THEN serving'[y] ELSE Held(y, x)'
  BY DEF AgreeInv
<1>4. Held(x, y) = IF Named(y, x) THEN serving[y] ELSE Held(y, x)
  BY DEF AgreeInv
<1>5. p \in Nat /\ c \in Nat /\ x \in Nat /\ y \in Nat
  BY Numbers
<1>6. CASE y = p
  <2>1. ~Named(y, x)'
    BY <1>2, <1>6 DEF Named
  <2>2. x # p
    BY <1>5, <1>6
  <2>3. CASE x = c
    <3>1. Named(y, x)
      BY <1>2, <1>6, <2>3 DEF Named
    <3> QED
      BY <1>3, <1>4, <1>6, <2>1, <2>2, <2>3, <3>1
  <2>4. CASE x # c
    <3>1. ~Named(y, x)
      BY <1>6, <2>4 DEF Named
    <3> QED
      BY <1>3, <1>4, <1>6, <2>1, <2>2, <2>4, <3>1
  <2> QED
    BY <2>3, <2>4
<1>7. CASE y # p
  <2>1. Named(y, x)' <=> Named(y, x)
    BY <1>2, <1>7 DEF Named
  <2>2. x # p \/ y # c
    BY <1>5
  <2> QED
    BY <1>2, <1>3, <1>4, <1>7, <2>1, <2>2
<1> QED
  BY <1>6, <1>7

LEMMA StateReconnect ==
    ASSUME Shape, NEW p \in Procs, Reconnect(p)
    PROVE  /\ state[p] = "up" /\ state'[p] \in {"reconnect", "reaccept"}
           /\ \A x \in Procs : x # p => state'[x] = state[x]
<1>1. NextCall(p) \in Nat /\ p \in Nat /\ NextCall(p) # p
  BY ReconnectIs, Numbers
<1>2. CASE NextCall(p) > p
  BY <1>2, ReconnectIs DEF Becomes
<1>3. CASE NextCall(p) < p
  BY <1>3, ReconnectIs DEF Becomes
<1> QED
  BY <1>1, <1>2, <1>3

LEMMA ReacceptThrowsAgree ==
    ASSUME Shape, AgreeInv, NEW p \in Procs, ReacceptThrows(p) PROVE AgreeInv'
<1>1. /\ state'[p] = "failed" /\ UNCHANGED <<client, named, pool, fresh, target>>
      /\ \A x \in Procs : x # p => state'[x] = state[x] /\ serving'[x] = serving[x]
  BY ReacceptThrowsIs DEF Becomes
<1> SUFFICES ASSUME NEW x \in Procs, NEW y \in Procs, x < y, state'[y] # "failed"
             PROVE  Held(x, y)' = IF Named(y, x)' THEN serving'[y] ELSE Held(y, x)'
  BY DEF AgreeInv
<1>2. y # p /\ Held(x, y) = IF Named(y, x) THEN serving[y] ELSE Held(y, x)
  BY <1>1 DEF AgreeInv
<1>3. Named(y, x)' <=> Named(y, x)
  BY <1>1, <1>2 DEF Named
<1>4. Held(x, y)' = Held(x, y) /\ Held(y, x)' = Held(y, x)
  BY <1>1 DEF Held
<1> QED
  BY <1>1, <1>2, <1>3, <1>4

LEMMA AgreeNext == ASSUME Base, AgreeInv, [Next]_vars PROVE AgreeInv'
<1>1. Shape /\ \A p \in Procs : ProcessAt(p)
  BY DEF Base
<1>2. ASSUME UNCHANGED <<pool, fresh, target>> PROVE \A x, y \in Procs : Held(x, y)' = Held(x, y)
  BY <1>2 DEF Held
<1>3. CASE UNCHANGED vars
  BY <1>2, <1>3, AgreeStays DEF vars, cm, socks
<1>4. ASSUME NEW p \in Procs, Process(p) PROVE AgreeInv'
  \* p turns to another rank, without a new connection.
  <2>0. ASSUME UNCHANGED <<pool, fresh>>, fresh[p] = 0,
               \A x \in Procs : x # p => target'[x] = target[x]
        PROVE  \A x, y \in Procs : Held(x, y)' = Held(x, y)
    BY <1>1, <2>0, HeldStays
  <2>1. CASE Start(p)
    <3>1. /\ UNCHANGED <<pool, fresh, serving, client, named>>
          /\ state[p] = "init" /\ \A x \in Procs : x # p => target'[x] = target[x]
          /\ \A x \in Procs : x # p => state'[x] = state[x]
      BY <1>1, <2>1, StartIs DEF Becomes
    <3>2. fresh[p] = 0
      BY <1>1, <3>1 DEF ProcessAt, ClientAt
    <3> QED
      BY <2>0, <3>1, <3>2, AgreeStays
  <2>2. CASE Request(p)
    BY <1>2, <2>2, AgreeStays DEF Request, env, socks
  <2>3. CASE Retry(p)
    BY <1>1, <1>2, <2>3, RetryIs, AgreeStays
  <2>4. CASE GiveUp(p)
    BY <1>1, <1>2, <2>4, GiveUpIs, AgreeStays DEF Becomes
  <2>5. CASE WakeUp(p)
    BY <1>1, <1>2, <2>5, WakeUpIs, AgreeStays
  <2>6. CASE Connected(p)
    BY <2>6, ConnectedAgree
  <2>7. CASE TakeRequest(p)
    BY <2>7, TakeRequestAgree
  <2>8. CASE Accept(p)
    <3>1. PICK c \in Procs :
            serving[p] \in named /\ serving[p] # 0 /\ client[serving[p]] = c
      BY <1>1, <2>8, Typed DEF Accept, AcceptReturns
    <3>2. c < p
      BY <1>1, <3>1 DEF ProcessAt, ServerAt
    <3>3. /\ state[p] # "failed" /\ \A x \in Procs : x # p => state'[x] = state[x]
          /\ Becomes(serving, serving', p, 0)
          /\ UNCHANGED <<client, named>>
      BY <1>1, <2>8, <3>1, AcceptIs DEF Becomes
    <3> QED
      BY <2>8, <3>1, <3>2, <3>3, AcceptHolds, AcceptReturnsAgree
  <2>9. CASE Reconnect(p)
    <3>1. /\ UNCHANGED <<pool, fresh, serving, client, named>>
          /\ \A x \in Procs : x # p => target'[x] = target[x]
      BY <1>1, <2>9, ReconnectIs DEF Becomes
    <3>2. state[p] = "up" /\ \A x \in Procs : x # p => state'[x] = state[x]
      BY <1>1, <2>9, StateReconnect
    <3>3. fresh[p] = 0
      BY <1>1, <3>2 DEF ProcessAt, ClientAt
    <3> QED
      BY <2>0, <3>1, <3>2, <3>3, AgreeStays
  <2>10. CASE Reaccept(p)
    <3>1. PICK c \in Procs : c = target[p] /\ c < p
      BY <1>1, <2>10 DEF Reaccept, ProcessAt, ClientAt
    <3>2. /\ serving[p] \in named /\ client[serving[p]] = c
          /\ state[p] # "failed" /\ \A x \in Procs : x # p => state'[x] = state[x]
          /\ Becomes(serving, serving', p, 0)
          /\ UNCHANGED <<client, named>>
      BY <1>1, <2>10, <3>1, ReacceptIs DEF Becomes
    <3> QED
      BY <2>10, <3>1, <3>2, ReacceptHolds, AcceptReturnsAgree
  <2>11. CASE ReacceptThrows(p)
    BY <1>1, <2>11, ReacceptThrowsAgree
  <2>12. CASE CloseReturns(p)
    <3>1. target[p] \in Procs
      BY <1>1, <2>12 DEF CloseReturns, ProcessAt, ClientAt
    <3>2. /\ state[p] # "failed" /\ \A x \in Procs : x # p => state'[x] = state[x]
          /\ UNCHANGED <<serving, client, named>>
      BY <1>1, <2>12, <3>1, CloseReturnsIs DEF Becomes
    <3> QED
      BY <2>12, <3>2, CloseReturnsHolds, AgreeStays
  <2>13. CASE CloseLost(p)
    <3>1. /\ state[p] # "failed" /\ \A x \in Procs : x # p => state'[x] = state[x]
          /\ UNCHANGED <<serving, client, named, pool, fresh, target>>
      BY <1>1, <2>13, CloseLostIs DEF Becomes
    <3> QED
      BY <1>2, <3>1, AgreeStays
  <2> QED
    BY <1>4, <2>1, <2>2, <2>3, <2>4, <2>5, <2>6, <2>7, <2>8, <2>9, <2>10, <2>11, <2>12, <2>13
       DEF Process
<1> QED
  BY <1>3, <1>4 DEF Next

\* Connections are only added, and keep their client.
LEMMA ClientKept ==
    ASSUME Base, NEW p \in Procs, Process(p)
    PROVE  \A n \in 1..Len(client) : client'[n] = client[n]
<1>1. CASE TakeRequest(p)
  <2>1. client' = Append(client, Head(inbox[p])) /\ client \in Seq(Procs)
    BY <1>1, TakeRequestIs, Typed DEF Base
  <2> QED
    BY <2>1
<1>2. CASE ~TakeRequest(p)
  BY <1>2 DEF Process, Start, Request, Retry, GiveUp, WakeUp, Connected, Accept, Reconnect,
              Reaccept, ReacceptThrows, CloseReturns, CloseLost, cm
<1> QED
  BY <1>1, <1>2

\* A step changes what one process is doing, and nothing of the others but the
\* requests in their channels.
LEMMA OthersStay ==
    ASSUME Base, NEW p \in Procs, Process(p)
    PROVE  \A x \in Procs : x # p =>
             /\ state'[x] = state[x] /\ target'[x] = target[x] /\ link'[x] = link[x]
             /\ accepted'[x] = accepted[x] /\ serving'[x] = serving[x]
             /\ pool'[x] = pool[x] /\ fresh'[x] = fresh[x]
<1>1. Shape /\ ProcessAt(p)
  BY DEF Base
<1>2. CASE Start(p)
  BY <1>1, <1>2, StartIs DEF Becomes
<1>3. CASE Request(p)
  <2>1. target[p] \in Procs
    BY <1>1, <1>3 DEF Request, ProcessAt, ClientAt
  <2> QED
    BY <1>1, <1>3, <2>1, RequestIs DEF Becomes
<1>4. CASE Retry(p)
  BY <1>1, <1>4, RetryIs DEF Becomes
<1>5. CASE GiveUp(p)
  BY <1>1, <1>5, GiveUpIs DEF Becomes
<1>6. CASE WakeUp(p)
  BY <1>1, <1>6, WakeUpIs DEF Becomes
<1>7. CASE Connected(p)
  <2>1. target[p] \in Procs
    BY <1>1, <1>7 DEF Connected, Taken, ProcessAt, ClientAt
  <2>2. \A x \in Procs : x # p => state'[x] = state[x]
    BY <1>1, <1>7, <2>1, ConnectedIs DEF Becomes
  <2>5. \A x \in Procs : x # p => target'[x] = target[x]
    BY <1>1, <1>7, <2>1, ConnectedIs DEF Becomes
  <2>6. \A x \in Procs : x # p => link'[x] = link[x]
    BY <1>1, <1>7, <2>1, ConnectedIs DEF Becomes
  <2>7. \A x \in Procs : x # p => pool'[x] = pool[x]
    BY <1>1, <1>7, <2>1, ConnectedIs DEF Becomes
  <2>3. \A x \in Procs : x # p => fresh'[x] = fresh[x]
    BY <1>1, <1>7, <2>1, ConnectedIs DEF Becomes
  <2>4. UNCHANGED <<accepted, serving>>
    BY <1>1, <1>7, <2>1, ConnectedIs
  <2> QED
    BY <2>2, <2>3, <2>4, <2>5, <2>6, <2>7
<1>8. CASE TakeRequest(p)
  BY <1>1, <1>8, TakeRequestIs DEF Becomes
<1>9. CASE Accept(p)
  <2>1. client[serving[p]] \in Procs
    BY <1>1, <1>9, Typed DEF Accept, AcceptReturns
  <2>2. \A x \in Procs : x # p => state'[x] = state[x]
    BY <1>1, <1>9, <2>1, AcceptIs DEF Becomes
  <2>3. \A x \in Procs : x # p => accepted'[x] = accepted[x]
    BY <1>1, <1>9, <2>1, AcceptIs DEF Becomes
  <2>4. \A x \in Procs : x # p => serving'[x] = serving[x]
    BY <1>1, <1>9, <2>1, AcceptIs DEF Becomes
  <2>5. \A x \in Procs : x # p => pool'[x] = pool[x]
    BY <1>1, <1>9, <2>1, AcceptIs DEF Becomes
  <2>6. UNCHANGED <<target, link, fresh>>
    BY <1>1, <1>9, <2>1, AcceptIs
  <2> QED
    BY <2>2, <2>3, <2>4, <2>5, <2>6
<1>10. CASE Reconnect(p)
  <2>1. NextCall(p) \in Nat /\ p \in Nat /\ NextCall(p) # p
    BY <1>1, <1>10, ReconnectIs, Numbers
  <2>2. \A x \in Procs : x # p => state'[x] = state[x]
    BY <1>1, <1>10, StateReconnect
  <2>3. /\ Becomes(target, target', p, NextCall(p))
        /\ UNCHANGED <<accepted, serving, pool, fresh>>
    BY <1>1, <1>10, ReconnectIs
  <2>4. \A x \in Procs : x # p => link'[x] = link[x]
    <3>1. NextCall(p) > p => Becomes(link, link', p, "try")
      BY <1>1, <1>10, ReconnectIs
    <3>2. NextCall(p) < p => link' = link
      BY <1>1, <1>10, ReconnectIs
    <3> QED
      BY <2>1, <3>1, <3>2 DEF Becomes
  <2> QED
    BY <2>2, <2>3, <2>4 DEF Becomes
<1>11. CASE Reaccept(p)
  BY <1>1, <1>11, ReacceptIs DEF Becomes
<1>12. CASE ReacceptThrows(p)
  BY <1>1, <1>12, ReacceptThrowsIs DEF Becomes
<1>13. CASE CloseReturns(p)
  <2>1. target[p] \in Procs
    BY <1>1, <1>13 DEF CloseReturns, ProcessAt, ClientAt
  <2> QED
    BY <1>1, <1>13, <2>1, CloseReturnsIs DEF Becomes
<1>14. CASE CloseLost(p)
  BY <1>1, <1>14, CloseLostIs DEF Becomes
<1> QED
  BY <1>2, <1>3, <1>4, <1>5, <1>6, <1>7, <1>8, <1>9, <1>10, <1>11, <1>12, <1>13, <1>14
     DEF Process

LEMMA ConnectedAt ==
    ASSUME Base, NEW p \in Procs, Connected(p)
    PROVE  /\ target[p] \in Procs /\ p < target[p] /\ target[p] # p
           /\ link[p] = "asked" /\ state[p] \in {"connect", "reconnect"}
           /\ serving[target[p]] # 0
           /\ pool'[p][target[p]] = IF state[p] = "connect" THEN serving[target[p]]
                                    ELSE pool[p][target[p]]
           /\ \A x, y \in Procs : x # p \/ y # target[p] => pool'[x][y] = pool[x][y]
           /\ state[p] = "connect" => target'[p] = AfterTarget(target[p])
           /\ state'[p] = IF state[p] = "reconnect" THEN "closing"
                          ELSE IF AfterTarget(target[p]) # None THEN "connect"
                          ELSE AfterConnect(p, 0)
           /\ UNCHANGED <<inbox, serving, client, accepted>>
<1>1. Shape /\ ProcessAt(p)
  BY DEF Base
<1>2. target[p] \in Procs /\ p < target[p] /\ target[p] # p
  BY <1>1, Numbers DEF Connected, Taken, ProcessAt, ClientAt
<1>3. Becomes(pool, pool', p, (IF state[p] = "connect"
        THEN [pool[p] EXCEPT ![target[p]] = serving[target[p]]] ELSE pool[p]))
  BY <1>1, <1>2, ConnectedIs
<1>4. /\ pool'[p][target[p]] = IF state[p] = "connect" THEN serving[target[p]]
                               ELSE pool[p][target[p]]
      /\ \A x, y \in Procs : x # p \/ y # target[p] => pool'[x][y] = pool[x][y]
  <2>1. CASE state[p] = "connect"
    <3>1. Becomes(pool, pool', p, [pool[p] EXCEPT ![target[p]] = serving[target[p]]])
      BY <1>3, <2>1
    <3>2. /\ pool'[p][target[p]] = serving[target[p]]
          /\ \A x, y \in Procs : x # p \/ y # target[p] => pool'[x][y] = pool[x][y]
      BY <1>1, <1>2, <3>1, PoolWritten
    <3> QED
      BY <2>1, <3>2
  <2>2. CASE state[p] # "connect"
    BY <1>3, <2>2 DEF Becomes
  <2> QED
    BY <2>1, <2>2
<1>5. /\ state[p] = "connect" => target'[p] = AfterTarget(target[p])
      /\ state'[p] = IF state[p] = "reconnect" THEN "closing"
                     ELSE IF AfterTarget(target[p]) # None THEN "connect"
                     ELSE AfterConnect(p, 0)
  BY <1>1, <1>2, ConnectedIs DEF Becomes
<1>6. /\ link[p] = "asked" /\ state[p] \in {"connect", "reconnect"} /\ serving[target[p]] # 0
      /\ UNCHANGED <<inbox, serving, client, accepted>>
  BY <1>1, <1>2, ConnectedIs DEF Taken
<1> QED
  BY <1>2, <1>4, <1>5, <1>6

\* accept_ returns at p: its client c gets the connection.
LEMMA AcceptAt ==
    ASSUME Base, NEW p \in Procs, Accept(p)
    PROVE  LET c == client[serving[p]] IN
           /\ c \in Procs /\ c < p /\ serving[p] # 0 /\ serving'[p] = 0
           /\ pool'[p][c] = serving[p]
           /\ \A x, y \in Procs : x # p \/ y # c => pool'[x][y] = pool[x][y]
           /\ accepted'[p] = accepted[p] + 1
           /\ state[p] = "accept" /\ state'[p] \in {"accept", "up"}
           /\ UNCHANGED <<inbox, client, target>>
<1> DEFINE c == client[serving[p]]
<1>1. Shape /\ ProcessAt(p)
  BY DEF Base
<1>2. c \in Procs /\ c < p /\ serving[p] # 0
  BY <1>1, Typed DEF Accept, AcceptReturns, ProcessAt, ServerAt
<1>3. Becomes(pool, pool', p, [pool[p] EXCEPT ![c] = serving[p]])
  BY <1>1, <1>2, AcceptIs
<1>4. /\ pool'[p][c] = serving[p]
      /\ \A x, y \in Procs : x # p \/ y # c => pool'[x][y] = pool[x][y]
  BY <1>1, <1>2, <1>3, PoolWritten
<1>5. /\ serving'[p] = 0 /\ accepted'[p] = accepted[p] + 1 /\ state[p] = "accept"
      /\ state'[p] = AfterConnect(p, accepted[p] + 1)
      /\ UNCHANGED <<inbox, client, target>>
  BY <1>1, <1>2, AcceptIs DEF Becomes
<1>6. accepted[p] + 1 \in Nat
  BY <1>1, Typed
<1>7. state'[p] \in {"accept", "up"}
  BY <1>5, <1>6, Numbers
<1> QED
  BY <1>2, <1>4, <1>5, <1>7

\* close_ returns at p: the new connection is stored.
LEMMA CloseReturnsAt ==
    ASSUME Base, NEW p \in Procs, CloseReturns(p)
    PROVE  /\ target[p] \in Procs /\ target[p] # p /\ fresh[p] # 0 /\ fresh'[p] = 0
           /\ pool'[p][target[p]] = fresh[p]
           /\ \A x, y \in Procs : x # p \/ y # target[p] => pool'[x][y] = pool[x][y]
           /\ state[p] = "closing" /\ state'[p] = "up"
           /\ UNCHANGED <<inbox, serving, client, target, accepted>>
<1>1. Shape /\ ProcessAt(p)
  BY DEF Base
<1>2. target[p] \in Procs /\ target[p] # p /\ fresh[p] # 0
  BY <1>1 DEF CloseReturns, ProcessAt, ClientAt
<1>3. Becomes(pool, pool', p, [pool[p] EXCEPT ![target[p]] = fresh[p]])
  BY <1>1, <1>2, CloseReturnsIs
<1>4. /\ pool'[p][target[p]] = fresh[p]
      /\ \A x, y \in Procs : x # p \/ y # target[p] => pool'[x][y] = pool[x][y]
  BY <1>1, <1>2, <1>3, PoolWritten
<1>5. /\ fresh'[p] = 0 /\ state[p] = "closing" /\ state'[p] = "up"
      /\ UNCHANGED <<inbox, serving, client, target, accepted>>
  BY <1>1, <1>2, CloseReturnsIs DEF Becomes
<1> QED
  BY <1>2, <1>4, <1>5

\* A pool entry names a connection whose client is known.
LEMMA Entries ==
    ASSUME Shape
    PROVE  \A x, y \in Procs : pool[x][y] # 0 => pool[x][y] \in 1..Len(client)
<1> SUFFICES ASSUME NEW x \in Procs, NEW y \in Procs, pool[x][y] # 0
             PROVE  pool[x][y] \in 1..Len(client)
  OBVIOUS
<1>1. pool[x] \in [Procs -> 0..Len(client)] /\ Len(client) \in Nat
  BY Typed
<1>2. pool[x][y] \in 0..Len(client)
  BY <1>1
<1> QED
  BY <1>1, <1>2

LEMMA LowerRanks ==
    ASSUME NEW p \in Procs PROVE \A q : q \in 0..(p - 1) <=> q \in Procs /\ q < p
  BY NAssumption DEF Procs

LeadsInv == LeadsThere /\ FreshLeads

LEMMA LeadsNext == ASSUME Base, LeadsInv, [Next]_vars PROVE LeadsInv'
<1>1. Shape /\ \A p \in Procs : ProcessAt(p)
  BY DEF Base
<1>2. \A x \in Procs : \A y \in 0..(x - 1) : pool[x][y] # 0 => client[pool[x][y]] = y
  BY DEF LeadsInv, LeadsThere
\* Entries that a step does not write lead where they did.
<1>3. ASSUME NEW x \in Procs, NEW y \in 0..(x - 1), pool'[x][y] = pool[x][y], pool'[x][y] # 0,
             \A n \in 1..Len(client) : client'[n] = client[n]
      PROVE  client'[pool'[x][y]] = y
  <2>1. pool[x][y] \in 1..Len(client)
    BY <1>1, <1>3, Entries, LowerRanks
  <2> QED
    BY <1>2, <1>3, <2>1
<1>4. ASSUME NEW x \in Procs, fresh'[x] = fresh[x], target'[x] = target[x],
             fresh'[x] # 0, target'[x] < x,
             \A n \in 1..Len(client) : client'[n] = client[n]
      PROVE  client'[fresh'[x]] = target'[x]
  <2>1. fresh[x] \in 1..Len(client)
    <3>1. fresh \in [Procs -> 0..Len(client)] /\ Len(client) \in Nat
      BY <1>1, Typed DEF Shape
    <3> QED
      BY <1>4, <3>1
  <2> QED
    BY <1>4, <2>1 DEF LeadsInv, FreshLeads
<1>5. CASE UNCHANGED vars
  BY <1>5 DEF LeadsInv, LeadsThere, FreshLeads, vars, cm, socks
<1>6. ASSUME NEW p \in Procs, Process(p) PROVE LeadsInv'
  <2>1. /\ \A n \in 1..Len(client) : client'[n] = client[n]
        /\ \A x \in Procs : x # p =>
              pool'[x] = pool[x] /\ fresh'[x] = fresh[x] /\ target'[x] = target[x]
    BY <1>6, ClientKept, OthersStay
  <2>2. ASSUME \A y \in 0..(p - 1) : pool'[p][y] # 0 => client'[pool'[p][y]] = y,
               fresh'[p] # 0 /\ target'[p] < p => client'[fresh'[p]] = target'[p]
        PROVE  LeadsInv'
    <3>1. ASSUME NEW x \in Procs, NEW y \in 0..(x - 1), pool'[x][y] # 0
          PROVE  client'[pool'[x][y]] = y
      <4>1. CASE x = p
        BY <2>2, <3>1, <4>1
      <4>2. CASE x # p
        <5>1. pool'[x][y] = pool[x][y]
          BY <2>1, <4>2
        <5> QED
          BY <1>3, <2>1, <3>1, <5>1
      <4> QED
        BY <4>1, <4>2
    <3>2. ASSUME NEW x \in Procs, fresh'[x] # 0, target'[x] < x
          PROVE  client'[fresh'[x]] = target'[x]
      <4>1. CASE x = p
        BY <2>2, <3>2, <4>1
      <4>2. CASE x # p
        BY <1>4, <2>1, <3>2, <4>2
      <4> QED
        BY <4>1, <4>2
    <3>3. LeadsThere'
      BY <3>1 DEF LeadsThere
    <3>4. FreshLeads'
      BY <3>2 DEF FreshLeads
    <3> QED
      BY <3>3, <3>4 DEF LeadsInv
  \* A step that writes neither.
  <2>3. ASSUME pool' = pool, fresh'[p] = 0 \/ (fresh'[p] = fresh[p] /\ target'[p] = target[p])
        PROVE  LeadsInv'
    BY <1>3, <1>4, <2>1, <2>2, <2>3
  <2>4. CASE Start(p)
    <3>1. UNCHANGED <<pool, fresh>> /\ fresh[p] = 0
      BY <1>1, <2>4, StartIs DEF ProcessAt, ClientAt
    <3> QED
      BY <2>3, <3>1
  <2>5. CASE Retry(p) \/ GiveUp(p) \/ WakeUp(p) \/ Request(p)
    BY <2>3, <2>5 DEF Retry, GiveUp, WakeUp, Request, socks
  <2>6. CASE Reconnect(p)
    <3>1. UNCHANGED <<pool, fresh>> /\ fresh[p] = 0
      BY <1>1, <2>6, ReconnectIs DEF ProcessAt, ClientAt
    <3> QED
      BY <2>3, <3>1
  <2>7. CASE ReacceptThrows(p) \/ CloseLost(p) \/ TakeRequest(p)
    BY <2>3, <2>7 DEF ReacceptThrows, CloseLost, TakeRequest, socks
  <2>8. CASE Connected(p)
    <3>1. /\ target[p] \in Procs /\ p < target[p]
          /\ \A y \in Procs : y # target[p] => pool'[p][y] = pool[p][y]
          /\ fresh[p] = 0
      BY <1>1, <2>8, ConnectedAt DEF ProcessAt, ClientAt
    <3>2. /\ state[p] = "connect" => fresh'[p] = fresh[p]
          /\ state[p] # "connect" => target'[p] = target[p]
      BY <1>1, <2>8, <3>1, ConnectedIs DEF Becomes
    <3>3. p \in Nat /\ target[p] \in Nat
      BY <3>1, Numbers
    <3>4. ASSUME NEW y \in 0..(p - 1) PROVE pool'[p][y] = pool[p][y]
      BY <3>1, <3>3, LowerRanks
    <3>5. ~(fresh'[p] # 0 /\ target'[p] < p)
      BY <3>1, <3>2, <3>3
    <3> QED
      BY <1>3, <2>1, <2>2, <3>4, <3>5
  <2>9. CASE Accept(p)
    <3> DEFINE c == client[serving[p]]
    <3>1. /\ c \in Procs /\ serving[p] # 0 /\ pool'[p][c] = serving[p]
          /\ \A y \in Procs : y # c => pool'[p][y] = pool[p][y]
          /\ client' = client /\ state[p] = "accept"
      BY <2>9, AcceptAt
    <3>2. fresh'[p] = 0
      BY <1>1, <2>9, <3>1, AcceptIs DEF ProcessAt, ClientAt
    <3>3. ASSUME NEW y \in 0..(p - 1), pool'[p][y] # 0 PROVE client'[pool'[p][y]] = y
      <4>1. CASE y = c
        BY <3>1, <4>1
      <4>2. CASE y # c
        BY <1>3, <2>1, <3>1, <3>3, <4>2, LowerRanks
      <4> QED
        BY <4>1, <4>2
    <3> QED
      BY <2>2, <3>2, <3>3
  <2>10. CASE Reaccept(p)
    <3>1. /\ pool' = pool /\ client' = client /\ target' = target
          /\ fresh'[p] = serving[p] /\ client[serving[p]] = target[p]
      BY <1>1, <2>10, ReacceptIs DEF Becomes
    <3> QED
      BY <1>3, <2>1, <2>2, <3>1
  <2>11. CASE CloseReturns(p)
    <3>1. /\ target[p] \in Procs /\ fresh[p] # 0
          /\ pool'[p][target[p]] = fresh[p]
          /\ \A y \in Procs : y # target[p] => pool'[p][y] = pool[p][y]
          /\ client' = client /\ fresh'[p] = 0
      BY <2>11, CloseReturnsAt
    <3>2. ASSUME NEW y \in 0..(p - 1), pool'[p][y] # 0 PROVE client'[pool'[p][y]] = y
      <4>1. CASE y = target[p]
        <5>1. target[p] < p
          BY <4>1, LowerRanks
        <5> QED
          BY <3>1, <4>1, <5>1 DEF LeadsInv, FreshLeads
      <4>2. CASE y # target[p]
        BY <1>3, <2>1, <3>1, <3>2, <4>2, LowerRanks
      <4> QED
        BY <4>1, <4>2
    <3> QED
      BY <2>2, <3>1, <3>2
  <2> QED
    BY <1>6, <2>4, <2>5, <2>6, <2>7, <2>8, <2>9, <2>10, <2>11 DEF Process
<1> QED
  BY <1>5, <1>6 DEF Next

(***************************************************************************)
(* A process keeps for a lower rank a connection that leads there, and two *)
(* processes out of setup and reconnect hold the two ends of the same      *)
(* connection: a client takes the connection its target is serving, and    *)
(* from then on the target takes the same one when it returns from accept_ *)
(* (AgreeInv), whichever of them stores it first.                          *)
(***************************************************************************)
THEOREM PeersRight == Spec => []RightPeer
<1>1. Init => AgreeInv /\ LeadsInv
  <2> SUFFICES ASSUME Init PROVE AgreeInv /\ LeadsInv
    OBVIOUS
  <2>1. \A p, q \in Procs : pool[p][q] = 0 /\ fresh[p] = 0 /\ ~Named(p, q)
    BY DEF Init, Named
  <2> QED
    BY <2>1, LowerRanks DEF AgreeInv, Held, LeadsInv, LeadsThere, FreshLeads
<1>2. Spec => [](Base /\ AgreeInv /\ LeadsInv)
  BY <1>1, BaseInit, BaseNext, AgreeNext, LeadsNext, PTL DEF Spec
<1>3. Base /\ AgreeInv /\ LeadsInv => RightPeer
  <2> SUFFICES ASSUME Base, AgreeInv, LeadsInv,
                      NEW p \in Procs, NEW q \in Procs, state[p] = "up", state[q] = "up"
               PROVE  pool[p][q] = pool[q][p]
    BY DEF RightPeer, LeadsInv
  <2>1. serving[p] = 0 /\ serving[q] = 0 /\ fresh[p] = 0 /\ fresh[q] = 0
    BY DEF Base, ProcessAt, ServerAt, ClientAt
  <2>2. ~Named(p, q) /\ ~Named(q, p)
    BY <2>1 DEF Named
  <2>4. Held(p, q) = pool[p][q] /\ Held(q, p) = pool[q][p]
    BY <2>1 DEF Held
  <2>3. p = q \/ p < q \/ q < p
    BY Numbers
  <2> QED
    BY <2>2, <2>3, <2>4 DEF AgreeInv
<1> QED
  BY <1>2, <1>3, PTL

-----------------------------------------------------------------------------
(* The higher ranks *)

LEMMA HigherNext ==
    ASSUME Base, \A p \in Procs : HigherAt(p), [Next]_vars
    PROVE  (\A p \in Procs : HigherAt(p))'
<1>1. Shape /\ \A p \in Procs : ProcessAt(p)
  BY DEF Base
<1>2. CASE UNCHANGED <<state, target, pool>>
  BY <1>2 DEF HigherAt
<1>3. ASSUME NEW p \in Procs, Process(p) PROVE \A x \in Procs : HigherAt(x)'
  <2>1. ASSUME NEW x \in Procs, x # p PROVE HigherAt(x)'
    <3>1. state'[x] = state[x] /\ target'[x] = target[x] /\ pool'[x] = pool[x]
      BY <1>3, <2>1, OthersStay
    <3> QED
      BY <3>1 DEF HigherAt
  <2>2. ASSUME \A y \in Procs : y = p \/ p < y => pool'[p][y] = pool[p][y],
               \/ state'[p] = "failed"
               \/ state'[p] = state[p] /\ target'[p] = target[p]
               \/ /\ state[p] \in {"accept", "up", "reaccept", "closing"}
                  /\ state'[p] \in {"accept", "up", "reconnect", "reaccept", "closing", "lost"}
        PROVE  HigherAt(p)'
    BY <2>2 DEF HigherAt
  <2>3. ASSUME Start(p) PROVE HigherAt(p)'
    <3>1. /\ pool' = pool /\ target'[p] = AfterTarget(p)
          /\ state'[p] = IF AfterTarget(p) # None THEN "connect" ELSE AfterConnect(p, 0)
      BY <1>1, <2>3, StartIs DEF Becomes
    <3>2. pool[p][p] = 0
      BY DEF HigherAt
    <3>3. p \in Nat /\ N \in Nat /\ \A q \in Procs : q \in Nat /\ q < N
      BY Numbers
    <3>4. CASE AfterTarget(p) # None
      <4>1. target'[p] = p + 1 /\ state'[p] = "connect"
        BY <3>1, <3>4, Numbers
      <4>2. \A q \in Procs : ~(p < q /\ q < p + 1)
        BY <3>3
      <4> QED
        BY <3>1, <3>2, <4>1, <4>2 DEF HigherAt
    <3>5. CASE AfterTarget(p) = None
      <4>1. p = N - 1
        BY <3>5, Numbers
      <4>2. state'[p] # "connect"
        BY <3>1, <3>5, Numbers
      <4>3. \A q \in Procs : ~(p < q)
        BY <3>3, <4>1
      <4> QED
        BY <3>1, <3>2, <4>2, <4>3 DEF HigherAt
    <3> QED
      BY <3>4, <3>5
  <2>4. ASSUME Request(p) \/ Retry(p) \/ WakeUp(p) PROVE HigherAt(p)'
    BY <2>2, <2>4 DEF Request, Retry, WakeUp, socks
  <2>5. ASSUME GiveUp(p) \/ ReacceptThrows(p) PROVE HigherAt(p)'
    BY <1>1, <2>2, <2>5, GiveUpIs, ReacceptThrowsIs DEF Becomes
  <2>6. ASSUME Connected(p) PROVE HigherAt(p)'
    <3>1. /\ target[p] \in Procs /\ p < target[p] /\ target[p] # p
          /\ state[p] = "connect" => pool'[p][target[p]] # 0
          /\ state[p] = "reconnect" => pool'[p][target[p]] = pool[p][target[p]]
          /\ \A y \in Procs : y # target[p] => pool'[p][y] = pool[p][y]
          /\ state[p] \in {"connect", "reconnect"}
          /\ state[p] = "connect" => target'[p] = AfterTarget(target[p])
          /\ state'[p] = IF state[p] = "reconnect" THEN "closing"
                         ELSE IF AfterTarget(target[p]) # None THEN "connect"
                         ELSE AfterConnect(p, 0)
      BY <2>6, ConnectedAt
    <3>2. pool'[p][p] = 0
      BY <3>1 DEF HigherAt
    <3>3. target[p] \in Nat /\ p \in Nat /\ N \in Nat /\ \A q \in Procs : q \in Nat /\ q < N
      BY <3>1, Numbers
    <3>4. CASE state[p] = "reconnect"
      <4>1. state'[p] = "closing" /\ \A q \in Procs : p < q => pool'[p][q] # 0
        BY <3>1, <3>4 DEF HigherAt
      <4> QED
        BY <3>2, <4>1 DEF HigherAt
    <3>0. state[p] = "connect" => pool'[p][target[p]] # 0
      BY <2>6, ConnectedAt
    <3>5. CASE state[p] = "connect" /\ AfterTarget(target[p]) # None
      <4>1. state'[p] = "connect" /\ target'[p] = target[p] + 1
        BY <3>1, <3>5, Numbers
      <4>2. \A q \in Procs : p < q /\ q < target[p] + 1 => q = target[p] \/ q < target[p]
        BY <3>3
      <4>3. \A q \in Procs : p < q /\ q < target[p] => pool[p][q] # 0
        BY <3>5 DEF HigherAt
      <4>4. \A q \in Procs : p < q /\ q < target[p] + 1 => pool'[p][q] # 0
        BY <3>0, <3>1, <3>5, <4>2, <4>3
      <4> QED
        BY <3>2, <4>1, <4>4 DEF HigherAt
    <3>6. CASE state[p] = "connect" /\ AfterTarget(target[p]) = None
      <4>1. state'[p] \in {"accept", "up"} /\ target[p] = N - 1
        BY <3>1, <3>6, Numbers
      <4>2. \A q \in Procs : q = target[p] \/ q < target[p]
        BY <3>3, <4>1
      <4>3. \A q \in Procs : p < q /\ q < target[p] => pool[p][q] # 0
        BY <3>6 DEF HigherAt
      <4>4. \A q \in Procs : p < q => pool'[p][q] # 0
        BY <3>0, <3>1, <3>6, <4>2, <4>3
      <4> QED
        BY <3>2, <4>1, <4>4 DEF HigherAt
    <3> QED
      BY <3>1, <3>4, <3>5, <3>6
  <2>7. ASSUME TakeRequest(p) PROVE HigherAt(p)'
    BY <2>2, <2>7 DEF TakeRequest, socks
  <2>8. ASSUME Accept(p) PROVE HigherAt(p)'
    <3>1. \A y \in Procs : y = p \/ p < y => pool'[p][y] = pool[p][y]
      BY <2>8, AcceptAt, Numbers
    <3>2. state[p] = "accept" /\ state'[p] \in {"accept", "up"}
      BY <2>8, AcceptAt
    <3> QED
      BY <2>2, <3>1, <3>2
  <2>9. ASSUME Reconnect(p) PROVE HigherAt(p)'
    <3>1. state[p] = "up" /\ state'[p] \in {"reconnect", "reaccept"} /\ pool' = pool
      BY <1>1, <2>9, StateReconnect, ReconnectIs
    <3> QED
      BY <2>2, <3>1
  <2>10. ASSUME Reaccept(p) \/ CloseLost(p) PROVE HigherAt(p)'
    <3>1. /\ pool' = pool /\ state[p] \in {"reaccept", "closing"}
          /\ state'[p] \in {"closing", "lost"}
      BY <1>1, <2>10, ReacceptIs, CloseLostIs DEF Becomes
    <3> QED
      BY <2>2, <3>1
  <2>11. ASSUME CloseReturns(p) PROVE HigherAt(p)'
    <3>1. /\ target[p] # p /\ fresh[p] # 0 /\ pool'[p][target[p]] = fresh[p]
          /\ \A y \in Procs : y # target[p] => pool'[p][y] = pool[p][y]
          /\ state[p] = "closing" /\ state'[p] = "up"
      BY <2>11, CloseReturnsAt
    <3>2. pool'[p][p] = 0
      BY <3>1 DEF HigherAt
    <3>3. \A q \in Procs : p < q => pool'[p][q] # 0
      BY <3>1 DEF HigherAt
    <3> QED
      BY <3>1, <3>2, <3>3 DEF HigherAt
  <2>12. HigherAt(p)'
    BY <1>3, <2>3, <2>4, <2>5, <2>6, <2>7, <2>8, <2>9, <2>10, <2>11 DEF Process
  <2> QED
    BY <2>1, <2>12
<1> QED
  BY <1>2, <1>3 DEF Next, vars, socks

-----------------------------------------------------------------------------
(* The barrier *)

LEMMA PastStays ==
    ASSUME Base, NEW p \in Procs, Process(p), NEW q \in Procs, PastSetup(q)
    PROVE  PastSetup(q)'
<1>1. Shape /\ ProcessAt(q)
  BY DEF Base
<1>2. CASE q # p
  <2>1. state'[q] = state[q] /\ accepted'[q] = accepted[q]
    BY <1>2, OthersStay
  <2> QED
    BY <2>1 DEF PastSetup
<1>3. CASE q = p
  <2>1. accepted[p] = p /\ state[p] \notin {"init", "connect", "accept"}
    <3>1. p \in Nat
      BY Numbers
    <3> QED
      BY <1>1, <1>3, <3>1 DEF PastSetup, ProcessAt, CountAt
  <2>2. CASE Request(p) \/ Retry(p) \/ WakeUp(p) \/ TakeRequest(p)
    BY <1>3, <2>1, <2>2 DEF Request, Retry, WakeUp, TakeRequest, PastSetup
  <2>3. CASE GiveUp(p) \/ ReacceptThrows(p)
    <3>1. state'[p] = "failed" /\ accepted' = accepted
      BY <1>1, <2>3, GiveUpIs, ReacceptThrowsIs DEF Becomes
    <3> QED
      BY <1>3, <2>1, <3>1 DEF PastSetup
  <2>4. CASE Connected(p)
    <3>1. state'[p] = "closing" /\ accepted' = accepted
      BY <2>1, <2>4, ConnectedAt
    <3> QED
      BY <1>3, <2>1, <3>1 DEF PastSetup
  <2>5. CASE Reconnect(p)
    <3>1. state'[p] \in {"reconnect", "reaccept"} /\ accepted' = accepted
      BY <1>1, <2>5, StateReconnect, ReconnectIs
    <3> QED
      BY <1>3, <2>1, <3>1 DEF PastSetup
  <2>6. CASE Reaccept(p) \/ CloseLost(p)
    <3>1. state'[p] \in {"closing", "lost"} /\ accepted' = accepted
      BY <1>1, <2>6, ReacceptIs, CloseLostIs DEF Becomes
    <3> QED
      BY <1>3, <2>1, <3>1 DEF PastSetup
  <2>7. CASE CloseReturns(p)
    <3>1. state'[p] = "up" /\ accepted' = accepted
      BY <2>7, CloseReturnsAt
    <3> QED
      BY <1>3, <2>1, <3>1 DEF PastSetup
  <2> QED
    BY <2>1, <2>2, <2>3, <2>4, <2>5, <2>6, <2>7 DEF Process, Start, Accept
<1> QED
  BY <1>2, <1>3

\* Only Reconnect takes a process to reconnect or reaccept.
LEMMA Reconnecting ==
    ASSUME Base, NEW p \in Procs, Process(p), state'[p] \in {"reconnect", "reaccept"},
           ~Reconnect(p)
    PROVE  state[p] \in {"reconnect", "reaccept"}
<1>1. Shape
  BY DEF Base
<1>2. CASE Request(p) \/ Retry(p) \/ WakeUp(p) \/ TakeRequest(p)
  BY <1>2 DEF Request, Retry, WakeUp, TakeRequest
<1>3. ~Start(p)
  <2> SUFFICES ASSUME Start(p) PROVE FALSE
    OBVIOUS
  <2>1. state'[p] \in {"connect", "accept", "up"}
    <3>1. state'[p] = IF AfterTarget(p) # None THEN "connect" ELSE AfterConnect(p, 0)
      BY <1>1, StartIs DEF Becomes
    <3> QED
      BY <3>1, Numbers
  <2> QED
    BY <2>1
<1>4. ~GiveUp(p) /\ ~ReacceptThrows(p)
  BY <1>1, GiveUpIs, ReacceptThrowsIs DEF Becomes
<1>5. ~Connected(p)
  <2> SUFFICES ASSUME Connected(p) PROVE FALSE
    OBVIOUS
  <2>1. state'[p] \in {"connect", "accept", "up", "closing"}
    BY ConnectedAt, Numbers
  <2> QED
    BY <2>1
<1>6. ~Accept(p) /\ ~Reaccept(p) /\ ~CloseReturns(p) /\ ~CloseLost(p)
  BY <1>1, AcceptAt, ReacceptIs, CloseReturnsAt, CloseLostIs DEF Becomes
<1> QED
  BY <1>2, <1>3, <1>4, <1>5, <1>6 DEF Process

LEMMA BarrierNext == ASSUME Barrier, Base, BarrierInv, [Next]_vars PROVE BarrierInv'
<1>1. CASE UNCHANGED <<state, accepted>>
  BY <1>1 DEF BarrierInv, PastSetup
<1>2. ASSUME NEW p \in Procs, Process(p),
             NEW x \in Procs, state'[x] \in {"reconnect", "reaccept"}
      PROVE  \A q \in Procs : PastSetup(q)'
  <2>1. Shape
    BY DEF Base
  <2>2. CASE x = p /\ Reconnect(p)
    BY <1>2, <2>1, <2>2, ReconnectIs, PastStays
  <2>3. CASE ~(x = p /\ Reconnect(p))
    <3>1. state[x] \in {"reconnect", "reaccept"}
      BY <1>2, <2>3, Reconnecting, OthersStay
    <3> QED
      BY <1>2, <3>1, PastStays DEF BarrierInv
  <2> QED
    BY <2>2, <2>3
<1> QED
  BY <1>1, <1>2 DEF BarrierInv, Next, vars

\* While one process is in setup, none reconnects.
LEMMA NoneReconnects ==
    ASSUME Base, BarrierInv, NEW p \in Procs, state[p] \in {"connect", "accept"}
    PROVE  \A q \in Procs : state[q] \notin {"reconnect", "reaccept"}
<1>1. ProcessAt(p) /\ p \in Nat
  BY Numbers DEF Base
<1>2. ~PastSetup(p)
  BY <1>1 DEF PastSetup, ProcessAt, CountAt
<1> QED
  BY <1>2 DEF BarrierInv

-----------------------------------------------------------------------------
(* The lower ranks *)

LEMMA LowerIs ==
    ASSUME Shape, NEW p \in Procs
    PROVE  /\ IsFiniteSet(Lower(p)) /\ Lower(p) \subseteq Procs
           /\ \A q : q \in Lower(p) <=> q \in Procs /\ q < p /\ pool[p][q] # 0
           /\ Cardinality(Lower(p)) = p => Lower(p) = 0..(p - 1)
<1>1. p \in Nat /\ 0 \in Int /\ p - 1 \in Int
  BY Numbers
<1>2. IsFiniteSet(0..(p - 1)) /\ Cardinality(0..(p - 1)) = p
  <2>1. Cardinality(0..(p - 1)) = IF 0 > p - 1 THEN 0 ELSE p - 1 - 0 + 1
    BY <1>1, FS_Interval
  <2> QED
    BY <1>1, <2>1, FS_Interval
<1>3. Lower(p) \in SUBSET (0..(p - 1))
  BY DEF Lower
<1>4. \A q : q \in Lower(p) <=> q \in Procs /\ q < p /\ pool[p][q] # 0
  BY LowerRanks DEF Lower
<1> QED
  BY <1>2, <1>3, <1>4, FS_Subset

\* A process that has accepted as many clients as there are lower ranks has a
\* connection to each of them.
LEMMA AllLower ==
    ASSUME Shape, NEW p \in Procs, LowerAt(p), accepted[p] = p
    PROVE  \A q \in Procs : q < p => pool[p][q] # 0
<1>1. Lower(p) = 0..(p - 1)
  BY LowerIs DEF LowerAt
<1> QED
  BY <1>1, LowerIs, LowerRanks

\* What q has asked of p it goes on to ask, while p is in setup.
LEMMA AskedStays ==
    ASSUME Base, BarrierInv, NEW r \in Procs, Process(r),
           NEW p \in Procs, state[p] \in {"connect", "accept"},
           NEW q \in Procs, q < p, HasAsked(q, p)
    PROVE  HasAsked(q, p)'
<1>1. Shape /\ ProcessAt(q) /\ ProcessAt(p)
  BY DEF Base
<1>2. CASE q # r
  <2>1. state'[q] = state[q] /\ target'[q] = target[q] /\ link'[q] = link[q]
    BY <1>2, OthersStay
  <2> QED
    BY <2>1 DEF HasAsked
<1>3. CASE q = r
  <2>1. p \in Nat /\ q \in Nat /\ p # 0
    BY Numbers
  <2>2. listening[p]
    BY <1>1, <2>1 DEF ProcessAt, ServerAt
  <2>3. CASE Request(q)
    <3>1. target[q] \in Procs
      BY <1>1, <2>3 DEF Request, ProcessAt, ClientAt
    <3>2. link'[q] = "asked" /\ state' = state /\ target' = target
      BY <1>1, <2>3, <3>1, RequestIs DEF Becomes
    <3> QED
      BY <3>2 DEF HasAsked
  <2>4. CASE Retry(q)
    <3>1. target[q] # p \/ link[q] # "asked"
      BY <1>1, <2>2, <2>4, RetryIs DEF Refused
    <3>2. state' = state /\ target' = target
      BY <1>1, <2>4, RetryIs
    <3> QED
      BY <3>1, <3>2 DEF HasAsked
  <2>5. CASE WakeUp(q)
    <3>1. link[q] = "sleep" /\ state' = state /\ target' = target
      BY <1>1, <2>5, WakeUpIs
    <3> QED
      BY <3>1 DEF HasAsked
  <2>6. CASE GiveUp(q) \/ ReacceptThrows(q)
    <3>1. state'[q] = "failed"
      BY <1>1, <2>6, GiveUpIs, ReacceptThrowsIs DEF Becomes
    <3> QED
      BY <3>1 DEF HasAsked
  <2>7. CASE Connected(q)
    <3>1. /\ state[q] = "connect" => target'[q] = AfterTarget(target[q])
          /\ state'[q] = IF state[q] = "reconnect" THEN "closing"
                         ELSE IF AfterTarget(target[q]) # None THEN "connect"
                         ELSE AfterConnect(q, 0)
          /\ state[q] \in {"connect", "reconnect"}
      BY <2>7, ConnectedAt
    <3>2. CASE state[q] = "reconnect"
      BY <3>1, <3>2 DEF HasAsked
    <3>3. CASE state[q] = "connect" /\ AfterTarget(target[q]) # None
      <4>1. state'[q] = "connect" /\ target'[q] = target[q] + 1 /\ target[q] \in Nat
        <5>0. target[q] \in Procs
          BY <2>7, ConnectedAt
        <5>1. target'[q] = AfterTarget(target[q]) /\ state'[q] = "connect"
          BY <3>1, <3>3
        <5>2. AfterTarget(target[q]) = target[q] + 1 /\ target[q] \in Nat
          BY <3>3, <5>0, Numbers
        <5> QED
          BY <5>1, <5>2
      <4>2. target[q] >= p
        BY <2>1, <3>3, <4>1 DEF HasAsked
      <4>3. target'[q] > p
        BY <2>1, <4>1, <4>2
      <4> QED
        BY <4>1, <4>3 DEF HasAsked
    <3>4. CASE state[q] = "connect" /\ AfterTarget(target[q]) = None
      <4>1. state'[q] \in {"accept", "up"}
        BY <3>1, <3>4, Numbers
      <4> QED
        BY <4>1 DEF HasAsked
    <3> QED
      BY <3>1, <3>2, <3>3, <3>4
  <2>8. CASE TakeRequest(q)
    BY <2>8 DEF TakeRequest, HasAsked
  <2>9. CASE Accept(q) \/ Reaccept(q) \/ CloseReturns(q) \/ CloseLost(q)
    <3>1. state'[q] \in {"accept", "up", "closing", "lost"}
      BY <1>1, <2>9, AcceptAt, ReacceptIs, CloseReturnsAt, CloseLostIs DEF Becomes
    <3> QED
      BY <3>1 DEF HasAsked
  <2>10. CASE Reconnect(q)
    <3>1. state'[q] \in {"reconnect", "reaccept"}
      BY <1>1, <2>10, StateReconnect
    <3> QED
      BY <3>1 DEF HasAsked
  <2>11. ~Start(q)
    BY DEF Start, HasAsked
  <2> QED
    BY <1>3, <2>3, <2>4, <2>5, <2>6, <2>7, <2>8, <2>9, <2>10, <2>11 DEF Process
<1> QED
  BY <1>2, <1>3

\* What a channel and accept_ hold does not change, and the clients go on.
LEMMA FreshStays ==
    ASSUME Base, NEW p \in Procs, Fresh(p),
           \A q \in Procs : q < p /\ HasAsked(q, p) => HasAsked(q, p)',
           \A q \in Procs : q < p => pool'[p][q] = pool[p][q],
           \A n \in 1..Len(client) : client'[n] = client[n],
           inbox'[p] = inbox[p], serving'[p] = serving[p]
    PROVE  Fresh(p)'
<1>1. Shape /\ ProcessAt(p)
  BY DEF Base
<1>2. \A i \in DOMAIN inbox[p] : inbox[p][i] \in Procs /\ inbox[p][i] < p
  BY <1>1, Typed DEF ProcessAt, ServerAt
<1>3. serving[p] # 0 =>
        /\ client[serving[p]] \in Procs /\ client[serving[p]] < p
        /\ client'[serving'[p]] = client[serving[p]]
  <2>1. serving[p] # 0 => serving[p] \in 1..Len(client)
    BY <1>1, Typed
  <2> QED
    BY <1>1, <2>1, Typed DEF ProcessAt, ServerAt
<1>4. \A q \in Lower(p)' : q \in Procs /\ q < p /\ q \in Lower(p)
  BY LowerRanks DEF Lower
<1>5. ASSUME NEW i \in DOMAIN inbox[p]
      PROVE  LET q == inbox[p][i] IN
             /\ HasAsked(q, p)' /\ pool'[p][q] = 0
             /\ serving'[p] # 0 => client'[serving'[p]] # q
             /\ \A j \in DOMAIN inbox[p] : inbox[p][j] = q => j = i
  BY <1>2, <1>3 DEF Fresh
<1>6. serving'[p] # 0 =>
         HasAsked(client[serving[p]], p)' /\ pool'[p][client[serving[p]]] = 0
  BY <1>3 DEF Fresh
<1>7. \A q \in Lower(p)' : HasAsked(q, p)'
  BY <1>4 DEF Fresh
<1> QED
  BY <1>3, <1>5, <1>6, <1>7 DEF Fresh

LEMMA LowerStays ==
    ASSUME NEW p \in Procs, \A q \in Procs : q < p => (pool'[p][q] # 0 <=> pool[p][q] # 0),
           accepted'[p] = accepted[p], accepted[p] = Cardinality(Lower(p))
    PROVE  accepted'[p] = Cardinality(Lower(p)')
<1>1. Lower(p)' = Lower(p)
  BY LowerRanks DEF Lower
<1> QED
  BY <1>1

\* Fresh after a step, rank by rank.
LEMMA FreshNow ==
    ASSUME NEW p \in Procs,
           \A i \in DOMAIN inbox'[p] : inbox'[p][i] \in Procs,
           \A i \in DOMAIN inbox'[p] : \A x \in Procs : x = inbox'[p][i] =>
             /\ HasAsked(x, p)' /\ pool'[p][x] = 0
             /\ serving'[p] # 0 => client'[serving'[p]] # x
             /\ \A j \in DOMAIN inbox'[p] : inbox'[p][j] = x => j = i,
           serving'[p] # 0 => client'[serving'[p]] \in Procs,
           \A x \in Procs : serving'[p] # 0 /\ x = client'[serving'[p]] =>
             HasAsked(x, p)' /\ pool'[p][x] = 0,
           \A x \in Lower(p)' : HasAsked(x, p)'
    PROVE  Fresh(p)'
  BY DEF Fresh, HasAsked

\* A process that starts has no requests, no connection, and has accepted nobody.
LEMMA StartFresh ==
    ASSUME Base, NEW p \in Procs, LowerAt(p), Start(p)
    PROVE  Fresh(p)'
<1>1. Shape /\ ProcessAt(p)
  BY DEF Base
<1>2. inbox'[p] = <<>> /\ serving'[p] = 0 /\ pool' = pool
  BY <1>1, StartIs DEF ProcessAt, ServerAt
<1>3. accepted[p] = 0
  BY <1>1, StartIs DEF ProcessAt, CountAt
<1>4. Lower(p) = {}
  BY <1>1, <1>3, LowerIs, FS_EmptySet DEF LowerAt
<1>5. Lower(p)' = {}
  BY <1>2, <1>4 DEF Lower
<1> QED
  BY <1>2, <1>5 DEF Fresh

\* The request of q is its first to p.
LEMMA RequestFresh ==
    ASSUME Base, BarrierInv, NEW q \in Procs, Request(q),
           NEW p \in Procs, p = target[q], state[p] \in {"connect", "accept"}, Fresh(p)
    PROVE  Fresh(p)'
<1>1. Shape /\ ProcessAt(p) /\ ProcessAt(q)
  BY DEF Base
<1>2. /\ link[q] = "try" /\ inbox'[p] = Append(inbox[p], q) /\ link'[q] = "asked"
      /\ UNCHANGED <<state, target, serving, client, pool>>
  BY <1>1, RequestIs DEF Becomes
<1>3. q < p /\ state[q] = "connect"
  BY <1>1, <1>2, NoneReconnects DEF ProcessAt, ClientAt
<1>4. ~HasAsked(q, p)
  <2>1. p \in Nat
    BY Numbers
  <2> QED
    BY <1>2, <1>3, <2>1 DEF HasAsked
<1>5. HasAsked(q, p)'
  BY <1>2, <1>3 DEF HasAsked
<1>6. \A x \in Procs : x < p /\ HasAsked(x, p) => HasAsked(x, p)'
  BY AskedStays DEF Process
<1>7. pool[p][q] = 0
  BY <1>1, <1>3, <1>4, LowerIs DEF Fresh
<1>8. serving[p] # 0 => client[serving[p]] # q
  BY <1>4 DEF Fresh
<1>9. \A i \in DOMAIN inbox[p] : inbox[p][i] # q
  BY <1>4 DEF Fresh
<1>10. inbox[p] \in Seq(Procs) /\ \A i \in DOMAIN inbox[p] : inbox[p][i] \in Procs /\ inbox[p][i] < p
  BY <1>1, Typed DEF ProcessAt, ServerAt
<1>11. /\ DOMAIN inbox'[p] = DOMAIN inbox[p] \cup {Len(inbox[p]) + 1}
       /\ inbox'[p][Len(inbox[p]) + 1] = q
       /\ \A i \in DOMAIN inbox[p] : inbox'[p][i] = inbox[p][i]
  BY <1>2, <1>10
<1>12. ASSUME NEW i \in DOMAIN inbox'[p], NEW x \in Procs, x = inbox'[p][i]
       PROVE  /\ HasAsked(x, p)' /\ pool'[p][x] = 0
              /\ serving'[p] # 0 => client'[serving'[p]] # x
              /\ \A j \in DOMAIN inbox'[p] : inbox'[p][j] = x => j = i
  <2>1. CASE i \in DOMAIN inbox[p]
    <3>1. x = inbox[p][i] /\ x < p
      BY <1>10, <1>11, <1>12, <2>1
    <3>2. /\ HasAsked(x, p) /\ pool[p][x] = 0
          /\ serving[p] # 0 => client[serving[p]] # x
          /\ \A j \in DOMAIN inbox[p] : inbox[p][j] = x => j = i
      BY <2>1, <3>1 DEF Fresh
    <3>3. HasAsked(x, p)'
      BY <1>6, <3>1, <3>2
    <3>4. x # q
      BY <1>9, <2>1, <3>1
    <3> QED
      BY <1>2, <1>11, <3>1, <3>2, <3>3, <3>4
  <2>2. CASE i = Len(inbox[p]) + 1
    <3>1. x = q
      BY <1>11, <1>12, <2>2
    <3>2. \A j \in DOMAIN inbox'[p] : inbox'[p][j] = x => j = i
      BY <1>9, <1>11, <2>2, <3>1
    <3>3. serving'[p] # 0 => client'[serving'[p]] # x
      BY <1>2, <1>8, <3>1
    <3> QED
      BY <1>2, <1>5, <1>7, <3>1, <3>2, <3>3
  <2> QED
    BY <1>11, <2>1, <2>2
<1>13. serving[p] # 0 => client[serving[p]] \in Procs /\ client[serving[p]] < p
  BY <1>1, Typed DEF ProcessAt, ServerAt
<1>14. ASSUME NEW x \in Procs, serving'[p] # 0, x = client'[serving'[p]]
       PROVE  HasAsked(x, p)' /\ pool'[p][x] = 0
  <2>1. serving[p] # 0 /\ x = client[serving[p]] /\ x < p
    BY <1>2, <1>14, <1>13
  <2>2. HasAsked(x, p) /\ pool[p][x] = 0
    BY <2>1 DEF Fresh
  <2> QED
    BY <1>2, <1>6, <2>1, <2>2
<1>15. \A x \in Lower(p)' : HasAsked(x, p)'
  <2>1. Lower(p)' = Lower(p)
    BY <1>2 DEF Lower
  <2>2. \A x \in Lower(p) : x \in Procs /\ x < p /\ HasAsked(x, p)
    BY <1>1, LowerIs DEF Fresh
  <2> QED
    BY <1>6, <2>1, <2>2
<1>16. \A i \in DOMAIN inbox'[p] : inbox'[p][i] \in Procs
  BY <1>10, <1>11
<1>17. serving'[p] # 0 => client'[serving'[p]] \in Procs
  BY <1>2, <1>13
<1> QED
  BY <1>12, <1>14, <1>15, <1>16, <1>17, FreshNow

\* The requests behind the first one are from others.
LEMMA TakeRequestFresh ==
    ASSUME Base, BarrierInv, NEW p \in Procs, TakeRequest(p), state[p] = "accept", Fresh(p)
    PROVE  Fresh(p)'
<1> DEFINE c == Head(inbox[p])
           n == Len(client) + 1
<1>1. Shape /\ ProcessAt(p)
  BY DEF Base
<1>2. /\ inbox[p] # <<>> /\ inbox'[p] = Tail(inbox[p]) /\ serving'[p] = n
      /\ client' = Append(client, c)
      /\ UNCHANGED <<state, target, link, pool>>
  BY <1>1, TakeRequestIs DEF Becomes
<1>3. inbox[p] \in Seq(Procs) /\ client \in Seq(Procs)
  BY <1>1, Typed
<1>4. 1 \in DOMAIN inbox[p] /\ c = inbox[p][1] /\ client'[n] = c
  BY <1>2, <1>3
<1>5. \A i \in DOMAIN inbox'[p] :
         i + 1 \in DOMAIN inbox[p] /\ inbox'[p][i] = inbox[p][i + 1] /\ i + 1 # 1 /\ i \in Nat
  BY <1>2, <1>3
<1>6. \A x \in Procs : HasAsked(x, p)' <=> HasAsked(x, p)
  BY <1>2 DEF HasAsked
<1>7. Lower(p)' = Lower(p) /\ \A x \in Lower(p) : x \in Procs
  BY <1>1, <1>2, LowerIs DEF Lower
<1>8. \A i \in DOMAIN inbox[p] :
        /\ inbox[p][i] \in Procs /\ HasAsked(inbox[p][i], p) /\ pool[p][inbox[p][i]] = 0
        /\ \A j \in DOMAIN inbox[p] : inbox[p][j] = inbox[p][i] => j = i
  BY <1>3 DEF Fresh
<1>9. \A x \in Lower(p)' : HasAsked(x, p)'
  BY <1>6, <1>7 DEF Fresh
<1> HIDE DEF c, n
<1>10. ASSUME NEW i \in DOMAIN inbox'[p], NEW x \in Procs, x = inbox'[p][i]
       PROVE  /\ HasAsked(x, p)' /\ pool'[p][x] = 0
              /\ client'[serving'[p]] # x
              /\ \A j \in DOMAIN inbox'[p] : inbox'[p][j] = x => j = i
  <2>1. i + 1 \in DOMAIN inbox[p] /\ x = inbox[p][i + 1] /\ i + 1 # 1 /\ i \in Nat
    BY <1>5, <1>10
  <2>2. HasAsked(x, p)' /\ pool'[p][x] = 0
    BY <1>2, <1>6, <1>8, <2>1
  <2>3. client'[serving'[p]] # x
    BY <1>2, <1>4, <1>8, <2>1
  <2>4. ASSUME NEW j \in DOMAIN inbox'[p], inbox'[p][j] = x PROVE j = i
    <3>1. j + 1 \in DOMAIN inbox[p] /\ x = inbox[p][j + 1] /\ j \in Nat
      BY <1>5, <2>4
    <3>2. j + 1 = i + 1
      BY <1>8, <2>1, <3>1
    <3> QED
      BY <2>1, <3>1, <3>2
  <2> QED
    BY <2>2, <2>3, <2>4
<1>11. ASSUME NEW x \in Procs, x = client'[serving'[p]]
       PROVE  HasAsked(x, p)' /\ pool'[p][x] = 0
  <2>1. x = inbox[p][1]
    BY <1>2, <1>4, <1>11
  <2> QED
    BY <1>2, <1>4, <1>6, <1>8, <2>1
<1>12. \A i \in DOMAIN inbox'[p] : inbox'[p][i] \in Procs
  BY <1>5, <1>8
<1>13. client'[serving'[p]] \in Procs
  BY <1>2, <1>4, <1>8
<1> QED
  BY <1>9, <1>10, <1>11, <1>12, <1>13, FreshNow

\* Every client is a new one.
LEMMA AcceptLower ==
    ASSUME Base, BarrierInv, NEW p \in Procs, LowerAt(p), Accept(p)
    PROVE  accepted'[p] = Cardinality(Lower(p)') /\ Fresh(p)'
<1> DEFINE c == client[serving[p]]
<1>1. Shape /\ ProcessAt(p)
  BY DEF Base
<1>2. /\ c \in Procs /\ c < p /\ serving[p] # 0 /\ serving'[p] = 0
      /\ pool'[p][c] = serving[p]
      /\ \A x, y \in Procs : x # p \/ y # c => pool'[x][y] = pool[x][y]
      /\ accepted'[p] = accepted[p] + 1 /\ state[p] = "accept"
      /\ inbox' = inbox
  BY AcceptAt
<1>3. Fresh(p) /\ accepted[p] = Cardinality(Lower(p))
  BY <1>2 DEF LowerAt
<1>4. pool[p][c] = 0 /\ HasAsked(c, p)
  BY <1>2, <1>3 DEF Fresh
<1> HIDE DEF c
<1>5. Lower(p)' = Lower(p) \cup {c}
  <2>1. \A q : q \in Lower(p)' <=> q \in Procs /\ q < p /\ pool'[p][q] # 0
    BY LowerRanks DEF Lower
  <2>2. \A q \in Procs : q # c => pool'[p][q] = pool[p][q]
    BY <1>2
  <2>3. \A q : q \in Lower(p) <=> q \in Procs /\ q < p /\ pool[p][q] # 0
    BY <1>1, LowerIs
  <2>4. pool'[p][c] # 0
    BY <1>2
  <2> QED
    BY <1>2, <2>1, <2>2, <2>3, <2>4
<1>6. c \notin Lower(p)
  BY <1>1, <1>4, LowerIs
<1>7. accepted'[p] = Cardinality(Lower(p)')
  <2>1. Cardinality(Lower(p) \cup {c}) = Cardinality(Lower(p)) + 1
    BY <1>1, <1>6, LowerIs, FS_AddElement
  <2> QED
    BY <1>2, <1>3, <1>5, <2>1
<1>8. \A x \in Procs : x < p /\ HasAsked(x, p) => HasAsked(x, p)'
  BY <1>2, AskedStays DEF Process
<1>9. \A i \in DOMAIN inbox[p] : inbox[p][i] \in Procs /\ inbox[p][i] < p
  BY <1>1, Typed DEF ProcessAt, ServerAt
<1>10. \A i \in DOMAIN inbox[p] : inbox[p][i] # c
  BY <1>2, <1>3 DEF Fresh, c
<1>11. ASSUME NEW i \in DOMAIN inbox'[p], NEW x \in Procs, x = inbox'[p][i]
       PROVE  /\ HasAsked(x, p)' /\ pool'[p][x] = 0
              /\ \A j \in DOMAIN inbox'[p] : inbox'[p][j] = x => j = i
  <2>1. i \in DOMAIN inbox[p] /\ x = inbox[p][i] /\ x < p /\ x # c
    BY <1>2, <1>9, <1>10, <1>11
  <2>2. /\ HasAsked(x, p) /\ pool[p][x] = 0
        /\ \A j \in DOMAIN inbox[p] : inbox[p][j] = x => j = i
    BY <1>3, <2>1 DEF Fresh
  <2>3. HasAsked(x, p)'
    BY <1>8, <2>1, <2>2
  <2>4. pool'[p][x] = 0
    BY <1>2, <2>1, <2>2
  <2> QED
    BY <1>2, <2>2, <2>3, <2>4
<1>12. \A x \in Lower(p)' : HasAsked(x, p)'
  <2>1. \A x \in Lower(p) : x \in Procs /\ x < p /\ HasAsked(x, p)
    BY <1>1, <1>3, LowerIs DEF Fresh
  <2> QED
    BY <1>2, <1>4, <1>5, <1>8, <2>1
<1>13. \A i \in DOMAIN inbox'[p] : inbox'[p][i] \in Procs
  BY <1>2, <1>9
<1>14. Fresh(p)'
  BY <1>2, <1>11, <1>12, <1>13, FreshNow
<1> QED
  BY <1>7, <1>14

LEMMA LowerOther ==
    ASSUME Base, BarrierInv, NEW p \in Procs, Process(p),
           NEW x \in Procs, x # p, LowerAt(x)
    PROVE  LowerAt(x)'
<1>1. Shape /\ ProcessAt(x) /\ ProcessAt(p)
  BY DEF Base
<1>2. /\ state'[x] = state[x] /\ accepted'[x] = accepted[x] /\ serving'[x] = serving[x]
      /\ pool'[x] = pool[x]
  BY OthersStay
<1>3. accepted'[x] = Cardinality(Lower(x)')
  BY <1>2, LowerStays DEF LowerAt
<1>4. ASSUME state'[x] \in {"connect", "accept"} PROVE Fresh(x)'
  <2>1. Fresh(x) /\ state[x] \in {"connect", "accept"}
    BY <1>2, <1>4 DEF LowerAt
  <2>2. CASE Request(p) /\ target[p] = x
    BY <2>1, <2>2, RequestFresh
  <2>3. CASE ~(Request(p) /\ target[p] = x)
    <3>1. inbox'[x] = inbox[x]
      <4>1. CASE Request(p)
        <5>1. target[p] \in Procs
          BY <1>1, <4>1 DEF Request, ProcessAt, ClientAt
        <5> QED
          BY <1>1, <2>3, <4>1, <5>1, RequestIs DEF Becomes
      <4>2. CASE GiveUp(p) \/ ReacceptThrows(p) \/ TakeRequest(p) \/ CloseLost(p)
        BY <1>1, <4>2, GiveUpIs, ReacceptThrowsIs, TakeRequestIs, CloseLostIs DEF Becomes
      <4>3. CASE Start(p) \/ Retry(p) \/ WakeUp(p) \/ Reconnect(p)
        BY <4>3 DEF Start, Retry, WakeUp, Reconnect, cm
      <4>4. CASE Connected(p) \/ Accept(p) \/ Reaccept(p) \/ CloseReturns(p)
        BY <1>1, <4>4, ConnectedAt, AcceptAt, ReacceptIs, CloseReturnsAt
      <4> QED
        BY <4>1, <4>2, <4>3, <4>4 DEF Process
    <3>2. \A n \in 1..Len(client) : client'[n] = client[n]
      BY ClientKept
    <3>3. \A q \in Procs : q < x /\ HasAsked(q, x) => HasAsked(q, x)'
      BY <2>1, AskedStays
    <3> QED
      BY <1>2, <2>1, <3>1, <3>2, <3>3, FreshStays
  <2> QED
    BY <2>2, <2>3
<1> QED
  BY <1>3, <1>4 DEF LowerAt

LEMMA LowerSelf ==
    ASSUME Base, BarrierInv, NEW p \in Procs, Process(p), LowerAt(p)
    PROVE  LowerAt(p)'
<1>1. Shape /\ ProcessAt(p)
  BY DEF Base
<1>2. \A q \in Procs : state[p] \in {"connect", "accept"} /\ q < p /\ HasAsked(q, p)
         => HasAsked(q, p)'
  BY AskedStays
<1>3. \A n \in 1..Len(client) : client'[n] = client[n]
  BY ClientKept
\* What p does as a client.
<1>4. ASSUME \A q \in Procs : q < p => pool'[p][q] = pool[p][q],
             accepted' = accepted, inbox'[p] = inbox[p], serving' = serving,
             state'[p] \in {"connect", "accept"} => state[p] \in {"connect", "accept"}
      PROVE  LowerAt(p)'
  <2>1. accepted'[p] = Cardinality(Lower(p)')
    BY <1>4, LowerStays DEF LowerAt
  <2>2. ASSUME state'[p] \in {"connect", "accept"} PROVE Fresh(p)'
    <3>1. Fresh(p) /\ state[p] \in {"connect", "accept"}
      BY <1>4, <2>2 DEF LowerAt
    <3> QED
      BY <1>2, <1>3, <1>4, <3>1, FreshStays
  <2> QED
    BY <2>1, <2>2 DEF LowerAt
<1>5. CASE Start(p)
  <2>1. accepted' = accepted /\ pool' = pool
    BY <1>1, <1>5, StartIs
  <2>2. accepted'[p] = Cardinality(Lower(p)')
    BY <2>1, LowerStays DEF LowerAt
  <2>3. Fresh(p)'
    BY <1>5, StartFresh
  <2> QED
    BY <2>2, <2>3 DEF LowerAt
<1>6. CASE Request(p)
  <2>1. target[p] \in Procs /\ target[p] # p
    BY <1>1, <1>6, Numbers DEF Request, ProcessAt, ClientAt
  <2>2. inbox'[p] = inbox[p]
    BY <1>1, <1>6, <2>1, RequestIs DEF Becomes
  <2> QED
    BY <1>4, <1>6, <2>2 DEF Request, socks
<1>7. CASE Retry(p) \/ WakeUp(p)
  BY <1>4, <1>7 DEF Retry, WakeUp, cm, socks
<1>8. CASE GiveUp(p) \/ ReacceptThrows(p)
  <2>1. state'[p] = "failed" /\ accepted' = accepted /\ pool' = pool
    BY <1>1, <1>8, GiveUpIs, ReacceptThrowsIs DEF Becomes
  <2>2. accepted'[p] = Cardinality(Lower(p)')
    BY <2>1, LowerStays DEF LowerAt
  <2> QED
    BY <2>1, <2>2 DEF LowerAt
<1>9. CASE Connected(p)
  <2>1. \A q \in Procs : q < p => pool'[p][q] = pool[p][q]
    BY <1>9, ConnectedAt, Numbers
  <2>2. state'[p] \in {"connect", "accept"} => state[p] \in {"connect", "accept"}
    BY <1>9, ConnectedAt
  <2> QED
    BY <1>4, <1>9, <2>1, <2>2, ConnectedAt
<1>10. CASE TakeRequest(p)
  <2>1. accepted' = accepted /\ pool' = pool /\ state' = state /\ state[p] \in {"accept", "reaccept"}
    BY <1>1, <1>10, TakeRequestIs
  <2>2. accepted'[p] = Cardinality(Lower(p)')
    BY <2>1, LowerStays DEF LowerAt
  <2>3. state[p] = "accept" => Fresh(p)'
    BY <1>10, TakeRequestFresh DEF LowerAt
  <2> QED
    BY <2>1, <2>2, <2>3 DEF LowerAt
<1>11. CASE Accept(p)
  BY <1>11, AcceptLower DEF LowerAt
<1>12. CASE Reconnect(p)
  <2>1. state'[p] \in {"reconnect", "reaccept"} /\ accepted' = accepted /\ pool' = pool
    BY <1>1, <1>12, StateReconnect, ReconnectIs
  <2>2. accepted'[p] = Cardinality(Lower(p)')
    BY <2>1, LowerStays DEF LowerAt
  <2> QED
    BY <2>1, <2>2 DEF LowerAt
<1>13. CASE Reaccept(p) \/ CloseLost(p)
  <2>1. state'[p] \in {"closing", "lost"} /\ accepted' = accepted /\ pool' = pool
    BY <1>1, <1>13, ReacceptIs, CloseLostIs DEF Becomes
  <2>2. accepted'[p] = Cardinality(Lower(p)')
    BY <2>1, LowerStays DEF LowerAt
  <2> QED
    BY <2>1, <2>2 DEF LowerAt
<1>14. CASE CloseReturns(p)
  <2>1. accepted[p] = p
    BY <1>1, <1>14, CloseReturnsAt DEF ProcessAt, CountAt, SetUp
  <2>2. \A q \in Procs : q < p => pool[p][q] # 0
    BY <1>1, <2>1, AllLower
  <2>3. \A q \in Procs : q < p => pool'[p][q] # 0
    BY <1>14, <2>2, CloseReturnsAt
  <2>4. accepted'[p] = Cardinality(Lower(p)')
    BY <1>14, <2>2, <2>3, CloseReturnsAt, LowerStays DEF LowerAt
  <2>5. state'[p] = "up"
    BY <1>14, CloseReturnsAt
  <2> QED
    BY <2>4, <2>5 DEF LowerAt
<1> QED
  BY <1>5, <1>6, <1>7, <1>8, <1>9, <1>10, <1>11, <1>12, <1>13, <1>14 DEF Process

LEMMA LowerNext ==
    ASSUME Base, BarrierInv, \A p \in Procs : LowerAt(p), [Next]_vars
    PROVE  (\A p \in Procs : LowerAt(p))'
<1>1. CASE UNCHANGED vars
  BY <1>1 DEF LowerAt, Lower, Fresh, HasAsked, vars, cm, socks
<1>2. ASSUME NEW p \in Procs, Process(p), NEW x \in Procs PROVE LowerAt(x)'
  BY <1>2, LowerOther, LowerSelf
<1> QED
  BY <1>1, <1>2 DEF Next

CompleteInv ==
    /\ Base /\ BarrierInv
    /\ \A p \in Procs : HigherAt(p)
    /\ \A p \in Procs : LowerAt(p)

LEMMA CompleteInit == Init => CompleteInv
<1> SUFFICES ASSUME Init PROVE CompleteInv
  OBVIOUS
<1>1. Base /\ Shape
  BY BaseInit DEF Base
<1>2. \A p, q \in Procs : pool[p][q] = 0 /\ accepted[p] = 0 /\ state[p] = "init"
  BY DEF Init
<1>3. BarrierInv /\ \A p \in Procs : HigherAt(p)
  BY <1>2 DEF BarrierInv, HigherAt
<1>4. ASSUME NEW p \in Procs PROVE LowerAt(p)
  <2>1. Lower(p) = {}
    BY <1>1, <1>2, LowerIs
  <2> QED
    BY <1>2, <2>1, FS_EmptySet DEF LowerAt
<1> QED
  BY <1>1, <1>3, <1>4 DEF CompleteInv

(***************************************************************************)
(* If the processes call RDMA_Barrier before they reconnect, one that has  *)
(* set itself up has a connection to every other rank and none to itself.  *)
(* setupAccept only counts its clients; the count is right because a lower *)
(* rank asks a process in setup at most once (Fresh), and no request to    *)
(* reconnect can reach it (BarrierInv): the clients counted are different  *)
(* ranks.                                                                  *)
(***************************************************************************)
THEOREM AllConnected == ASSUME Barrier PROVE Spec => []SetupComplete
<1>1. CompleteInv /\ [Next]_vars => CompleteInv'
  BY BaseNext, BarrierNext, HigherNext, LowerNext DEF CompleteInv
<1>2. Spec => []CompleteInv
  BY <1>1, CompleteInit, PTL DEF Spec
<1>3. CompleteInv => SetupComplete
  <2> SUFFICES ASSUME CompleteInv, NEW p \in Procs, NEW q \in Procs, SetUp(p)
               PROVE  pool[p][q] = 0 <=> p = q
    BY DEF SetupComplete
  <2>1. Shape /\ ProcessAt(p) /\ HigherAt(p) /\ LowerAt(p)
    BY DEF CompleteInv, Base
  <2>2. accepted[p] = p
    BY <2>1 DEF ProcessAt, CountAt
  <2>3. q < p => pool[p][q] # 0
    BY <2>1, <2>2, AllLower
  <2>4. p < q => pool[p][q] # 0
    BY <2>1 DEF HigherAt, SetUp
  <2>5. p = q => pool[p][q] = 0
    BY <2>1 DEF HigherAt
  <2>6. q < p \/ p < q \/ p = q
    BY Numbers
  <2> QED
    BY <2>3, <2>4, <2>5, <2>6
<1> QED
  BY <1>2, <1>3, PTL

=============================================================================
