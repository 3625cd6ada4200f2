----------------------------- MODULE CloseProofs -----------------------------
(***************************************************************************)
(* Theorems about Close, for every program of the two ends: type           *)
(* correctness, that a call that begins after wait_for_close has the lock  *)
(* meets nothing destroyed, that Close implements Teardown, and that the   *)
(* end that disconnects first loses no message.                            *)
(***************************************************************************)
EXTENDS Close, FiniteSetTheorems, TLAPS

\* Where the first thread is when no call was under way at the time
\* wait_for_close got the lock: a new call returns at once, close_ goes on
\* to its end without a look at wr_queue before the other thread has ended.
Outside(e) ==
    \/ at[e] \in {"user", "disconnect", "join", "closed", "crashed"}
    \/ at[e] = "resolve" /\ then[e] = "join"

(***************************************************************************)
(* What holds between the two threads of an end: the lock is the closer's  *)
(* from its first step on, the queue pair is destroyed by its last one,    *)
(* close_ passes the join after that, and the queue pair goes down only    *)
(* when an end has disconnected.                                           *)
(***************************************************************************)
ThreadsOf(e) ==
    /\ lock[e] = "closer" <=> closer[e] # "listen"
    /\ closer[e] = "ended" <=> qp[e] = "destroyed"
    /\ closer[e] # "listen" => e \in asked /\ qp[e] # "up"
    /\ qp[e] # "up" => asked # {}
    /\ at[e] = "undefined" => closer[e] # "listen"
    /\ then[e] = "join" => closer[e] = "ended"
    /\ at[e] \in {"closed", "crashed"} => closer[e] = "ended"
    /\ closer[e] # "listen" /\ ~under[e] => Outside(e)
    /\ closer[e] \in {"destroy", "ended"} /\ ~under[e] => wrq[e] = <<>>

IInv ==
    /\ TypeOK
    /\ DOMAIN wrq = Ends
    /\ \A e \in Ends : ThreadsOf(e)

LEMMA PeerIsEnd == \A e \in Ends : Peer(e) \in Ends /\ Peer(e) # e
  BY EndsAssumption DEF Peer

LEMMA InvInit == Init => IInv
<1> SUFFICES ASSUME Init PROVE IInv
  OBVIOUS
<1>1. TypeOK
  BY DEF Init, TypeOK, Places, Inside
<1>2. \A e \in Ends : ThreadsOf(e)
  BY DEF Init, ThreadsOf, Outside
<1> QED
  BY <1>1, <1>2 DEF IInv, Init

\* What poll_wc may return to its caller.
Results == {"ok", "failed", "none", "refused"}

LEMMA PolledResult == \A seen : Polled(seen) \in Results
  BY DEF Polled, Results

LEMMA AfterPollPlace ==
    \A place \in DOMAIN AfterPoll, result \in Results :
        AfterPoll[place][result] \in {"resolve", "user", "ack", "sent", "reading", "unread", "acking", "disconnect"}
  BY DEF AfterPoll, Results

\* A return of poll_wc keeps the types and goes to a place within the calls.
LEMMA PollReturnsType ==
    ASSUME TypeOK, NEW e \in Ends, NEW result \in Results, at[e] \in DOMAIN AfterPoll,
           PollReturns(e, result), UNCHANGED <<closer, lock, wire, asked, under>>
    PROVE  /\ TypeOK'
           /\ at' = [at EXCEPT ![e] = at'[e]]
           /\ at'[e] \in {"resolve", "user", "ack", "sent", "reading", "unread", "acking", "disconnect"}
           /\ then' = [then EXCEPT ![e] = then'[e]]
           /\ then'[e] # "join" \/ then'[e] = then[e]
<1> DEFINE next == AfterPoll[at[e]][result]
<1>1. next \in {"resolve", "user", "ack", "sent", "reading", "unread", "acking", "disconnect"}
  BY AfterPollPlace
<1>2. at' = [at EXCEPT ![e] = next] /\ at' \in [Ends -> Places]
  BY <1>1 DEF PollReturns, Goto, TypeOK, Places, Inside
<1>3. at[e] \in {"sent", "reading", "acking", "await", "ackpoll"}
  BY DEF AfterPoll
<1>4. ~(next = "resolve" /\ ~(at[e] = "acking" /\ result = "ok"))
        \/ at[e] \in {"sent", "await", "ackpoll"}
  BY <1>3 DEF AfterPoll, Results
<1>5. /\ then' = [then EXCEPT ![e] = then'[e]]
      /\ then'[e] \in {"sent", "await", "ackpoll", then[e]}
  BY <1>4 DEF PollReturns, TypeOK
<1>6. then' \in [Ends -> {"user", "sent", "recv", "irecv", "await", "ackpoll", "join"}]
  BY <1>5 DEF TypeOK
<1>7. TypeOK'
  BY <1>2, <1>6 DEF PollReturns, TypeOK, wire
<1> QED
  BY <1>1, <1>2, <1>5, <1>7 DEF TypeOK

LEMMA ResolvedType ==
    ASSUME TypeOK, NEW e \in Ends, NEW ended \in BOOLEAN, Resolved(e, ended)
    PROVE  /\ at' = [at EXCEPT ![e] = at'[e]]
           /\ at'[e] \in {"acks", "closed", "try", "await", "user"}
           /\ at'[e] = "closed" <=> then[e] = "join"
           /\ recvq' \in [Ends -> Nat] /\ closeFlag' \in [Ends -> BOOLEAN]
<1>1. recvq' \in [Ends -> Nat]
  BY DEF Resolved, Given, TypeOK
<1>2. closeFlag' \in [Ends -> BOOLEAN]
  BY DEF Resolved, TypeOK
<1>3. /\ at' = [at EXCEPT ![e] = at'[e]]
      /\ at'[e] \in {"acks", "closed", "try", "await", "user"}
      /\ at'[e] = "closed" <=> then[e] = "join"
  BY SMT DEF Resolved, Goto, TypeOK
<1> QED
  BY <1>1, <1>2, <1>3

-----------------------------------------------------------------------------
(* What is in the queues *)

(***************************************************************************)
(* The queues hold sends and completions, and while wait_for_close has not *)
(* begun, wr_queue has no completion of a send: poll_wc, recv_ and irecv_  *)
(* put none there.                                                         *)
(***************************************************************************)
Posted == [kind : {"normal", "read", "ack", "close"}, arrived : BOOLEAN]
Record == [op : {"send", "recv", "other"}, ok : BOOLEAN,
           kind : {"normal", "read", "ack", "close", "none"}]

NoneSent(s) == \A i \in DOMAIN s : ~(s[i].ok /\ IsSend(s[i]))

QueueInv ==
    /\ sq \in [Ends -> Seq(Posted)]
    /\ cq \in [Ends -> Seq(Record)] /\ wrq \in [Ends -> Seq(Record)]
    /\ DOMAIN closer = Ends
    /\ \A e \in Ends : closer[e] = "listen" => NoneSent(wrq[e])

\* Where the m-th of the completions with one of the opcodes is.
Nth(s, ops, m) ==
    CHOOSE i \in ReceiveAt(s, ops) : Cardinality({j \in ReceiveAt(s, ops) : j <= i}) = m

\* The completions with one of the opcodes are numbered in their order.
LEMMA Numbered ==
    ASSUME NEW C, NEW s \in Seq(C), NEW ops
    PROVE  LET n == Cardinality(ReceiveAt(s, ops))
           IN  /\ n \in Nat
               /\ Receives(s, ops) = [m \in 1..n |-> s[Nth(s, ops, m)]]
               /\ \A m \in 1..n : Nth(s, ops, m) \in ReceiveAt(s, ops)
               /\ \A i \in ReceiveAt(s, ops) : \E m \in 1..n : Nth(s, ops, m) = i
               /\ \A m, o \in 1..n : Nth(s, ops, m) = Nth(s, ops, o) => m = o
<1> DEFINE R == ReceiveAt(s, ops)
           n == Cardinality(R)
           below(i) == {j \in R : j <= i}
           rank == [i \in R |-> Cardinality(below(i))]
           nth(m) == CHOOSE i \in R : Cardinality(below(i)) = m
<1>3. Receives(s, ops) = [m \in 1..n |-> s[nth(m)]]
  BY DEF Receives
<1>4. \A m : Nth(s, ops, m) = nth(m)
  BY DEF Nth
<1>1. R \in SUBSET (1..Len(s)) /\ IsFiniteSet(R) /\ n \in Nat
  <2>1. R \in SUBSET (1..Len(s))
    BY DEF ReceiveAt
  <2>2. IsFiniteSet(1..Len(s))
    BY FS_Interval
  <2>3. IsFiniteSet(R)
    BY <2>1, <2>2, FS_Subset
  <2> QED
    BY <2>1, <2>3, FS_CardinalityType
<1>2. R \in SUBSET Nat
  BY <1>1
<1> HIDE DEF R, n
<1>5. ASSUME NEW i \in R PROVE IsFiniteSet(below(i)) /\ rank[i] = Cardinality(below(i))
                              /\ rank[i] \in 1..n
  <2>1. below(i) \in SUBSET R
    OBVIOUS
  <2>2. i \in below(i)
    BY <1>2
  <2>3. IsFiniteSet(below(i)) /\ Cardinality(below(i)) <= n
    BY <1>1, <2>1, FS_Subset DEF n
  <2>4. Cardinality(below(i)) # 0 /\ Cardinality(below(i)) \in Nat
    BY <2>2, <2>3, FS_EmptySet, FS_CardinalityType
  <2> QED
    BY <1>1, <2>3, <2>4
<1>6. ASSUME NEW i \in R, NEW j \in R, rank[i] = rank[j] PROVE i = j
  <2>1. ASSUME NEW a \in R, NEW b \in R, a < b PROVE rank[a] # rank[b]
    <3>1. a \in Nat /\ b \in Nat /\ \A m \in R : m \in Nat
      BY <1>2
    <3>2. b \in below(b) /\ b \notin below(a) /\ \A m \in R : m <= a => m <= b
      BY <2>1, <3>1
    <3>3. below(a) \in SUBSET below(b)
      BY <3>2
    <3> HIDE DEF below
    <3>4. Cardinality(below(a)) # Cardinality(below(b))
      BY <1>5, <3>2, <3>3, FS_Subset
    <3> QED
      BY <1>5, <3>4
  <2> QED
    BY <1>2, <1>6, <2>1
<1>7. \A m \in 1..n : \E i \in R : rank[i] = m
  <2>1. rank \in Injection(R, 1..n)
    BY <1>5, <1>6 DEF Injection, IsInjective
  <2>2. IsFiniteSet(1..n) /\ Cardinality(1..n) = n
    BY <1>1, FS_Interval
  <2>3. rank \in Surjection(R, 1..n)
    BY <2>1, <2>2, FS_Injection DEF n
  <2> QED
    BY <2>3 DEF Surjection
<1> HIDE DEF rank
<1>8. ASSUME NEW m \in 1..n PROVE nth(m) \in R /\ rank[nth(m)] = m
  <2>1. \E i \in R : Cardinality(below(i)) = m
    BY <1>5, <1>7
  <2>2. nth(m) \in R /\ Cardinality(below(nth(m))) = m
    BY <2>1
  <2> QED
    BY <1>5, <2>2
<1>9. \A i \in R : nth(rank[i]) = i
  BY <1>5, <1>6, <1>8
<1>10. \A m, o \in 1..n : nth(m) = nth(o) => m = o
  BY <1>8
<1>11. \A i \in R : \E m \in 1..n : nth(m) = i
  BY <1>5, <1>9
<1> HIDE DEF nth
<1> QED
  BY <1>1, <1>3, <1>4, <1>8, <1>10, <1>11 DEF R, n

\* What is kept has one of the opcodes.
LEMMA Kept ==
    ASSUME NEW s \in Seq(Record), NEW ops
    PROVE  /\ Receives(s, ops) \in Seq(Record)
           /\ \A i \in DOMAIN Receives(s, ops) : Receives(s, ops)[i].op \in ops
<1> DEFINE n == Cardinality(ReceiveAt(s, ops))
<1>1. /\ n \in Nat /\ Receives(s, ops) = [m \in 1..n |-> s[Nth(s, ops, m)]]
      /\ \A m \in 1..n : Nth(s, ops, m) \in ReceiveAt(s, ops)
  BY Numbered
<1> HIDE DEF n
<1>2. \A i \in ReceiveAt(s, ops) : s[i] \in Record /\ s[i].op \in ops
  BY DEF ReceiveAt
<1>3. Receives(s, ops) \in [1..n -> Record]
  BY <1>1, <1>2
<1> QED
  BY <1>1, <1>2, <1>3

\* The completions keep their number and all but their opcode.
LEMMA SeenType ==
    ASSUME QueueInv, NEW e \in Ends, NEW seen \in Seen(e)
    PROVE  seen \in Seq(Record)
<1>1. cq[e] \in Seq(Record)
  BY DEF QueueInv
<1>2. PICK op \in [DOMAIN cq[e] -> {"send", "recv", "other"}] :
          seen = [i \in DOMAIN cq[e] |-> [cq[e][i] EXCEPT !.op = op[i]]]
  BY DEF Seen
<1>3. ASSUME NEW i \in DOMAIN cq[e]
      PROVE  [cq[e][i] EXCEPT !.op = op[i]] \in Record
  <2>1. cq[e][i] \in Record /\ op[i] \in {"send", "recv", "other"}
    BY <1>1, <1>2
  <2> QED
    BY <2>1 DEF Record
<1>4. DOMAIN cq[e] = 1..Len(cq[e]) /\ Len(cq[e]) \in Nat
  BY <1>1
<1>5. seen \in [1..Len(cq[e]) -> Record]
  BY <1>2, <1>3, <1>4
<1> QED
  BY <1>4, <1>5

\* What is kept goes behind what wr_queue has.
LEMMA KeptBehind ==
    ASSUME QueueInv, NEW e \in Ends, NEW seen \in Seen(e),
           NEW ops, ops \in {{"recv"}, {"recv", "other"}},
           wrq' = [wrq EXCEPT ![e] = @ \o Receives(seen, ops)],
           cq' = [cq EXCEPT ![e] = <<>>], UNCHANGED <<sq, closer>>
    PROVE  QueueInv'
<1> DEFINE r == Receives(seen, ops)
<1>1. r \in Seq(Record) /\ \A i \in DOMAIN r : r[i].op \in ops
  BY SeenType, Kept
<1>2. NoneSent(r)
  BY <1>1 DEF NoneSent, IsSend
<1> HIDE DEF r
<1>3. wrq[e] \in Seq(Record) /\ wrq' = [wrq EXCEPT ![e] = wrq[e] \o r]
  BY DEF QueueInv, r
<1>4. wrq[e] \o r \in Seq(Record)
  BY <1>1, <1>3
<1>5. NoneSent(wrq[e]) => NoneSent(wrq[e] \o r)
  BY <1>1, <1>2, <1>3 DEF NoneSent
<1>6. wrq' \in [Ends -> Seq(Record)]
  BY <1>3, <1>4 DEF QueueInv
<1>7. cq' \in [Ends -> Seq(Record)]
  BY DEF QueueInv
<1>8. wrq'[e] = wrq[e] \o r /\ \A x \in Ends \ {e} : wrq'[x] = wrq[x]
  BY <1>3 DEF QueueInv
<1> QED
  BY <1>5, <1>6, <1>7, <1>8 DEF QueueInv

\* A step that only posts something.
LEMMA QueuesPost ==
    ASSUME QueueInv, NEW e \in Ends, NEW kind \in {"normal", "read", "ack", "close"},
           Post(e, kind), UNCHANGED <<cq, wrq, closer>>
    PROVE  QueueInv'
<1>1. sq' = [sq EXCEPT ![e] = Append(sq[e], [kind |-> kind, arrived |-> FALSE])]
  BY DEF Post
<1>2. [kind |-> kind, arrived |-> FALSE] \in Posted /\ sq[e] \in Seq(Posted)
  BY DEF Posted, QueueInv
<1>3. Append(sq[e], [kind |-> kind, arrived |-> FALSE]) \in Seq(Posted)
  BY <1>2
<1> QED
  BY <1>1, <1>3 DEF QueueInv

\* A record taken from the front of wr_queue.
LEMMA QueueTail ==
    ASSUME QueueInv, NEW e \in Ends, wrq[e] # <<>>, wrq' = [wrq EXCEPT ![e] = Tail(wrq[e])],
           UNCHANGED <<sq, cq, closer>>
    PROVE  QueueInv'
<1>1. wrq[e] \in Seq(Record)
  BY DEF QueueInv
<1>2. Tail(wrq[e]) \in Seq(Record) /\ (NoneSent(wrq[e]) => NoneSent(Tail(wrq[e])))
  BY <1>1 DEF NoneSent
<1>3. wrq' \in [Ends -> Seq(Record)]
  BY <1>2 DEF QueueInv
<1>4. wrq'[e] = Tail(wrq[e]) /\ \A x \in Ends \ {e} : wrq'[x] = wrq[x]
  BY DEF QueueInv
<1> QED
  BY <1>2, <1>3, <1>4 DEF QueueInv

LEMMA QueuesFirst ==
    ASSUME QueueInv, NEW e \in Ends, First(e)
    PROVE  QueueInv'
<1>1. CASE UNCHANGED <<sq, cq, wrq, closer>>
  BY <1>1 DEF QueueInv
<1>2. CASE PostMessage(e)
  <2>1. CASE ~Undefined(e)
    <3>1. Posting[at[e]].kind \in {"normal", "read", "ack", "close"}
      BY <1>2 DEF PostMessage, Posting
    <3>2. Post(e, Posting[at[e]].kind) /\ UNCHANGED <<cq, wrq, closer>>
      BY <1>2, <2>1 DEF PostMessage
    <3> QED
      BY <3>1, <3>2, QueuesPost
  <2>2. CASE Undefined(e)
    BY <1>1, <2>2 DEF Undefined, wire
  <2> QED
    BY <2>1, <2>2
<1>3. CASE PollFirst(e)
  <2>1. CASE ~Undefined(e)
    <3>1. PICK seen \in Seen(e) :
              wrq' = [wrq EXCEPT ![e] = @ \o Receives(seen, {"recv", "other"})]
      BY <1>3, <2>1 DEF PollFirst
    <3>2. cq' = [cq EXCEPT ![e] = <<>>] /\ UNCHANGED <<sq, closer>>
      BY <1>3, <2>1 DEF PollFirst, wire
    <3> QED
      BY <3>1, <3>2, KeptBehind
  <2>2. CASE Undefined(e)
    BY <1>1, <2>2 DEF Undefined, wire
  <2> QED
    BY <2>1, <2>2
<1>4. CASE PollEvent(e)
  <2>1. PICK seen \in Seen(e) : wrq' = [wrq EXCEPT ![e] = @ \o Receives(seen, {"recv"})]
    BY <1>4 DEF PollEvent
  <2>2. cq' = [cq EXCEPT ![e] = <<>>] /\ UNCHANGED <<sq, closer>>
    BY <1>4 DEF PollEvent, wire
  <2> QED
    BY <2>1, <2>2, KeptBehind
<1>5. CASE ResolveNext(e)
  <2>1. wrq[e] # <<>> /\ wrq' = [wrq EXCEPT ![e] = Tail(wrq[e])] /\ UNCHANGED <<sq, cq, closer>>
    BY <1>5 DEF ResolveNext, wire
  <2> QED
    BY <2>1, QueueTail
<1>6. CASE CloseMessage(e)
  <2>1. CASE Post(e, "close")
    BY <1>6, <2>1, QueuesPost DEF CloseMessage
  <2>2. CASE sq' = sq
    BY <1>1, <1>6, <2>2 DEF CloseMessage
  <2> QED
    BY <1>6, <2>1, <2>2 DEF CloseMessage
<1>7. CASE Send(e) \/ Recv(e) \/ Close(e) \/ PollTry(e) \/ PollDestroyed(e) \/ ResolveFails(e)
             \/ ResolveEnds(e) \/ TryLock(e) \/ Disconnect(e) \/ Join(e)
  BY <1>1, <1>7 DEF Send, Recv, Enter, Close, PollTry, PollDestroyed, Undefined, ResolveFails,
     ResolveEnds, TryLock, Disconnect, Join, wire
<1> QED
  BY <1>2, <1>3, <1>4, <1>5, <1>6, <1>7 DEF First

LEMMA QueuesCloser ==
    ASSUME QueueInv, NEW e \in Ends, Closer(e)
    PROVE  QueueInv'
<1>1. CASE CloserLock(e)
  BY <1>1 DEF CloserLock, QueueInv
<1>2. CASE CloserDrain(e)
  <2>1. /\ wrq' = [wrq EXCEPT ![e] = wrq[e] \o cq[e]] /\ cq' = [cq EXCEPT ![e] = <<>>]
        /\ closer' = [closer EXCEPT ![e] = "empty"] /\ sq' = sq
    BY <1>2 DEF CloserDrain, wire
  <2>2. wrq[e] \o cq[e] \in Seq(Record)
    BY DEF QueueInv
  <2>3. wrq' \in [Ends -> Seq(Record)] /\ cq' \in [Ends -> Seq(Record)]
    BY <2>1, <2>2 DEF QueueInv
  <2>4. \A x \in Ends : closer'[x] = "listen" => closer[x] = "listen" /\ wrq'[x] = wrq[x]
    BY <2>1 DEF QueueInv
  <2> QED
    BY <2>1, <2>3, <2>4 DEF QueueInv
<1>3. CASE CloserEmpty(e)
  <2>1. CASE wrq[e] # <<>> /\ wrq' = [wrq EXCEPT ![e] = Tail(wrq[e])] /\ UNCHANGED closer
    BY <1>3, <2>1, QueueTail DEF CloserEmpty, wire
  <2>2. CASE closer' = [closer EXCEPT ![e] = "destroy"] /\ wrq' = wrq
    BY <1>3, <2>2 DEF CloserEmpty, wire, QueueInv
  <2> QED
    BY <1>3, <2>1, <2>2 DEF CloserEmpty
<1>4. CASE CloserDestroy(e)
  <2>1. /\ sq' = [sq EXCEPT ![e] = <<>>] /\ cq' = [cq EXCEPT ![e] = <<>>] /\ wrq' = wrq
        /\ closer' = [closer EXCEPT ![e] = "ended"]
    BY <1>4 DEF CloserDestroy
  <2> QED
    BY <2>1 DEF QueueInv
<1> QED
  BY <1>1, <1>2, <1>3, <1>4 DEF Closer

\* Of sequences: an element behind, a function on 1..n, three in a row.
LEMMA OneBehind ==
    ASSUME NEW S, NEW s \in Seq(S), NEW r \in S
    PROVE  <<r>> \in Seq(S) /\ <<>> \in Seq(S) /\ Append(s, r) = s \o <<r>>
OBVIOUS

LEMMA ListOf ==
    ASSUME NEW S, NEW n \in Nat, NEW f \in [1..n -> S]
    PROVE  f \in Seq(S)
OBVIOUS

LEMMA ThreeInARow ==
    ASSUME NEW S, NEW s \in Seq(S), NEW t \in Seq(S), NEW u \in Seq(S)
    PROVE  t \o u \in Seq(S) /\ (s \o t) \o u = s \o (t \o u)
OBVIOUS

\* Completions go to the end of a completion queue.
LEMMA QueuesComplete ==
    ASSUME QueueInv, NEW x \in Ends, NEW c \in Seq(Record),
           cq' = [cq EXCEPT ![x] = cq[x] \o c], sq' \in [Ends -> Seq(Posted)],
           UNCHANGED <<wrq, closer>>
    PROVE  QueueInv'
<1>1. cq[x] \o c \in Seq(Record)
  BY DEF QueueInv
<1>2. cq' \in [Ends -> Seq(Record)]
  BY <1>1 DEF QueueInv
<1> QED
  BY <1>2 DEF QueueInv

LEMMA QueuesPair ==
    ASSUME QueueInv, NEW e \in Ends, QueuePair(e)
    PROVE  QueueInv'
<1>0. UNCHANGED <<wrq, closer>>
  BY DEF QueuePair, Arrive, SendCompletes, Unanswered, Flush, Others
<1>1. CASE Arrive(e)
  <2>1. PICK i \in DOMAIN sq[e] :
            /\ sq' = [sq EXCEPT ![e][i].arrived = TRUE]
            /\ IF sq[e][i].kind = "read" THEN UNCHANGED cq
               ELSE Complete(Peer(e), Completion("recv", TRUE, sq[e][i].kind))
    BY <1>1 DEF Arrive
  <2>2. sq[e] \in Seq(Posted) /\ sq[e][i] \in Posted
    BY <2>1 DEF QueueInv
  <2>3. [sq[e][i] EXCEPT !.arrived = TRUE] \in Posted
    BY <2>2 DEF Posted
  <2>4. [sq[e] EXCEPT ![i] = [sq[e][i] EXCEPT !.arrived = TRUE]] \in Seq(Posted)
    BY <2>1, <2>2, <2>3
  <2>5. sq' = [sq EXCEPT ![e] = [sq[e] EXCEPT ![i] = [sq[e][i] EXCEPT !.arrived = TRUE]]]
    BY <2>1
  <2>6. sq' \in [Ends -> Seq(Posted)]
    BY <2>4, <2>5 DEF QueueInv
  <2>7. CASE cq' = cq
    BY <1>0, <2>6, <2>7 DEF QueueInv
  <2>8. CASE Complete(Peer(e), Completion("recv", TRUE, sq[e][i].kind))
    <3> DEFINE c == Completion("recv", TRUE, sq[e][i].kind)
    <3>1. c \in Record
      BY <2>2 DEF Completion, Record, Posted
    <3> HIDE DEF c
    <3>2. Peer(e) \in Ends /\ cq[Peer(e)] \in Seq(Record)
      BY PeerIsEnd DEF QueueInv
    <3>3. <<c>> \in Seq(Record) /\ cq' = [cq EXCEPT ![Peer(e)] = cq[Peer(e)] \o <<c>>]
      <4>1. <<c>> \in Seq(Record) /\ Append(cq[Peer(e)], c) = cq[Peer(e)] \o <<c>>
        BY <3>1, <3>2, OneBehind
      <4> QED
        BY <2>8, <4>1 DEF Complete, c
    <3> QED
      BY <1>0, <2>6, <3>2, <3>3, QueuesComplete
  <2> QED
    BY <2>1, <2>7, <2>8
<1>2. CASE SendCompletes(e)
  <2> DEFINE c == Completion("send", TRUE, Head(sq[e]).kind)
  <2>1. sq[e] \in Seq(Posted) /\ sq[e] # <<>> /\ sq' = [sq EXCEPT ![e] = Tail(sq[e])]
        /\ cq' = [cq EXCEPT ![e] = Append(cq[e], c)] /\ cq[e] \in Seq(Record)
    BY <1>2 DEF SendCompletes, QueueInv, Complete
  <2>2. Head(sq[e]) \in Posted /\ Tail(sq[e]) \in Seq(Posted)
    BY <2>1
  <2>3. sq' \in [Ends -> Seq(Posted)]
    BY <2>1, <2>2 DEF QueueInv
  <2>4. c \in Record
    BY <2>2 DEF Completion, Record, Posted
  <2> HIDE DEF c
  <2>5. <<c>> \in Seq(Record) /\ Append(cq[e], c) = cq[e] \o <<c>>
    BY <2>1, <2>4, OneBehind
  <2> QED
    BY <1>0, <2>1, <2>3, <2>5, QueuesComplete
<1>3. CASE Unanswered(e)
  BY <1>0, <1>3 DEF Unanswered, QueueInv
<1>4. CASE Flush(e)
  <2> DEFINE c == [i \in DOMAIN sq[e] |-> Completion("send", FALSE, sq[e][i].kind)]
             d == IF flushed[e] THEN <<>> ELSE <<Completion("recv", FALSE, "none")>>
  <2>1. sq[e] \in Seq(Posted) /\ cq[e] \in Seq(Record) /\ sq' = [sq EXCEPT ![e] = <<>>]
        /\ cq' = [cq EXCEPT ![e] = cq[e] \o c \o d]
    BY <1>4 DEF Flush, QueueInv
  <2>2. c \in Seq(Record)
    <3>1. DOMAIN sq[e] = 1..Len(sq[e]) /\ Len(sq[e]) \in Nat
          /\ \A i \in DOMAIN sq[e] : sq[e][i] \in Posted
      BY <2>1
    <3>2. \A i \in DOMAIN sq[e] : Completion("send", FALSE, sq[e][i].kind) \in Record
      BY <3>1 DEF Completion, Record, Posted
    <3>3. c \in [1..Len(sq[e]) -> Record]
      BY <3>1, <3>2
    <3> HIDE DEF c
    <3> QED
      BY <3>1, <3>3, ListOf
  <2>3. d \in Seq(Record)
    <3> DEFINE r == Completion("recv", FALSE, "none")
    <3>1. r \in Record
      BY DEF Completion, Record
    <3> HIDE DEF r
    <3>2. <<r>> \in Seq(Record) /\ <<>> \in Seq(Record)
      BY <3>1, OneBehind
    <3> QED
      BY <3>2 DEF r
  <2>4. sq' \in [Ends -> Seq(Posted)]
    BY <2>1 DEF QueueInv
  <2> HIDE DEF c, d
  <2>5. c \o d \in Seq(Record) /\ (cq[e] \o c) \o d = cq[e] \o (c \o d)
    <3>1. cq[e] \in Seq(Record)
      BY <2>1
    <3> DEFINE s == cq[e]
    <3> HIDE DEF s
    <3>2. s \in Seq(Record)
      BY <3>1 DEF s
    <3>3. c \o d \in Seq(Record)
      BY <2>2, <2>3, ThreeInARow
    <3>4. (s \o c) \o d = s \o (c \o d)
      BY <2>2, <2>3, <3>2, ThreeInARow
    <3> QED
      BY <3>3, <3>4 DEF s
  <2> QED
    BY <1>0, <2>1, <2>4, <2>5, QueuesComplete
<1> QED
  BY <1>1, <1>2, <1>3, <1>4 DEF QueuePair

LEMMA QueuesNext == QueueInv /\ [Next]_vars => QueueInv'
<1> SUFFICES ASSUME QueueInv, [Next]_vars PROVE QueueInv'
  OBVIOUS
<1>1. CASE UNCHANGED vars
  BY <1>1 DEF QueueInv, vars, wire
<1>2. ASSUME NEW e \in Ends, Crash(e) PROVE QueueInv'
  <2>1. /\ sq' = [sq EXCEPT ![e] = <<>>] /\ cq' = [cq EXCEPT ![e] = <<>>]
        /\ wrq' = [wrq EXCEPT ![e] = <<>>] /\ closer' = [closer EXCEPT ![e] = "ended"]
    BY <1>2 DEF Crash
  <2> QED
    BY <2>1 DEF QueueInv
<1> QED
  BY <1>1, <1>2, QueuesFirst, QueuesCloser, QueuesPair DEF Next

LEMMA QueuesInit == Init => QueueInv
<1> SUFFICES ASSUME Init PROVE QueueInv
  OBVIOUS
<1> DEFINE c == Completion("recv", TRUE, "ack")
<1>1. c \in Record
  BY DEF Completion, Record
<1>2. cq = [e \in Ends |-> IF e = Client THEN <<c>> ELSE <<>>]
  BY DEF Init
<1> HIDE DEF c
<1>3. cq \in [Ends -> Seq(Record)]
  BY <1>1, <1>2
<1>4. wrq = [e \in Ends |-> <<>>] /\ sq = [e \in Ends |-> <<>>] /\ DOMAIN closer = Ends
  BY DEF Init
<1>5. \A e \in Ends : NoneSent(wrq[e])
  BY <1>4 DEF NoneSent
<1> QED
  BY <1>3, <1>4, <1>5 DEF QueueInv

LEMMA QueuesAlways == Spec => []QueueInv
  BY QueuesInit, QueuesNext, PTL DEF Spec

-----------------------------------------------------------------------------
(* The steps of the first thread *)

\* A step of e's first thread that only moves that thread, its wr_queue and
\* what ThreadsOf does not speak of.
LEMMA ThreadMoves ==
    ASSUME IInv, TypeOK', NEW e \in Ends,
           \A x \in Ends \ {e} : /\ at'[x] = at[x] /\ then'[x] = then[x]
                                  /\ wrq'[x] = wrq[x],
           DOMAIN wrq' = Ends,
           UNCHANGED <<closer, lock, qp, asked, under>>,
           at'[e] = "undefined" => closer[e] # "listen",
           then'[e] = "join" => closer[e] = "ended",
           at'[e] = "closed" => closer[e] = "ended", at'[e] # "crashed",
           closer[e] # "listen" /\ ~under[e] => Outside(e)',
           closer[e] \in {"destroy", "ended"} /\ ~under[e] => wrq'[e] = <<>>
    PROVE  IInv'
<1>2. ASSUME NEW x \in Ends, x # e
      PROVE  ThreadsOf(x)'
  <2>1. at'[x] = at[x] /\ then'[x] = then[x] /\ wrq'[x] = wrq[x] /\ ThreadsOf(x)
    BY <1>2 DEF IInv
  <2> QED
    BY <2>1 DEF ThreadsOf, Outside
<1>3. ThreadsOf(e)'
  BY DEF IInv, ThreadsOf
<1> QED
  BY <1>2, <1>3 DEF IInv

\* A return of poll_wc: its places are those of a call under way.
LEMMA PollReturnsKeep ==
    ASSUME IInv, NEW e \in Ends, NEW result \in Results, at[e] \in DOMAIN AfterPoll,
           PollReturns(e, result), UNCHANGED <<closer, lock, wire, asked, under>>,
           DOMAIN wrq' = Ends, \A x \in Ends \ {e} : wrq'[x] = wrq[x]
    PROVE  IInv'
<1>1. /\ TypeOK'
      /\ at' = [at EXCEPT ![e] = at'[e]]
      /\ at'[e] \in {"resolve", "user", "ack", "sent", "reading", "unread", "acking", "disconnect"}
      /\ then' = [then EXCEPT ![e] = then'[e]]
      /\ then'[e] # "join" \/ then'[e] = then[e]
  BY PollReturnsType DEF IInv
<1>2. \A x \in Ends \ {e} : at'[x] = at[x] /\ then'[x] = then[x]
  BY <1>1 DEF IInv, TypeOK
<1>3. closer[e] # "listen" => under[e]
  <2>1. at[e] \notin {"user", "disconnect", "join", "closed", "crashed", "resolve"}
    BY DEF AfterPoll
  <2> QED
    BY <2>1 DEF IInv, ThreadsOf, Outside
<1>4. closer[e] \in {"destroy", "ended"} => closer[e] # "listen"
  OBVIOUS
<1>5. then'[e] = "join" => closer[e] = "ended"
  BY <1>1 DEF IInv, ThreadsOf
<1> QED
  BY <1>1, <1>2, <1>3, <1>4, <1>5, ThreadMoves DEF wire

LEMMA FirstKeeps ==
    ASSUME IInv, QueueInv, NEW e \in Ends, First(e)
    PROVE  IInv'
<1>0. ThreadsOf(e) /\ TypeOK /\ DOMAIN wrq = Ends
  BY DEF IInv
<1>a. ASSUME Undefined(e), at[e] \notin {"user", "disconnect", "join", "closed", "crashed"},
             at[e] = "resolve" => then[e] # "join"
      PROVE  IInv'
  <2>1. TypeOK' /\ at'[e] = "undefined"
        /\ \A x \in Ends \ {e} : at'[x] = at[x]
    BY <1>0, <1>a DEF Undefined, Goto, TypeOK, Places, wire, counts
  <2> QED
    BY <1>0, <1>a, <2>1, ThreadMoves DEF Undefined, ThreadsOf, Outside, wire
<1>b. ASSUME NEW place \in Inside, NEW call, Begin(e, call), Enter(e, place),
             \/ UNCHANGED then
             \/ then' = [then EXCEPT ![e] = call] /\ call \in {"recv", "irecv"}
      PROVE  IInv'
  <2>1. TypeOK'
    <3>1. at' \in [Ends -> Places]
      BY <1>0, <1>b DEF Enter, Goto, TypeOK, Places
    <3>2. then' \in [Ends -> {"user", "sent", "recv", "irecv", "await", "ackpoll", "join"}]
      BY <1>0, <1>b DEF TypeOK
    <3> QED
      BY <1>0, <1>b, <3>1, <3>2 DEF Enter, TypeOK, wire, counts
  <2>2. (\A x \in Ends \ {e} : at'[x] = at[x]) /\ (lock[e] # "free" => at'[e] = "user")
        /\ at'[e] \in Inside \union {"user"}
    BY <1>0, <1>b DEF Enter, Goto, TypeOK
  <2>3. (\A x \in Ends \ {e} : then'[x] = then[x]) /\ (then'[e] = "join" => then[e] = "join")
    BY <1>0, <1>b DEF TypeOK
  <2>4. at'[e] \notin {"undefined", "closed", "crashed"}
    BY <2>2 DEF Inside
  <2> QED
    BY <1>0, <1>b, <2>1, <2>2, <2>3, <2>4, ThreadMoves DEF Enter, ThreadsOf, Outside, wire
<1>1. CASE Send(e)
  BY <1>1, <1>b DEF Send, Inside
<1>2. CASE Recv(e)
  BY <1>2, <1>b DEF Recv, Inside
<1>3. CASE Close(e)
  <2>1. TypeOK'
    BY <1>0, <1>3 DEF Close, Goto, TypeOK, Places, Inside, wire, counts
  <2>2. (\A x \in Ends \ {e} : at'[x] = at[x]) /\ at'[e] \in {"acks", "disconnect"}
        /\ (lock[e] # "free" => at'[e] = "disconnect")
    BY <1>0, <1>3 DEF Close, Goto, TypeOK
  <2> QED
    BY <1>0, <1>3, <2>1, <2>2, ThreadMoves DEF Close, ThreadsOf, Outside, wire
<1>4. CASE PostMessage(e)
  <2>0. at[e] \in {"send", "read", "ack"}
    BY <1>4 DEF PostMessage, Posting
  <2>1. CASE Undefined(e)
    BY <2>0, <2>1, <1>a
  <2>2. CASE ~Undefined(e)
    <3>0. Posting[at[e]].wait \in {"sent", "reading", "acking"}
      BY <2>0 DEF Posting
    <3>1. TypeOK'
      <4>1. at' \in [Ends -> Places]
        BY <1>0, <1>4, <2>2, <3>0 DEF PostMessage, Goto, TypeOK, Places, Inside
      <4> QED
        BY <1>0, <1>4, <2>2, <4>1 DEF PostMessage, TypeOK, counts
    <3>2. (\A x \in Ends \ {e} : at'[x] = at[x]) /\ at'[e] \in {"sent", "reading", "acking"}
      BY <1>0, <1>4, <2>2, <3>0 DEF PostMessage, Goto, TypeOK
    <3> QED
      BY <1>0, <1>4, <2>0, <2>2, <3>1, <3>2, ThreadMoves DEF PostMessage, ThreadsOf, Outside
  <2> QED
    BY <2>1, <2>2
<1>5. CASE PollFirst(e)
  <2>1. CASE Undefined(e)
    BY <1>5, <2>1, <1>a DEF PollFirst
  <2>2. CASE ~Undefined(e)
    <3>1. TypeOK'
      <4>1. at' \in [Ends -> Places]
        BY <1>0, <1>5, <2>2 DEF PollFirst, Goto, TypeOK, Places, Inside
      <4>2. UNCHANGED <<todo, then, checked, closer, lock, wire, counts, asked, under>>
        BY <1>5, <2>2 DEF PollFirst
      <4> QED
        BY <1>0, <4>1, <4>2 DEF TypeOK, wire, counts
    <3>2. at'[e] = "resolve" /\ DOMAIN wrq' = Ends
          /\ \A x \in Ends \ {e} : at'[x] = at[x] /\ wrq'[x] = wrq[x]
      BY <1>0, <1>5, <2>2 DEF PollFirst, Goto, TypeOK
    <3> QED
      BY <1>0, <1>5, <2>2, <3>1, <3>2, ThreadMoves DEF PollFirst, ThreadsOf, Outside, wire
  <2> QED
    BY <2>1, <2>2
<1>6. CASE PollTry(e)
  <2>1. CASE lock[e] = "free"
    <3>0. checked' = [checked EXCEPT ![e] = TRUE] /\ UNCHANGED <<at, then, counts>>
      BY <1>6, <2>1 DEF PollTry
    <3>1. TypeOK'
      BY <1>0, <1>6, <3>0 DEF PollTry, TypeOK, wire, counts
    <3>2. at[e] # "crashed"
      BY <1>6 DEF PollTry, AfterPoll
    <3> QED
      BY <1>0, <1>6, <3>0, <3>1, <3>2, ThreadMoves DEF PollTry, ThreadsOf, Outside, wire
  <2>2. CASE lock[e] # "free"
    <3>1. PollReturns(e, "refused") /\ "refused" \in Results
      BY <1>6, <2>2 DEF PollTry, Results
    <3>2. at[e] \in DOMAIN AfterPoll /\ UNCHANGED <<closer, lock, wire, wrq, asked, under>>
      BY <1>6 DEF PollTry
    <3> QED
      BY <1>0, <3>1, <3>2, PollReturnsKeep
  <2> QED
    BY <2>1, <2>2
<1>7. CASE PollEvent(e)
  <2>1. PICK seen \in Seen(e) :
            /\ wrq' = [wrq EXCEPT ![e] = @ \o Receives(seen, {"recv"})]
            /\ PollReturns(e, Polled(seen))
    BY <1>7 DEF PollEvent
  <2>2. at[e] \in DOMAIN AfterPoll /\ UNCHANGED <<closer, lock, wire, asked, under>>
    BY <1>7 DEF PollEvent
  <2>3. DOMAIN wrq' = Ends /\ \A x \in Ends \ {e} : wrq'[x] = wrq[x]
    BY <1>0, <2>1
  <2> QED
    BY <1>0, <2>1, <2>2, <2>3, PolledResult, PollReturnsKeep
<1>8. CASE PollDestroyed(e)
  <2>1. at[e] \in DOMAIN AfterPoll
    BY <1>8 DEF PollDestroyed
  <2>2. CASE Undefined(e)
    <3>1. at[e] \notin {"user", "disconnect", "join", "closed", "crashed", "resolve"}
      BY <2>1 DEF AfterPoll
    <3> QED
      BY <2>2, <3>1, <1>a
  <2>3. CASE ~Undefined(e)
    <3>1. PollReturns(e, "refused") /\ "refused" \in Results
          /\ UNCHANGED <<closer, lock, wire, wrq, asked, under>>
      BY <1>8, <2>3 DEF PollDestroyed, Results
    <3> QED
      BY <1>0, <2>1, <3>1, PollReturnsKeep
  <2> QED
    BY <2>2, <2>3
<1>9. CASE ResolveNext(e)
  <2>1. at[e] = "resolve" /\ wrq[e] # <<>> /\ then' = then
        /\ UNCHANGED <<closer, lock, wire, asked, under, todo, checked, metadata>>
        /\ wrq' = [wrq EXCEPT ![e] = Tail(@)]
    BY <1>9 DEF ResolveNext
  <2>2. DOMAIN wrq' = Ends /\ \A x \in Ends \ {e} : wrq'[x] = wrq[x]
    BY <1>0, <2>1
  \* A join that finds something in wr_queue had a call under way.
  <2>3. closer[e] # "listen" => under[e] \/ (then[e] = "join" /\ closer[e] = "ended")
    BY <1>0, <2>1 DEF ThreadsOf, Outside
  <2>4. closer[e] # "listen" => under[e]
    BY <1>0, <2>1, <2>3 DEF ThreadsOf
  <2>5. CASE Resolved(e, TRUE) /\ UNCHANGED <<acks, taken>>
    <3>0. /\ at' = [at EXCEPT ![e] = at'[e]]
          /\ at'[e] \in {"acks", "closed", "try", "await", "user"}
          /\ at'[e] = "closed" <=> then[e] = "join"
          /\ recvq' \in [Ends -> Nat] /\ closeFlag' \in [Ends -> BOOLEAN]
      BY <1>0, <2>5, ResolvedType
    <3>1. TypeOK' /\ at' = [at EXCEPT ![e] = at'[e]] /\ at'[e] \notin {"undefined", "crashed"}
          /\ (at'[e] = "closed" => then[e] = "join")
      <4>1. at' \in [Ends -> Places] /\ at'[e] \notin {"undefined", "crashed"}
        BY <1>0, <3>0 DEF TypeOK, Places, Inside
      <4> QED
        BY <1>0, <2>1, <2>5, <3>0, <4>1 DEF TypeOK, wire
    <3> QED
      BY <1>0, <2>1, <2>2, <2>4, <2>5, <3>1, ThreadMoves DEF ThreadsOf, TypeOK, wire
  <2>6. CASE acks' = [acks EXCEPT ![e] = @ + 1] /\ UNCHANGED <<at, recvq, closeFlag, taken>>
    <3>1. TypeOK'
      BY <1>0, <2>1, <2>6 DEF TypeOK, wire
    <3> QED
      BY <1>0, <2>1, <2>2, <2>4, <2>6, <3>1, ThreadMoves DEF ThreadsOf, wire
  <2>7. CASE /\ \/ Goto(e, "read") /\ UNCHANGED taken
                \/ Goto(e, "ack") /\ taken' = [taken EXCEPT ![e] = @ + 1]
             /\ UNCHANGED <<acks, recvq, closeFlag>>
    <3>0. PICK place \in {"read", "ack"} : Goto(e, place)
      BY <2>7
    <3>1. TypeOK'
      <4>1. taken' \in [Ends -> Nat]
        BY <1>0, <2>7 DEF TypeOK
      <4>2. at' \in [Ends -> Places]
        BY <1>0, <3>0 DEF TypeOK, Goto, Places, Inside
      <4>3. UNCHANGED <<acks, recvq, closeFlag>>
        BY <2>7
      <4> QED
        BY <1>0, <2>1, <4>1, <4>2, <4>3 DEF TypeOK, wire
    <3> QED
      BY <1>0, <2>1, <2>2, <2>4, <3>0, <3>1, ThreadMoves DEF ThreadsOf, TypeOK, Goto, wire
  <2>8. CASE /\ Goto(e, "undefined") /\ UNCHANGED <<acks, recvq, closeFlag, taken>>
             /\ closer[e] # "listen"
    <3>1. TypeOK'
      BY <1>0, <2>1, <2>8 DEF TypeOK, wire, Goto, Places
    <3> QED
      BY <1>0, <2>1, <2>2, <2>4, <2>8, <3>1, ThreadMoves DEF ThreadsOf, TypeOK, Goto, wire
  <2>9. Head(wrq[e]).ok /\ IsSend(Head(wrq[e])) => closer[e] # "listen"
    <3>1. wrq[e] \in Seq(Record) /\ (closer[e] = "listen" => NoneSent(wrq[e]))
      BY DEF QueueInv
    <3>2. 1 \in DOMAIN wrq[e] /\ Head(wrq[e]) = wrq[e][1]
      BY <2>1, <3>1
    <3> QED
      BY <3>1, <3>2 DEF NoneSent
  <2>10. qp[e] = "destroyed" => closer[e] # "listen"
    BY <1>0 DEF ThreadsOf
  <2> QED
    BY <1>9, <2>5, <2>6, <2>7, <2>8, <2>9, <2>10 DEF ResolveNext
<1>10. CASE ResolveEnds(e)
  <2>0. /\ at' = [at EXCEPT ![e] = at'[e]]
        /\ at'[e] \in {"acks", "closed", "try", "await", "user"}
        /\ at'[e] = "closed" <=> then[e] = "join"
        /\ recvq' \in [Ends -> Nat] /\ closeFlag' \in [Ends -> BOOLEAN]
    BY <1>0, <1>10, ResolvedType DEF ResolveEnds
  <2>1. TypeOK' /\ at' = [at EXCEPT ![e] = at'[e]] /\ at'[e] \notin {"undefined", "crashed"}
        /\ (at'[e] = "closed" <=> then[e] = "join")
    <3>1. at' \in [Ends -> Places] /\ at'[e] \notin {"undefined", "crashed"}
      BY <1>0, <2>0 DEF TypeOK, Places, Inside
    <3> QED
      BY <1>0, <1>10, <2>0, <3>1 DEF ResolveEnds, TypeOK, wire
  <2> QED
    BY <1>0, <1>10, <2>1, ThreadMoves DEF ResolveEnds, ThreadsOf, Outside, TypeOK, wire
<1>11. CASE TryLock(e)
  <2>1. TypeOK'
    BY <1>0, <1>11 DEF TryLock, Goto, TypeOK, Places, Inside, wire, counts
  <2>2. ASSUME NEW x \in Ends
        PROVE  ThreadsOf(x)'
    <3>1. ThreadsOf(x)
      BY DEF IInv
    <3>2. CASE x = e
      BY <1>0, <1>11, <3>2 DEF TryLock, Goto, ThreadsOf, Outside, TypeOK, wire
    <3>3. CASE x # e
      BY <1>0, <1>11, <3>1, <3>3 DEF TryLock, Goto, ThreadsOf, Outside, TypeOK, wire
    <3> QED
      BY <3>2, <3>3
  <2> QED
    BY <1>0, <1>11, <2>1, <2>2 DEF IInv, TryLock
<1>12. CASE CloseMessage(e)
  <2>1. TypeOK'
    <3>1. at' \in [Ends -> Places]
      BY <1>0, <1>12 DEF CloseMessage, Goto, TypeOK, Places, Inside
    <3> QED
      BY <1>0, <1>12, <3>1 DEF CloseMessage, TypeOK, counts
  <2>2. (\A x \in Ends \ {e} : at'[x] = at[x]) /\ at'[e] \in {"ackpoll", "disconnect"}
    BY <1>0, <1>12 DEF CloseMessage, Goto, TypeOK
  <2> QED
    BY <1>0, <1>12, <2>1, <2>2, ThreadMoves DEF CloseMessage, ThreadsOf, Outside
<1>13. CASE Disconnect(e)
  <2>1. TypeOK'
    BY <1>0, <1>13 DEF Disconnect, RdmaDisconnect, Goto, TypeOK, Places, counts
  <2>2. ASSUME NEW x \in Ends
        PROVE  ThreadsOf(x)'
    <3>1. ThreadsOf(x)
      BY DEF IInv
    <3>2. CASE x = e
      BY <1>0, <1>13, <3>2 DEF Disconnect, RdmaDisconnect, Goto, ThreadsOf, Outside, TypeOK
    <3>3. CASE x # e
      BY <1>0, <1>13, <3>1, <3>3 DEF Disconnect, RdmaDisconnect, Goto, ThreadsOf, Outside, TypeOK
    <3> QED
      BY <3>2, <3>3
  <2> QED
    BY <1>0, <1>13, <2>1, <2>2 DEF IInv, Disconnect
<1>14. CASE Join(e)
  <2>1. TypeOK'
    BY <1>0, <1>14 DEF Join, Goto, TypeOK, Places, Inside, wire, counts
  <2> QED
    BY <1>0, <1>14, <2>1, ThreadMoves DEF Join, Goto, ThreadsOf, Outside, TypeOK, wire
<1>15. CASE ResolveFails(e)
  <2>0. /\ at' = [at EXCEPT ![e] = at'[e]]
        /\ at'[e] \in {"acks", "closed", "try", "await", "user"}
        /\ at'[e] = "closed" <=> then[e] = "join"
        /\ recvq' \in [Ends -> Nat] /\ closeFlag' \in [Ends -> BOOLEAN]
    BY <1>0, <1>15, ResolvedType DEF ResolveFails
  <2>1. TypeOK' /\ at' = [at EXCEPT ![e] = at'[e]] /\ at'[e] \notin {"undefined", "crashed"}
        /\ (at'[e] = "closed" <=> then[e] = "join")
    <3>1. at' \in [Ends -> Places] /\ at'[e] \notin {"undefined", "crashed"}
      BY <1>0, <2>0 DEF TypeOK, Places, Inside
    <3> QED
      BY <1>0, <1>15, <2>0, <3>1 DEF ResolveFails, TypeOK, wire
  <2> QED
    BY <1>0, <1>15, <2>1, ThreadMoves DEF ResolveFails, ThreadsOf, Outside, TypeOK, wire
<1> QED
  BY <1>1, <1>2, <1>3, <1>4, <1>5, <1>6, <1>7, <1>8, <1>9, <1>10, <1>11, <1>12, <1>13, <1>14,
     <1>15
  DEF First

-----------------------------------------------------------------------------
(* The steps of wait_for_close and of the queue pairs *)

\* A step that moves no first thread and keeps the types, checked end by end.
LEMMA OthersMove ==
    ASSUME IInv, TypeOK', DOMAIN wrq' = Ends, \A x \in Ends : ThreadsOf(x) => ThreadsOf(x)'
    PROVE  IInv'
  BY DEF IInv

LEMMA CloserKeeps ==
    ASSUME IInv, NEW e \in Ends, Closer(e)
    PROVE  IInv'
<1>0. TypeOK /\ DOMAIN wrq = Ends /\ ThreadsOf(e)
  BY DEF IInv
<1>1. CASE CloserLock(e)
  <2>1. TypeOK' /\ wrq' = wrq
    BY <1>0, <1>1 DEF CloserLock, RdmaDisconnect, TypeOK, thread, counts
  <2>2. at'[e] \in Inside \/ Outside(e)'
    BY <1>0, <1>1 DEF CloserLock, thread, TypeOK, Places, Outside, ThreadsOf
  <2>3. ASSUME NEW x \in Ends, ThreadsOf(x)
        PROVE  ThreadsOf(x)'
    <3>1. CASE x = e
      BY <1>0, <1>1, <2>2, <3>1 DEF CloserLock, RdmaDisconnect, thread, ThreadsOf, TypeOK
    <3>2. CASE x # e
      BY <1>0, <1>1, <2>3, <3>2 DEF CloserLock, RdmaDisconnect, thread, ThreadsOf, Outside, TypeOK
    <3> QED
      BY <3>1, <3>2
  <2> QED
    BY <1>0, <2>1, <2>3, OthersMove
<1>2. CASE CloserDrain(e)
  <2>1. TypeOK' /\ DOMAIN wrq' = Ends
    BY <1>0, <1>2 DEF CloserDrain, TypeOK, thread, wire, counts
  <2>2. ASSUME NEW x \in Ends, ThreadsOf(x)
        PROVE  ThreadsOf(x)'
    BY <1>0, <1>2, <2>2 DEF CloserDrain, thread, wire, ThreadsOf, Outside, TypeOK
  <2> QED
    BY <2>1, <2>2, OthersMove
<1>4. CASE CloserEmpty(e)
  <2>0. /\ closer[e] = "empty" /\ closer'[e] \in {"empty", "destroy"}
        /\ closer'[e] = "destroy" => wrq'[e] = <<>>
        /\ \A x \in Ends \ {e} : closer'[x] = closer[x] /\ wrq'[x] = wrq[x]
        /\ closer' \in [Ends -> {"listen", "drain", "empty", "destroy", "ended"}]
        /\ DOMAIN wrq' = Ends
    <3>1. CASE wrq[e] # <<>> /\ wrq' = [wrq EXCEPT ![e] = Tail(@)] /\ closer' = closer
      BY <1>0, <1>4, <3>1 DEF CloserEmpty, TypeOK
    <3>2. CASE wrq[e] = <<>> /\ closer' = [closer EXCEPT ![e] = "destroy"] /\ wrq' = wrq
      BY <1>0, <1>4, <3>2 DEF CloserEmpty, TypeOK
    <3> QED
      BY <1>4, <3>1, <3>2 DEF CloserEmpty
  <2>1. TypeOK' /\ DOMAIN wrq' = Ends
    BY <1>0, <1>4, <2>0 DEF CloserEmpty, TypeOK, thread, wire, counts
  <2>2. ASSUME NEW x \in Ends, ThreadsOf(x)
        PROVE  ThreadsOf(x)'
    BY <1>0, <1>4, <2>0, <2>2 DEF CloserEmpty, thread, wire, ThreadsOf, Outside
  <2> QED
    BY <2>1, <2>2, OthersMove
<1>3. CASE CloserDestroy(e)
  <2>1. TypeOK' /\ wrq' = wrq
    BY <1>0, <1>3 DEF CloserDestroy, TypeOK, thread, counts
  <2>2. ASSUME NEW x \in Ends, ThreadsOf(x)
        PROVE  ThreadsOf(x)'
    BY <1>0, <1>3, <2>2 DEF CloserDestroy, thread, ThreadsOf, Outside, TypeOK
  <2> QED
    BY <1>0, <2>1, <2>2, OthersMove
<1> QED
  BY <1>1, <1>2, <1>3, <1>4 DEF Closer

\* Of an end that is killed nothing goes on.
LEMMA CrashKeeps ==
    ASSUME IInv, NEW e \in Ends, Crash(e)
    PROVE  IInv'
<1>0. TypeOK /\ DOMAIN wrq = Ends /\ ThreadsOf(e)
  BY DEF IInv
<1>1. TypeOK' /\ DOMAIN wrq' = Ends
  <2>1. at' \in [Ends -> Places]
    BY <1>0 DEF Crash, Goto, TypeOK, Places
  <2> QED
    BY <1>0, <2>1 DEF Crash, TypeOK, counts
<1>2. ASSUME NEW x \in Ends, ThreadsOf(x)
      PROVE  ThreadsOf(x)'
  <2>1. CASE x = e
    BY <1>0, <2>1 DEF Crash, Goto, ThreadsOf, Outside, TypeOK
  <2>2. CASE x # e
    <3>1. /\ at'[x] = at[x] /\ closer'[x] = closer[x] /\ lock'[x] = lock[x]
          /\ qp'[x] = qp[x] /\ wrq'[x] = wrq[x] /\ then' = then /\ under' = under
          /\ asked' # {} /\ asked \subseteq asked'
      BY <1>0, <2>2 DEF Crash, Goto, TypeOK
    <3> QED
      BY <1>2, <3>1 DEF ThreadsOf, Outside
  <2> QED
    BY <2>1, <2>2
<1> QED
  BY <1>1, <1>2, OthersMove

LEMMA QueuePairKeeps ==
    ASSUME IInv, NEW e \in Ends, QueuePair(e)
    PROVE  IInv'
<1>0. TypeOK /\ DOMAIN wrq = Ends /\ ThreadsOf(e)
  BY DEF IInv
<1>1. UNCHANGED <<thread, closer, lock, wrq, counts, asked, under>> /\ flushed' \in [Ends -> BOOLEAN]
  BY <1>0 DEF QueuePair, Arrive, SendCompletes, Unanswered, Flush, Others, TypeOK
<1>2. CASE qp' = qp
  <2>1. TypeOK'
    BY <1>0, <1>1, <1>2 DEF TypeOK, thread, counts
  <2>2. ASSUME NEW x \in Ends, ThreadsOf(x)
        PROVE  ThreadsOf(x)'
    BY <1>1, <1>2, <2>2 DEF ThreadsOf, Outside, thread
  <2> QED
    BY <1>0, <1>1, <2>1, <2>2, OthersMove
<1>3. CASE Unanswered(e)
  <2>1. qp[e] = "up" /\ qp' = [qp EXCEPT ![e] = "error"] /\ asked # {}
    BY <1>3, PeerIsEnd DEF Unanswered, IInv, ThreadsOf
  <2>2. TypeOK'
    BY <1>0, <1>1, <2>1 DEF TypeOK, thread, counts
  <2>3. ASSUME NEW x \in Ends, ThreadsOf(x)
        PROVE  ThreadsOf(x)'
    BY <1>0, <1>1, <2>1, <2>3 DEF ThreadsOf, Outside, thread, TypeOK
  <2> QED
    BY <1>0, <1>1, <2>2, <2>3, OthersMove
<1> QED
  BY <1>2, <1>3 DEF QueuePair, Arrive, SendCompletes, Flush

LEMMA InvNext == IInv /\ QueueInv /\ [Next]_vars => IInv'
<1> SUFFICES ASSUME IInv, QueueInv, [Next]_vars PROVE IInv'
  OBVIOUS
<1>1. CASE UNCHANGED vars
  <2>1. TypeOK' /\ DOMAIN wrq' = Ends
    BY <1>1 DEF vars, thread, wire, counts, IInv, TypeOK
  <2>2. \A x \in Ends : ThreadsOf(x) => ThreadsOf(x)'
    BY <1>1 DEF vars, thread, wire, counts, ThreadsOf, Outside
  <2> QED
    BY <2>1, <2>2, OthersMove
<1> QED
  BY <1>1, FirstKeeps, CloserKeeps, QueuePairKeeps, CrashKeeps DEF Next

LEMMA SpecInv == Spec => []IInv
  BY InvInit, InvNext, QueuesAlways, PTL DEF Spec

-----------------------------------------------------------------------------
\* Every variable keeps its type whatever the two ends call: no more messages
\* are taken from recv_queue than poll_wc has put there.
THEOREM TypeCorrect == Spec => []TypeOK
<1>1. IInv => TypeOK
  BY DEF IInv
<1> QED
  BY <1>1, SpecInv, PTL

\* A call that begins when wait_for_close has close_lock never uses a queue
\* pair or completion queue that is destroyed (the trylock at the start of
\* send_, recv_, irecv_ and close_, and the join of close_).
THEOREM LateCallsSafe == Spec => []LateCallsHarmless
<1>1. IInv => LateCallsHarmless
  BY DEF IInv, ThreadsOf, Outside, LateCallsHarmless
<1> QED
  BY <1>1, SpecInv, PTL

-----------------------------------------------------------------------------
(* Close implements Teardown *)

LEMMA TeardownInit == Init => T!Init
  BY DEF Init, T!Init, Life

\* No call kills its own process.
LEMMA FirstKills ==
    ASSUME IInv, QueueInv, NEW e \in Ends, First(e)
    PROVE  at'[e] # "crashed"
<1>0. TypeOK
  BY DEF IInv
<1>1. CASE Undefined(e)
  BY <1>0, <1>1 DEF Undefined, Goto, TypeOK
<1>2. ASSUME NEW result \in Results, at[e] \in DOMAIN AfterPoll, PollReturns(e, result)
      PROVE  at'[e] # "crashed"
  <2>1. AfterPoll[at[e]][result] # "crashed"
    BY <1>2, AfterPollPlace
  <2> QED
    BY <1>0, <1>2, <2>1 DEF PollReturns, Goto, TypeOK
<1>3. CASE ResolveNext(e) \/ ResolveFails(e) \/ ResolveEnds(e)
  <2>1. CASE \E ended \in BOOLEAN : Resolved(e, ended)
    BY <1>0, <2>1, ResolvedType
  <2>2. CASE ~\E ended \in BOOLEAN : Resolved(e, ended)
    BY <1>0, <1>3, <2>2 DEF ResolveNext, ResolveFails, ResolveEnds, Goto, TypeOK
  <2> QED
    BY <2>1, <2>2
<1>4. CASE PollTry(e)
  <2>1. CASE lock[e] = "free"
    BY <1>4, <2>1 DEF PollTry, AfterPoll
  <2>2. CASE lock[e] # "free"
    BY <1>2, <1>4, <2>2 DEF PollTry, Results
  <2> QED
    BY <2>1, <2>2
<1>5. CASE PollEvent(e) \/ PollDestroyed(e)
  BY <1>1, <1>2, <1>5, PolledResult DEF PollEvent, PollDestroyed, Results
<1>6. CASE PostMessage(e)
  <2>1. CASE ~Undefined(e)
    <3>1. at' = [at EXCEPT ![e] = Posting[at[e]].wait] /\ at[e] \in {"send", "read", "ack"}
      BY <1>6, <2>1 DEF PostMessage, Posting, Goto
    <3> QED
      BY <1>0, <3>1 DEF Posting, TypeOK
  <2> QED
    BY <1>1, <2>1
<1>7. CASE Send(e) \/ Recv(e) \/ Close(e) \/ PollFirst(e) \/ TryLock(e) \/ CloseMessage(e)
             \/ Disconnect(e) \/ Join(e)
  BY <1>0, <1>1, <1>7 DEF Send, Recv, Enter, Close, PollFirst, TryLock, CloseMessage, Disconnect,
     Join, Goto, TypeOK
<1> QED
  BY <1>3, <1>4, <1>5, <1>6, <1>7 DEF First

\* The step of the first thread to its end is that of close_ behind the join.
LEMMA FirstToClosed ==
    ASSUME IInv, QueueInv, NEW e \in Ends, First(e), ~Disconnect(e)
    PROVE  /\ at[e] \notin {"closed", "crashed"} /\ at'[e] # "crashed"
           /\ UNCHANGED <<qp, asked>>
           /\ \A x \in Ends \ {e} : at'[x] = at[x]
           /\ at'[e] = "closed" => closer[e] = "ended"
<1>0. TypeOK /\ ThreadsOf(e)
  BY DEF IInv
<1>1. at[e] \notin {"closed", "crashed"}
  BY DEF First, Send, Recv, Close, Begin, PostMessage, PollFirst, PollTry, PollEvent,
         PollDestroyed, ResolveNext, ResolveFails, ResolveEnds, TryLock, CloseMessage,
         Disconnect, Join, AfterPoll, Posting
<1>2. UNCHANGED <<qp, asked>>
  <2>1. CASE Send(e) \/ Recv(e) \/ Close(e) \/ PostMessage(e) \/ PollFirst(e)
    BY <2>1 DEF Send, Recv, Close, Enter, PostMessage, PollFirst, Undefined, wire
  <2>2. CASE PollTry(e) \/ PollEvent(e) \/ PollDestroyed(e)
    BY <2>2 DEF PollTry, PollEvent, PollDestroyed, Undefined, wire
  <2>3. CASE ResolveNext(e) \/ ResolveFails(e) \/ ResolveEnds(e) \/ TryLock(e)
             \/ CloseMessage(e) \/ Join(e)
    BY <2>3 DEF ResolveNext, ResolveFails, ResolveEnds, TryLock, CloseMessage, Join, wire
  <2> QED
    BY <2>1, <2>2, <2>3 DEF First
<1>3. \A x \in Ends \ {e} : at'[x] = at[x]
  <2>1. CASE Send(e) \/ Recv(e) \/ Close(e) \/ PostMessage(e) \/ PollFirst(e)
    BY <1>0, <2>1 DEF Send, Recv, Close, Enter, PostMessage, PollFirst, Undefined, Goto, TypeOK
  <2>2. CASE PollTry(e) \/ PollEvent(e) \/ PollDestroyed(e)
    BY <1>0, <2>2 DEF PollTry, PollEvent, PollDestroyed, PollReturns, Undefined, Goto, TypeOK
  <2>3. CASE ResolveNext(e) \/ ResolveFails(e) \/ ResolveEnds(e)
    BY <1>0, <2>3 DEF ResolveNext, ResolveFails, ResolveEnds, Resolved, Goto, TypeOK
  <2>4. CASE TryLock(e) \/ CloseMessage(e) \/ Join(e)
    BY <1>0, <2>4 DEF TryLock, CloseMessage, Join, Goto, TypeOK
  <2> QED
    BY <2>1, <2>2, <2>3, <2>4 DEF First
<1>4. IInv'
  BY FirstKeeps
<1>5. at'[e] = "closed" => closer'[e] = "ended"
  BY <1>4 DEF IInv, ThreadsOf
<1>6. closer' = closer
  BY DEF First, Send, Recv, Close, Enter, PostMessage, PollFirst, PollTry, PollEvent,
         PollDestroyed, ResolveNext, ResolveFails, ResolveEnds, TryLock, CloseMessage, Join,
         Undefined
<1>7. at'[e] # "crashed"
  BY <1>0, <1>4, FirstKills
<1> QED
  BY <1>1, <1>2, <1>3, <1>5, <1>6, <1>7

LEMMA FirstTearsDown ==
    ASSUME IInv, QueueInv, NEW e \in Ends, First(e)
    PROVE  [T!Next]_<<asked, Life>>
<1>0. TypeOK /\ ThreadsOf(e)
  BY DEF IInv
<1>1. CASE Disconnect(e)
  <2>1. T!Ask(e)
    BY <1>0, <1>1 DEF Disconnect, RdmaDisconnect, Goto, T!Ask, Life, TypeOK
  <2> QED
    BY <2>1 DEF T!Next
<1>2. CASE ~Disconnect(e) /\ at'[e] = "closed"
  <2>1. Life' = [Life EXCEPT ![e] = "freed"] /\ Life[e] = "destroyed"
    BY <1>0, <1>2, FirstToClosed DEF Life, ThreadsOf
  <2>2. T!Free(e)
    BY <1>2, <2>1, FirstToClosed DEF T!Free
  <2> QED
    BY <2>2 DEF T!Next
<1>3. CASE ~Disconnect(e) /\ at'[e] # "closed"
  BY <1>3, FirstToClosed DEF Life
<1> QED
  BY <1>1, <1>2, <1>3

LEMMA CloserTearsDown ==
    ASSUME IInv, NEW e \in Ends, Closer(e)
    PROVE  [T!Next]_<<asked, Life>>
<1>0. TypeOK /\ ThreadsOf(e)
  BY DEF IInv
<1>1. CASE CloserLock(e)
  <2>1. at' = at /\ at[e] \notin {"closed", "crashed"} /\ qp[e] # "destroyed"
    BY <1>0, <1>1 DEF CloserLock, thread, ThreadsOf
  <2>2. /\ asked' = asked \union {e} /\ qp \in [Ends -> {"up", "error", "destroyed"}]
        /\ qp' = [qp EXCEPT ![e] = IF @ = "up" THEN "error" ELSE @]
    BY <1>0, <1>1 DEF CloserLock, RdmaDisconnect, TypeOK
  <2>3. Life' = [Life EXCEPT ![e] = IF @ = "open" THEN "down" ELSE @]
    BY <2>1, <2>2 DEF Life
  <2>4. T!Ask(e)
    BY <2>2, <2>3 DEF T!Ask
  <2> QED
    BY <2>4 DEF T!Next
<1>2. CASE CloserDrain(e) \/ CloserEmpty(e)
  BY <1>2 DEF CloserDrain, CloserEmpty, Life, thread, wire
<1>3. CASE CloserDestroy(e)
  <2>1. Life[e] = "down" /\ e \in asked
    BY <1>0, <1>3 DEF CloserDestroy, Life, ThreadsOf, TypeOK
  <2>2. Life' = [Life EXCEPT ![e] = "destroyed"]
    BY <1>0, <1>3 DEF CloserDestroy, Life, ThreadsOf, TypeOK, thread
  <2>3. T!Destroy(e)
    BY <1>3, <2>1, <2>2 DEF T!Destroy, CloserDestroy
  <2> QED
    BY <2>3 DEF T!Next
<1> QED
  BY <1>1, <1>2, <1>3 DEF Closer

LEMMA QueuePairTearsDown ==
    ASSUME IInv, NEW e \in Ends, QueuePair(e)
    PROVE  [T!Next]_<<asked, Life>>
<1>0. TypeOK /\ ThreadsOf(e)
  BY DEF IInv
<1>1. CASE qp' = qp
  BY <1>1 DEF QueuePair, Arrive, SendCompletes, Unanswered, Flush, Others, Life, thread
<1>2. CASE Unanswered(e)
  <2>1. asked # {}
    BY <1>2, PeerIsEnd DEF Unanswered, IInv, ThreadsOf
  <2>2. Life[e] = "open" /\ Life' = [Life EXCEPT ![e] = "down"]
    BY <1>0, <1>2 DEF Unanswered, Others, thread, Life, ThreadsOf, TypeOK
  <2>3. T!Drop(e)
    BY <1>2, <2>1, <2>2 DEF T!Drop, Unanswered, Others
  <2> QED
    BY <2>3 DEF T!Next
<1> QED
  BY <1>1, <1>2 DEF QueuePair, Arrive, SendCompletes, Flush

LEMMA CrashTearsDown ==
    ASSUME IInv, NEW e \in Ends, Crash(e)
    PROVE  [T!Next]_<<asked, Life>>
<1>0. TypeOK
  BY DEF IInv
<1>1. Life[e] \notin {"freed", "crashed"}
  BY DEF Crash, Life
<1>2. Life' = [Life EXCEPT ![e] = "crashed"]
  BY <1>0 DEF Crash, Goto, Life, TypeOK
<1>3. T!Crash(e)
  BY <1>1, <1>2 DEF T!Crash, Crash
<1> QED
  BY <1>3 DEF T!Next

\* The two ends of a connection implement Teardown: the queue pair goes down
\* only after an end has disconnected, wait_for_close destroys it once and
\* after that, and close_ frees the socket last.
THEOREM TearsDownInOrder == Spec => OrderlyTeardown
<1>1. IInv /\ QueueInv /\ [Next]_vars => [T!Next]_<<asked, Life>>
  <2> SUFFICES ASSUME IInv, QueueInv, [Next]_vars PROVE [T!Next]_<<asked, Life>>
    OBVIOUS
  <2>1. CASE UNCHANGED vars
    BY <2>1 DEF vars, thread, wire, Life
  <2> QED
    BY <2>1, FirstTearsDown, CloserTearsDown, QueuePairTearsDown, CrashTearsDown DEF Next
<1> QED
  BY <1>1, TeardownInit, SpecInv, QueuesAlways, PTL DEF Spec, OrderlyTeardown, T!Spec

-----------------------------------------------------------------------------
(* Who disconnects first loses nothing *)

One(b) == IF b THEN 1 ELSE 0

(***************************************************************************)
(* While nobody has disconnected nothing fails: all completions are good,  *)
(* those in wr_queue are receives.                                         *)
(***************************************************************************)
Kinds == {"normal", "read", "ack", "close"}
Good == [op : {"send", "recv"}, ok : {TRUE}, kind : Kinds]
Received == [op : {"recv"}, ok : {TRUE}, kind : Kinds]

\* The received messages of a kind in a queue.
Rows(s, k) == {i \in DOMAIN s : s[i].op = "recv" /\ s[i].kind = k}
Got(s, k) == Cardinality(Rows(s, k))

NoSend(s) == \A i \in DOMAIN s : s[i].op = "recv"

\* What an end sends at the place where it waits for that.
SentAt(place) ==
    IF place = "sent" THEN "normal"
    ELSE IF place = "reading" THEN "read"
    ELSE IF place = "acking" THEN "ack" ELSE "close"

(***************************************************************************)
(* An end has at most one send outstanding, that of the place where it is, *)
(* and where it waits for it the completion is still to come: poll_wc      *)
(* returns 0 for no other send.                                            *)
(***************************************************************************)
SendInv(e) ==
    /\ \/ sq[e] = <<>>
       \/ /\ NoSend(cq[e])
          /\ \E b \in BOOLEAN : sq[e] = <<[kind |-> SentAt(at[e]), arrived |-> b]>>
    /\ \A i, j \in DOMAIN cq[e] : cq[e][i].op = "send" /\ cq[e][j].op = "send" => i = j
    /\ at[e] \in {"sent", "reading", "acking"} => sq[e] # <<>> \/ ~NoSend(cq[e])
    /\ at[e] \notin {"sent", "reading", "acking", "disconnect"} => sq[e] = <<>> /\ NoSend(cq[e])

\* A message of the kind is posted and has not arrived.
Leaving(e, k) == One(sq[e] # <<>> /\ sq[e][1].kind = k /\ ~sq[e][1].arrived)

\* The messages of a kind, or acknowledgements, that have left an end, ...
Shipped(e, k) ==
    (IF k = "normal" THEN metadata[e] + One(at[e] = "sent") ELSE taken[e] - One(at[e] = "ack"))
        - Leaving(e, k)

\* ... and those that an end has got, whether it has looked at them or not.
Arrived(e, k) ==
    Got(cq[e], k) + Got(wrq[e], k)
        + (IF k = "normal" THEN taken[e] + One(at[e] \in {"read", "reading"})
           ELSE acks[e])

\* Nothing is lost or doubled on the way.
CountInv(e) == \A k \in {"normal", "ack"} : Arrived(Peer(e), k) = Shipped(e, k)

\* close_ comes to rdma_disconnect with the lock free only when send_close_md
\* has all acknowledgements.
WaitInv(e) == at[e] = "disconnect" /\ lock[e] = "free" => acks[e] >= metadata[e]

QuietType ==
    /\ cq \in [Ends -> Seq(Good)]
    /\ wrq \in [Ends -> Seq(Received)]
    /\ sq \in [Ends -> Seq([kind : Kinds, arrived : BOOLEAN])]

Quiet == QuietType /\ \A e \in Ends : SendInv(e) /\ CountInv(e) /\ WaitInv(e)

LEMMA PeersPeer == \A e \in Ends : Peer(Peer(e)) = e /\ \A x \in Ends : x = e \/ x = Peer(e)
  BY EndsAssumption, PeerIsEnd

-----------------------------------------------------------------------------
(* Counting the received messages of a queue *)

LEMMA RowsFinite ==
    ASSUME NEW s \in Seq(Good), NEW k
    PROVE  Rows(s, k) \in SUBSET (1..Len(s)) /\ IsFiniteSet(Rows(s, k)) /\ Got(s, k) \in Nat
<1>1. Rows(s, k) \in SUBSET (1..Len(s))
  BY DEF Rows
<1>2. IsFiniteSet(1..Len(s))
  BY FS_Interval
<1>3. IsFiniteSet(Rows(s, k))
  BY <1>1, <1>2, FS_Subset
<1> QED
  BY <1>1, <1>3, FS_CardinalityType DEF Got

LEMMA GotEmpty == \A k : Got(<<>>, k) = 0
<1> TAKE k
<1>1. Rows(<<>>, k) = {}
  BY DEF Rows
<1> QED
  BY <1>1, FS_EmptySet DEF Got

\* A completion at the end of a queue counts when it is a receive.
LEMMA GotAppend ==
    ASSUME NEW s \in Seq(Good), NEW c \in Good, NEW k
    PROVE  Got(Append(s, c), k) = Got(s, k) + One(c.op = "recv" /\ c.kind = k)
<1> DEFINE n == Len(s) + 1
<1>1. n \in Nat /\ n \notin Rows(s, k) /\ IsFiniteSet(Rows(s, k)) /\ Got(s, k) \in Nat
  BY RowsFinite
<1>2. Cardinality(Rows(s, k) \union {n}) = Cardinality(Rows(s, k)) + 1
  <2> HIDE DEF n
  <2> QED
    BY <1>1, FS_AddElement
<1>3. CASE c.op = "recv" /\ c.kind = k
  <2>1. Rows(Append(s, c), k) = Rows(s, k) \union {n}
    BY <1>3 DEF Rows
  <2> QED
    BY <1>2, <1>3, <2>1 DEF One, Got
<1>4. CASE ~(c.op = "recv" /\ c.kind = k)
  <2>1. Rows(Append(s, c), k) = Rows(s, k)
    BY <1>4 DEF Rows
  <2> QED
    BY <1>1, <1>4, <2>1 DEF One, Got
<1> QED
  BY <1>3, <1>4

\* Moving a set of numbers does not change how many there are.
LEMMA Shifted ==
    ASSUME NEW S \in SUBSET Nat, IsFiniteSet(S), NEW n \in Nat
    PROVE  /\ IsFiniteSet({i + n : i \in S})
           /\ Cardinality({i + n : i \in S}) = Cardinality(S)
<1> DEFINE R == {i + n : i \in S}
           f == [i \in S |-> i + n]
<1>1. f \in Bijection(S, R)
  BY DEF Bijection, Injection, Surjection, IsInjective
<1> QED
  BY <1>1, FS_Bijection DEF ExistsBijection

\* A record taken from the front of wr_queue counts no longer.
LEMMA GotTail ==
    ASSUME NEW s \in Seq(Good), s # <<>>, NEW k
    PROVE  Got(Tail(s), k) = Got(s, k) - One(Head(s).op = "recv" /\ Head(s).kind = k)
<1> DEFINE u == Tail(s)
           moved == {i + 1 : i \in Rows(u, k)}
<1>1. u \in Seq(Good) /\ Head(s) = s[1] /\ 1 \in DOMAIN s /\ Len(s) \in Nat
      /\ DOMAIN u = 1..(Len(s) - 1) /\ DOMAIN s = 1..Len(s)
      /\ \A i \in DOMAIN u : u[i] = s[i + 1]
  OBVIOUS
<1> HIDE DEF u
<1>2. Rows(u, k) \in SUBSET Nat /\ IsFiniteSet(Rows(u, k))
  BY <1>1, RowsFinite
<1>3. IsFiniteSet(moved) /\ Cardinality(moved) = Got(u, k)
  BY <1>2, Shifted DEF Got
<1>4. moved = Rows(s, k) \ {1}
  <2>1. ASSUME NEW i \in Rows(u, k) PROVE i + 1 \in Rows(s, k) \ {1}
    BY <1>1, <2>1 DEF Rows
  <2>2. ASSUME NEW m \in Rows(s, k) \ {1} PROVE m \in moved
    <3>1. m - 1 \in DOMAIN u /\ m = (m - 1) + 1
      BY <1>1 DEF Rows
    <3>2. u[m - 1] = s[m]
      BY <1>1, <3>1
    <3> QED
      BY <3>1, <3>2 DEF Rows
  <2> QED
    BY <2>1, <2>2
<1>5. 1 \in Rows(s, k) <=> Head(s).op = "recv" /\ Head(s).kind = k
  BY <1>1 DEF Rows
<1>6. IsFiniteSet(Rows(s, k)) /\ Got(s, k) \in Nat /\ Cardinality(Rows(s, k)) = Got(s, k)
  BY RowsFinite DEF Got
<1>7. Got(u, k) = Got(s, k) - One(Head(s).op = "recv" /\ Head(s).kind = k)
  <2> HIDE DEF moved
  <2> QED
    BY <1>3, <1>4, <1>5, <1>6, FS_RemoveElement DEF One
<1> QED
  BY <1>7 DEF u

\* Two queues one behind the other.
LEMMA GotConcat ==
    ASSUME NEW s \in Seq(Good), NEW u \in Seq(Good), NEW k
    PROVE  Got(s \o u, k) = Got(s, k) + Got(u, k)
<1> DEFINE n == Len(s)
           moved == {i + n : i \in Rows(u, k)}
           w == s \o u
<1>1. n \in Nat /\ Rows(u, k) \in SUBSET Nat /\ IsFiniteSet(Rows(u, k))
  BY RowsFinite
<1>2. IsFiniteSet(moved) /\ Cardinality(moved) = Got(u, k)
  <2> HIDE DEF n
  <2> QED
    BY <1>1, Shifted DEF Got
<1>3. /\ DOMAIN w = 1..(n + Len(u)) /\ Len(u) \in Nat
      /\ DOMAIN s = 1..n /\ DOMAIN u = 1..Len(u)
      /\ \A m \in 1..n : w[m] = s[m]
      /\ \A m \in 1..Len(u) : w[n + m] = u[m]
  OBVIOUS
<1> HIDE DEF n, w
<1>4. Rows(w, k) = Rows(s, k) \cup moved
  <2>1. ASSUME NEW m \in Rows(w, k), m \notin Rows(s, k) PROVE m \in moved
    <3>1. m \in 1..(n + Len(u)) /\ m \notin 1..n
      BY <1>3, <2>1 DEF Rows
    <3>2. m - n \in 1..Len(u) /\ m = n + (m - n) /\ m = (m - n) + n
      BY <1>1, <1>3, <3>1
    <3>3. m - n \in Rows(u, k)
      BY <1>3, <3>2 DEF Rows
    <3> QED
      BY <3>2, <3>3
  <2>2. ASSUME NEW m \in Rows(s, k) PROVE m \in Rows(w, k)
    BY <1>1, <1>3, <2>2 DEF Rows
  <2>3. ASSUME NEW i \in Rows(u, k) PROVE i + n \in Rows(w, k)
    <3>1. i \in 1..Len(u) /\ i + n = n + i /\ i + n \in 1..(n + Len(u))
      BY <1>1, <1>3 DEF Rows
    <3> QED
      BY <1>3, <3>1 DEF Rows
  <2> QED
    BY <2>1, <2>2, <2>3
<1>5. Rows(s, k) \cap moved = {}
  <2>1. \A i \in Rows(u, k) : i + n \notin 1..n
    BY <1>1, <1>3 DEF Rows
  <2> QED
    BY <1>3, <2>1 DEF Rows
<1>6. IsFiniteSet(Rows(s, k)) /\ Got(s, k) \in Nat /\ Got(u, k) \in Nat
  BY RowsFinite
<1> HIDE DEF moved
<1>7. Cardinality(Rows(w, k)) = Cardinality(Rows(s, k)) + Cardinality(moved) - 0
  BY <1>2, <1>4, <1>5, <1>6, FS_Union, FS_EmptySet
<1>8. Got(w, k) = Got(s, k) + Got(u, k)
  BY <1>2, <1>6, <1>7 DEF Got
<1> QED
  BY <1>8 DEF w

\* What poll_wc, recv_ and irecv_ keep are the receives, each once.
LEMMA GotReceives ==
    ASSUME NEW s \in Seq(Good), NEW ops, ops \in {{"recv"}, {"recv", "other"}}
    PROVE  Receives(s, ops) \in Seq(Received) /\ \A k : Got(Receives(s, ops), k) = Got(s, k)
<1> DEFINE R == ReceiveAt(s, ops)
           n == Cardinality(R)
           nth(m) == Nth(s, ops, m)
           r == Receives(s, ops)
<1>1. /\ n \in Nat /\ r = [m \in 1..n |-> s[nth(m)]]
      /\ \A m \in 1..n : nth(m) \in R
      /\ \A i \in R : \E m \in 1..n : nth(m) = i
      /\ \A m, o \in 1..n : nth(m) = nth(o) => m = o
  BY Numbered
<1> HIDE DEF n, nth
<1>2. \A i \in DOMAIN s : s[i] \in Good
  OBVIOUS
<1>3. \A c \in Good : (c.op \in ops <=> c.op = "recv") /\ (c.op = "recv" => c \in Received)
  BY DEF Good, Received
<1>4. R = {i \in DOMAIN s : s[i].op = "recv"}
  BY <1>2, <1>3 DEF ReceiveAt
<1>5. \A i \in R : s[i] \in Received
  BY <1>2, <1>3, <1>4
<1> HIDE DEF R
<1>10. r \in Seq(Received)
  <2>1. r \in [1..n -> Received]
    BY <1>1, <1>5
  <2> QED
    BY <1>1, <2>1
<1>11. ASSUME NEW k PROVE Got(r, k) = Got(s, k)
  <2> DEFINE f == [m \in Rows(r, k) |-> nth(m)]
  <2>1. DOMAIN r = 1..n /\ \A m \in 1..n : r[m] = s[nth(m)]
    BY <1>1
  <2>2. ASSUME NEW m \in Rows(r, k) PROVE m \in 1..n /\ nth(m) \in Rows(s, k)
    <3>1. m \in 1..n /\ s[nth(m)].op = "recv" /\ s[nth(m)].kind = k
      BY <2>1, <2>2 DEF Rows
    <3>2. nth(m) \in DOMAIN s
      BY <1>1, <1>4, <3>1
    <3> QED
      BY <3>1, <3>2 DEF Rows
  <2>3. ASSUME NEW i \in Rows(s, k) PROVE \E m \in Rows(r, k) : nth(m) = i
    <3>1. i \in R
      BY <1>4 DEF Rows
    <3>2. PICK m \in 1..n : nth(m) = i
      BY <1>1, <3>1
    <3>3. m \in Rows(r, k)
      BY <2>1, <2>3, <3>2 DEF Rows
    <3> QED
      BY <3>2, <3>3
  <2>4. \A m, o \in Rows(r, k) : nth(m) = nth(o) => m = o
    BY <1>1, <2>2
  <2>5. f \in Bijection(Rows(r, k), Rows(s, k))
    BY <2>2, <2>3, <2>4 DEF Bijection, Injection, Surjection, IsInjective
  <2>6. IsFiniteSet(Rows(r, k))
    <3>1. Rows(r, k) \in SUBSET (1..n)
      BY <2>2
    <3>2. IsFiniteSet(1..n)
      BY <1>1, FS_Interval
    <3> QED
      BY <3>1, <3>2, FS_Subset
  <2> QED
    BY <2>5, <2>6, FS_Bijection DEF ExistsBijection, Got
<1> QED
  BY <1>10, <1>11
-----------------------------------------------------------------------------
(* The steps while nobody has disconnected *)

LEMMA ReceivedIsGood == Seq(Received) \subseteq Seq(Good)
<1>1. Received \subseteq Good
  BY DEF Received, Good
<1> QED
  BY <1>1

\* What an end has of the messages.
Holds(x) == <<at[x], lock[x], sq[x], cq[x], wrq[x], metadata[x], taken[x], acks[x]>>

(***************************************************************************)
(* A step that changes one end only and there neither what it has shipped  *)
(* nor what has arrived.                                                   *)
(***************************************************************************)
LEMMA QuietStep ==
    ASSUME Quiet, NEW e \in Ends, QuietType',
           \A x \in Ends \ {e} : Holds(x)' = Holds(x),
           SendInv(e)', WaitInv(e)',
           \A k \in {"normal", "ack"} : /\ Shipped(e, k)' = Shipped(e, k)
                                        /\ Arrived(e, k)' = Arrived(e, k)
    PROVE  Quiet'
<1>1. ASSUME NEW x \in Ends, x # e
      PROVE  /\ SendInv(x)' /\ WaitInv(x)'
             /\ \A k \in {"normal", "ack"} : /\ Shipped(x, k)' = Shipped(x, k)
                                             /\ Arrived(x, k)' = Arrived(x, k)
  <2>1. Holds(x)' = Holds(x)
    BY <1>1
  <2>2. SendInv(x) /\ WaitInv(x)
    BY DEF Quiet
  <2>3. SendInv(x)' /\ WaitInv(x)'
    BY <2>1, <2>2 DEF Holds, SendInv, WaitInv
  <2>4. \A k \in {"normal", "ack"} : Shipped(x, k)' = Shipped(x, k) /\ Arrived(x, k)' = Arrived(x, k)
    BY <2>1 DEF Holds, Shipped, Arrived, Leaving
  <2> QED
    BY <2>3, <2>4
<1>2. \A x \in Ends : CountInv(x)'
  <2> SUFFICES ASSUME NEW x \in Ends, NEW k \in {"normal", "ack"}
               PROVE  Arrived(Peer(x), k)' = Shipped(x, k)'
    BY DEF CountInv
  <2>1. Arrived(Peer(x), k) = Shipped(x, k)
    BY DEF Quiet, CountInv
  <2>2. Peer(x) \in Ends
    BY PeerIsEnd
  <2>3. Arrived(Peer(x), k)' = Arrived(Peer(x), k)
    BY <1>1, <2>2
  <2>4. Shipped(x, k)' = Shipped(x, k)
    BY <1>1
  <2> QED
    BY <2>1, <2>3, <2>4
<1> QED
  BY <1>1, <1>2 DEF Quiet

\* poll_wc and the polling of recv_ while nothing fails: the completions are
\* what they look like, all receives go to wr_queue.
LEMMA SeenIsThere ==
    ASSUME Quiet, NEW e \in Ends, NEW seen \in Seen(e)
    PROVE  seen = cq[e]
<1>1. cq[e] \in Seq(Good)
  BY DEF Quiet, QuietType
<1>2. PICK op \in [DOMAIN cq[e] -> {"send", "recv", "other"}] :
          /\ \A i \in DOMAIN cq[e] : cq[e][i].ok => op[i] = cq[e][i].op
          /\ seen = [i \in DOMAIN cq[e] |-> [cq[e][i] EXCEPT !.op = op[i]]]
  BY DEF Seen
<1>3. ASSUME NEW i \in DOMAIN cq[e]
      PROVE  [cq[e][i] EXCEPT !.op = op[i]] = cq[e][i]
  <2>1. cq[e][i] \in Good
    BY <1>1
  <2>2. cq[e][i].ok
    BY <2>1 DEF Good
  <2>3. op[i] = cq[e][i].op
    BY <1>2, <2>2
  <2> QED
    BY <2>1, <2>3 DEF Good
<1>4. seen = [i \in DOMAIN cq[e] |-> cq[e][i]]
  BY <1>2, <1>3
<1> QED
  BY <1>1, <1>4

LEMMA PolledQuiet ==
    ASSUME Quiet, NEW e \in Ends
    PROVE  Polled(cq[e]) = IF NoSend(cq[e]) THEN "none" ELSE "ok"
<1> DEFINE s == cq[e]
<1>1. s \in Seq(Good) /\ \A i, j \in DOMAIN s : s[i].op = "send" /\ s[j].op = "send" => i = j
  BY DEF Quiet, QuietType, SendInv
<1>2. \A i \in DOMAIN s : s[i] \in Good
  BY <1>1
<1>3. \A i \in DOMAIN s : s[i].ok /\ (IsSend(s[i]) <=> s[i].op # "recv")
                           /\ (IsSend(s[i]) <=> s[i].op = "send")
  BY <1>2 DEF Good, IsSend
<1>4. CASE NoSend(s)
  BY <1>3, <1>4 DEF Polled, NoSend
<1>5. CASE ~NoSend(s)
  <2> DEFINE last == CHOOSE i \in DOMAIN s :
                        IsSend(s[i]) /\ \A j \in (i + 1)..Len(s) : ~IsSend(s[j])
  <2>1. PICK i \in DOMAIN s : IsSend(s[i])
    BY <1>3, <1>5 DEF NoSend
  <2>2. ASSUME NEW j \in (i + 1)..Len(s) PROVE ~IsSend(s[j])
    <3>1. i \in 1..Len(s) /\ Len(s) \in Nat
      BY <1>1, <2>1
    <3>2. j \in DOMAIN s /\ j # i
      BY <1>1, <2>2, <3>1
    <3> QED
      BY <1>1, <1>3, <2>1, <3>2
  <2>3. last \in DOMAIN s
    BY <2>1, <2>2
  <2>4. s[last].ok /\ ~\A m \in DOMAIN s : ~IsSend(s[m])
    BY <1>3, <2>1, <2>3
  <2> QED
    BY <1>5, <2>4 DEF Polled
<1> QED
  BY <1>4, <1>5

\* Completions move from the completion queue to wr_queue.
Moved(e, ops) ==
    /\ cq' = [cq EXCEPT ![e] = <<>>]
    /\ wrq' = [wrq EXCEPT ![e] = @ \o Receives(cq[e], ops)]

LEMMA MovedCounts ==
    ASSUME Quiet, NEW e \in Ends, NEW ops, ops \in {{"recv"}, {"recv", "other"}},
           Moved(e, ops), sq' = sq
    PROVE  /\ QuietType'
           /\ \A x \in Ends \ {e} : cq'[x] = cq[x] /\ wrq'[x] = wrq[x]
           /\ cq'[e] = <<>> /\ NoSend(cq'[e])
           /\ \A k : Got(cq'[e], k) + Got(wrq'[e], k) = Got(cq[e], k) + Got(wrq[e], k)
<1>1. cq[e] \in Seq(Good) /\ wrq[e] \in Seq(Received)
  BY DEF Quiet, QuietType
<1>2. Receives(cq[e], ops) \in Seq(Received) /\ \A k : Got(Receives(cq[e], ops), k) = Got(cq[e], k)
  BY <1>1, GotReceives
<1>3. wrq[e] \o Receives(cq[e], ops) \in Seq(Received)
  BY <1>1, <1>2
<1>4. QuietType'
  <2>1. cq' \in [Ends -> Seq(Good)]
    BY DEF Quiet, QuietType, Moved
  <2>2. wrq' \in [Ends -> Seq(Received)]
    BY <1>3 DEF Quiet, QuietType, Moved
  <2> QED
    BY <2>1, <2>2 DEF Quiet, QuietType
<1>5. /\ \A x \in Ends \ {e} : cq'[x] = cq[x] /\ wrq'[x] = wrq[x]
      /\ cq'[e] = <<>> /\ wrq'[e] = wrq[e] \o Receives(cq[e], ops)
  BY DEF Quiet, QuietType, Moved
<1>6. NoSend(cq'[e])
  BY <1>5 DEF NoSend
<1>7. ASSUME NEW k
      PROVE  Got(cq'[e], k) + Got(wrq'[e], k) = Got(cq[e], k) + Got(wrq[e], k)
  <2>1. Got(cq'[e], k) = 0
    BY <1>5, GotEmpty
  <2>2. wrq[e] \in Seq(Good) /\ Receives(cq[e], ops) \in Seq(Good)
    BY <1>1, <1>2, ReceivedIsGood
  <2>3. Got(wrq'[e], k) = Got(wrq[e], k) + Got(cq[e], k)
    BY <1>2, <1>5, <2>2, GotConcat
  <2>4. Got(wrq[e], k) \in Nat /\ Got(cq[e], k) \in Nat
    BY <1>1, <2>2, RowsFinite
  <2> QED
    BY <2>1, <2>3, <2>4
<1> QED
  BY <1>4, <1>5, <1>6, <1>7

\* Nobody has disconnected, nothing has failed.
Calm == IInv /\ Quiet /\ asked = {}

LEMMA CalmFacts ==
    ASSUME Calm, NEW e \in Ends
    PROVE  /\ qp[e] = "up" /\ closer[e] = "listen" /\ at[e] # "undefined"
           /\ metadata[e] \in Nat /\ taken[e] \in Nat /\ acks[e] \in Nat
           /\ SendInv(e) /\ WaitInv(e)
           /\ sq[e] \in Seq([kind : Kinds, arrived : BOOLEAN])
           /\ cq[e] \in Seq(Good) /\ wrq[e] \in Seq(Received)
<1>1. TypeOK /\ ThreadsOf(e)
  BY DEF Calm, IInv
<1>2. metadata[e] \in Nat /\ taken[e] \in Nat /\ acks[e] \in Nat
  BY <1>1 DEF TypeOK
<1>3. qp[e] = "up" /\ closer[e] = "listen" /\ at[e] # "undefined"
  BY <1>1 DEF Calm, TypeOK, ThreadsOf
<1> QED
  BY <1>2, <1>3 DEF Calm, Quiet, QuietType

queues == <<sq, cq, wrq>>
counters == <<metadata, taken, acks>>

\* Nothing of the messages changes.
LEMMA QuietSame ==
    ASSUME Quiet, UNCHANGED <<at, lock, queues, counters>>
    PROVE  Quiet'
<1>1. Client \in Ends /\ \A x \in Ends : Holds(x)' = Holds(x)
  BY EndsAssumption DEF Holds, queues, counters
<1>2. QuietType'
  BY DEF Quiet, QuietType, queues
<1>3. SendInv(Client) /\ WaitInv(Client)
  BY <1>1 DEF Quiet
<1>4. SendInv(Client)' /\ WaitInv(Client)'
  BY <1>1, <1>3 DEF Holds, SendInv, WaitInv
<1>5. \A k \in {"normal", "ack"} :
          Shipped(Client, k)' = Shipped(Client, k) /\ Arrived(Client, k)' = Arrived(Client, k)
  BY <1>1 DEF Holds, Shipped, Arrived, Leaving
<1> QED
  BY <1>1, <1>2, <1>4, <1>5, QuietStep

\* The first thread goes from one place to another where it neither waits for
\* a send nor owes an acknowledgement.
LEMMA QuietMoves ==
    ASSUME Quiet, NEW e \in Ends, UNCHANGED <<queues, counters>>,
           \A x \in Ends \ {e} : at'[x] = at[x] /\ lock'[x] = lock[x],
           at[e] \notin {"sent", "read", "reading", "ack", "acking", "disconnect"},
           at'[e] \notin {"sent", "read", "reading", "ack", "acking"},
           at'[e] = "disconnect" /\ lock'[e] = "free" => acks[e] >= metadata[e]
    PROVE  Quiet'
<1>1. QuietType'
  BY DEF Quiet, QuietType, queues
<1>2. \A x \in Ends \ {e} : Holds(x)' = Holds(x)
  BY DEF Holds, queues, counters
<1>3. SendInv(e)' /\ WaitInv(e)'
  BY DEF Quiet, SendInv, WaitInv, queues, counters
<1>4. \A k \in {"normal", "ack"} : Shipped(e, k)' = Shipped(e, k) /\ Arrived(e, k)' = Arrived(e, k)
  BY DEF Shipped, Arrived, Leaving, One, queues, counters
<1> QED
  BY <1>1, <1>2, <1>3, <1>4, QuietStep

\* post_send_wr of a message or of an acknowledgement: what send_ or
\* recv_wc_handle has begun is on its way, no more has been shipped.
LEMMA QuietPost ==
    ASSUME Calm, NEW e \in Ends, PostMessage(e)
    PROVE  Quiet'
<1>0. /\ qp[e] = "up" /\ SendInv(e) /\ metadata[e] \in Nat /\ taken[e] \in Nat
      /\ sq[e] \in Seq([kind : Kinds, arrived : BOOLEAN])
  BY CalmFacts
<1> DEFINE kind == Posting[at[e]].kind
           place == Posting[at[e]].wait
           msg == [kind |-> kind, arrived |-> FALSE]
<1>1. /\ at[e] \in {"send", "read", "ack"} /\ Post(e, kind) /\ at' = [at EXCEPT ![e] = place]
      /\ UNCHANGED <<lock, cq, wrq, counters>>
  BY <1>0 DEF PostMessage, Posting, Undefined, Goto, counts, counters
<1>p. \/ at[e] = "send" /\ kind = "normal" /\ place = "sent"
      \/ at[e] = "read" /\ kind = "read" /\ place = "reading"
      \/ at[e] = "ack" /\ kind = "ack" /\ place = "acking"
  BY <1>1 DEF Posting
<1>2. sq[e] = <<>> /\ NoSend(cq[e])
  BY <1>0, <1>1 DEF SendInv
<1>3. msg \in [kind : Kinds, arrived : BOOLEAN] /\ SentAt(place) = kind
  BY <1>p DEF Kinds, SentAt
<1>4. sq' = [sq EXCEPT ![e] = <<msg>>]
  BY <1>1, <1>2 DEF Post, Calm, Quiet, QuietType
<1>5. sq'[e] = <<msg>> /\ at'[e] = place /\ \A x \in Ends \ {e} : sq'[x] = sq[x] /\ at'[x] = at[x]
  BY <1>1, <1>4 DEF Calm, Quiet, QuietType, IInv, TypeOK
<1>6. QuietType'
  <2>1. <<msg>> \in Seq([kind : Kinds, arrived : BOOLEAN])
    BY <1>3
  <2> QED
    BY <1>1, <1>4, <2>1 DEF Calm, Quiet, QuietType
<1>7. \A x \in Ends \ {e} : Holds(x)' = Holds(x)
  BY <1>1, <1>5 DEF Holds, counters
<1>8. SendInv(e)' /\ WaitInv(e)'
  <2>1. /\ sq'[e] = <<[kind |-> SentAt(at'[e]), arrived |-> FALSE]>> /\ sq'[e] # <<>>
        /\ at'[e] \in {"sent", "reading", "acking"} /\ cq'[e] = cq[e]
    <3>1. place \in {"sent", "reading", "acking"} /\ cq'[e] = cq[e]
      BY <1>1, <1>p
    <3> HIDE DEF place, kind
    <3>2. sq'[e] = <<[kind |-> kind, arrived |-> FALSE]>> /\ at'[e] = place
      BY <1>5
    <3>3. sq'[e] # <<>>
      BY <3>2
    <3> QED
      BY <1>3, <3>1, <3>2, <3>3
  <2> QED
    BY <1>0, <1>2, <2>1 DEF SendInv, WaitInv
<1>9. ASSUME NEW k \in {"normal", "ack"}
      PROVE  Shipped(e, k)' = Shipped(e, k) /\ Arrived(e, k)' = Arrived(e, k)
  <2>1. Arrived(e, k)' = Arrived(e, k)
    <3>1. at'[e] \in {"read", "reading"} <=> at[e] \in {"read", "reading"}
      BY <1>p, <1>5
    <3> QED
      BY <1>1, <3>1 DEF Arrived, One, counters
  <2>2. Leaving(e, k) = 0
    BY <1>2 DEF Leaving, One
  <2>3. Leaving(e, k)' = One(kind = k)
    BY <1>5 DEF Leaving, One
  <2>4. Shipped(e, k)' = Shipped(e, k)
    <3> HIDE DEF place, kind
    <3> QED
      BY <1>0, <1>1, <1>p, <1>5, <2>2, <2>3 DEF Shipped, One, counters
  <2> QED
    BY <2>1, <2>4
<1> QED
  BY <1>6, <1>7, <1>8, <1>9, QuietStep DEF Calm

\* The polling of recv_ and irecv_.
LEMMA QuietPollFirst ==
    ASSUME Calm, NEW e \in Ends, PollFirst(e)
    PROVE  Quiet'
<1>0. qp[e] = "up" /\ SendInv(e) /\ at[e] = "poll"
  BY CalmFacts DEF PollFirst
<1>1. /\ Moved(e, {"recv", "other"}) /\ at' = [at EXCEPT ![e] = "resolve"]
      /\ UNCHANGED <<lock, sq, counters>>
  <2>1. PICK seen \in Seen(e) : wrq' = [wrq EXCEPT ![e] = @ \o Receives(seen, {"recv", "other"})]
    BY <1>0 DEF PollFirst, Undefined
  <2>2. seen = cq[e]
    BY SeenIsThere DEF Calm
  <2> QED
    BY <1>0, <2>1, <2>2 DEF PollFirst, Undefined, Moved, Goto, wire, counts, counters
<1>2. /\ QuietType'
      /\ \A x \in Ends \ {e} : cq'[x] = cq[x] /\ wrq'[x] = wrq[x]
      /\ cq'[e] = <<>> /\ NoSend(cq'[e])
      /\ \A k : Got(cq'[e], k) + Got(wrq'[e], k) = Got(cq[e], k) + Got(wrq[e], k)
  BY <1>1, MovedCounts DEF Calm
<1>3. at'[e] = "resolve" /\ \A x \in Ends \ {e} : at'[x] = at[x]
  BY <1>1 DEF Calm, IInv, TypeOK
<1>4. \A x \in Ends \ {e} : Holds(x)' = Holds(x)
  BY <1>1, <1>2, <1>3 DEF Holds, counters
<1>5. SendInv(e)' /\ WaitInv(e)'
  BY <1>0, <1>1, <1>2, <1>3 DEF SendInv, WaitInv
<1>6. \A k \in {"normal", "ack"} : Shipped(e, k)' = Shipped(e, k) /\ Arrived(e, k)' = Arrived(e, k)
  BY <1>0, <1>1, <1>2, <1>3 DEF Shipped, Arrived, Leaving, One, counters
<1> QED
  BY <1>2, <1>4, <1>5, <1>6, QuietStep DEF Calm

\* poll_wc with an event: a send that completes is the one that is awaited.
LEMMA QuietPollEvent ==
    ASSUME Calm, NEW e \in Ends, PollEvent(e)
    PROVE  Quiet'
<1>0. /\ SendInv(e) /\ at[e] \in {"sent", "reading", "acking", "await", "ackpoll"}
      /\ metadata[e] \in Nat /\ taken[e] \in Nat
      /\ cq[e] \in Seq(Good) /\ wrq[e] \in Seq(Received)
  BY CalmFacts DEF PollEvent, AfterPoll
<1> DEFINE result == IF NoSend(cq[e]) THEN "none" ELSE "ok"
<1>1. Moved(e, {"recv"}) /\ PollReturns(e, result) /\ UNCHANGED <<lock, sq>>
  <2>1. PICK seen \in Seen(e) : /\ wrq' = [wrq EXCEPT ![e] = @ \o Receives(seen, {"recv"})]
                                /\ PollReturns(e, Polled(seen))
    BY DEF PollEvent
  <2>2. seen = cq[e] /\ Polled(seen) = result
    BY SeenIsThere, PolledQuiet DEF Calm
  <2> QED
    BY <2>1, <2>2 DEF PollEvent, Moved, wire
<1>2. /\ QuietType'
      /\ \A x \in Ends \ {e} : cq'[x] = cq[x] /\ wrq'[x] = wrq[x]
      /\ cq'[e] = <<>> /\ NoSend(cq'[e])
      /\ \A k : Got(cq'[e], k) + Got(wrq'[e], k) = Got(cq[e], k) + Got(wrq[e], k)
  BY <1>1, MovedCounts DEF Calm
<1>3. /\ at' = [at EXCEPT ![e] = AfterPoll[at[e]][result]]
      /\ metadata' = [metadata EXCEPT ![e] = IF at[e] = "sent" /\ result = "ok" THEN @ + 1 ELSE @]
      /\ taken' = [taken EXCEPT ![e] = IF at[e] = "reading" /\ result = "ok" THEN @ + 1 ELSE @]
      /\ UNCHANGED acks
  BY <1>1 DEF PollReturns, Goto
<1>4. at'[e] = IF at[e] \in {"sent", "reading", "acking"} /\ result = "none" THEN at[e]
               ELSE IF at[e] = "reading" THEN "ack" ELSE "resolve"
  <2>1. at'[e] = AfterPoll[at[e]][result]
    BY <1>3 DEF Calm, IInv, TypeOK
  <2> HIDE DEF result
  <2>2. result \in {"none", "ok"}
    BY DEF result
  <2> QED
    BY <1>0, <2>1, <2>2 DEF AfterPoll
<1>5. /\ metadata'[e] = IF at[e] = "sent" /\ result = "ok" THEN metadata[e] + 1 ELSE metadata[e]
      /\ taken'[e] = IF at[e] = "reading" /\ result = "ok" THEN taken[e] + 1 ELSE taken[e]
      /\ \A x \in Ends \ {e} : at'[x] = at[x] /\ metadata'[x] = metadata[x] /\ taken'[x] = taken[x]
  BY <1>3 DEF Calm, IInv, TypeOK
<1>6. \A x \in Ends \ {e} : Holds(x)' = Holds(x)
  BY <1>1, <1>2, <1>3, <1>5 DEF Holds
<1>7. result = "ok" => sq[e] = <<>>
  BY <1>0 DEF SendInv
<1>8. SendInv(e)' /\ WaitInv(e)'
  <2>1. sq'[e] = sq[e] /\ DOMAIN cq'[e] = {}
    BY <1>1, <1>2
  <2>2. sq[e] # <<>> => at'[e] = at[e]
    BY <1>0, <1>4, <1>7 DEF SendInv
  <2>3. at'[e] \in {"sent", "reading", "acking"} => sq[e] # <<>>
    BY <1>0, <1>4 DEF SendInv
  <2>4. at'[e] \notin {"sent", "reading", "acking"} => sq[e] = <<>>
    BY <1>0, <1>4, <1>7 DEF SendInv
  <2>5. at'[e] # "disconnect"
    BY <1>0, <1>4
  <2> QED
    BY <1>0, <1>2, <2>1, <2>2, <2>3, <2>4, <2>5 DEF SendInv, WaitInv
<1>9. ASSUME NEW k \in {"normal", "ack"}
      PROVE  Shipped(e, k)' = Shipped(e, k) /\ Arrived(e, k)' = Arrived(e, k)
  <2>1. Leaving(e, k)' = Leaving(e, k)
    BY <1>1 DEF Leaving
  <2>2. /\ taken'[e] - One(at'[e] = "ack") = taken[e] - One(at[e] = "ack")
        /\ metadata'[e] + One(at'[e] = "sent") = metadata[e] + One(at[e] = "sent")
        /\ taken'[e] + One(at'[e] \in {"read", "reading"}) = taken[e] + One(at[e] \in {"read", "reading"})
    <3>1. CASE at[e] = "reading"
      BY <1>0, <1>4, <1>5, <3>1 DEF One
    <3>2. CASE at[e] # "reading"
      BY <1>0, <1>4, <1>5, <3>2 DEF One
    <3> QED
      BY <3>1, <3>2
  <2>3. Shipped(e, k)' = Shipped(e, k)
    BY <2>1, <2>2 DEF Shipped
  <2>4. Arrived(e, k)' = Arrived(e, k)
    BY <1>2, <1>3, <2>2 DEF Arrived
  <2> QED
    BY <2>3, <2>4
<1> QED
  BY <1>2, <1>6, <1>8, <1>9, QuietStep DEF Calm

\* resolve_wr_queue takes a record: it counts as taken or acknowledged now,
\* and a message taken is to be acknowledged first.
LEMMA QuietResolveNext ==
    ASSUME Calm, NEW e \in Ends, ResolveNext(e)
    PROVE  Quiet'
<1>0. /\ SendInv(e) /\ qp[e] = "up" /\ wrq[e] \in Seq(Received)
      /\ taken[e] \in Nat /\ acks[e] \in Nat
  BY CalmFacts
<1> DEFINE record == Head(wrq[e])
<1>1. /\ at[e] = "resolve" /\ wrq[e] # <<>> /\ wrq' = [wrq EXCEPT ![e] = Tail(@)]
      /\ UNCHANGED <<lock, sq, cq, metadata>>
  BY DEF ResolveNext, wire
<1>2. record \in Received /\ Tail(wrq[e]) \in Seq(Received)
  BY <1>0, <1>1
<1>3. record.ok /\ record.op = "recv" /\ record.kind \in Kinds
  BY <1>2 DEF Received
<1>4. wrq'[e] = Tail(wrq[e]) /\ \A x \in Ends \ {e} : wrq'[x] = wrq[x]
  BY <1>1 DEF Calm, Quiet, QuietType
<1>5. ASSUME NEW k PROVE Got(wrq'[e], k) = Got(wrq[e], k) - One(record.kind = k)
                          /\ Got(wrq[e], k) \in Nat /\ Got(cq[e], k) \in Nat
  <2>1. wrq[e] \in Seq(Good) /\ cq[e] \in Seq(Good)
    BY <1>0, ReceivedIsGood, CalmFacts
  <2>2. Got(Tail(wrq[e]), k) = Got(wrq[e], k) - One(record.op = "recv" /\ record.kind = k)
    BY <1>1, <2>1, GotTail
  <2>3. (record.op = "recv" /\ record.kind = k) = (record.kind = k)
    BY <1>3
  <2> QED
    BY <1>4, <2>1, <2>2, <2>3, RowsFinite
<1>6. \/ record.kind = "close" /\ Resolved(e, TRUE) /\ UNCHANGED <<acks, taken>>
      \/ record.kind = "ack" /\ acks' = [acks EXCEPT ![e] = @ + 1] /\ UNCHANGED <<at, taken>>
      \/ record.kind = "normal" /\ Goto(e, "read") /\ UNCHANGED <<acks, taken>>
      \/ record.kind = "normal" /\ Goto(e, "ack") /\ taken' = [taken EXCEPT ![e] = @ + 1]
         /\ UNCHANGED acks
  BY <1>0, <1>3 DEF ResolveNext, IsSend
<1> HIDE DEF record
<1>7. /\ \A x \in Ends \ {e} : at'[x] = at[x] /\ taken'[x] = taken[x] /\ acks'[x] = acks[x]
      /\ taken'[e] = taken[e] + One(at'[e] = "ack")
      /\ acks'[e] = acks[e] + One(record.kind = "ack")
      /\ at'[e] \in {"read", "ack"} <=> record.kind = "normal"
      /\ at'[e] \notin {"sent", "reading", "acking", "disconnect"}
  <2>0. at \in [Ends -> Places] /\ taken \in [Ends -> Nat] /\ acks \in [Ends -> Nat] /\ TypeOK
    BY DEF Calm, IInv, TypeOK
  <2>2. CASE record.kind = "close"
    <3>1. at' = [at EXCEPT ![e] = at'[e]] /\ at'[e] \in {"acks", "closed", "try", "await", "user"}
      BY <1>6, <2>0, <2>2, ResolvedType
    <3>2. acks' = acks /\ taken' = taken
      BY <1>6, <2>2
    <3>3. \A x \in Ends \ {e} : at'[x] = at[x]
      BY <2>0, <3>1
    <3> QED
      BY <1>0, <2>2, <3>1, <3>2, <3>3 DEF One
  <2>3. CASE record.kind = "ack"
    BY <1>0, <1>1, <1>6, <2>0, <2>3 DEF One
  <2>4. CASE record.kind = "normal"
    <3>1. \/ at' = [at EXCEPT ![e] = "read"] /\ acks' = acks /\ taken' = taken
          \/ at' = [at EXCEPT ![e] = "ack"] /\ acks' = acks
             /\ taken' = [taken EXCEPT ![e] = @ + 1]
      BY <1>6, <2>4 DEF Goto
    <3> QED
      BY <1>0, <2>0, <2>4, <3>1 DEF One
  <2> QED
    BY <1>3, <1>6, <2>2, <2>3, <2>4
<1>8. QuietType'
  BY <1>1, <1>2 DEF Calm, Quiet, QuietType
<1>9. \A x \in Ends \ {e} : Holds(x)' = Holds(x)
  BY <1>1, <1>4, <1>7 DEF Holds
<1>10. SendInv(e)' /\ WaitInv(e)'
  BY <1>0, <1>1, <1>7 DEF SendInv, WaitInv
<1>11. ASSUME NEW k \in {"normal", "ack"}
       PROVE  Shipped(e, k)' = Shipped(e, k) /\ Arrived(e, k)' = Arrived(e, k)
  <2>1. Leaving(e, k)' = Leaving(e, k) /\ Leaving(e, k) \in Nat
    BY <1>1 DEF Leaving, One
  <2>2. taken'[e] - One(at'[e] = "ack") = taken[e] - One(at[e] = "ack")
    BY <1>0, <1>1, <1>7 DEF One
  <2>3. Shipped(e, k)' = Shipped(e, k)
    BY <1>1, <1>7, <2>1, <2>2 DEF Shipped
  <2>4. /\ Got(cq'[e], k) = Got(cq[e], k) /\ Got(cq[e], k) \in Nat
        /\ Got(wrq'[e], k) = Got(wrq[e], k) - One(record.kind = k)
        /\ Got(wrq[e], k) \in Nat /\ One(record.kind = k) \in Nat
    BY <1>1, <1>5 DEF One
  <2>6. taken'[e] + One(at'[e] \in {"read", "reading"})
            = taken[e] + One(at[e] \in {"read", "reading"}) + One(record.kind = "normal")
    BY <1>0, <1>1, <1>7 DEF One
  <2>7. taken[e] + One(at[e] \in {"read", "reading"}) \in Nat /\ One(record.kind = "normal") \in Nat
    BY <1>0 DEF One
  <2>5. Arrived(e, k)' = Arrived(e, k)
    <3>1. CASE k = "normal"
      BY <2>4, <2>6, <2>7, <3>1 DEF Arrived
    <3>2. CASE k = "ack"
      BY <1>0, <1>7, <2>4, <3>2 DEF Arrived
    <3> QED
      BY <3>1, <3>2
  <2> QED
    BY <2>3, <2>5
<1> QED
  BY <1>8, <1>9, <1>10, <1>11, QuietStep DEF Calm

\* The end of send_close_md: CLOSE is on its way, but counts nowhere.
LEMMA QuietCloseMessage ==
    ASSUME Calm, NEW e \in Ends, CloseMessage(e)
    PROVE  Quiet'
<1>0. /\ SendInv(e) /\ metadata[e] \in Nat /\ acks[e] \in Nat
      /\ sq[e] \in Seq([kind : Kinds, arrived : BOOLEAN])
  BY CalmFacts
<1>1. /\ at[e] = "acks" /\ UNCHANGED <<lock, cq, wrq, counters>>
      /\ at' = [at EXCEPT ![e] = IF Unacknowledged(e) THEN "ackpoll" ELSE "disconnect"]
  BY DEF CloseMessage, Goto, counts, counters
<1>2. /\ at'[e] = IF Unacknowledged(e) THEN "ackpoll" ELSE "disconnect"
      /\ \A x \in Ends \ {e} : at'[x] = at[x]
  BY <1>1 DEF Calm, IInv, TypeOK
<1>3. at'[e] = "disconnect" => acks[e] >= metadata[e]
  BY <1>0, <1>2 DEF Unacknowledged
<1>4. CASE sq' = sq
  BY <1>1, <1>2, <1>3, <1>4, QuietMoves DEF Calm, queues
<1>5. CASE ~Unacknowledged(e) /\ Post(e, "close")
  <2> DEFINE msg == [kind |-> "close", arrived |-> FALSE]
  <2>1. sq[e] = <<>> /\ NoSend(cq[e]) /\ at'[e] = "disconnect" /\ SentAt(at'[e]) = "close"
    BY <1>0, <1>1, <1>2, <1>5 DEF SendInv, SentAt
  <2>2. sq' = [sq EXCEPT ![e] = <<msg>>] /\ <<msg>> \in Seq([kind : Kinds, arrived : BOOLEAN])
    BY <1>5, <2>1 DEF Post, Calm, Quiet, QuietType, Kinds
  <2>3. QuietType'
    BY <1>1, <2>2 DEF Calm, Quiet, QuietType
  <2>4. sq'[e] = <<msg>> /\ \A x \in Ends \ {e} : sq'[x] = sq[x]
    BY <2>2 DEF Calm, Quiet, QuietType
  <2>5. \A x \in Ends \ {e} : Holds(x)' = Holds(x)
    BY <1>1, <1>2, <2>4 DEF Holds, counters
  <2>6. SendInv(e)' /\ WaitInv(e)'
    <3>1. sq'[e] = <<[kind |-> SentAt(at'[e]), arrived |-> FALSE]>> /\ cq'[e] = cq[e]
      BY <1>1, <2>1, <2>4
    <3>2. acks'[e] >= metadata'[e]
      BY <1>1, <1>3, <2>1 DEF counters
    <3> QED
      BY <1>0, <2>1, <3>1, <3>2 DEF SendInv, WaitInv
  <2>7. \A k \in {"normal", "ack"} : Shipped(e, k)' = Shipped(e, k) /\ Arrived(e, k)' = Arrived(e, k)
    BY <1>1, <2>1, <2>4 DEF Shipped, Arrived, Leaving, One, counters
  <2> QED
    BY <2>3, <2>5, <2>6, <2>7, QuietStep DEF Calm
<1> QED
  BY <1>4, <1>5 DEF CloseMessage

\* Every step of the first thread with which nobody disconnects.
LEMMA QuietFirst ==
    ASSUME Calm, NEW e \in Ends, First(e), asked' = {}
    PROVE  Quiet'
<1>0. /\ Quiet /\ qp[e] = "up" /\ at \in [Ends -> Places] /\ lock \in [Ends -> {"free", "user", "closer"}]
      /\ closer[e] = "listen"
  BY CalmFacts DEF Calm, IInv, TypeOK
<1>1. CASE Send(e) \/ Recv(e)
  <2>1. PICK place \in {"send", "poll"} : Enter(e, place) /\ at[e] = "user"
    BY <1>1 DEF Send, Recv, Begin
  <2>2. UNCHANGED <<lock, queues, counters>>
    BY <2>1 DEF Enter, wire, counts, queues, counters
  <2>3. at'[e] \in {"send", "poll", "user"} /\ \A x \in Ends \ {e} : at'[x] = at[x]
    BY <1>0, <2>1 DEF Enter, Goto
  <2> QED
    BY <1>0, <2>1, <2>2, <2>3, QuietMoves
<1>2. CASE Close(e)
  <2>1. UNCHANGED <<lock, queues, counters>> /\ at[e] = "user"
    BY <1>2 DEF Close, Begin, wire, counts, queues, counters
  <2>2. at'[e] = (IF lock[e] = "free" THEN "acks" ELSE "disconnect")
        /\ \A x \in Ends \ {e} : at'[x] = at[x]
    BY <1>0, <1>2 DEF Close, Goto
  <2> QED
    BY <1>0, <2>1, <2>2, QuietMoves
<1>3. CASE PollTry(e)
  <2>1. at[e] \in {"sent", "reading", "acking", "await", "ackpoll"}
    BY <1>3 DEF PollTry, AfterPoll
  <2>2. UNCHANGED <<lock, queues>>
    BY <1>3 DEF PollTry, wire, queues
  <2>3. CASE lock[e] = "free"
    BY <1>0, <1>3, <2>2, <2>3, QuietSame DEF PollTry, counts, counters
  <2>4. CASE lock[e] # "free"
    <3>1. PollReturns(e, "refused")
      BY <1>3, <2>4 DEF PollTry
    <3>2. at' = [at EXCEPT ![e] = AfterPoll[at[e]].refused] /\ acks' = acks
      BY <3>1 DEF PollReturns, Goto
    <3>3. metadata' = metadata /\ taken' = taken
      BY <3>1 DEF PollReturns, Calm, IInv, TypeOK
    <3>4. CASE at[e] \in {"sent", "reading", "acking"}
      <4>1. at' = at
        BY <1>0, <3>2, <3>4 DEF AfterPoll
      <4> QED
        BY <1>0, <2>2, <3>2, <3>3, <4>1, QuietSame DEF counters
    <3>5. CASE at[e] \in {"await", "ackpoll"}
      <4>1. at'[e] \in {"user", "disconnect"} /\ \A x \in Ends \ {e} : at'[x] = at[x]
        BY <1>0, <3>2, <3>5 DEF AfterPoll
      <4>2. UNCHANGED <<queues, counters>> /\ lock'[e] # "free"
        BY <2>2, <2>4, <3>2, <3>3 DEF counters
      <4> QED
        BY <1>0, <2>2, <3>5, <4>1, <4>2, QuietMoves
    <3> QED
      BY <2>1, <3>4, <3>5
  <2> QED
    BY <2>3, <2>4
<1>4. ~PollDestroyed(e) /\ ~Disconnect(e) /\ ~Join(e)
  <2>1. ~PollDestroyed(e) /\ ~Join(e)
    BY <1>0 DEF PollDestroyed, Undefined, Join
  <2>2. ~Disconnect(e)
    BY DEF Disconnect, RdmaDisconnect
  <2> QED
    BY <2>1, <2>2
<1>5. CASE ResolveEnds(e)
  <2>1. UNCHANGED <<lock, queues, counters>> /\ at[e] = "resolve" /\ Resolved(e, FALSE)
    BY <1>5 DEF ResolveEnds, wire, queues, counters
  <2>2. at' = [at EXCEPT ![e] = at'[e]] /\ at'[e] \in {"acks", "closed", "try", "await", "user"}
    BY <2>1, ResolvedType DEF Calm, IInv
  <2>3. \A x \in Ends \ {e} : at'[x] = at[x]
    BY <1>0, <2>2
  <2> QED
    BY <1>0, <2>1, <2>2, <2>3, QuietMoves
<1>7. CASE ResolveFails(e)
  <2>1. UNCHANGED <<lock, queues, counters>> /\ at[e] = "unread" /\ Resolved(e, TRUE)
    BY <1>7 DEF ResolveFails, wire, queues, counters
  <2>2. at' = [at EXCEPT ![e] = at'[e]] /\ at'[e] \in {"acks", "closed", "try", "await", "user"}
    BY <2>1, ResolvedType DEF Calm, IInv
  <2>3. \A x \in Ends \ {e} : at'[x] = at[x]
    BY <1>0, <2>2
  <2> QED
    BY <1>0, <2>1, <2>2, <2>3, QuietMoves
<1>6. CASE TryLock(e)
  <2>1. UNCHANGED <<queues, counters>> /\ at[e] = "try"
    BY <1>6 DEF TryLock, wire, counts, queues, counters
  <2>2. at'[e] \in {"await", "user"} /\ \A x \in Ends \ {e} : at'[x] = at[x] /\ lock'[x] = lock[x]
    BY <1>0, <1>6 DEF TryLock, Goto
  <2> QED
    BY <1>0, <2>1, <2>2, QuietMoves
<1> QED
  BY <1>1, <1>2, <1>3, <1>4, <1>5, <1>6, <1>7, QuietPost, QuietPollFirst, QuietPollEvent,
     QuietResolveNext, QuietCloseMessage DEF First

\* What it means for the only thing in a send queue to arrive.
LEMMA OnlyOneArrives ==
    ASSUME NEW kind, NEW b \in BOOLEAN
    PROVE  [<<[kind |-> kind, arrived |-> b]>> EXCEPT ![1].arrived = TRUE]
               = <<[kind |-> kind, arrived |-> TRUE]>>
<1> DEFINE r == [kind |-> kind, arrived |-> b]
           q == [r EXCEPT !.arrived = TRUE]
<1>1. q \in [kind : {kind}, arrived : {TRUE}]
  OBVIOUS
<1>2. <<r>>[1] = r
  OBVIOUS
<1>3. [<<r>> EXCEPT ![1].arrived = TRUE] = [<<r>> EXCEPT ![1] = q]
  BY <1>2
<1> HIDE DEF q
<1>4. q = [kind |-> kind, arrived |-> TRUE]
  BY <1>1
<1> HIDE DEF r
<1>5. [<<r>> EXCEPT ![1] = q] = <<q>>
  OBVIOUS
<1> QED
  BY <1>3, <1>4, <1>5 DEF r

\* A READ arrives: nothing comes to the other end.
LEMMA QuietReadArrives ==
    ASSUME Calm, NEW e \in Ends, Arrive(e), at[e] = "reading"
    PROVE  Quiet'
<1>0. SendInv(e) /\ WaitInv(e)
  BY CalmFacts
<1>1. PICK i \in DOMAIN sq[e] :
        /\ Pending(e, i)
        /\ sq' = [sq EXCEPT ![e][i].arrived = TRUE]
        /\ sq[e][i].kind = "read" => cq' = cq
  BY DEF Arrive
<1>2. UNCHANGED <<at, lock, wrq, counters>>
  BY DEF Arrive, Others, thread, counts, counters
<1>3. sq[e] # <<>> /\ NoSend(cq[e])
      /\ \E b \in BOOLEAN : sq[e] = <<[kind |-> "read", arrived |-> b]>>
  <2>1. sq[e] # <<>>
    <3>1. sq[e] \in Seq([kind : Kinds, arrived : BOOLEAN])
      BY CalmFacts
    <3> QED
      BY <1>1, <3>1
  <2>2. SentAt(at[e]) = "read"
    BY DEF SentAt
  <2> QED
    BY <1>0, <2>1, <2>2 DEF SendInv
<1>4. i = 1 /\ sq[e][1].kind = "read" /\ cq' = cq
  BY <1>1, <1>3
<1>5. sq' = [sq EXCEPT ![e] = <<[kind |-> "read", arrived |-> TRUE]>>]
  <2>1. PICK b \in BOOLEAN : sq[e] = <<[kind |-> "read", arrived |-> b]>>
    BY <1>3
  <2>2. sq' = [sq EXCEPT ![e] = [sq[e] EXCEPT ![1].arrived = TRUE]]
    BY <1>1, <1>4
  <2>3. [sq[e] EXCEPT ![1].arrived = TRUE] = <<[kind |-> "read", arrived |-> TRUE]>>
    BY <2>1, OnlyOneArrives
  <2> QED
    BY <2>2, <2>3
<1>6. /\ sq'[e] = <<[kind |-> "read", arrived |-> TRUE]>>
      /\ \A x \in Ends \ {e} : sq'[x] = sq[x]
  BY <1>5 DEF Calm, Quiet, QuietType
<1>7. QuietType'
  <2>1. <<[kind |-> "read", arrived |-> TRUE]>> \in Seq([kind : Kinds, arrived : BOOLEAN])
    BY DEF Kinds
  <2> QED
    BY <1>2, <1>4, <1>5, <2>1 DEF Calm, Quiet, QuietType
<1>8. \A x \in Ends \ {e} : Holds(x)' = Holds(x)
  BY <1>2, <1>4, <1>6 DEF Holds, counters
<1>9. SendInv(e)' /\ WaitInv(e)'
  <2>2. SentAt(at'[e]) = "read"
    BY <1>2 DEF SentAt
  <2>1. sq'[e] = <<[kind |-> SentAt(at'[e]), arrived |-> TRUE]>> /\ sq'[e] # <<>>
    BY <1>6, <2>2
  <2> QED
    BY <1>0, <1>2, <1>3, <1>4, <2>1 DEF SendInv, WaitInv, counters
<1>10. ASSUME NEW k \in {"normal", "ack"}
       PROVE  Shipped(e, k)' = Shipped(e, k) /\ Arrived(e, k)' = Arrived(e, k)
  <2>1. Leaving(e, k) = 0 /\ Leaving(e, k)' = 0
    BY <1>4, <1>6 DEF Leaving, One
  <2> QED
    BY <1>2, <1>4, <2>1 DEF Shipped, Arrived, counters
<1> QED
  BY <1>7, <1>8, <1>9, <1>10, QuietStep DEF Calm

\* A message arrives: it leaves one end and comes to the other.
LEMMA QuietArrive ==
    ASSUME Calm, NEW e \in Ends, Arrive(e), at[e] # "reading"
    PROVE  Quiet'
<1> DEFINE p == Peer(e)
<1>1. p \in Ends /\ p # e /\ Peer(p) = e /\ \A x \in Ends : x = e \/ x = p
  BY PeerIsEnd, PeersPeer
<1> HIDE DEF p
<1>0. SendInv(e) /\ SendInv(p) /\ WaitInv(e) /\ WaitInv(p) /\ cq[p] \in Seq(Good)
      /\ wrq[p] \in Seq(Received) /\ sq[e] \in Seq([kind : Kinds, arrived : BOOLEAN])
      /\ \A x \in Ends : metadata[x] \in Nat /\ taken[x] \in Nat /\ acks[x] \in Nat
  BY <1>1, CalmFacts
<1>2. PICK i \in DOMAIN sq[e] :
        /\ Pending(e, i)
        /\ sq' = [sq EXCEPT ![e][i].arrived = TRUE]
        /\ sq[e][i].kind # "read" => Complete(p, Completion("recv", TRUE, sq[e][i].kind))
  BY DEF Arrive, p
<1>3. UNCHANGED <<at, lock, wrq, counters>>
  BY DEF Arrive, Others, thread, counts, counters
<1>4. PICK b \in BOOLEAN : sq[e] = <<[kind |-> SentAt(at[e]), arrived |-> b]>>
  <2>1. sq[e] # <<>>
    BY <1>2
  <2> QED
    BY <1>0, <2>1 DEF SendInv
<1> DEFINE kind == SentAt(at[e])
           c == [op |-> "recv", ok |-> TRUE, kind |-> kind]
<1>5. i = 1 /\ sq[e] # <<>> /\ sq[e][1].kind = kind /\ ~sq[e][1].arrived /\ NoSend(cq[e])
  BY <1>0, <1>2, <1>4 DEF Pending, SendInv
<1>6. c \in Good /\ kind \in Kinds /\ kind # "read"
  BY DEF SentAt, Kinds, Good
<1>7. /\ sq' = [sq EXCEPT ![e] = <<[kind |-> kind, arrived |-> TRUE]>>]
      /\ cq' = [cq EXCEPT ![p] = Append(cq[p], c)]
  <2>1. [sq[e] EXCEPT ![1].arrived = TRUE] = <<[kind |-> kind, arrived |-> TRUE]>>
    <3>1. sq[e] = <<[kind |-> kind, arrived |-> b]>>
      BY <1>4
    <3> HIDE DEF kind
    <3> QED
      BY <3>1, OnlyOneArrives
  <2>2. sq' = [sq EXCEPT ![e] = [sq[e] EXCEPT ![1].arrived = TRUE]]
    BY <1>2, <1>5
  <2>3. cq' = [cq EXCEPT ![p] = Append(cq[p], c)]
    BY <1>2, <1>5, <1>6 DEF Complete, Completion
  <2> QED
    BY <2>1, <2>2, <2>3
<1> HIDE DEF kind, c
<1>8. /\ sq'[e] = <<[kind |-> kind, arrived |-> TRUE]>> /\ sq'[p] = sq[p]
      /\ cq'[e] = cq[e] /\ cq'[p] = Append(cq[p], c)
  BY <1>1, <1>7 DEF Calm, Quiet, QuietType
<1>9. QuietType'
  <2>1. <<[kind |-> kind, arrived |-> TRUE]>> \in Seq([kind : Kinds, arrived : BOOLEAN])
    BY <1>6
  <2>2. Append(cq[p], c) \in Seq(Good)
    BY <1>0, <1>6
  <2> QED
    BY <1>3, <1>7, <2>1, <2>2 DEF Calm, Quiet, QuietType
<1>10. SendInv(e)'
  <2>1. sq'[e] = <<[kind |-> SentAt(at'[e]), arrived |-> TRUE]>> /\ sq'[e] # <<>>
    BY <1>3, <1>8 DEF kind
  <2>2. at'[e] = at[e]
    BY <1>3
  <2> QED
    BY <1>0, <1>5, <1>8, <2>1, <2>2 DEF SendInv
<1>11. SendInv(p)'
  <2>1. /\ DOMAIN cq'[p] = 1..(Len(cq[p]) + 1) /\ DOMAIN cq[p] = 1..Len(cq[p]) /\ Len(cq[p]) \in Nat
        /\ cq'[p][Len(cq[p]) + 1] = c
        /\ \A j \in DOMAIN cq[p] : cq'[p][j] = cq[p][j]
    <3>1. cq[p] \in Seq(Good) /\ c \in Good /\ cq'[p] = Append(cq[p], c)
      BY <1>0, <1>6, <1>8
    <3>2. ASSUME NEW s \in Seq(Good), NEW r \in Good
          PROVE  /\ DOMAIN Append(s, r) = 1..(Len(s) + 1) /\ DOMAIN s = 1..Len(s) /\ Len(s) \in Nat
                 /\ Append(s, r)[Len(s) + 1] = r
                 /\ \A j \in DOMAIN s : Append(s, r)[j] = s[j]
      OBVIOUS
    <3> QED
      BY <3>1, <3>2
  <2>2. c.op = "recv"
    BY DEF c
  <2>4. \A j \in DOMAIN cq'[p] : cq'[p][j].op = "send" =>
            j \in DOMAIN cq[p] /\ cq[p][j].op = "send"
    BY <2>1, <2>2
  <2>3. NoSend(cq[p]) <=> NoSend(cq'[p])
    <3>1. \A j \in DOMAIN cq[p] : j \in DOMAIN cq'[p] /\ cq'[p][j] = cq[p][j]
      BY <2>1
    <3>2. ASSUME NoSend(cq[p]), NEW j \in DOMAIN cq'[p] PROVE cq'[p][j].op = "recv"
      <4>1. CASE j \in DOMAIN cq[p]
        BY <3>1, <3>2, <4>1 DEF NoSend
      <4>2. CASE j = Len(cq[p]) + 1
        BY <2>1, <2>2, <4>2
      <4> QED
        BY <2>1, <4>1, <4>2
    <3>3. ASSUME NoSend(cq'[p]), NEW j \in DOMAIN cq[p] PROVE cq[p][j].op = "recv"
      BY <3>1, <3>3 DEF NoSend
    <3> QED
      BY <3>2, <3>3 DEF NoSend
  <2> QED
    BY <1>0, <1>3, <1>8, <2>3, <2>4 DEF SendInv
<1>12. WaitInv(e)' /\ WaitInv(p)'
  BY <1>0, <1>3 DEF WaitInv, counters
<1>13. ASSUME NEW k \in {"normal", "ack"}
       PROVE  /\ Arrived(p, k)' = Arrived(p, k) + One(kind = k)
              /\ Shipped(e, k)' = Shipped(e, k) + One(kind = k)
              /\ Arrived(e, k)' = Arrived(e, k) /\ Shipped(p, k)' = Shipped(p, k)
  <2>1. Got(cq'[p], k) = Got(cq[p], k) + One(kind = k)
    <3>1. Got(cq'[p], k) = Got(cq[p], k) + One(c.op = "recv" /\ c.kind = k)
      BY <1>0, <1>6, <1>8, GotAppend
    <3>2. c.op = "recv" /\ c.kind = kind
      BY DEF c
    <3>3. (c.op = "recv" /\ c.kind = k) = (kind = k)
      BY <3>2
    <3> QED
      BY <3>1, <3>3
  <2>2. wrq[p] \in Seq(Good)
    BY <1>0, ReceivedIsGood
  <2>3. Got(cq[p], k) \in Nat /\ Got(wrq[p], k) \in Nat /\ One(kind = k) \in Nat
    BY <1>0, <2>2, RowsFinite DEF One
  <2>4. Arrived(p, k)' = Arrived(p, k) + One(kind = k)
    <3> DEFINE rest == IF k = "normal" THEN taken[p] + One(at[p] \in {"read", "reading"})
                       ELSE acks[p]
    <3>1. Arrived(p, k) = Got(cq[p], k) + Got(wrq[p], k) + rest
      BY DEF Arrived
    <3>2. Arrived(p, k)' = Got(cq'[p], k) + Got(wrq[p], k) + rest
      BY <1>3 DEF Arrived, counters
    <3>3. rest \in Nat
      BY <1>0, <1>1 DEF One
    <3> HIDE DEF rest
    <3> QED
      BY <2>1, <2>3, <3>1, <3>2, <3>3
  <2>5. Leaving(e, k) = One(kind = k) /\ Leaving(e, k)' = 0
    BY <1>5, <1>8 DEF Leaving, One
  <2>6. Shipped(e, k)' = Shipped(e, k) + One(kind = k)
    BY <1>0, <1>3, <2>3, <2>5 DEF Shipped, One, counters
  <2>7. Arrived(e, k)' = Arrived(e, k) /\ Shipped(p, k)' = Shipped(p, k)
    BY <1>3, <1>8 DEF Arrived, Shipped, Leaving, counters
  <2> QED
    BY <2>4, <2>6, <2>7
<1>14. ASSUME NEW x \in Ends, NEW k \in {"normal", "ack"}
       PROVE  Arrived(Peer(x), k)' = Shipped(x, k)'
  <2>1. Arrived(Peer(x), k) = Shipped(x, k)
    BY DEF Calm, Quiet, CountInv
  <2>2. CASE x = e
    <3>1. Arrived(p, k) = Shipped(e, k)
      BY <2>1, <2>2 DEF p
    <3>2. Arrived(p, k)' = Shipped(e, k)'
      BY <1>13, <3>1
    <3> QED
      BY <2>2, <3>2 DEF p
  <2>3. CASE x = p
    <3>1. Arrived(e, k) = Shipped(p, k)
      BY <1>1, <2>1, <2>3
    <3>2. Arrived(e, k)' = Shipped(p, k)'
      BY <1>13, <3>1
    <3> QED
      BY <1>1, <2>3, <3>2
  <2> QED
    BY <1>1, <2>2, <2>3
<1> QED
  BY <1>1, <1>9, <1>10, <1>11, <1>12, <1>14 DEF Quiet, CountInv

\* The completion of a send that has arrived.
LEMMA QuietSendCompletes ==
    ASSUME Calm, NEW e \in Ends, SendCompletes(e)
    PROVE  Quiet'
<1>0. /\ SendInv(e) /\ WaitInv(e) /\ cq[e] \in Seq(Good)
  BY CalmFacts
<1>1. /\ sq[e] # <<>> /\ Head(sq[e]).arrived /\ sq' = [sq EXCEPT ![e] = Tail(@)]
      /\ Complete(e, Completion("send", TRUE, Head(sq[e]).kind))
      /\ UNCHANGED <<at, lock, wrq, counters>>
  BY DEF SendCompletes, Others, thread, counts, counters
<1>2. PICK b \in BOOLEAN : sq[e] = <<[kind |-> SentAt(at[e]), arrived |-> b]>>
  BY <1>0, <1>1 DEF SendInv
<1> DEFINE c == [op |-> "send", ok |-> TRUE, kind |-> SentAt(at[e])]
<1>3. /\ sq' = [sq EXCEPT ![e] = <<>>] /\ sq[e][1].arrived
      /\ cq' = [cq EXCEPT ![e] = Append(cq[e], c)] /\ c \in Good
  <2>1. /\ Head(sq[e]) = [kind |-> SentAt(at[e]), arrived |-> b] /\ Tail(sq[e]) = <<>>
        /\ sq[e][1] = Head(sq[e])
    BY <1>2
  <2>2. cq' = [cq EXCEPT ![e] = Append(cq[e], c)]
    <3>0. Head(sq[e]).kind = SentAt(at[e])
      BY <2>1
    <3>1. Completion("send", TRUE, Head(sq[e]).kind) = c
      BY <3>0 DEF Completion
    <3> HIDE DEF c
    <3> QED
      BY <1>1, <3>1 DEF Complete
  <2>3. c \in Good
    BY DEF SentAt, Kinds, Good
  <2> QED
    BY <1>1, <2>1, <2>2, <2>3
<1>4. NoSend(cq[e]) /\ at[e] \in {"sent", "reading", "acking", "disconnect"} /\ c.op = "send"
  BY <1>0, <1>1 DEF SendInv
<1> HIDE DEF c
<1>5. /\ sq'[e] = <<>> /\ cq'[e] = Append(cq[e], c)
      /\ \A x \in Ends \ {e} : sq'[x] = sq[x] /\ cq'[x] = cq[x]
  BY <1>3 DEF Calm, Quiet, QuietType
<1>6. QuietType'
  <2>1. Append(cq[e], c) \in Seq(Good)
    BY <1>0, <1>3
  <2>2. <<>> \in Seq([kind : Kinds, arrived : BOOLEAN])
    OBVIOUS
  <2>3. sq' \in [Ends -> Seq([kind : Kinds, arrived : BOOLEAN])]
    BY <1>3, <2>2 DEF Calm, Quiet, QuietType
  <2>4. cq' \in [Ends -> Seq(Good)]
    BY <1>3, <2>1 DEF Calm, Quiet, QuietType
  <2> QED
    BY <1>1, <2>3, <2>4 DEF Calm, Quiet, QuietType
<1>7. \A x \in Ends \ {e} : Holds(x)' = Holds(x)
  BY <1>1, <1>5 DEF Holds, counters
<1>8. SendInv(e)' /\ WaitInv(e)'
  <2>1. /\ DOMAIN cq'[e] = 1..(Len(cq[e]) + 1) /\ DOMAIN cq[e] = 1..Len(cq[e]) /\ Len(cq[e]) \in Nat
        /\ cq'[e][Len(cq[e]) + 1] = c
        /\ \A j \in DOMAIN cq[e] : cq'[e][j] = cq[e][j]
    BY <1>0, <1>3, <1>5
  <2>2. \A j \in DOMAIN cq'[e] : cq'[e][j].op = "send" => j = Len(cq[e]) + 1
    BY <1>4, <2>1 DEF NoSend
  <2>3. ~NoSend(cq'[e])
    BY <1>4, <2>1 DEF NoSend
  <2>4. at'[e] \in {"sent", "reading", "acking", "disconnect"}
    BY <1>1, <1>4
  <2>5. SendInv(e)'
    BY <1>5, <2>2, <2>3, <2>4 DEF SendInv
  <2>6. WaitInv(e)'
    BY <1>0, <1>1 DEF WaitInv, counters
  <2> QED
    BY <2>5, <2>6
<1>9. ASSUME NEW k \in {"normal", "ack"}
      PROVE  Shipped(e, k)' = Shipped(e, k) /\ Arrived(e, k)' = Arrived(e, k)
  <2>1. Leaving(e, k) = 0 /\ Leaving(e, k)' = 0
    BY <1>3, <1>5 DEF Leaving, One
  <2>2. Got(cq'[e], k) = Got(cq[e], k)
    <3>1. Got(cq'[e], k) = Got(cq[e], k) + One(c.op = "recv" /\ c.kind = k)
      BY <1>0, <1>3, <1>5, GotAppend
    <3>2. One(c.op = "recv" /\ c.kind = k) = 0
      BY <1>4 DEF One
    <3>3. Got(cq[e], k) \in Nat
      BY <1>0, RowsFinite
    <3> QED
      BY <3>1, <3>2, <3>3
  <2> QED
    BY <1>1, <2>1, <2>2 DEF Shipped, Arrived, counters
<1> QED
  BY <1>6, <1>7, <1>8, <1>9, QuietStep DEF Calm

-----------------------------------------------------------------------------
QuietInv == asked = {} => Quiet

LEMMA QuietInit == Init => QuietInv
<1> SUFFICES ASSUME Init PROVE Quiet
  BY DEF QuietInv
<1> DEFINE c == Completion("recv", TRUE, "ack")
<1>1. c \in Good /\ c.op = "recv" /\ c.kind = "ack"
  BY DEF Completion, Good, Kinds
<1>2. /\ \A e \in Ends : /\ sq[e] = <<>> /\ wrq[e] = <<>> /\ at[e] = "user" /\ acks[e] = 0
                         /\ cq[e] = IF e = Client THEN <<c>> ELSE <<>>
                         /\ metadata[e] = IF e = Client THEN 1 ELSE 0
                         /\ taken[e] = IF e = Client THEN 0 ELSE 1
  BY DEF Init
<1>3. QuietType
  <2>1. cq = [e \in Ends |-> IF e = Client THEN <<c>> ELSE <<>>]
    BY DEF Init
  <2> HIDE DEF c
  <2>2. <<c>> \in Seq(Good) /\ <<>> \in Seq(Good)
    BY <1>1
  <2>3. cq \in [Ends -> Seq(Good)]
    BY <2>1, <2>2
  <2>4. wrq \in [Ends -> Seq(Received)]
    <3>1. <<>> \in Seq(Received)
      OBVIOUS
    <3> QED
      BY <3>1 DEF Init
  <2>5. sq \in [Ends -> Seq([kind : Kinds, arrived : BOOLEAN])]
    <3>1. <<>> \in Seq([kind : Kinds, arrived : BOOLEAN])
      OBVIOUS
    <3> QED
      BY <3>1 DEF Init
  <2> QED
    BY <2>3, <2>4, <2>5 DEF QuietType
<1>4. Got(<<c>>, "ack") = 1 /\ Got(<<c>>, "normal") = 0
  <2> HIDE DEF c
  <2>1. <<>> \in Seq(Good) /\ <<c>> = Append(<<>>, c)
    <3>1. <<>> \in Seq(Good)
      OBVIOUS
    <3>2. Append(<<>>, c) = <<>> \o <<c>> /\ <<c>> \in Seq(Good)
      BY <1>1, <3>1, OneBehind
    <3>3. \A s \in Seq(Good) : <<>> \o s = s
      OBVIOUS
    <3> QED
      BY <3>1, <3>2, <3>3
  <2>2. \A k : Got(<<c>>, k) = Got(<<>>, k) + One(c.op = "recv" /\ c.kind = k)
    <3>1. \A k : Got(Append(<<>>, c), k) = Got(<<>>, k) + One(c.op = "recv" /\ c.kind = k)
      BY <1>1, <2>1, GotAppend
    <3> QED
      BY <2>1, <3>1
  <2> QED
    BY <1>1, <2>2, GotEmpty DEF One
<1> HIDE DEF c
<1>5. \A e \in Ends : SendInv(e) /\ WaitInv(e)
  <2> TAKE e \in Ends
  <2>1. DOMAIN cq[e] \subseteq {1} /\ \A i \in DOMAIN cq[e] : cq[e][i] = c
    BY <1>2
  <2> QED
    BY <1>1, <1>2, <2>1 DEF SendInv, WaitInv, NoSend
<1>6. ASSUME NEW e \in Ends, NEW k \in {"normal", "ack"}
      PROVE  Arrived(Peer(e), k) = Shipped(e, k)
  <2>1. Peer(e) \in Ends /\ (Peer(e) = Client <=> e # Client)
    BY PeersPeer, PeerIsEnd, EndsAssumption
  <2>2. Shipped(e, k) = IF k = "normal" THEN metadata[e] ELSE taken[e]
    BY <1>2 DEF Shipped, Leaving, One
  <2>3. Arrived(Peer(e), k) = Got(cq[Peer(e)], k) + (IF k = "normal" THEN taken[Peer(e)] ELSE 0)
    <3>1. cq[Peer(e)] \in Seq(Good)
      BY <1>3, <2>1 DEF QuietType
    <3>2. Got(cq[Peer(e)], k) \in Nat /\ Got(wrq[Peer(e)], k) = 0
      BY <1>2, <2>1, <3>1, RowsFinite, GotEmpty
    <3> QED
      BY <1>2, <2>1, <3>2 DEF Arrived, One
  <2> QED
    BY <1>2, <1>4, <2>1, <2>2, <2>3, GotEmpty
<1> QED
  BY <1>3, <1>5, <1>6 DEF Quiet, CountInv

LEMMA QuietNext == IInv /\ QuietInv /\ [Next]_vars => QuietInv'
<1> SUFFICES ASSUME IInv, QuietInv, [Next]_vars, asked' = {} PROVE Quiet'
  BY DEF QuietInv
<1>1. CASE UNCHANGED vars
  <2>1. Quiet
    BY <1>1 DEF QuietInv, vars
  <2> QED
    BY <1>1, <2>1, QuietSame DEF vars, thread, wire, counts, queues, counters
<1>2. ASSUME NEW e \in Ends, First(e) \/ Closer(e) \/ QueuePair(e) \/ Crash(e) PROVE Quiet'
  <2>1. asked \subseteq asked'
    BY <1>2 DEF First, Send, Recv, Close, Enter, PostMessage, PollFirst, PollTry, PollEvent,
       PollDestroyed, ResolveNext, ResolveFails, ResolveEnds, TryLock, CloseMessage, Disconnect, Join,
       Undefined, RdmaDisconnect, Closer, CloserLock, CloserDrain, CloserDestroy,
       QueuePair, Arrive, SendCompletes, Unanswered, Flush, Others, CloserEmpty, Crash
  <2>2. Calm
    BY <2>1 DEF Calm, QuietInv
  <2>3. CASE First(e)
    BY <2>2, <2>3, QuietFirst
  <2>4. ~Closer(e)
    <3>1. closer[e] = "listen"
      BY <2>2, CalmFacts
    <3> QED
      BY <2>2, <3>1 DEF Calm, Closer, CloserLock, CloserDrain, CloserEmpty, CloserDestroy,
         Disconnected
  <2>5. CASE QueuePair(e)
    <3>1. ~Unanswered(e) /\ ~Flush(e)
      BY <2>2, CalmFacts, PeerIsEnd DEF Unanswered, Flush
    <3> QED
      BY <2>2, <2>5, <3>1, QuietReadArrives, QuietArrive, QuietSendCompletes DEF QueuePair
  <2>6. ~Crash(e)
    BY DEF Crash
  <2> QED
    BY <1>2, <2>3, <2>4, <2>5, <2>6
<1> QED
  BY <1>1, <1>2 DEF Next

LEMMA QuietAlways == Spec => []QuietInv
  BY QuietInit, QuietNext, SpecInv, PTL DEF Spec

\* Whoever disconnects first, and has not kept close_lock, loses nothing: what
\* the other end has read is every message whose send_ has returned 0 (the
\* loop of send_close_md until ack_counter reaches metadata_counter).
THEOREM ClosesGracefully == Spec => GracefulClose
<1> DEFINE A == \A e \in Ends :
                  at[e] = "disconnect" /\ at'[e] = "join" /\ asked = {} /\ lock[e] = "free" =>
                      taken[Peer(e)] = metadata[e]
<1>1. IInv /\ QuietInv => A
  <2> SUFFICES ASSUME IInv, QuietInv, NEW e \in Ends, at[e] = "disconnect", asked = {},
                      lock[e] = "free"
               PROVE  taken[Peer(e)] = metadata[e]
    OBVIOUS
  <2>1. Calm
    BY DEF Calm, QuietInv
  <2> DEFINE p == Peer(e)
  <2>2. p \in Ends /\ Peer(p) = e
    BY PeerIsEnd, PeersPeer
  <2> HIDE DEF p
  <2>3. /\ metadata[e] \in Nat /\ acks[e] \in Nat /\ taken[p] \in Nat
        /\ acks[e] >= metadata[e]
    BY <2>1, <2>2, CalmFacts DEF WaitInv
  <2>4. \A x \in Ends : \A k : Got(cq[x], k) \in Nat /\ Got(wrq[x], k) \in Nat /\ Leaving(x, k) \in Nat
    BY <2>1, CalmFacts, ReceivedIsGood, RowsFinite DEF Leaving, One
  <2>5. acks[e] <= taken[p]
    <3>1. Arrived(e, "ack") = Shipped(p, "ack")
      BY <2>1, <2>2 DEF Calm, Quiet, CountInv
    <3>2. One(at[p] = "ack") \in Nat
      BY DEF One
    <3> QED
      BY <2>2, <2>3, <2>4, <3>1, <3>2 DEF Arrived, Shipped
  <2>6. taken[p] <= metadata[e]
    <3>1. Arrived(p, "normal") = Shipped(e, "normal")
      BY <2>1 DEF Calm, Quiet, CountInv, p
    <3>2. Shipped(e, "normal") = metadata[e] - Leaving(e, "normal")
      BY <2>3, <2>4 DEF Shipped, One
    <3> DEFINE r == One(at[p] \in {"read", "reading"})
    <3>3. r \in Nat /\ Arrived(p, "normal")
                        = Got(cq[p], "normal") + Got(wrq[p], "normal") + (taken[p] + r)
      BY DEF One, Arrived
    <3> HIDE DEF r
    <3>4. Got(cq[p], "normal") \in Nat /\ Got(wrq[p], "normal") \in Nat
          /\ Leaving(e, "normal") \in Nat
      BY <2>2, <2>4
    <3>5. Got(cq[p], "normal") + Got(wrq[p], "normal") + (taken[p] + r)
            = metadata[e] - Leaving(e, "normal")
      BY <3>1, <3>2, <3>3
    <3>6. \A a, b, t, o, m, l \in Nat : a + b + (t + o) = m - l => t <= m
      OBVIOUS
    <3> QED
      BY <2>3, <3>3, <3>4, <3>5, <3>6
  <2>7. taken[p] = metadata[e]
    BY <2>3, <2>5, <2>6
  <2> QED
    BY <2>7 DEF p
<1> QED
  BY <1>1, SpecInv, QuietAlways, PTL DEF GracefulClose
=============================================================================
