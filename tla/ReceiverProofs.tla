--------------------------- MODULE ReceiverProofs ---------------------------
(***************************************************************************)
(* Theorems about Receiver for any number of connections, readers and      *)
(* frames: type correctness, no signal of the condition variable is        *)
(* missed, no frame is lost, doubled or moved, a message is cut only when  *)
(* its connection was closed, and the receiver is a Mailbox.               *)
(***************************************************************************)
EXTENDS Receiver, FiniteSetTheorems, TLAPS

\* The frame that recv_ fetches next from a connection.
Fetched(c, flag) == [from |-> c, n |-> Len(acked[c]) + 1, more |-> flag]

LEMMA FetchedType ==
    ASSUME TypeOK, NEW c \in Conns, NEW flag \in BOOLEAN, Len(acked[c]) < MaxFrames
    PROVE  Fetched(c, flag) \in Frame
<1>1. Len(acked[c]) \in Nat
  BY DEF TypeOK
<1>2. Len(acked[c]) + 1 \in 1..MaxFrames
  BY <1>1, MaxFramesAssumption
<1> QED
  BY <1>2 DEF Fetched, Frame

LEMMA TypeInit == Init => TypeOK
  BY DEF Init, TypeOK

LEMMA TypeNext == TypeOK /\ [Next]_vars => TypeOK'
<1> SUFFICES ASSUME TypeOK, [Next]_vars PROVE TypeOK'
  OBVIOUS
<1>1. CASE UNCHANGED vars
  BY <1>1 DEF TypeOK, vars, conn
<1>2. ASSUME NEW c \in Conns, Accept(c) PROVE TypeOK'
  BY <1>2 DEF TypeOK, Accept, conn
<1>3. ASSUME NEW c \in Conns, Close(c) PROVE TypeOK'
  BY <1>3 DEF TypeOK, Close
<1>4. ASSUME NEW c \in Conns, NEW flag \in BOOLEAN, Acknowledge(c, flag) PROVE TypeOK'
  <2>1. Fetched(c, flag) \in Frame
    BY <1>4, FetchedType DEF Acknowledge
  <2>2. /\ acked' = [acked EXCEPT ![c] = Append(acked[c], Fetched(c, flag))]
        /\ hand' = [hand EXCEPT ![c] = <<Fetched(c, flag)>>]
        /\ pc' = [pc EXCEPT ![c] = "acking"]
        /\ UNCHANGED <<msg, closed, sockq, more, recvq, reader, delivered>>
    BY <1>4 DEF Acknowledge, Fetched
  <2> QED
    BY <2>1, <2>2 DEF TypeOK
<1>5. ASSUME NEW c \in Conns, RecvNull(c) \/ Enter(c) \/ Stick(c) PROVE TypeOK'
  BY <1>5 DEF TypeOK, RecvNull, Enter, Stick, conn
<1>14. ASSUME NEW c \in Conns, RecvEnds(c) PROVE TypeOK'
  BY <1>14 DEF TypeOK, RecvEnds
<1>15. ASSUME NEW c \in Conns, Handled(c) PROVE TypeOK'
  BY <1>15 DEF TypeOK, Handled
<1>16. ASSUME NEW c \in Conns, Recv(c) PROVE TypeOK'
  <2>1. sockq[c] \in Seq(Frame) /\ sockq[c] # <<>>
    BY <1>16 DEF TypeOK, Recv
  <2>2. Head(sockq[c]) \in Frame /\ Tail(sockq[c]) \in Seq(Frame)
    BY <2>1
  <2> QED
    BY <1>16, <2>2 DEF TypeOK, Recv
<1>6. ASSUME NEW c \in Conns, KeepMore(c) PROVE TypeOK'
  BY <1>6 DEF TypeOK, KeepMore
<1>7. ASSUME NEW c \in Conns, AppendMessage(c) PROVE TypeOK'
  BY <1>7 DEF TypeOK, AppendMessage
<1>8. ASSUME NEW c \in Conns, AppendMore(c) PROVE TypeOK'
  BY <1>8 DEF TypeOK, AppendMore
<1>9. ASSUME NEW c \in Conns, AppendRest(c) PROVE TypeOK'
  BY <1>9 DEF TypeOK, AppendRest
<1>10. ASSUME NEW c \in Conns, Signal(c) PROVE TypeOK'
  BY <1>10 DEF TypeOK, Signal, Wake, conn
<1>11. ASSUME NEW r \in Readers, Check(r) PROVE TypeOK'
  BY <1>11 DEF TypeOK, Check, conn
<1>12. ASSUME NEW r \in Readers, SpuriousWakeup(r) PROVE TypeOK'
  BY <1>12 DEF TypeOK, SpuriousWakeup, conn
<1>13. ASSUME NEW r \in Readers, Pop(r) PROVE TypeOK'
  <2>1. recvq # <<>> => Head(recvq) \in Frame /\ Tail(recvq) \in Seq(Frame)
    BY DEF TypeOK
  <2> QED
    BY <1>13, <2>1 DEF TypeOK, Pop, conn
<1> QED
  BY <1>1, <1>2, <1>3, <1>4, <1>5, <1>6, <1>7, <1>8, <1>9, <1>10, <1>11,
     <1>12, <1>13, <1>14, <1>15, <1>16 DEF Next, Process, Read, RecvRefused, RecvFails

(***************************************************************************)
(* Every variable of the receiver keeps its type, whatever the connections *)
(* bring and whenever they close.                                          *)
(***************************************************************************)
THEOREM TypeCorrect == Spec => []TypeOK
<1> QED
  BY TypeInit, TypeNext, PTL DEF Spec

-----------------------------------------------------------------------------

Asleep == \A r \in Readers : reader[r] = "sleep"
Announced == \E c \in Conns : pc[c] \in {"signal", "closing2", "lastSignal"}

LEMMA SignalInit == Init => NoMissedSignal
  BY DEF Init, NoMissedSignal

(***************************************************************************)
(* A step that appends to the queue leaves its thread before its signal,   *)
(* the signal wakes a reader, and a reader falls asleep only on an empty   *)
(* queue.                                                                  *)
(***************************************************************************)
LEMMA SignalNext ==
    TypeOK /\ NoMissedSignal /\ [Next]_vars => NoMissedSignal'
<1> SUFFICES ASSUME TypeOK, NoMissedSignal, [Next]_vars
             PROVE  recvq' # <<>> /\ Asleep' => Announced'
  BY DEF NoMissedSignal, Asleep, Announced
<1>0. recvq # <<>> /\ Asleep => Announced
  BY DEF NoMissedSignal, Asleep, Announced
<1>1. CASE UNCHANGED vars
  BY <1>0, <1>1 DEF vars, Asleep, Announced
<1>2. ASSUME NEW c \in Conns,
             \/ Accept(c) \/ RecvNull(c) \/ Enter(c) \/ Handled(c) \/ Recv(c)
             \/ RecvEnds(c) \/ Stick(c) \/ KeepMore(c)
             \/ \E flag \in BOOLEAN : Acknowledge(c, flag)
      PROVE  recvq' # <<>> /\ Asleep' => Announced'
  <2>1. UNCHANGED <<recvq, reader>> /\ pc[c] \in {"none", "recv", "in", "acking", "got"}
    BY <1>2 DEF Accept, RecvNull, Enter, Handled, Recv, RecvEnds, Stick, KeepMore, Acknowledge
  <2>2. \A d \in Conns : d # c => pc'[d] = pc[d]
    BY <1>2 DEF TypeOK, Accept, RecvNull, Enter, Handled, Recv, RecvEnds, Stick, KeepMore,
                Acknowledge
  <2> QED
    BY <1>0, <2>1, <2>2 DEF Asleep, Announced
<1>3. ASSUME NEW c \in Conns, Close(c)
      PROVE  recvq' # <<>> /\ Asleep' => Announced'
  BY <1>0, <1>3 DEF Close, Asleep, Announced
<1>4. ASSUME NEW c \in Conns, AppendMessage(c) \/ AppendMore(c) \/ AppendRest(c)
      PROVE  recvq' # <<>> /\ Asleep' => Announced'
  <2>1. pc'[c] \in {"signal", "closing2", "lastSignal"}
    BY <1>4 DEF TypeOK, AppendMessage, AppendMore, AppendRest
  <2> QED
    BY <2>1 DEF Announced
<1>5. ASSUME NEW c \in Conns, Signal(c)
      PROVE  recvq' # <<>> /\ Asleep' => Announced'
  <2>1. ~Asleep'
    BY <1>5, ReadersAssumption DEF TypeOK, Signal, Wake, Asleep
  <2> QED
    BY <2>1
<1>6. ASSUME NEW r \in Readers, Check(r)
      PROVE  recvq' # <<>> /\ Asleep' => Announced'
  <2>1. recvq # <<>> => reader'[r] = "pop"
    BY <1>6 DEF TypeOK, Check
  <2>2. recvq' = recvq
    BY <1>6 DEF Check
  <2> QED
    BY <2>1, <2>2 DEF Asleep
<1>7. ASSUME NEW r \in Readers, SpuriousWakeup(r) \/ Pop(r)
      PROVE  recvq' # <<>> /\ Asleep' => Announced'
  <2>1. reader'[r] # "sleep"
    BY <1>7 DEF TypeOK, SpuriousWakeup, Pop
  <2> QED
    BY <2>1 DEF Asleep
<1> QED
  BY <1>1, <1>2, <1>3, <1>4, <1>5, <1>6, <1>7
     DEF Next, Process, Read, RecvRefused, RecvFails

(***************************************************************************)
(* Readers never all sleep over a queue that holds frames, unless a thread *)
(* is on its way to pthread_cond_signal: the `if` around the wait and the  *)
(* one signal for a message of several frames are enough.                  *)
(***************************************************************************)
THEOREM SignalsNotMissed == Spec => []NoMissedSignal
<1>1. TypeOK /\ NoMissedSignal /\ [Next]_vars => (TypeOK /\ NoMissedSignal)'
  BY TypeNext, SignalNext
<1>2. Init => TypeOK /\ NoMissedSignal
  BY TypeInit, SignalInit
<1> QED
  BY <1>1, <1>2, PTL DEF Spec

-----------------------------------------------------------------------------
(* The number of frames of a connection in a queue *)

Places(s, c) == {i \in DOMAIN s : s[i].from = c}

\* The rank of the i-th frame of s among those of c, if it is one of c.
Rank(s, c, i) == Number(SubSeq(s, 1, i), c)

\* Number is the number of these places.
LEMMA NumberIsPlaces == \A s, c : Number(s, c) = Cardinality(Places(s, c))
  BY DEF Number, Places

\* Moving a set of places does not change how many there are.
LEMMA Moved ==
    ASSUME NEW S \in SUBSET Nat, IsFiniteSet(S), NEW n \in Nat
    PROVE  /\ IsFiniteSet({i + n : i \in S})
           /\ Cardinality({i + n : i \in S}) = Cardinality(S)
<1> DEFINE T == {i + n : i \in S}
           f == [i \in S |-> i + n]
<1>1. f \in Bijection(S, T)
  BY DEF Bijection, Injection, Surjection, IsInjective
<1> QED
  BY <1>1, FS_Bijection DEF ExistsBijection

\* The places are finitely many.
LEMMA PlacesFinite ==
    ASSUME NEW s \in Seq(Frame), NEW c
    PROVE  /\ Places(s, c) \in SUBSET (1..Len(s))
           /\ IsFiniteSet(Places(s, c)) /\ Number(s, c) \in Nat
<1>1. Places(s, c) \in SUBSET (1..Len(s))
  BY DEF Places
<1>2. IsFiniteSet(Places(s, c))
  BY <1>1, FS_Interval, FS_Subset
<1> QED
  BY <1>1, <1>2, FS_CardinalityType, NumberIsPlaces

\* Nothing is in an empty queue.
LEMMA NumberEmpty == \A c : Number(<<>>, c) = 0
<1> TAKE c
<1>1. {i \in DOMAIN <<>> : <<>>[i].from = c} = {}
  OBVIOUS
<1> QED
  BY <1>1, FS_EmptySet DEF Number

\* The frames in two queues one behind the other.
LEMMA NumberConcat ==
    ASSUME NEW s \in Seq(Frame), NEW u \in Seq(Frame), NEW c
    PROVE  Number(s \o u, c) = Number(s, c) + Number(u, c)
<1> DEFINE n == Len(s)
           moved == {i + n : i \in Places(u, c)}
           w == s \o u
<1>1. n \in Nat /\ Places(u, c) \in SUBSET Nat /\ IsFiniteSet(Places(u, c))
  BY PlacesFinite
<1>2. IsFiniteSet(moved) /\ Cardinality(moved) = Number(u, c)
  <2> HIDE DEF n
  <2> QED
    BY <1>1, Moved, NumberIsPlaces
<1>3. /\ w \in Seq(Frame) /\ DOMAIN w = 1..(n + Len(u)) /\ Len(u) \in Nat
      /\ DOMAIN s = 1..n /\ DOMAIN u = 1..Len(u)
      /\ \A k \in 1..n : w[k] = s[k]
      /\ \A k \in 1..Len(u) : w[n + k] = u[k]
  OBVIOUS
<1> HIDE DEF n, w
<1>4. Places(w, c) = Places(s, c) \cup moved
  <2>1. ASSUME NEW k \in Places(w, c), k \notin Places(s, c) PROVE k \in moved
    <3>1. k \in 1..(n + Len(u)) /\ k \notin 1..n /\ w[k].from = c
      BY <1>3, <2>1 DEF Places
    <3>2. k - n \in 1..Len(u) /\ k = n + (k - n) /\ k = (k - n) + n
      BY <1>1, <1>3, <3>1
    <3>3. k - n \in Places(u, c)
      BY <1>3, <3>1, <3>2 DEF Places
    <3> QED
      BY <3>2, <3>3
  <2>2. ASSUME NEW k \in Places(s, c) PROVE k \in Places(w, c)
    BY <1>1, <1>3, <2>2 DEF Places
  <2>3. ASSUME NEW i \in Places(u, c) PROVE i + n \in Places(w, c)
    <3>1. i \in 1..Len(u) /\ u[i].from = c /\ i + n = n + i
      BY <1>1, <1>3 DEF Places
    <3> QED
      BY <1>1, <1>3, <3>1 DEF Places
  <2> QED
    BY <2>1, <2>2, <2>3
<1>5. Places(s, c) \cap moved = {}
  <2>1. \A i \in Places(u, c) : i + n \notin 1..n
    BY <1>1, <1>3 DEF Places
  <2> QED
    BY <1>3, <2>1 DEF Places
<1>6. IsFiniteSet(Places(s, c)) /\ Number(s, c) \in Nat /\ Number(u, c) \in Nat
  BY PlacesFinite
<1> HIDE DEF moved
<1>7. Cardinality(Places(w, c)) = Cardinality(Places(s, c)) + Cardinality(moved) - 0
  BY <1>2, <1>4, <1>5, <1>6, FS_Union, FS_EmptySet
<1>8. Number(w, c) = Number(s, c) + Number(u, c)
  BY <1>2, <1>6, <1>7, NumberIsPlaces
<1> QED
  BY <1>8 DEF w

\* A queue that holds frames of one connection only.
Own(u, c) == \A k \in DOMAIN u : u[k].from = c

LEMMA NumberOfOne ==
    ASSUME NEW u \in Seq(Frame), NEW c, Own(u, c)
    PROVE  Number(u, c) = Len(u) /\ \A d : d # c => Number(u, d) = 0
<1>0. \A k \in DOMAIN u : u[k].from = c
  BY DEF Own
<1>1. {k \in DOMAIN u : u[k].from = c} = 1..Len(u)
  BY <1>0
<1>2. \A d : d # c => {k \in DOMAIN u : u[k].from = d} = {}
  BY <1>0
<1>3. \A n \in Nat : Cardinality(1..n) = n
  <2> TAKE n \in Nat
  <2>1. Cardinality(1..n) = IF 1 > n THEN 0 ELSE n - 1 + 1
    BY FS_Interval
  <2> QED
    BY <2>1
<1>4. Cardinality(1..Len(u)) = Len(u)
  BY <1>3
<1> QED
  BY <1>1, <1>2, <1>4, FS_EmptySet DEF Number

\* The rank of a frame lies between 1 and the number of frames.
LEMMA RankRange ==
    ASSUME NEW s \in Seq(Frame), NEW c, NEW i \in DOMAIN s, s[i].from = c
    PROVE  Rank(s, c, i) \in 1..Number(s, c)
<1> DEFINE u == SubSeq(s, 1, i)
<1>1. u \in Seq(Frame) /\ DOMAIN u = 1..i /\ \A k \in 1..i : u[k] = s[k]
  OBVIOUS
<1>2. i \in 1..Len(s) /\ DOMAIN s = 1..Len(s)
  OBVIOUS
<1> HIDE DEF u
<1>3. i \in Places(u, c) /\ Places(u, c) \subseteq Places(s, c)
  BY <1>1, <1>2 DEF Places
<1>4. IsFiniteSet(Places(u, c)) /\ IsFiniteSet(Places(s, c))
  BY <1>1, PlacesFinite
<1>5. Number(u, c) =< Number(s, c) /\ Number(u, c) # 0
      /\ Number(u, c) \in Nat /\ Number(s, c) \in Nat
  BY <1>1, <1>3, <1>4, FS_Subset, FS_EmptySet, PlacesFinite, NumberIsPlaces
<1> QED
  BY <1>5 DEF Rank, u

\* A later frame of the connection has a higher rank.
LEMMA RankGrows ==
    ASSUME NEW s \in Seq(Frame), NEW c, NEW i \in DOMAIN s, NEW j \in DOMAIN s,
           i < j, s[j].from = c
    PROVE  Rank(s, c, i) < Rank(s, c, j)
<1> DEFINE u == SubSeq(s, 1, i)
           w == SubSeq(s, 1, j)
<1>1. /\ u \in Seq(Frame) /\ DOMAIN u = 1..i /\ \A k \in 1..i : u[k] = s[k]
      /\ w \in Seq(Frame) /\ DOMAIN w = 1..j /\ \A k \in 1..j : w[k] = s[k]
  OBVIOUS
<1>2. i \in Nat /\ j \in Nat /\ j \in 1..j /\ j \notin 1..i
  OBVIOUS
<1> HIDE DEF u, w
<1>3. Places(u, c) \subseteq Places(w, c) /\ j \in Places(w, c) /\ j \notin Places(u, c)
  BY <1>1, <1>2 DEF Places
<1>4. IsFiniteSet(Places(w, c))
  BY <1>1, PlacesFinite
<1>5. Number(u, c) =< Number(w, c) /\ Number(u, c) # Number(w, c)
      /\ Number(u, c) \in Nat /\ Number(w, c) \in Nat
  BY <1>1, <1>3, <1>4, FS_Subset, PlacesFinite, NumberIsPlaces
<1> QED
  BY <1>5 DEF Rank, u, w

\* The ranks when frames of one connection are added at the end.
LEMMA RankConcat ==
    ASSUME NEW s \in Seq(Frame), NEW q \in Seq(Frame), NEW x,
           Own(q, x)
    PROVE  /\ \A d : \A i \in DOMAIN s : Rank(s \o q, d, i) = Rank(s, d, i)
           /\ \A k \in DOMAIN q : Rank(s \o q, x, Len(s) + k) = Number(s, x) + k
<1>1. \A i \in DOMAIN s : SubSeq(s \o q, 1, i) = SubSeq(s, 1, i)
  OBVIOUS
<1>2. ASSUME NEW k \in DOMAIN q
      PROVE  Rank(s \o q, x, Len(s) + k) = Number(s, x) + k
  <2> DEFINE v == SubSeq(q, 1, k)
  <2>1. SubSeq(s \o q, 1, Len(s) + k) = s \o v
    <3> DEFINE n == Len(s)
               w == s \o q
               a == SubSeq(w, 1, n + k)
               b == s \o v
    <3>1. /\ n \in Nat /\ k \in 1..Len(q) /\ Len(q) \in Nat /\ Len(v) = k
          /\ w \in Seq(Frame) /\ Len(w) = n + Len(q)
      OBVIOUS
    <3>2. /\ \A i \in 1..n : w[i] = s[i] /\ b[i] = s[i]
          /\ \A i \in 1..k : w[n + i] = q[i] /\ b[n + i] = v[i] /\ v[i] = q[i]
      OBVIOUS
    <3>3. b \in Seq(Frame) /\ Len(b) = n + k
      OBVIOUS
    <3> HIDE DEF n, w, b, v
    <3>4. a \in Seq(Frame) /\ Len(a) = n + k /\ \A i \in 1..(n + k) : a[i] = w[i]
      BY <3>1
    <3> HIDE DEF a
    <3>5. ASSUME NEW i \in 1..(n + k) PROVE a[i] = b[i]
      <4>1. CASE i \in 1..n
        BY <3>2, <3>4, <4>1
      <4>2. CASE i \notin 1..n
        <5>1. i - n \in 1..k /\ i = n + (i - n)
          BY <3>1, <4>2
        <5> QED
          BY <3>2, <3>4, <5>1
      <4> QED
        BY <4>1, <4>2
    <3>6. a = b
      BY <3>3, <3>4, <3>5
    <3> QED
      BY <3>6 DEF a, b, n, w
  <2>2. v \in Seq(Frame) /\ Len(v) = k /\ Own(v, x)
    BY DEF Own
  <2> HIDE DEF v
  <2>3. Number(s \o v, x) = Number(s, x) + Number(v, x) /\ Number(v, x) = k
    BY <2>2, NumberConcat, NumberOfOne
  <2> QED
    BY <2>1, <2>3 DEF Rank
<1> QED
  BY <1>1, <1>2 DEF Rank

-----------------------------------------------------------------------------
(* The way of the frames *)

\* The frames of a connection are numbered as they arrive.
NumberedInv ==
    \A c \in Conns : \A k \in DOMAIN acked[c] :
        acked[c][k].from = c /\ acked[c][k].n = k

\* What recv_process has in hand, and what it left behind on its way out.
ThreadInv ==
    \A c \in Conns :
        /\ IF pc[c] = "got" THEN Len(msg[c]) = 1 ELSE msg[c] = <<>>
        /\ pc[c] \notin {"acking", "stuck"} => hand[c] = <<>>
        /\ pc[c] \in {"closing", "closing2"} => closed[c]
        /\ pc[c] = "closing2" => more[c] = <<>>

\* A reader that was given f may be given g next.
Turned(f, g) == ~f.more \/ closed[f.from] \/ g.from = f.from

\* The frames of a message stay together unless its connection is closed.
TurnInv ==
    /\ \A i \in DOMAIN Common :
          i + 1 \in DOMAIN Common => Turned(Common[i], Common[i + 1])
    /\ Common # <<>> =>
          LET f == Common[Len(Common)] IN ~f.more \/ closed[f.from]

IInv == TypeOK /\ FramesConserved /\ NumberedInv /\ ThreadInv /\ TurnInv

\* The part of FramesConserved about one connection.
ConservedAt(c) ==
    /\ Number(Common, c) + Len(Kept(c)) = Len(acked[c])
    /\ \A k \in DOMAIN Kept(c) : Kept(c)[k] = acked[c][Number(Common, c) + k]
    /\ \A i \in DOMAIN Common : Common[i].from = c =>
          Common[i] = acked[c][Rank(Common, c, i)]

LEMMA ConservedParts == FramesConserved <=> \A c \in Conns : ConservedAt(c)
  BY DEF FramesConserved, ConservedAt, Rank

\* The queues are queues of frames.
LEMMA QueueTypes ==
    ASSUME TypeOK, NEW c \in Conns
    PROVE  /\ Common \in Seq(Frame) /\ Kept(c) \in Seq(Frame)
           /\ more[c] \in Seq(Frame) /\ msg[c] \in Seq(Frame) /\ sockq[c] \in Seq(Frame)
           /\ hand[c] \in Seq(Frame)
           /\ acked[c] \in Seq(Frame) /\ recvq \in Seq(Frame) /\ delivered \in Seq(Frame)
<1>1. /\ more[c] \in Seq(Frame) /\ msg[c] \in Seq(Frame) /\ sockq[c] \in Seq(Frame)
      /\ hand[c] \in Seq(Frame)
      /\ acked[c] \in Seq(Frame) /\ recvq \in Seq(Frame) /\ delivered \in Seq(Frame)
  BY DEF TypeOK
<1> QED
  BY <1>1 DEF Common, Kept

\* How queues are put together.
LEMMA Queues ==
    /\ \A s, u, v \in Seq(Frame) : s \o (u \o v) = (s \o u) \o v
    /\ \A s \in Seq(Frame) : s \o <<>> = s /\ <<>> \o s = s
    /\ \A s \in Seq(Frame) : s # <<>> => <<Head(s)>> \o Tail(s) = s
    /\ \A s, u \in Seq(Frame) : s \o u \in Seq(Frame)
<1>1. \A s, u, v \in Seq(Frame) : s \o (u \o v) = (s \o u) \o v
  OBVIOUS
<1>2. \A s \in Seq(Frame) : s \o <<>> = s /\ <<>> \o s = s
  OBVIOUS
<1>3. \A s \in Seq(Frame) : s # <<>> => <<Head(s)>> \o Tail(s) = s
  OBVIOUS
<1>4. \A s, u \in Seq(Frame) : s \o u \in Seq(Frame)
  OBVIOUS
<1> QED
  BY <1>1, <1>2, <1>3, <1>4

LEMMA Concat ==
    ASSUME NEW s \in Seq(Frame), NEW u \in Seq(Frame)
    PROVE  /\ Len(s) \in Nat /\ Len(u) \in Nat /\ Len(s \o u) = Len(s) + Len(u)
           /\ DOMAIN s = 1..Len(s) /\ DOMAIN (s \o u) = 1..(Len(s) + Len(u))
           /\ \A i \in 1..Len(s) : (s \o u)[i] = s[i]
           /\ \A i \in 1..Len(u) : (s \o u)[Len(s) + i] = u[i]
  OBVIOUS

LEMMA Associates ==
    ASSUME NEW s \in Seq(Frame), NEW u \in Seq(Frame), NEW v \in Seq(Frame)
    PROVE  s \o (u \o v) = (s \o u) \o v
  OBVIOUS

\* The frames a connection still keeps are its own.
LEMMA KeptOwn ==
    ASSUME IInv, NEW c \in Conns
    PROVE  \A k \in DOMAIN Kept(c) : Kept(c)[k].from = c
<1> TAKE k \in DOMAIN Kept(c)
<1>1. ConservedAt(c)
  BY ConservedParts DEF IInv
<1>2. Common \in Seq(Frame) /\ Kept(c) \in Seq(Frame) /\ acked[c] \in Seq(Frame)
  BY QueueTypes DEF IInv
<1>3. Number(Common, c) \in Nat
  BY <1>2, PlacesFinite
<1>4. k \in 1..Len(Kept(c)) /\ Len(Kept(c)) \in Nat
  BY <1>2
<1>5. Number(Common, c) + k \in 1..Len(acked[c])
  BY <1>1, <1>3, <1>4 DEF ConservedAt
<1>6. Number(Common, c) + k \in DOMAIN acked[c]
  BY <1>2, <1>5
<1>7. Kept(c)[k] = acked[c][Number(Common, c) + k]
  BY <1>1 DEF ConservedAt
<1> QED
  BY <1>6, <1>7 DEF IInv, NumberedInv

\* A connection appends the first frames it keeps to the common queue.
LEMMA Appended ==
    ASSUME IInv, NEW c \in Conns, NEW u \in Seq(Frame), NEW v \in Seq(Frame),
           Kept(c) = u \o v, Kept(c)' = v, Common' = Common \o u,
           \A d \in Conns : d # c => Kept(d)' = Kept(d),
           acked' = acked, closed' = closed,
           closed[c] \/ u = <<>> \/ ~u[Len(u)].more
    PROVE  FramesConserved' /\ TurnInv'
<1>1. Common \in Seq(Frame) /\ Kept(c) \in Seq(Frame) /\ acked[c] \in Seq(Frame)
  BY QueueTypes DEF IInv
<1> DEFINE n == Len(Common)
           l == Len(u)
           w == Common \o u
<1>2. /\ n \in Nat /\ l \in Nat /\ Len(v) \in Nat /\ Len(Kept(c)) = l + Len(v)
      /\ DOMAIN Common = 1..n /\ DOMAIN u = 1..l /\ DOMAIN w = 1..(n + l)
      /\ w \in Seq(Frame) /\ Len(w) = n + l
      /\ \A i \in 1..n : w[i] = Common[i]
      /\ \A i \in 1..l : w[n + i] = u[i]
      /\ \A i \in 1..l : i \in DOMAIN Kept(c) /\ Kept(c)[i] = u[i]
      /\ \A i \in DOMAIN v : i \in Nat /\ l + i \in DOMAIN Kept(c) /\ Kept(c)[l + i] = v[i]
  BY <1>1
<1>3. (\A k \in DOMAIN u : u[k].from = c) /\ Own(u, c)
  BY <1>2, KeptOwn DEF Own
<1>4. /\ \A d : \A i \in DOMAIN Common : Rank(w, d, i) = Rank(Common, d, i)
      /\ \A k \in DOMAIN u : Rank(w, c, n + k) = Number(Common, c) + k
  <2> HIDE DEF w, n
  <2> HIDE DEF l
  <2>1. \A d : \A i \in DOMAIN Common : Rank(Common \o u, d, i) = Rank(Common, d, i)
    BY <1>1, <1>3, RankConcat
  <2>2. \A k \in DOMAIN u : Rank(Common \o u, c, Len(Common) + k) = Number(Common, c) + k
    BY <1>1, <1>3, RankConcat
  <2> QED
    BY <2>1, <2>2, Zenon DEF w, n
<1>5. /\ Number(w, c) = Number(Common, c) + l
      /\ \A d : d # c => Number(w, d) = Number(Common, d)
      /\ Number(Common, c) \in Nat
  <2>1. \A d : Number(w, d) = Number(Common, d) + Number(u, d)
    BY <1>1, NumberConcat
  <2>2. Number(u, c) = l /\ \A d : d # c => Number(u, d) = 0
    BY <1>3, NumberOfOne
  <2>3. \A d : Number(Common, d) \in Nat
    BY <1>1, PlacesFinite
  <2> HIDE DEF w, l
  <2>4. \A d : d # c => Number(w, d) = Number(Common, d)
    <3> TAKE d
    <3> HAVE d # c
    <3>1. Number(w, d) = Number(Common, d) + 0
      BY <2>1, <2>2
    <3> QED
      BY <2>3, <3>1
  <2> QED
    BY <2>1, <2>2, <2>3, <2>4
<1> HIDE DEF n, l, w
<1>6. \A d \in Conns : ConservedAt(d)
  BY ConservedParts DEF IInv
\* The places of the frames of a connection in the longer queue.
<1>7. ASSUME NEW i \in DOMAIN w
      PROVE  \/ i \in DOMAIN Common /\ w[i] = Common[i]
             \/ \E k \in DOMAIN u : i = n + k /\ w[i] = u[k]
  <2>1. CASE i \in 1..n
    BY <1>2, <2>1
  <2>2. CASE i \notin 1..n
    <3>1. i - n \in 1..l /\ i = n + (i - n)
      BY <1>2, <2>2
    <3> QED
      BY <1>2, <3>1
  <2> QED
    BY <2>1, <2>2
<1>8. ConservedAt(c)'
  <2>1. Number(w, c) + Len(v) = Len(acked[c])
    <3>1. Number(Common, c) + Len(Kept(c)) = Len(acked[c])
      BY <1>6 DEF ConservedAt
    <3>2. Number(Common, c) + (l + Len(v)) = (Number(Common, c) + l) + Len(v)
      BY <1>2, <1>5
    <3> QED
      BY <1>2, <1>5, <3>1, <3>2
  <2>2. ASSUME NEW k \in DOMAIN v PROVE v[k] = acked[c][Number(w, c) + k]
    <3>1. Kept(c)[l + k] = acked[c][Number(Common, c) + (l + k)]
      BY <1>2, <1>6 DEF ConservedAt
    <3>2. Number(Common, c) + (l + k) = Number(w, c) + k
      <4>1. k \in Nat
        BY <1>2
      <4> QED
        BY <1>2, <1>5, <4>1
    <3> QED
      BY <1>2, <3>1, <3>2
  <2>3. ASSUME NEW i \in DOMAIN w, w[i].from = c PROVE w[i] = acked[c][Rank(w, c, i)]
    <3>1. CASE i \in DOMAIN Common /\ w[i] = Common[i]
      BY <1>4, <1>6, <2>3, <3>1 DEF ConservedAt
    <3>2. CASE \E k \in DOMAIN u : i = n + k /\ w[i] = u[k]
      <4>1. PICK k \in DOMAIN u : i = n + k /\ w[i] = u[k]
        BY <3>2
      <4>2. Kept(c)[k] = u[k] /\ k \in DOMAIN Kept(c)
        BY <1>2
      <4>3. Kept(c)[k] = acked[c][Number(Common, c) + k]
        BY <1>6, <4>2 DEF ConservedAt
      <4> QED
        BY <1>4, <4>1, <4>2, <4>3
    <3> QED
      BY <1>7, <3>1, <3>2
  <2> QED
    BY <2>1, <2>2, <2>3 DEF ConservedAt, Rank, w
<1>9. ASSUME NEW d \in Conns, d # c PROVE ConservedAt(d)'
  <2>1. ASSUME NEW i \in DOMAIN w, w[i].from = d PROVE w[i] = acked[d][Rank(w, d, i)]
    <3>1. i \in DOMAIN Common /\ w[i] = Common[i]
      BY <1>3, <1>7, <1>9, <2>1
    <3> QED
      BY <1>4, <1>6, <2>1, <3>1 DEF ConservedAt
  <2>2. Common' = w /\ Kept(d)' = Kept(d) /\ Number(w, d) = Number(Common, d)
    BY <1>5, <1>9 DEF w
  <2> QED
    BY <1>6, <2>1, <2>2 DEF ConservedAt, Rank
<1>10. TurnInv'
  <2>1. ASSUME NEW i \in DOMAIN w, i + 1 \in DOMAIN w PROVE Turned(w[i], w[i + 1])
    <3>1. CASE i \in 1..n /\ i + 1 \in 1..n
      BY <1>2, <3>1 DEF IInv, TurnInv
    <3>2. CASE i = n /\ i \in 1..n
      BY <1>1, <1>2, <3>2 DEF IInv, TurnInv, Turned, n
    <3>3. CASE i \notin 1..n
      <4>1. \E k \in DOMAIN u : i = n + k /\ w[i] = u[k]
        BY <1>2, <1>7, <3>3
      <4>2. i + 1 \notin 1..n
        BY <1>2, <2>1, <3>3
      <4>3. \E k \in DOMAIN u : i + 1 = n + k /\ w[i + 1] = u[k]
        BY <1>2, <1>7, <2>1, <4>2
      <4>4. w[i].from = c /\ w[i + 1].from = c
        BY <1>3, <4>1, <4>3
      <4> QED
        BY <4>4 DEF Turned
    <3> QED
      BY <1>2, <2>1, <3>1, <3>2, <3>3
  <2>2. ASSUME w # <<>> PROVE ~w[n + l].more \/ closed[w[n + l].from]
    <3>1. CASE l = 0
      <4>1. n + l = n /\ n \in 1..n /\ Common # <<>>
        BY <1>2, <2>2, <3>1
      <4> QED
        BY <1>2, <4>1 DEF IInv, TurnInv, n
    <3>2. CASE l # 0
      <4>1. l \in 1..l
        BY <1>2, <3>2
      <4>2. w[n + l] = u[l] /\ u[l].from = c
        BY <1>2, <1>3, <4>1
      <4>3. u # <<>>
        BY <3>2 DEF l
      <4>4. closed[c] \/ ~u[l].more
        BY <4>3 DEF l
      <4> QED
        BY <4>2, <4>4
    <3> QED
      BY <3>1, <3>2
  <2> QED
    BY <1>2, <2>1, <2>2 DEF TurnInv, Turned, w
<1> QED
  BY <1>8, <1>9, <1>10 DEF FramesConserved, ConservedAt, Rank

\* New frames arrive behind those a connection keeps.
LEMMA Arrived ==
    ASSUME IInv, TypeOK', NEW c \in Conns, NEW u \in Seq(Frame),
           acked' = [acked EXCEPT ![c] = acked[c] \o u],
           Kept(c)' = Kept(c) \o u, \A d \in Conns : d # c => Kept(d)' = Kept(d),
           Common' = Common
    PROVE  FramesConserved'
<1>0. Common \in Seq(Frame) /\ Kept(c) \in Seq(Frame) /\ acked[c] \in Seq(Frame)
  BY QueueTypes DEF IInv
<1>1. acked'[c] = acked[c] \o u /\ \A d \in Conns : d # c => acked'[d] = acked[d]
  BY DEF IInv, TypeOK
<1>2. \A d \in Conns : ConservedAt(d)
  BY ConservedParts DEF IInv
<1>3. \A d \in Conns : d # c => ConservedAt(d)'
  BY <1>1, <1>2 DEF ConservedAt, Rank
<1> DEFINE a == acked[c]
           k0 == Kept(c)
           n == Number(Common, c)
<1> DEFINE au == a \o u
           ku == k0 \o u
           la == Len(a)
           lk == Len(k0)
           lu == Len(u)
<1>4. /\ la \in Nat /\ lk \in Nat /\ lu \in Nat /\ Len(au) = la + lu /\ Len(ku) = lk + lu
      /\ DOMAIN k0 = 1..lk /\ DOMAIN ku = 1..(lk + lu)
      /\ \A i \in 1..la : au[i] = a[i]
      /\ \A i \in 1..lu : au[la + i] = u[i]
      /\ \A i \in 1..lk : ku[i] = k0[i]
      /\ \A i \in 1..lu : ku[lk + i] = u[i]
  <2>1. a \in Seq(Frame) /\ k0 \in Seq(Frame)
    BY <1>0
  <2> HIDE DEF a, k0
  <2> QED
    BY <2>1, Concat
<1>5. n \in Nat /\ n + lk = la
  BY <1>0, <1>2, PlacesFinite DEF ConservedAt
<1>6. \A i \in DOMAIN k0 : k0[i] = a[n + i]
  BY <1>2 DEF ConservedAt
<1>7. \A i \in DOMAIN Common : Common[i].from = c =>
        Common[i] = a[Rank(Common, c, i)] /\ Rank(Common, c, i) \in 1..n
  BY <1>0, <1>2, RankRange DEF ConservedAt
<1> HIDE DEF a, k0, n, au, ku, la, lk, lu
<1>8. n + Len(ku) = Len(au)
  BY <1>4, <1>5
<1>9. ASSUME NEW i \in DOMAIN ku PROVE ku[i] = au[n + i]
  <2>1. CASE i \in 1..lk
    <3>1. n + i \in 1..la
      BY <1>4, <1>5, <2>1
    <3> QED
      BY <1>4, <1>6, <2>1, <3>1
  <2>2. CASE i \notin 1..lk
    <3>1. i \in 1..(lk + lu)
      BY <1>4
    <3>2. i - lk \in 1..lu /\ i = lk + (i - lk)
      BY <1>4, <2>2, <3>1
    <3>3. n + i = la + (i - lk)
      <4>1. n \in Nat /\ lk \in Nat /\ la \in Nat /\ n + lk = la
        BY <1>4, <1>5
      <4>2. i \in Int
        BY <3>1
      <4>3. \A x, y \in Nat, k \in Int : x + k = (x + y) + (k - y)
        OBVIOUS
      <4> QED
        BY <4>1, <4>2, <4>3
    <3> QED
      BY <1>4, <3>2, <3>3
  <2> QED
    BY <2>1, <2>2
<1>10. ASSUME NEW i \in DOMAIN Common, Common[i].from = c
       PROVE  Common[i] = au[Rank(Common, c, i)]
  <2>1. Rank(Common, c, i) \in 1..la
    BY <1>4, <1>5, <1>7, <1>10
  <2> QED
    BY <1>4, <1>7, <1>10, <2>1
<1>11. ConservedAt(c)'
  <2>1. acked'[c] = au /\ Kept(c)' = ku
    BY <1>1 DEF a, au, k0, ku
  <2>2. n = Number(Common, c)'
    BY DEF n, Number
  <2> QED
    BY <1>8, <1>9, <1>10, <2>1, <2>2 DEF ConservedAt, Rank
<1> QED
  BY <1>3, <1>11 DEF FramesConserved, ConservedAt, Rank

\* A step that moves no frame.
LEMMA Unmoved ==
    ASSUME FramesConserved, TurnInv, Common' = Common, acked' = acked,
           \A c \in Conns : Kept(c)' = Kept(c),
           \A c \in Conns : closed[c] => closed'[c],
           TypeOK
    PROVE  FramesConserved' /\ TurnInv'
<1>1. FramesConserved'
  BY DEF FramesConserved
<1>2. \A i \in DOMAIN Common : Common[i].from \in Conns
  <2>1. \A f \in Frame : f.from \in Conns
    BY DEF Frame
  <2>2. Common \in Seq(Frame)
    BY DEF TypeOK, Common
  <2> QED
    BY <2>1, <2>2
<1>3. Common # <<>> => Len(Common) \in DOMAIN Common
  BY DEF Common, TypeOK
<1>4. TurnInv'
  BY <1>2, <1>3 DEF TurnInv, Turned
<1> QED
  BY <1>1, <1>4

\* A reader takes the next frame of the common queue.
LEMMA CommonPop ==
    ASSUME TypeOK, recvq # <<>>, delivered' = Append(delivered, Head(recvq)),
           recvq' = Tail(recvq)
    PROVE  Common' = Common
<1>1. ASSUME NEW s \in Seq(Frame), NEW u \in Seq(Frame), u # <<>>
      PROVE  Append(s, Head(u)) \o Tail(u) = s \o u
  BY <1>1
<1> QED
  BY <1>1 DEF TypeOK, Common

LEMMA QueueInit == Init => FramesConserved /\ NumberedInv /\ ThreadInv /\ TurnInv
<1> SUFFICES ASSUME Init PROVE FramesConserved /\ NumberedInv /\ ThreadInv /\ TurnInv
  OBVIOUS
<1>1. /\ Common = <<>>
      /\ \A c \in Conns : Kept(c) = <<>> /\ acked[c] = <<>> /\ msg[c] = <<>> /\ pc[c] = "none"
                             /\ hand[c] = <<>>
  BY DEF Init, Common, Kept
<1>2. \A c : Number(<<>>, c) = 0
  BY NumberEmpty
<1>3. FramesConserved
  BY <1>1, <1>2 DEF FramesConserved
<1>4. NumberedInv /\ ThreadInv /\ TurnInv
  BY <1>1 DEF NumberedInv, ThreadInv, TurnInv
<1> QED
  BY <1>3, <1>4

LEMMA QueueNext == IInv /\ TypeOK' /\ [Next]_vars => IInv'
<1> SUFFICES ASSUME IInv, TypeOK', [Next]_vars
             PROVE  FramesConserved' /\ NumberedInv' /\ ThreadInv' /\ TurnInv'
  BY DEF IInv
<1>0. TypeOK /\ FramesConserved /\ NumberedInv /\ ThreadInv /\ TurnInv
  BY DEF IInv
<1>1. ASSUME UNCHANGED <<pc, conn, recvq, delivered>>
      PROVE  FramesConserved' /\ NumberedInv' /\ ThreadInv' /\ TurnInv'
  <2>1. /\ Common' = Common /\ acked' = acked /\ closed' = closed /\ msg' = msg /\ more' = more
        /\ hand' = hand /\ \A c \in Conns : Kept(c)' = Kept(c)
    BY <1>1 DEF Common, Kept, conn
  <2>2. FramesConserved' /\ TurnInv'
    BY <1>0, <2>1, Unmoved
  <2> QED
    BY <1>0, <1>1, <2>1, <2>2 DEF NumberedInv, ThreadInv
<1>2. ASSUME NEW c \in Conns,
             Accept(c) \/ RecvNull(c) \/ Enter(c) \/ Stick(c) \/ Signal(c)
      PROVE  FramesConserved' /\ NumberedInv' /\ ThreadInv' /\ TurnInv'
  <2>1. UNCHANGED <<conn, recvq, delivered>>
    BY <1>2 DEF Accept, RecvNull, Enter, Stick, Signal
  <2>2. /\ Common' = Common /\ acked' = acked /\ closed' = closed /\ msg' = msg /\ more' = more
        /\ hand' = hand /\ \A d \in Conns : Kept(d)' = Kept(d)
    BY <2>1 DEF Common, Kept, conn
  <2>3. FramesConserved' /\ TurnInv'
    BY <1>0, <2>2, Unmoved
  <2>4. ThreadInv'
    <3>1. /\ pc[c] \notin {"got", "closing", "closing2"}
          /\ pc'[c] \notin {"got", "closing2", "acking"}
          /\ pc'[c] # "stuck" => pc[c] \notin {"acking", "stuck"}
          /\ pc'[c] = "closing" => closed[c]
          /\ \A d \in Conns : d # c => pc'[d] = pc[d]
      BY <1>0, <1>2 DEF TypeOK, Accept, RecvNull, Enter, Stick, Signal
    <3>2. ASSUME NEW d \in Conns, d # c
          PROVE  /\ IF pc'[d] = "got" THEN Len(msg'[d]) = 1 ELSE msg'[d] = <<>>
                 /\ pc'[d] \notin {"acking", "stuck"} => hand'[d] = <<>>
                 /\ pc'[d] \in {"closing", "closing2"} => closed'[d]
                 /\ pc'[d] = "closing2" => more'[d] = <<>>
      BY <1>0, <2>2, <3>1, <3>2 DEF ThreadInv
    <3>3. /\ IF pc'[c] = "got" THEN Len(msg'[c]) = 1 ELSE msg'[c] = <<>>
          /\ pc'[c] \notin {"acking", "stuck"} => hand'[c] = <<>>
          /\ pc'[c] \in {"closing", "closing2"} => closed'[c]
          /\ pc'[c] = "closing2" => more'[c] = <<>>
      BY <1>0, <2>2, <3>1 DEF ThreadInv
    <3> QED
      BY <3>2, <3>3 DEF ThreadInv
  <2> QED
    BY <1>0, <2>2, <2>3, <2>4 DEF NumberedInv
<1>3. ASSUME NEW c \in Conns, Close(c)
      PROVE  FramesConserved' /\ NumberedInv' /\ ThreadInv' /\ TurnInv'
  <2>1. /\ closed' = [closed EXCEPT ![c] = TRUE]
        /\ UNCHANGED <<pc, msg, hand, sockq, more, acked, recvq, delivered>>
    BY <1>3 DEF Close
  <2>2. /\ Common' = Common /\ \A d \in Conns : Kept(d)' = Kept(d)
        /\ \A d \in Conns : closed[d] => closed'[d]
    BY <1>0, <2>1 DEF Common, Kept, TypeOK
  <2>3. FramesConserved' /\ TurnInv'
    BY <1>0, <2>1, <2>2, Unmoved
  <2> QED
    BY <1>0, <2>1, <2>2, <2>3 DEF NumberedInv, ThreadInv
<1>4. ASSUME NEW c \in Conns, NEW flag \in BOOLEAN, Acknowledge(c, flag)
      PROVE  FramesConserved' /\ NumberedInv' /\ ThreadInv' /\ TurnInv'
  <2> DEFINE f == Fetched(c, flag)
  <2>1. f \in Frame /\ f.from = c /\ f.n = Len(acked[c]) + 1
    BY <1>0, <1>4, FetchedType DEF Acknowledge, Fetched
  <2>2. /\ pc[c] = "in" /\ UNCHANGED <<msg, closed, sockq, more, recvq, delivered>>
        /\ acked' = [acked EXCEPT ![c] = Append(acked[c], f)]
        /\ hand' = [hand EXCEPT ![c] = <<f>>]
        /\ pc' = [pc EXCEPT ![c] = "acking"]
    BY <1>4 DEF Acknowledge, Fetched
  <2> HIDE DEF f
  <2>3. /\ acked[c] \in Seq(Frame) /\ hand[c] = <<>> /\ <<f>> \in Seq(Frame)
        /\ Append(acked[c], f) = acked[c] \o <<f>>
        /\ hand'[c] = <<f>> /\ acked'[c] = Append(acked[c], f)
    <3>1. acked[c] \in Seq(Frame) /\ hand[c] = <<>>
      BY <1>0, <2>2 DEF TypeOK, ThreadInv
    <3>2. hand'[c] = <<f>> /\ acked'[c] = Append(acked[c], f)
      BY <1>0, <2>2 DEF TypeOK
    <3>3. <<f>> \in Seq(Frame) /\ Append(acked[c], f) = acked[c] \o <<f>>
      BY <2>1, <3>1
    <3> QED
      BY <3>1, <3>2, <3>3
  <2>4. acked' = [acked EXCEPT ![c] = acked[c] \o <<f>>]
    BY <2>2, <2>3
  <2>5. Kept(c)' = Kept(c) \o <<f>>
    <3>1. more[c] \in Seq(Frame) /\ msg[c] \in Seq(Frame) /\ sockq[c] \in Seq(Frame)
      BY <1>0, QueueTypes
    <3> DEFINE k == (more[c] \o msg[c]) \o sockq[c]
    <3>2. k \in Seq(Frame)
      BY <3>1, Queues
    <3>3. Kept(c) = k \o <<>> /\ Kept(c)' = k \o <<f>>
      BY <2>2, <2>3 DEF Kept
    <3> HIDE DEF k
    <3>4. k \o <<>> = k
      BY <3>2, Queues
    <3> QED
      BY <3>3, <3>4
  <2>6. \A d \in Conns : d # c => Kept(d)' = Kept(d)
    BY <1>0, <2>2 DEF TypeOK, Kept
  <2>7. Common' = Common
    BY <2>2 DEF Common
  <2>8. FramesConserved'
    BY <2>3, <2>4, <2>5, <2>6, <2>7, Arrived
  <2>9. TurnInv'
    BY <1>0, <2>2, <2>7 DEF TurnInv, Turned
  <2>10. NumberedInv'
    <3> SUFFICES ASSUME NEW d \in Conns, NEW k \in DOMAIN acked'[d]
                 PROVE  acked'[d][k].from = d /\ acked'[d][k].n = k
      BY DEF NumberedInv
    <3>1. CASE d # c
      BY <1>0, <2>2, <3>1 DEF TypeOK, NumberedInv
    <3>2. CASE d = c
      <4>1. acked'[d] = Append(acked[c], f)
        BY <2>3, <3>2
      <4>2. CASE k = Len(acked[c]) + 1
        BY <2>1, <2>3, <3>2, <4>1, <4>2
      <4>3. CASE k # Len(acked[c]) + 1
        <5>1. k \in DOMAIN acked[c] /\ Append(acked[c], f)[k] = acked[c][k]
          BY <2>3, <4>1, <4>3
        <5> QED
          BY <1>0, <3>2, <4>1, <5>1 DEF NumberedInv
      <4> QED
        BY <4>2, <4>3
    <3> QED
      BY <3>1, <3>2
  <2>11. ThreadInv'
    BY <1>0, <2>2 DEF TypeOK, ThreadInv
  <2> QED
    BY <2>8, <2>9, <2>10, <2>11
<1>12. ASSUME NEW c \in Conns, Handled(c)
       PROVE  FramesConserved' /\ NumberedInv' /\ ThreadInv' /\ TurnInv'
  <2>1. /\ pc[c] = "acking" /\ UNCHANGED <<msg, closed, more, acked, recvq, delivered>>
        /\ sockq' = [sockq EXCEPT ![c] = sockq[c] \o hand[c]]
        /\ hand' = [hand EXCEPT ![c] = <<>>]
        /\ pc' = [pc EXCEPT ![c] = "in"]
    BY <1>12 DEF Handled
  <2>2. /\ more[c] \in Seq(Frame) /\ msg[c] \in Seq(Frame) /\ sockq[c] \in Seq(Frame)
        /\ hand[c] \in Seq(Frame) /\ sockq'[c] = sockq[c] \o hand[c] /\ hand'[c] = <<>>
    BY <1>0, <2>1 DEF TypeOK
  <2>3. Kept(c)' = Kept(c)
    <3> DEFINE k == more[c] \o msg[c]
    <3>1. k \in Seq(Frame)
      BY <2>2, Queues
    <3>2. Kept(c) = (k \o sockq[c]) \o hand[c]
          /\ Kept(c)' = (k \o (sockq[c] \o hand[c])) \o <<>>
      BY <2>1, <2>2 DEF Kept
    <3> HIDE DEF k
    <3>3. k \o (sockq[c] \o hand[c]) = (k \o sockq[c]) \o hand[c]
      BY <2>2, <3>1, Associates
    <3>4. k \o (sockq[c] \o hand[c]) \in Seq(Frame)
      BY <2>2, <3>1, Queues
    <3>5. (k \o (sockq[c] \o hand[c])) \o <<>> = k \o (sockq[c] \o hand[c])
      BY <3>4, Queues
    <3> QED
      BY <3>2, <3>3, <3>5
  <2>4. \A d \in Conns : d # c => Kept(d)' = Kept(d)
    BY <1>0, <2>1 DEF TypeOK, Kept
  <2>5. Common' = Common
    BY <2>1 DEF Common
  <2>6. FramesConserved' /\ TurnInv'
    BY <1>0, <2>1, <2>3, <2>4, <2>5, Unmoved
  <2>7. ThreadInv'
    BY <1>0, <2>1 DEF TypeOK, ThreadInv
  <2> QED
    BY <1>0, <2>1, <2>6, <2>7 DEF NumberedInv
<1>13. ASSUME NEW c \in Conns, Recv(c)
       PROVE  FramesConserved' /\ NumberedInv' /\ ThreadInv' /\ TurnInv'
  <2>1. /\ pc[c] = "in" /\ sockq[c] # <<>>
        /\ UNCHANGED <<closed, hand, more, acked, recvq, delivered>>
        /\ msg' = [msg EXCEPT ![c] = <<Head(sockq[c])>>]
        /\ sockq' = [sockq EXCEPT ![c] = Tail(sockq[c])]
        /\ pc' = [pc EXCEPT ![c] = "got"]
    BY <1>13 DEF Recv
  <2>2. /\ more[c] \in Seq(Frame) /\ sockq[c] \in Seq(Frame) /\ hand[c] \in Seq(Frame)
        /\ msg[c] = <<>> /\ msg'[c] = <<Head(sockq[c])>> /\ sockq'[c] = Tail(sockq[c])
    BY <1>0, <2>1 DEF TypeOK, ThreadInv
  <2>3. Kept(c)' = Kept(c)
    <3>1. ASSUME NEW s \in Seq(Frame), NEW q \in Seq(Frame), q # <<>>
          PROVE  (s \o <<Head(q)>>) \o Tail(q) = (s \o <<>>) \o q
      BY <3>1
    <3>2. (more[c] \o <<Head(sockq[c])>>) \o Tail(sockq[c]) = (more[c] \o <<>>) \o sockq[c]
      BY <2>1, <2>2, <3>1
    <3> QED
      BY <2>1, <2>2, <3>2 DEF Kept
  <2>4. \A d \in Conns : d # c => Kept(d)' = Kept(d)
    BY <1>0, <2>1 DEF TypeOK, Kept
  <2>5. Common' = Common
    BY <2>1 DEF Common
  <2>6. FramesConserved' /\ TurnInv'
    BY <1>0, <2>1, <2>3, <2>4, <2>5, Unmoved
  <2>7. ThreadInv'
    <3>1. Len(<<Head(sockq[c])>>) = 1
      OBVIOUS
    <3> QED
      BY <1>0, <2>1, <3>1 DEF TypeOK, ThreadInv
  <2> QED
    BY <1>0, <2>1, <2>6, <2>7 DEF NumberedInv
<1>14. ASSUME NEW c \in Conns, RecvEnds(c)
       PROVE  FramesConserved' /\ NumberedInv' /\ ThreadInv' /\ TurnInv'
  <2>1. /\ pc[c] = "in"
        /\ closed' = [closed EXCEPT ![c] = TRUE]
        /\ pc' = [pc EXCEPT ![c] = "closing"]
        /\ UNCHANGED <<msg, hand, sockq, more, acked, recvq, delivered>>
    BY <1>14 DEF RecvEnds
  <2>2. /\ Common' = Common /\ \A d \in Conns : Kept(d)' = Kept(d)
        /\ \A d \in Conns : closed[d] => closed'[d]
    BY <1>0, <2>1 DEF Common, Kept, TypeOK
  <2>3. FramesConserved' /\ TurnInv'
    BY <1>0, <2>1, <2>2, Unmoved
  <2>4. ThreadInv'
    BY <1>0, <2>1 DEF TypeOK, ThreadInv
  <2> QED
    BY <1>0, <2>1, <2>3, <2>4 DEF NumberedInv
<1>5. ASSUME NEW c \in Conns, KeepMore(c)
      PROVE  FramesConserved' /\ NumberedInv' /\ ThreadInv' /\ TurnInv'
  <2>1. /\ pc[c] = "got" /\ UNCHANGED <<closed, hand, sockq, acked, recvq, delivered>>
        /\ more' = [more EXCEPT ![c] = more[c] \o msg[c]]
        /\ msg' = [msg EXCEPT ![c] = <<>>]
        /\ pc' = [pc EXCEPT ![c] = "recv"]
    BY <1>5 DEF KeepMore
  <2>2. /\ more[c] \in Seq(Frame) /\ msg[c] \in Seq(Frame) /\ sockq[c] \in Seq(Frame)
        /\ more'[c] = more[c] \o msg[c] /\ msg'[c] = <<>> /\ sockq'[c] = sockq[c]
    BY <1>0, <2>1 DEF TypeOK
  <2>3. Kept(c)' = Kept(c)
    <3>1. (more[c] \o msg[c]) \o <<>> = more[c] \o msg[c]
      BY <2>2, Queues
    <3> QED
      BY <2>1, <2>2, <3>1 DEF Kept
  <2>4. \A d \in Conns : d # c => Kept(d)' = Kept(d)
    BY <1>0, <2>1 DEF TypeOK, Kept
  <2>5. Common' = Common
    BY <2>1 DEF Common
  <2>6. FramesConserved' /\ TurnInv'
    BY <1>0, <2>1, <2>3, <2>4, <2>5, Unmoved
  <2>7. ThreadInv'
    BY <1>0, <2>1 DEF TypeOK, ThreadInv
  <2> QED
    BY <1>0, <2>1, <2>6, <2>7 DEF NumberedInv
<1>6. ASSUME NEW c \in Conns, AppendMessage(c)
      PROVE  FramesConserved' /\ NumberedInv' /\ ThreadInv' /\ TurnInv'
  <2>1. /\ pc[c] = "got" /\ ~Head(msg[c]).more
        /\ UNCHANGED <<closed, hand, sockq, acked, delivered>>
        /\ recvq' = (recvq \o more[c]) \o msg[c]
        /\ more' = [more EXCEPT ![c] = <<>>]
        /\ msg' = [msg EXCEPT ![c] = <<>>]
        /\ pc' = [pc EXCEPT ![c] = "signal"]
    BY <1>6 DEF AppendMessage
  <2> DEFINE u == more[c] \o msg[c]
  <2>2. /\ more[c] \in Seq(Frame) /\ msg[c] \in Seq(Frame) /\ sockq[c] \in Seq(Frame)
        /\ recvq \in Seq(Frame) /\ delivered \in Seq(Frame) /\ hand[c] = <<>>
        /\ more'[c] = <<>> /\ msg'[c] = <<>> /\ sockq'[c] = sockq[c] /\ hand'[c] = <<>>
    BY <1>0, <2>1 DEF TypeOK, ThreadInv
  <2>3. u \in Seq(Frame) /\ Kept(c) = u \o sockq[c]
    <3>1. u \in Seq(Frame) /\ Kept(c) = (u \o sockq[c]) \o <<>>
      BY <2>2, Queues DEF Kept
    <3> HIDE DEF u
    <3>2. u \o sockq[c] \in Seq(Frame)
      BY <2>2, <3>1, Queues
    <3> QED
      BY <3>1, <3>2, Queues
  <2>4. Kept(c)' = sockq[c]
    <3>1. <<>> \o <<>> = <<>> /\ <<>> \o sockq[c] = sockq[c] /\ sockq[c] \o <<>> = sockq[c]
      BY <2>2, Queues
    <3> QED
      BY <2>2, <3>1 DEF Kept
  <2>5. Common' = Common \o u
    <3>1. recvq \o (more[c] \o msg[c]) = (recvq \o more[c]) \o msg[c]
      <4>1. recvq \in Seq(Frame) /\ more[c] \in Seq(Frame) /\ msg[c] \in Seq(Frame)
        BY <2>2
      <4> QED
        BY ONLY <4>1, Associates
    <3>2. delivered \o (recvq \o u) = (delivered \o recvq) \o u
      <4> HIDE DEF u
      <4>1. delivered \in Seq(Frame) /\ recvq \in Seq(Frame) /\ u \in Seq(Frame)
        BY <2>2, <2>3
      <4> QED
        BY ONLY <4>1, Associates
    <3> QED
      BY <2>1, <3>1, <3>2 DEF Common
  <2>6. \A d \in Conns : d # c => Kept(d)' = Kept(d)
    BY <1>0, <2>1 DEF TypeOK, Kept
  <2>7. ~u[Len(u)].more
    <3>1. Len(msg[c]) = 1
      BY <1>0, <2>1 DEF ThreadInv
    <3>2. u[Len(u)] = Head(msg[c])
      <4>1. ASSUME NEW s \in Seq(Frame), NEW q \in Seq(Frame), Len(q) = 1
            PROVE  (s \o q)[Len(s \o q)] = Head(q)
        <5> DEFINE w == s \o q
                   l == Len(s)
        <5>1. l \in Nat /\ Len(w) = l + Len(q) /\ \A i \in 1..Len(q) : w[l + i] = q[i]
          BY Concat
        <5>2. q[1] = Head(q)
          BY <4>1
        <5> HIDE DEF w, l
        <5>3. 1 \in 1..Len(q) /\ Len(w) = l + 1
          BY <4>1, <5>1
        <5>4. w[Len(w)] = Head(q)
          BY <5>1, <5>2, <5>3
        <5> QED
          BY <5>4 DEF w
      <4> QED
        BY <2>2, <3>1, <4>1
    <3> QED
      BY <2>1, <3>2
  <2> HIDE DEF u
  <2>8. FramesConserved' /\ TurnInv'
    BY <2>1, <2>2, <2>3, <2>4, <2>5, <2>6, <2>7, Appended
  <2>9. ThreadInv'
    BY <1>0, <2>1 DEF TypeOK, ThreadInv
  <2> QED
    BY <1>0, <2>1, <2>8, <2>9 DEF NumberedInv
<1>7. ASSUME NEW c \in Conns, AppendMore(c)
      PROVE  FramesConserved' /\ NumberedInv' /\ ThreadInv' /\ TurnInv'
  <2>1. /\ pc[c] = "closing" /\ recvq' = recvq \o more[c]
        /\ UNCHANGED <<msg, closed, hand, sockq, acked, delivered>>
        /\ more' = [more EXCEPT ![c] = <<>>]
        /\ pc' = [pc EXCEPT ![c] = "closing2"]
    BY <1>7 DEF AppendMore
  <2>2. /\ more[c] \in Seq(Frame) /\ sockq[c] \in Seq(Frame) /\ msg[c] = <<>>
        /\ recvq \in Seq(Frame) /\ delivered \in Seq(Frame) /\ hand[c] = <<>>
        /\ more'[c] = <<>> /\ msg'[c] = <<>> /\ sockq'[c] = sockq[c] /\ closed[c]
        /\ hand'[c] = <<>>
    BY <1>0, <2>1 DEF TypeOK, ThreadInv
  <2>3. Kept(c) = more[c] \o sockq[c]
    <3>1. more[c] \o <<>> = more[c] /\ more[c] \o sockq[c] \in Seq(Frame)
      BY <2>2, Queues
    <3>2. (more[c] \o sockq[c]) \o <<>> = more[c] \o sockq[c]
      BY <3>1, Queues
    <3> QED
      BY <2>2, <3>1, <3>2 DEF Kept
  <2>4. Kept(c)' = sockq[c]
    <3>1. <<>> \o <<>> = <<>> /\ <<>> \o sockq[c] = sockq[c] /\ sockq[c] \o <<>> = sockq[c]
      BY <2>2, Queues
    <3> QED
      BY <2>2, <3>1 DEF Kept
  <2>5. Common' = Common \o more[c]
    BY <2>1, <2>2, Associates DEF Common
  <2>6. \A d \in Conns : d # c => Kept(d)' = Kept(d)
    BY <1>0, <2>1 DEF TypeOK, Kept
  <2>7. FramesConserved' /\ TurnInv'
    BY <2>1, <2>2, <2>3, <2>4, <2>5, <2>6, Appended
  <2>8. ThreadInv'
    BY <1>0, <2>1, <2>2 DEF TypeOK, ThreadInv
  <2> QED
    BY <1>0, <2>1, <2>7, <2>8 DEF NumberedInv
<1>8. ASSUME NEW c \in Conns, AppendRest(c)
      PROVE  FramesConserved' /\ NumberedInv' /\ ThreadInv' /\ TurnInv'
  <2>1. /\ pc[c] = "closing2" /\ recvq' = recvq \o sockq[c]
        /\ UNCHANGED <<msg, closed, hand, more, acked, delivered>>
        /\ sockq' = [sockq EXCEPT ![c] = <<>>]
        /\ pc' = [pc EXCEPT ![c] = "lastSignal"]
    BY <1>8 DEF AppendRest
  <2>2. /\ sockq[c] \in Seq(Frame) /\ msg[c] = <<>> /\ more[c] = <<>> /\ closed[c]
        /\ recvq \in Seq(Frame) /\ delivered \in Seq(Frame) /\ sockq'[c] = <<>>
        /\ hand[c] = <<>> /\ hand'[c] = <<>>
    BY <1>0, <2>1 DEF TypeOK, ThreadInv
  <2>3. /\ <<>> \in Seq(Frame) /\ <<>> \o <<>> = <<>>
        /\ <<>> \o sockq[c] = sockq[c] /\ sockq[c] \o <<>> = sockq[c]
    BY <2>2, Queues
  <2>4. Kept(c) = sockq[c] \o <<>> /\ Kept(c)' = <<>>
    BY <2>1, <2>2, <2>3 DEF Kept
  <2>5. Common' = Common \o sockq[c]
    BY <2>1, <2>2, Associates DEF Common
  <2>6. \A d \in Conns : d # c => Kept(d)' = Kept(d)
    BY <1>0, <2>1 DEF TypeOK, Kept
  <2>7. FramesConserved' /\ TurnInv'
    BY <2>1, <2>2, <2>3, <2>4, <2>5, <2>6, Appended
  <2>8. ThreadInv'
    BY <1>0, <2>1, <2>2 DEF TypeOK, ThreadInv
  <2> QED
    BY <1>0, <2>1, <2>7, <2>8 DEF NumberedInv
<1>9. ASSUME NEW r \in Readers, Pop(r)
      PROVE  FramesConserved' /\ NumberedInv' /\ ThreadInv' /\ TurnInv'
  <2>1. UNCHANGED <<pc, conn>>
    BY <1>9 DEF Pop
  <2>2. CASE recvq = <<>>
    BY <1>1, <1>9, <2>1, <2>2 DEF Pop
  <2>3. CASE recvq # <<>>
    <3>1. delivered' = Append(delivered, Head(recvq)) /\ recvq' = Tail(recvq)
      BY <1>9, <2>3 DEF Pop
    <3>2. Common' = Common
      BY <1>0, <2>3, <3>1, CommonPop
    <3>3. /\ acked' = acked /\ closed' = closed /\ msg' = msg /\ more' = more
          /\ pc' = pc /\ hand' = hand /\ \A c \in Conns : Kept(c)' = Kept(c)
      BY <2>1 DEF Kept, conn
    <3>4. FramesConserved' /\ TurnInv'
      BY <1>0, <3>2, <3>3, Unmoved
    <3> QED
      BY <1>0, <3>3, <3>4 DEF NumberedInv, ThreadInv
  <2> QED
    BY <2>2, <2>3
<1>10. CASE UNCHANGED vars
  BY <1>1, <1>10 DEF vars
<1>11. ASSUME NEW r \in Readers, Check(r) \/ SpuriousWakeup(r)
       PROVE  FramesConserved' /\ NumberedInv' /\ ThreadInv' /\ TurnInv'
  BY <1>1, <1>11 DEF Check, SpuriousWakeup
<1> QED
  BY <1>2, <1>3, <1>4, <1>5, <1>6, <1>7, <1>8, <1>9, <1>10, <1>11, <1>12, <1>13,
     <1>14
     DEF Next, Process, Read, RecvRefused, RecvFails

LEMMA InvariantInit == Init => IInv
  BY TypeInit, QueueInit DEF IInv

LEMMA InvariantNext == IInv /\ [Next]_vars => IInv'
<1>1. IInv => TypeOK
  BY DEF IInv
<1> QED
  BY <1>1, TypeNext, QueueNext

(***************************************************************************)
(* Across KeepMore, the appends and a close at any point of them, the      *)
(* receiver neither loses, nor doubles, nor reorders a frame that was      *)
(* acknowledged to its sender, for any connections, readers and frames.    *)
(***************************************************************************)
THEOREM FramesKept == Spec => []FramesConserved
<1>1. IInv => FramesConserved
  BY DEF IInv
<1> QED
  BY <1>1, InvariantInit, InvariantNext, PTL DEF Spec

-----------------------------------------------------------------------------
(* Messages stay together *)

(***************************************************************************)
(* Frames of other connections come between two frames of a message only   *)
(* if the connection of the message has been closed: the exception that    *)
(* receiver_recv makes to what the README promises.                        *)
(***************************************************************************)
TogetherUnlessClosed ==
    \A i, j \in DOMAIN delivered :
        LET f == delivered[i]
            g == delivered[j]
        IN  f.more /\ g.from = f.from /\ g.n = f.n + 1 => j = i + 1 \/ closed[f.from]

LEMMA TogetherInv == IInv => TogetherUnlessClosed
<1> SUFFICES ASSUME IInv, NEW i \in DOMAIN delivered, NEW j \in DOMAIN delivered,
                    delivered[i].more, delivered[j].from = delivered[i].from,
                    delivered[j].n = delivered[i].n + 1, ~closed[delivered[i].from]
             PROVE  j = i + 1
  BY DEF TogetherUnlessClosed
<1>1. delivered \in Seq(Frame) /\ recvq \in Seq(Frame) /\ Common \in Seq(Frame)
  BY DEF IInv, TypeOK, Common
<1> DEFINE c == delivered[i].from
           l == Len(delivered)
           L == Len(Common)
<1>2. /\ l \in Nat /\ L \in Nat /\ l =< L /\ i \in 1..l /\ j \in 1..l
      /\ DOMAIN Common = 1..L /\ \A k \in 1..l : Common[k] = delivered[k]
  <2>1. /\ Len(delivered) \in Nat /\ Len(recvq) \in Nat
        /\ Len(delivered \o recvq) = Len(delivered) + Len(recvq)
        /\ DOMAIN delivered = 1..Len(delivered)
        /\ DOMAIN (delivered \o recvq) = 1..(Len(delivered) + Len(recvq))
        /\ \A k \in 1..Len(delivered) : (delivered \o recvq)[k] = delivered[k]
    BY <1>1, Concat
  <2> QED
    BY <2>1 DEF Common
<1>3. c \in Conns
  <2>1. delivered[i] \in Frame
    BY <1>1
  <2> QED
    BY <2>1 DEF Frame
<1> HIDE DEF c, l, L
<1>4. i \in 1..L /\ j \in 1..L
  BY <1>2
\* The number of a frame is its rank.
<1>5. ASSUME NEW k \in 1..L, Common[k].from = c
      PROVE  Common[k].n = Rank(Common, c, k) /\ Rank(Common, c, k) \in Nat
  <2>1. ConservedAt(c)
    BY <1>3, ConservedParts DEF IInv
  <2>2. Rank(Common, c, k) \in 1..Number(Common, c)
    BY <1>1, <1>2, <1>5, RankRange
  <2>3. Number(Common, c) \in Nat /\ Number(Common, c) =< Len(acked[c])
    <3>1. Kept(c) \in Seq(Frame) /\ acked[c] \in Seq(Frame)
      BY <1>3, QueueTypes DEF IInv
    <3>2. Len(Kept(c)) \in Nat /\ Len(acked[c]) \in Nat
      BY <3>1
    <3>3. Number(Common, c) \in Nat
      BY <1>1, PlacesFinite
    <3> QED
      BY <2>1, <3>2, <3>3 DEF ConservedAt
  <2>4. Rank(Common, c, k) \in DOMAIN acked[c]
    <3>1. acked[c] \in Seq(Frame)
      BY <1>3, QueueTypes DEF IInv
    <3>2. DOMAIN acked[c] = 1..Len(acked[c]) /\ Len(acked[c]) \in Nat
      BY <3>1
    <3> QED
      BY <2>2, <2>3, <3>2
  <2>5. Common[k] = acked[c][Rank(Common, c, k)]
    BY <1>2, <1>5, <2>1 DEF ConservedAt
  <2> QED
    BY <1>3, <2>2, <2>4, <2>5 DEF IInv, NumberedInv
<1>6. ASSUME NEW k \in 1..L, NEW m \in 1..L, k < m, Common[m].from = c
      PROVE  Rank(Common, c, k) < Rank(Common, c, m)
  BY <1>1, <1>2, <1>6, RankGrows
<1>7. Common[i].from = c /\ Common[j].from = c /\ Common[i].more /\ ~closed[c]
  BY <1>2 DEF c
<1>8. Rank(Common, c, j) = Rank(Common, c, i) + 1 /\ Rank(Common, c, i) \in Nat
  BY <1>2, <1>4, <1>5, <1>7
\* The next frame of the common queue is c's as well.
<1>9. i + 1 \in 1..L /\ Common[i + 1].from = c
  <2>1. i # L
    BY <1>1, <1>2, <1>4, <1>7 DEF IInv, TurnInv, L
  <2>2. i + 1 \in 1..L
    BY <1>2, <1>4, <2>1
  <2> QED
    BY <1>2, <1>4, <1>7, <2>2 DEF IInv, TurnInv, Turned
<1>10. i < j
  <2>1. ~(j < i)
    BY <1>4, <1>6, <1>7, <1>8
  <2>2. j # i
    BY <1>8
  <2> QED
    BY <1>4, <2>1, <2>2
<1>11. ~(i + 1 < j)
  <2> SUFFICES ASSUME i + 1 < j PROVE FALSE
    OBVIOUS
  <2>1. Rank(Common, c, i + 1) < Rank(Common, c, j)
    BY <1>4, <1>6, <1>7, <1>9
  <2>2. i < i + 1
    BY <1>4
  <2>3. Rank(Common, c, i) < Rank(Common, c, i + 1)
    BY <1>4, <1>6, <1>9, <2>2
  <2>4. Rank(Common, c, i + 1) \in Nat
    BY <1>5, <1>9
  <2> QED
    BY <1>8, <2>1, <2>3, <2>4
<1> QED
  BY <1>4, <1>10, <1>11

(***************************************************************************)
(* The frames of a message are returned one right after the other as long  *)
(* as its connection is open, whatever the other connections do.  With the *)
(* run that violates FramesTogether this says exactly when recv_process    *)
(* lets a message be cut.                                                  *)
(***************************************************************************)
THEOREM MessagesWhole == Spec => []TogetherUnlessClosed
<1> QED
  BY InvariantInit, InvariantNext, TogetherInv, PTL DEF Spec

-----------------------------------------------------------------------------
(* The receiver is a mailbox *)

\* Both count the frames of a connection.
LEMMA CountIsNumber == \A c : M!Count(c) = Number(delivered, c)
  BY Zenon DEF M!Count, Number, M!Cardinality, Cardinality

LEMMA MailboxInit == Init => M!Init
  BY DEF Init, M!Init

LEMMA MailboxPut ==
    ASSUME IInv, TypeOK', NEW c \in Conns, NEW flag \in BOOLEAN, Acknowledge(c, flag)
    PROVE  M!Put
<1>1. ASSUME NEW s \in Seq(Frame), NEW f \in Frame
      PROVE  SubSeq(Append(s, f), 1, Len(s)) = s
  BY <1>1
<1>2. Fetched(c, flag) \in Frame
  BY FetchedType DEF IInv, Acknowledge
<1>3. ASSUME NEW s \in Seq(Frame) PROVE SubSeq(s, 1, Len(s)) = s
  BY <1>3
<1>4. /\ acked' = [acked EXCEPT ![c] = Append(acked[c], Fetched(c, flag))]
      /\ ~closed[c] /\ UNCHANGED <<closed, delivered>>
  BY DEF Acknowledge, Fetched
<1>5. acked \in [Conns -> Seq(Frame)] /\ acked' \in [Conns -> Seq(Frame)]
  BY DEF IInv, TypeOK
<1>6. ASSUME NEW d \in Conns
      PROVE  /\ SubSeq(acked'[d], 1, Len(acked[d])) = acked[d]
             /\ closed[d] => acked'[d] = acked[d]
  <2>1. CASE d = c
    <3>1. acked'[d] = Append(acked[d], Fetched(c, flag)) /\ acked[d] \in Seq(Frame)
      BY <1>4, <1>5, <2>1
    <3> QED
      BY <1>1, <1>2, <1>4, <2>1, <3>1
  <2>2. CASE d # c
    <3>1. acked'[d] = acked[d] /\ acked[d] \in Seq(Frame)
      BY <1>4, <1>5, <2>2
    <3> QED
      BY <1>3, <3>1
  <2> QED
    BY <2>1, <2>2
<1> QED
  BY <1>4, <1>5, <1>6 DEF M!Put

\* The reader gets the oldest frame of its connection that it has not got.
LEMMA MailboxGet ==
    ASSUME IInv, NEW r \in Readers, Pop(r), recvq # <<>>
    PROVE  Head(recvq).from \in Conns /\ M!Get(Head(recvq).from)
<1> DEFINE f == Head(recvq)
           c == f.from
           n == Len(delivered) + 1
<1>1. /\ delivered \in Seq(Frame) /\ recvq \in Seq(Frame) /\ Common \in Seq(Frame)
      /\ f \in Frame
  BY DEF IInv, TypeOK, Common
<1>2. c \in Conns /\ <<f>> \in Seq(Frame) /\ Own(<<f>>, c) /\ Len(<<f>>) = 1
  <2>1. c \in Conns
    BY <1>1 DEF Frame
  <2> HIDE DEF f
  <2>2. <<f>> \in Seq(Frame) /\ Len(<<f>>) = 1
    BY <1>1
  <2>3. Own(<<f>>, c)
    BY DEF Own
  <2> QED
    BY <2>1, <2>2, <2>3
<1>3. n \in DOMAIN Common /\ Common[n] = f /\ n - 1 \in Nat
      /\ \A i \in DOMAIN delivered : i \in DOMAIN Common /\ Common[i] = delivered[i]
  BY <1>1 DEF Common
<1>4. SubSeq(Common, 1, n) = delivered \o <<f>>
  <2>1. ASSUME NEW s \in Seq(Frame), NEW u \in Seq(Frame), u # <<>>
        PROVE  SubSeq(s \o u, 1, Len(s) + 1) = s \o <<Head(u)>>
    BY <2>1
  <2>2. delivered \in Seq(Frame) /\ recvq \in Seq(Frame) /\ recvq # <<>>
    BY <1>1
  <2>3. SubSeq(delivered \o recvq, 1, Len(delivered) + 1) = delivered \o <<Head(recvq)>>
    BY ONLY <2>1, <2>2
  <2> QED
    BY <2>3 DEF Common
<1>5. Rank(Common, c, n) = M!Count(c) + 1
  <2> HIDE DEF f, c, n
  <2>1. Number(delivered \o <<f>>, c) = Number(delivered, c) + Number(<<f>>, c)
    <3>1. delivered \in Seq(Frame) /\ <<f>> \in Seq(Frame)
      BY <1>1, <1>2
    <3> QED
      BY <1>2, <3>1, NumberConcat
  <2>2. Number(<<f>>, c) = 1
    BY <1>2, NumberOfOne
  <2>3. M!Count(c) = Number(delivered, c)
    BY CountIsNumber
  <2> QED
    BY <1>4, <2>1, <2>2, <2>3 DEF Rank
<1>6. ConservedAt(c)
  BY <1>2, ConservedParts DEF IInv
<1>7. f = acked[c][M!Count(c) + 1]
  BY <1>3, <1>5, <1>6 DEF ConservedAt
<1>8. M!Count(c) < Len(acked[c])
  <2>1. Rank(Common, c, n) \in 1..Number(Common, c)
    BY <1>1, <1>3, RankRange
  <2>2. Number(Common, c) \in Nat /\ M!Count(c) \in Nat
    <3>1. M!Count(c) = Number(delivered, c)
      BY CountIsNumber
    <3> QED
      BY <1>1, <3>1, PlacesFinite
  <2>3. Kept(c) \in Seq(Frame) /\ acked[c] \in Seq(Frame)
    BY <1>2, QueueTypes DEF IInv
  <2>4. Len(Kept(c)) \in Nat /\ Len(acked[c]) \in Nat
    BY <2>3
  <2>5. Number(Common, c) =< Len(acked[c])
    BY <1>6, <2>2, <2>4 DEF ConservedAt
  <2> QED
    BY <1>5, <2>1, <2>2, <2>4, <2>5
<1>9. M!MayTurnTo(c)
  <2> SUFFICES ASSUME delivered # <<>>
               PROVE  LET g == delivered[Len(delivered)]
                      IN  ~g.more \/ closed[g.from] \/ g.from = c
    BY DEF M!MayTurnTo
  <2>1. Len(delivered) \in DOMAIN delivered
    BY <1>1
  <2>2. Turned(Common[Len(delivered)], Common[n])
    BY <1>3, <2>1 DEF IInv, TurnInv
  <2> QED
    BY <1>3, <2>1, <2>2 DEF Turned
<1>10. delivered' = Append(delivered, f) /\ UNCHANGED <<acked, closed>>
  BY DEF Pop, conn
<1> HIDE DEF f, c, n
<1>11. M!Get(c)
  BY <1>7, <1>8, <1>9, <1>10 DEF M!Get
<1> QED
  BY <1>2, <1>11 DEF f, c

LEMMA MailboxNext == IInv /\ [Next]_vars => [M!Next]_(M!vars)
<1> SUFFICES ASSUME IInv, [Next]_vars PROVE [M!Next]_(M!vars)
  OBVIOUS
<1>1. TypeOK'
  BY TypeNext DEF IInv
<1>2. CASE UNCHANGED vars
  BY <1>2 DEF vars, conn, M!vars
<1>3. ASSUME NEW c \in Conns,
             \/ Accept(c) \/ RecvNull(c) \/ Enter(c) \/ Handled(c) \/ Recv(c) \/ Stick(c)
             \/ KeepMore(c) \/ AppendMessage(c) \/ AppendMore(c) \/ AppendRest(c) \/ Signal(c)
      PROVE  UNCHANGED M!vars
  BY <1>3 DEF M!vars, conn, Accept, RecvNull, Enter, Handled, Recv, Stick, KeepMore,
              AppendMessage, AppendMore, AppendRest, Signal
<1>4. ASSUME NEW c \in Conns, Close(c) \/ RecvEnds(c) PROVE M!Close(c)
  BY <1>4 DEF Close, RecvEnds, M!Close
<1>5. ASSUME NEW c \in Conns, NEW flag \in BOOLEAN, Acknowledge(c, flag) PROVE M!Put
  BY <1>1, <1>5, MailboxPut
<1>6. ASSUME NEW r \in Readers, Check(r) \/ SpuriousWakeup(r) PROVE UNCHANGED M!vars
  BY <1>6 DEF M!vars, conn, Check, SpuriousWakeup
<1>7. ASSUME NEW r \in Readers, Pop(r) PROVE [M!Next]_(M!vars)
  <2>1. CASE recvq = <<>>
    BY <1>7, <2>1 DEF Pop, conn, M!vars
  <2>2. CASE recvq # <<>>
    BY <1>7, <2>2, MailboxGet DEF M!Next
  <2> QED
    BY <2>1, <2>2
<1> QED
  BY <1>2, <1>3, <1>4, <1>5, <1>6, <1>7
     DEF Next, Process, Read, RecvRefused, RecvFails, M!Next

(***************************************************************************)
(* receiver_recv keeps the promise of Mailbox: every frame once, in the    *)
(* order of its connection, and no turn to another connection in the       *)
(* middle of a message unless its connection was closed.                   *)
(***************************************************************************)
THEOREM ImplementsMailbox == Spec => MailboxSpec
<1> QED
  BY InvariantInit, InvariantNext, MailboxInit, MailboxNext, PTL
     DEF Spec, MailboxSpec, M!Spec
=============================================================================
