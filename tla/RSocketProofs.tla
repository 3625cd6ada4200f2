--------------------------- MODULE RSocketProofs ---------------------------
(***************************************************************************)
(* Proofs about the data path of an rsocket connection, for any number of  *)
(* receive buffers, any payloads and any bound on the calls of send_:      *)
(* the buffers and the wake-ups first, then that credit is conserved, then *)
(* that the connection is a reliable FIFO channel in each direction and    *)
(* that the registered copies of its payloads live exactly as long as a    *)
(* record refers to them.                                                  *)
(***************************************************************************)
EXTENDS RSocket, FiniteSetTheorems, WellFoundedInduction, TLAPS

\* The other endpoint of the connection is one of the two, and not this one.
LEMMA PeerFacts ==
    \A e \in Ends : Peer(e) \in Ends /\ Peer(e) # e /\ Peer(Peer(e)) = e
<1>1. PICK a, b \in Ends : a # b /\ Ends = {a, b}
  BY EndsAssumption
<1>2. Peer(a) = b /\ Peer(b) = a
  BY <1>1 DEF Peer
<1> QED
  BY <1>1, <1>2

\* Elements of a sequence, of its tail and of what is appended to it.
LEMMA SeqElements ==
    ASSUME NEW S, NEW s \in Seq(S)
    PROVE  /\ \A i \in DOMAIN s : s[i] \in S
           /\ s # <<>> => \A i \in DOMAIN Tail(s) :
                            i + 1 \in DOMAIN s /\ Tail(s)[i] = s[i + 1]
           /\ \A m : \A i \in DOMAIN Append(s, m) :
                \/ i \in DOMAIN s /\ Append(s, m)[i] = s[i]
                \/ Append(s, m)[i] = m
  OBVIOUS

\* A message's record turned into an ACK keeps the address.
LEMMA AckOfFacts ==
    ASSUME NEW md \in MetaData \cup {NoMd}
    PROVE  AckOf(md) \in MetaData /\ AckOf(md).type = "ACK"
  BY DEF AckOf, MetaData, NoMd, Addr

\* The record send_ builds is well formed and names a message already sent.
LEMMA SendMdFacts ==
    ASSUME TypeOK, NEW e \in Ends
    PROVE  /\ SendMd(e) \in MetaData
           /\ SendMd(e).type = "NORMAL"
           /\ SendMd(e).addr \in 0..Len(sent[e])
  BY DEF TypeOK, SendMd, MetaData, Addr

(***************************************************************************)
(* Every record on its way that announces a message refers to a message    *)
(* its sender did send: recv_wc_handle never reads an address it was not   *)
(* given.  Type correctness rests on it, for recv_queue holds what was     *)
(* read.                                                                   *)
(***************************************************************************)
AddrsSent ==
    \A e \in Ends :
        /\ wr[e].op = "send" /\ wr[e].md.type = "NORMAL"
             => wr[e].md.addr =< Len(sent[e])
        /\ \A i \in DOMAIN cqRecv[e] :
             cqRecv[e][i].type = "NORMAL"
               => cqRecv[e][i].addr =< Len(sent[Peer(e)])
        /\ \A i \in DOMAIN wrq[e] :
             wrq[e][i].type = "NORMAL"
               => wrq[e][i].addr =< Len(sent[Peer(e)])
        /\ cur[e].addr =< Len(sent[Peer(e)])

TypeInv == TypeOK /\ AddrsSent

LEMMA TypeInit == Init => TypeInv
<1> SUFFICES ASSUME Init PROVE TypeInv
  OBVIOUS
<1>1. TypeOK
  BY MAssumption DEF Init, TypeOK, Pcs, Calls, WorkRequest
<1>2. AddrsSent
  BY PeerFacts DEF Init, AddrsSent, NoWr, NoMd
<1> QED
  BY <1>1, <1>2 DEF TypeInv

\* poll_wc keeps the types of the queues it moves completions between.
LEMMA DrainTypes ==
    ASSUME TypeInv, NEW e \in Ends, DrainCQ(e)
    PROVE  /\ wrq' \in [Ends -> Seq(MetaData)]
           /\ cqRecv' \in [Ends -> Seq(MetaData)]
           /\ cqDone' \in [Ends -> BOOLEAN]
           /\ \A x \in Ends : \A i \in DOMAIN cqRecv'[x] :
                i \in DOMAIN cqRecv[x] /\ cqRecv'[x][i] = cqRecv[x][i]
           /\ \A x \in Ends : \A i \in DOMAIN wrq'[x] :
                \/ i \in DOMAIN wrq[x] /\ wrq'[x][i] = wrq[x][i]
                \/ \E j \in DOMAIN cqRecv[x] : wrq'[x][i] = cqRecv[x][j]
<1> USE DEF TypeInv, TypeOK, DrainCQ
<1>1. wrq' \in [Ends -> Seq(MetaData)] /\ cqRecv' \in [Ends -> Seq(MetaData)]
      /\ cqDone' \in [Ends -> BOOLEAN]
  OBVIOUS
<1>2. ASSUME NEW x \in Ends, NEW i \in DOMAIN cqRecv'[x]
      PROVE  i \in DOMAIN cqRecv[x] /\ cqRecv'[x][i] = cqRecv[x][i]
  BY <1>2
<1>3. ASSUME NEW x \in Ends, NEW i \in DOMAIN wrq'[x]
      PROVE  \/ i \in DOMAIN wrq[x] /\ wrq'[x][i] = wrq[x][i]
             \/ \E j \in DOMAIN cqRecv[x] : wrq'[x][i] = cqRecv[x][j]
  <2>1. CASE x # e
    BY <1>3, <2>1
  <2>2. CASE x = e
    <3>1. wrq'[e] = wrq[e] \o cqRecv[e]
      OBVIOUS
    <3>2. CASE i =< Len(wrq[e])
      BY <1>3, <2>2, <3>1, <3>2
    <3>3. CASE i > Len(wrq[e])
      <4>1. i - Len(wrq[e]) \in DOMAIN cqRecv[e]
        BY <1>3, <2>2, <3>1, <3>3
      <4>2. wrq'[e][i] = cqRecv[e][i - Len(wrq[e])]
        BY <1>3, <2>2, <3>1, <3>3
      <4> QED
        BY <2>2, <4>1, <4>2
    <3> QED
      BY <1>3, <2>2, <3>1, <3>2, <3>3
  <2> QED
    BY <2>1, <2>2
<1> QED
  BY <1>1, <1>2, <1>3

\* poll_wc's return touches the caller's place and the channel only.
LEMMA PollReturnTypes ==
    ASSUME TypeInv, NEW e \in Ends, NEW at, NEW flags, NEW next \in Pcs,
           PollReturn(e, at, flags, next)
    PROVE  /\ pc' \in [Ends -> Pcs]
           /\ poll' \in [Ends -> {"wait", "done", "nothing"}]
           /\ event' \in [Ends -> BOOLEAN]
           /\ armed' \in [Ends -> BOOLEAN]
           /\ UNCHANGED <<op, cqRecv, cqDone, wrq>>
  BY DEF TypeInv, TypeOK, PollReturn, ReqNotify, cq

\* A posted record is a work request.
LEMMA PostTypes ==
    ASSUME TypeInv, NEW e \in Ends, NEW kind \in {"send", "read"},
           NEW md \in MetaData, Post(e, kind, md)
    PROVE  wr' \in [Ends -> WorkRequest]
<1>1. [op |-> kind, md |-> md] \in WorkRequest
  BY DEF WorkRequest
<1> QED
  BY <1>1 DEF TypeInv, TypeOK, Post

\* Every step of an endpoint keeps the types.
LEMMA TypeNext == TypeInv /\ [Next]_vars => TypeOK'
<1> SUFFICES ASSUME TypeInv, [Next]_vars PROVE TypeOK'
  OBVIOUS
<1> USE DEF TypeInv, caller, chan, cq, counters, history
<1>1. ASSUME NEW e \in Ends, NEW m \in Msg, Send(e, m) PROVE TypeOK'
  <2>1. sent' \in [Ends -> Seq(Msg)]
    BY <1>1 DEF TypeOK, Send
  <2>2. live' \in [Ends -> SUBSET Addr]
    BY <1>1 DEF TypeOK, Send, Addr
  <2>3. pc' \in [Ends -> Pcs] /\ op' \in [Ends -> Calls]
    BY <1>1 DEF TypeOK, Send, Pcs, Calls
  <2> QED
    BY <1>1, <2>1, <2>2, <2>3 DEF TypeOK, Send
<1>2. ASSUME NEW e \in Ends, NEW call \in {"recv_", "irecv_"},
             Receive(e, call)
      PROVE  TypeOK'
  <2>1. DrainCQ(e)
    BY <1>2 DEF Receive
  <2> QED
    BY <1>2, <2>1, DrainTypes DEF TypeOK, Receive, Pcs, Calls
<1>3. ASSUME NEW e \in Ends, PollCQ(e) PROVE TypeOK'
  <2>1. DrainCQ(e)
    BY <1>3 DEF PollCQ
  <2> QED
    BY <1>3, <2>1, DrainTypes DEF TypeOK, PollCQ
<1>4. ASSUME NEW e \in Ends, PollAgain(e) PROVE TypeOK'
  <2>1. PICK at \in {"sending", "reading", "acking"} :
          PollReturn(e, at, {"nothing"}, at)
    BY <1>4 DEF PollAgain
  <2>2. at \in Pcs
    BY DEF Pcs, PollPcs
  <2> QED
    BY <1>4, <2>1, <2>2, PollReturnTypes DEF TypeOK, PollAgain
<1>5. ASSUME NEW e \in Ends, CreditWait(e) PROVE TypeOK'
  BY <1>5 DEF TypeOK, CreditWait, Pcs, PollPcs
<1>6. ASSUME NEW e \in Ends, CreditPolled(e) PROVE TypeOK'
  <2>1. "post" \in Pcs
    BY DEF Pcs
  <2> QED
    BY <1>6, <2>1, PollReturnTypes DEF TypeOK, CreditPolled
<1>7. ASSUME NEW e \in Ends, PostMetaData(e) PROVE TypeOK'
  <2>1. wr' \in [Ends -> WorkRequest]
    BY <1>7, SendMdFacts DEF TypeOK, PostMetaData, Post, WorkRequest
  <2>2. peerBuff' \in [Ends -> Int]
    BY <1>7 DEF TypeOK, PostMetaData
  <2>3. pc' \in [Ends -> Pcs]
    BY <1>7 DEF TypeOK, PostMetaData, Pcs, PollPcs
  <2> QED
    BY <1>7, <2>1, <2>2, <2>3 DEF TypeOK, PostMetaData
<1>8. ASSUME NEW e \in Ends, SendCompleted(e) PROVE TypeOK'
  <2>1. "resolve" \in Pcs
    BY DEF Pcs
  <2> QED
    <3>1. mdCnt' \in [Ends -> Nat]
      BY <1>8 DEF TypeOK, SendCompleted
    <3> QED
      BY <1>8, <2>1, <3>1, PollReturnTypes DEF TypeOK, SendCompleted
<1>9. ASSUME NEW e \in Ends, RecvPolled(e) PROVE TypeOK'
  <2>1. "resolve" \in Pcs
    BY DEF Pcs
  <2> QED
    BY <1>9, <2>1, PollReturnTypes DEF TypeOK, RecvPolled
<1>10. ASSUME NEW e \in Ends, ResolveNormal(e) PROVE TypeOK'
  <2>1. Head(wrq[e]) \in MetaData /\ Tail(wrq[e]) \in Seq(MetaData)
    BY <1>10 DEF TypeOK, ResolveNormal, PopWr
  <2>2. AckOf(Head(wrq[e])) \in MetaData
    BY <2>1, AckOfFacts
  <2> QED
    <3>1. wr' \in [Ends -> WorkRequest]
      <4>1. \/ Post(e, "read", Head(wrq[e]))
            \/ Post(e, "send", AckOf(Head(wrq[e])))
        BY <1>10 DEF ResolveNormal
      <4> QED
        BY <4>1, <2>1, <2>2, PostTypes
    <3>2. pc' \in [Ends -> Pcs]
      BY <1>10 DEF TypeOK, ResolveNormal, Pcs, PollPcs
    <3>3. wrq' \in [Ends -> Seq(MetaData)]
      BY <1>10, <2>1 DEF TypeOK, ResolveNormal, PopWr
    <3>4. cur' \in [Ends -> MetaData \cup {NoMd}]
      BY <1>10, <2>1 DEF TypeOK, ResolveNormal
    <3>5. UNCHANGED <<op, poll, event, armed, cqRecv, cqDone, rq, recvq,
                      peerBuff, ackCnt, mdCnt, live, sent, delivered>>
      BY <1>10 DEF ResolveNormal, PopWr
    <3> QED
      BY <3>1, <3>2, <3>3, <3>4, <3>5 DEF TypeOK
<1>11. ASSUME NEW e \in Ends, ReadCompleted(e) PROVE TypeOK'
  <2>1. "acking" \in Pcs
    BY DEF Pcs, PollPcs
  <2>2. AckOf(cur[e]) \in MetaData
    BY AckOfFacts DEF TypeOK
  <2> QED
    BY <1>11, <2>1, <2>2, PollReturnTypes
       DEF TypeOK, ReadCompleted, Post, WorkRequest
<1>12. ASSUME NEW e \in Ends, AckCompleted(e) PROVE TypeOK'
  <2>1. "resolve" \in Pcs
    BY DEF Pcs
  <2>2. Fetched(e) \in Msg
    <3>1. cur[e].addr \in Nat /\ cur[e].addr =< Len(sent[Peer(e)])
      BY DEF TypeOK, AddrsSent, MetaData, NoMd, Addr
    <3>2. sent[Peer(e)] \in Seq(Msg)
      BY PeerFacts DEF TypeOK
    <3>3. cur[e].addr # 0 => sent[Peer(e)][cur[e].addr] \in Msg
      BY <3>1, <3>2
    <3>4. Empty \in Msg
      BY DEF Msg
    <3> QED
      BY <3>3, <3>4 DEF Fetched
  <2> QED
    <3>1. rq' \in [Ends -> Nat]
      BY <1>12 DEF TypeOK, AckCompleted, PostRecv
    <3>2. recvq' \in [Ends -> Seq(Msg)] /\ cur' \in [Ends -> MetaData \cup {NoMd}]
      BY <1>12, <2>2 DEF TypeOK, AckCompleted
    <3> QED
      BY <1>12, <2>1, <3>1, <3>2, PollReturnTypes DEF TypeOK, AckCompleted
<1>13. ASSUME NEW e \in Ends, ResolveAck(e) PROVE TypeOK'
  <2>1. Tail(wrq[e]) \in Seq(MetaData)
    BY <1>13 DEF TypeOK, ResolveAck, PopWr
  <2> QED
    <3>1. rq' \in [Ends -> Nat] /\ ackCnt' \in [Ends -> Nat]
      BY <1>13 DEF TypeOK, ResolveAck, PostRecv
    <3>2. peerBuff' \in [Ends -> Int]
      BY <1>13 DEF TypeOK, ResolveAck
    <3>3. live' \in [Ends -> SUBSET Addr]
      BY <1>13 DEF TypeOK, ResolveAck
    <3> QED
      BY <1>13, <2>1, <3>1, <3>2, <3>3 DEF TypeOK, ResolveAck, PopWr
<1>14. ASSUME NEW e \in Ends, Return(e) PROVE TypeOK'
  BY <1>14 DEF TypeOK, Return, Pcs, Calls
<1>15. ASSUME NEW e \in Ends, ReturnMessage(e) PROVE TypeOK'
  <2>1. Head(recvq[e]) \in Msg /\ Tail(recvq[e]) \in Seq(Msg)
    BY <1>15 DEF TypeOK, ReturnMessage
  <2> QED
    BY <1>15, <2>1 DEF TypeOK, ReturnMessage, Pcs, Calls
<1>16. ASSUME NEW e \in Ends, RecvWait(e) PROVE TypeOK'
  BY <1>16 DEF TypeOK, RecvWait, Pcs, PollPcs
<1>17. ASSUME NEW e \in Ends, Deliver(e) PROVE TypeOK'
  <2>1. Peer(e) \in Ends
    BY PeerFacts
  <2>2. wr[e] \in [op : {"send", "sent", "read"}, md : MetaData]
    BY <1>17 DEF TypeOK, Deliver, WorkRequest, NoWr
  <2>3. [wr[e] EXCEPT !.op = "sent"] \in WorkRequest
    BY <2>2 DEF WorkRequest
  <2>4. wr' \in [Ends -> WorkRequest]
    BY <1>17, <2>3 DEF TypeOK, Deliver
  <2> QED
    <3>1. rq' \in [Ends -> Nat]
      <4>1. rq[Peer(e)] > 0 /\ rq' = [rq EXCEPT ![Peer(e)] = @ - 1]
        BY <1>17 DEF Deliver
      <4>2. rq \in [Ends -> Nat]
        BY DEF TypeOK
      <4>3. rq[Peer(e)] \in Nat
        BY <2>1, <4>2
      <4>4. rq[Peer(e)] - 1 \in Nat
        BY <4>1, <4>3
      <4> QED
        BY <4>1, <4>2, <4>4
    <3>2. cqRecv' \in [Ends -> Seq(MetaData)]
      <4>1. wr[e].md \in MetaData
        BY <2>2
      <4>2. Append(cqRecv[Peer(e)], wr[e].md) \in Seq(MetaData)
        BY <2>1, <4>1 DEF TypeOK
      <4> QED
        BY <1>17, <2>1, <4>2 DEF TypeOK, Deliver
    <3>3. event' \in [Ends -> BOOLEAN] /\ armed' \in [Ends -> BOOLEAN]
      BY <1>17, <2>1 DEF TypeOK, Deliver, Notify
    <3>4. UNCHANGED <<pc, op, poll, cqDone, wrq, cur, recvq, peerBuff, ackCnt,
                      mdCnt, live, sent, delivered>>
      BY <1>17 DEF Deliver
    <3> QED
      BY <2>4, <3>1, <3>2, <3>3, <3>4 DEF TypeOK
<1>18. ASSUME NEW e \in Ends, Complete(e) PROVE TypeOK'
  BY <1>18 DEF TypeOK, Complete, Notify, WorkRequest
<1>19. CASE UNCHANGED vars
  BY <1>19 DEF TypeOK, vars
<1> QED
  BY <1>1, <1>2, <1>3, <1>4, <1>5, <1>6, <1>7, <1>8, <1>9, <1>10, <1>11,
     <1>12, <1>13, <1>14, <1>15, <1>16, <1>17, <1>18, <1>19
     DEF Next, Call, Thread, Hca

\* The records in the queues of a well-typed state.
LEMMA RecordTypes ==
    ASSUME TypeOK, NEW x \in Ends
    PROVE  /\ \A i \in DOMAIN cqRecv[x] : cqRecv[x][i] \in MetaData
           /\ \A i \in DOMAIN wrq[x] : wrq[x][i] \in MetaData
           /\ cur[x] \in MetaData \cup {NoMd}
           /\ wr[x].md \in MetaData \cup {NoMd}
<1>1. cqRecv[x] \in Seq(MetaData) /\ wrq[x] \in Seq(MetaData)
      /\ cur[x] \in MetaData \cup {NoMd} /\ wr[x] \in WorkRequest
  BY DEF TypeOK
<1>2. wr[x].md \in MetaData \cup {NoMd}
  BY <1>1 DEF WorkRequest, NoWr
<1> QED
  BY <1>1, <1>2, SeqElements

\* Every step keeps the records on their way within what was sent.
LEMMA AddrsNext == TypeInv /\ [Next]_vars => AddrsSent'
<1> SUFFICES ASSUME TypeInv, [Next]_vars PROVE AddrsSent'
  OBVIOUS
<1> USE DEF TypeInv
<1>0. CASE UNCHANGED <<sent, wr, cqRecv, wrq, cur>>
  BY <1>0 DEF AddrsSent
<1>1. ASSUME NEW e \in Ends, NEW m \in Msg, Send(e, m) PROVE AddrsSent'
  <2>1. \A x \in Ends : Len(sent[x]) =< Len(sent'[x])
                        /\ Len(sent[x]) \in Nat /\ Len(sent'[x]) \in Nat
    <3>1. sent' = [sent EXCEPT ![e] = Append(sent[e], m)]
      BY <1>1 DEF Send
    <3>2. \A x \in Ends : sent[x] \in Seq(Msg)
      BY DEF TypeOK
    <3>3. Len(Append(sent[e], m)) = Len(sent[e]) + 1
      BY <3>2
    <3>4. \A x \in Ends : sent'[x] = IF x = e THEN Append(sent[e], m)
                                             ELSE sent[x]
      BY <3>1 DEF TypeOK
    <3>5. \A x \in Ends : Len(sent[x]) \in Nat
      BY <3>2
    <3> QED
      <4> TAKE x \in Ends
      <4>1. CASE x = e
        <5>1. sent'[e] = Append(sent[e], m)
          BY <3>4
        <5>2. Len(sent'[e]) = Len(sent[e]) + 1
          BY <3>3, <5>1
        <5> HIDE DEF TypeInv
        <5> QED
          BY <3>5, <4>1, <5>2
      <4>2. CASE x # e
        BY <3>4, <3>5, <4>2
      <4> QED
        BY <4>1, <4>2
  <2>2. UNCHANGED <<wr, cqRecv, wrq, cur>>
    BY <1>1 DEF Send, cq
  <2>3. \A x \in Ends : \A i \in DOMAIN cqRecv[x] : cqRecv[x][i].addr \in Nat
    BY RecordTypes DEF MetaData, Addr
  <2>4. \A x \in Ends : \A i \in DOMAIN wrq[x] : wrq[x][i].addr \in Nat
    BY RecordTypes DEF MetaData, Addr
  <2>5. \A x \in Ends : cur[x].addr \in Nat /\ wr[x].md.addr \in Nat
    BY RecordTypes DEF MetaData, Addr, NoMd
  <2> QED
    BY <2>1, <2>2, <2>3, <2>4, <2>5, PeerFacts DEF AddrsSent
<1>2. ASSUME NEW e \in Ends, DrainCQ(e), UNCHANGED <<sent, wr, cur>>
      PROVE  AddrsSent'
  <2>1. \A x \in Ends : \A i \in DOMAIN cqRecv'[x] :
          cqRecv'[x][i].type = "NORMAL"
            => cqRecv'[x][i].addr =< Len(sent[Peer(x)])
    BY <1>2, DrainTypes DEF AddrsSent
  <2>2. \A x \in Ends : \A i \in DOMAIN wrq'[x] :
          wrq'[x][i].type = "NORMAL"
            => wrq'[x][i].addr =< Len(sent[Peer(x)])
    <3> TAKE x \in Ends
    <3> TAKE i \in DOMAIN wrq'[x]
    <3>1. CASE i \in DOMAIN wrq[x] /\ wrq'[x][i] = wrq[x][i]
      BY <3>1 DEF AddrsSent
    <3>2. CASE \E j \in DOMAIN cqRecv[x] : wrq'[x][i] = cqRecv[x][j]
      BY <3>2 DEF AddrsSent
    <3> QED
      BY <1>2, <3>1, <3>2, DrainTypes
  <2> QED
    BY <1>2, <2>1, <2>2 DEF AddrsSent
<1>3. ASSUME NEW e \in Ends, NEW kind, NEW md, Post(e, kind, md),
             kind = "send" => \/ md.type # "NORMAL"
                              \/ md.addr =< Len(sent[e]),
             UNCHANGED <<sent, cqRecv, wrq, cur>>
      PROVE  AddrsSent'
  BY <1>3 DEF AddrsSent, Post, TypeOK
<1>4. ASSUME NEW e \in Ends, NEW t, PopWr(e, t)
      PROVE  \A x \in Ends : \A i \in DOMAIN wrq'[x] :
               wrq'[x][i].type = "NORMAL"
                 => wrq'[x][i].addr =< Len(sent[Peer(x)])
  <2>1. wrq[e] # <<>> /\ wrq[e] \in Seq(MetaData)
    BY <1>4 DEF PopWr, TypeOK
  <2>2. \A x \in Ends : wrq'[x] = IF x = e THEN Tail(wrq[e]) ELSE wrq[x]
    BY <1>4 DEF PopWr, TypeOK
  <2>3. \A i \in DOMAIN Tail(wrq[e]) :
          i + 1 \in DOMAIN wrq[e] /\ Tail(wrq[e])[i] = wrq[e][i + 1]
    BY <2>1, SeqElements
  <2> TAKE x \in Ends
  <2> TAKE i \in DOMAIN wrq'[x]
  <2>4. CASE x = e
    <3>1. i + 1 \in DOMAIN wrq[e] /\ wrq'[e][i] = wrq[e][i + 1]
      BY <2>2, <2>3, <2>4
    <3> QED
      BY <2>4, <3>1 DEF AddrsSent
  <2>5. CASE x # e
    BY <2>2, <2>5 DEF AddrsSent
  <2> QED
    BY <2>4, <2>5
<1>5. ASSUME NEW e \in Ends, ResolveNormal(e) PROVE AddrsSent'
  <2>1. PopWr(e, "NORMAL")
    BY <1>5 DEF ResolveNormal
  <2>2. \A x \in Ends : \A i \in DOMAIN wrq'[x] :
          wrq'[x][i].type = "NORMAL"
            => wrq'[x][i].addr =< Len(sent[Peer(x)])
    BY <1>4, <2>1
  <2>3. Head(wrq[e]) \in MetaData
        /\ Head(wrq[e]).addr =< Len(sent[Peer(e)])
    BY <2>1 DEF PopWr, TypeOK, AddrsSent
  <2>4. cur' = [cur EXCEPT ![e] = Head(wrq[e])]
        /\ \/ Post(e, "read", Head(wrq[e]))
           \/ Post(e, "send", AckOf(Head(wrq[e])))
    BY <1>5 DEF ResolveNormal
  <2>5. \A x \in Ends : wr'[x].op = "send" /\ wr'[x].md.type = "NORMAL"
                          => wr'[x].md.addr =< Len(sent[x])
    <3>1. AckOf(Head(wrq[e])).type # "NORMAL"
      BY <2>3, AckOfFacts
    <3>2. \/ wr' = [wr EXCEPT ![e] = [op |-> "read", md |-> Head(wrq[e])]]
          \/ wr' = [wr EXCEPT ![e] = [op |-> "send",
                                      md |-> AckOf(Head(wrq[e]))]]
      BY <2>4 DEF Post
    <3>3. wr'[e].op = "send" => wr'[e].md.type # "NORMAL"
      BY <3>1, <3>2 DEF TypeOK
    <3>4. \A x \in Ends : x # e => wr'[x] = wr[x]
      BY <3>2 DEF TypeOK
    <3> QED
      BY <3>3, <3>4 DEF AddrsSent
  <2>6. UNCHANGED <<sent, cqRecv>>
    BY <1>5 DEF ResolveNormal, PopWr, history, cq
  <2> QED
    BY <2>2, <2>3, <2>4, <2>5, <2>6 DEF AddrsSent, TypeOK
<1>6. ASSUME NEW e \in Ends, ResolveAck(e) PROVE AddrsSent'
  <2>1. PopWr(e, "ACK") /\ UNCHANGED <<sent, wr, cur, cqRecv>>
    BY <1>6 DEF ResolveAck, PopWr, history, cq
  <2> QED
    BY <1>4, <2>1 DEF AddrsSent
<1>7. ASSUME NEW e \in Ends, AckCompleted(e) PROVE AddrsSent'
  <2>1. cur' = [cur EXCEPT ![e] = NoMd] /\ UNCHANGED <<sent, wr, cqRecv, wrq>>
    BY <1>7 DEF AckCompleted, PollReturn, history, cq
  <2> QED
    <3>1. \A x \in Ends : Len(sent[Peer(x)]) \in Nat
      BY PeerFacts DEF TypeOK
    <3>2. \A x \in Ends : cur'[x] = IF x = e THEN NoMd ELSE cur[x]
      BY <2>1 DEF TypeOK
    <3>3. NoMd.addr = 0
      BY DEF NoMd
    <3> QED
      BY <2>1, <3>1, <3>2, <3>3 DEF AddrsSent
<1>8. ASSUME NEW e \in Ends, Deliver(e) PROVE AddrsSent'
  <2>1. /\ wr[e].op = "send"
        /\ cqRecv' = [cqRecv EXCEPT ![Peer(e)] = Append(@, wr[e].md)]
        /\ UNCHANGED <<sent, wrq, cur>>
    BY <1>8 DEF Deliver, history
  <2>2. \A x \in Ends : wr'[x].op = "send"
                          => wr'[x] = wr[x]
    <3>1. wr' = [wr EXCEPT ![e] = [wr[e] EXCEPT !.op = "sent"]]
      BY <1>8 DEF Deliver
    <3>2. wr[e] \in [op : {"send", "sent", "read"}, md : MetaData]
      BY <2>1 DEF TypeOK, WorkRequest, NoWr
    <3>3. [wr[e] EXCEPT !.op = "sent"].op = "sent"
      BY <3>2
    <3> QED
      BY <3>1, <3>3 DEF TypeOK
  <2>3. wr[e].md.type = "NORMAL"
          => wr[e].md.addr =< Len(sent[Peer(Peer(e))])
    BY <2>1, PeerFacts DEF AddrsSent
  <2>4. \A x \in Ends : \A i \in DOMAIN cqRecv'[x] :
          cqRecv'[x][i].type = "NORMAL"
            => cqRecv'[x][i].addr =< Len(sent[Peer(x)])
    <3>1. cqRecv[Peer(e)] \in Seq(MetaData) /\ Peer(e) \in Ends
      BY PeerFacts DEF TypeOK
    <3>2. \A x \in Ends : cqRecv'[x] = IF x = Peer(e)
                              THEN Append(cqRecv[Peer(e)], wr[e].md)
                              ELSE cqRecv[x]
      BY <2>1 DEF TypeOK
    <3>3. \A i \in DOMAIN Append(cqRecv[Peer(e)], wr[e].md) :
            \/ /\ i \in DOMAIN cqRecv[Peer(e)]
               /\ Append(cqRecv[Peer(e)], wr[e].md)[i] = cqRecv[Peer(e)][i]
            \/ Append(cqRecv[Peer(e)], wr[e].md)[i] = wr[e].md
      BY <3>1, SeqElements
    <3> QED
      BY <2>3, <3>1, <3>2, <3>3 DEF AddrsSent
  <2> QED
    BY <2>1, <2>2, <2>4 DEF AddrsSent
<1>9. ASSUME NEW e \in Ends, Complete(e) PROVE AddrsSent'
  <2>1. wr' = [wr EXCEPT ![e] = NoWr] /\ UNCHANGED <<sent, cqRecv, wrq, cur>>
    BY <1>9 DEF Complete, history
  <2> QED
    BY <2>1 DEF AddrsSent, TypeOK, NoWr
<1>10. ASSUME NEW e \in Ends, Receive(e, "recv_") \/ Receive(e, "irecv_")
       PROVE  AddrsSent'
  BY <1>2, <1>10 DEF Receive, history
<1>11. ASSUME NEW e \in Ends, PollCQ(e) PROVE AddrsSent'
  BY <1>2, <1>11 DEF PollCQ, history
<1>12. ASSUME NEW e \in Ends, PostMetaData(e) PROVE AddrsSent'
  BY <1>3, <1>12, SendMdFacts DEF PostMetaData, history, cq
<1>13. ASSUME NEW e \in Ends, ReadCompleted(e) PROVE AddrsSent'
  <2>1. AckOf(cur[e]).type # "NORMAL"
    BY AckOfFacts DEF TypeOK
  <2> QED
    BY <1>3, <1>13, <2>1 DEF ReadCompleted, PollReturn, history, cq
<1>14. ASSUME NEW e \in Ends,
              \/ PollAgain(e) \/ CreditWait(e) \/ CreditPolled(e)
              \/ SendCompleted(e) \/ RecvPolled(e) \/ Return(e)
              \/ ReturnMessage(e) \/ RecvWait(e)
       PROVE  UNCHANGED <<sent, wr, cqRecv, wrq, cur>>
  BY <1>14 DEF PollAgain, CreditWait, CreditPolled, SendCompleted, RecvPolled,
     Return, ReturnMessage, RecvWait, PollReturn, history, cq
<1>15. CASE UNCHANGED vars
  BY <1>0, <1>15 DEF vars, history, cq
<1> QED
  BY <1>0, <1>1, <1>5, <1>6, <1>7, <1>8, <1>9, <1>10, <1>11, <1>12, <1>13,
     <1>14, <1>15
     DEF Next, Call, Thread, Hca

\* Type correctness: TypeOK, for which AddrsSent is the strengthening.
THEOREM TypeCorrect == Spec => []TypeOK
<1>1. Init => TypeInv
  BY TypeInit
<1>2. TypeInv /\ [Next]_vars => TypeInv'
  BY TypeNext, AddrsNext DEF TypeInv
<1>3. TypeInv => TypeOK
  BY DEF TypeInv
<1> QED
  BY <1>1, <1>2, <1>3, PTL DEF Spec

-----------------------------------------------------------------------------
(* Receive buffers *)

\* A buffer is out of the queues exactly while recv_wc_handle waits on it.
CurHeld ==
    \A e \in Ends : cur[e] # NoMd <=> pc[e] \in {"reading", "acking"}

BufferInv == BufferConservation /\ CurHeld

\* Buffers of x that wait in the CQ and in wr_queue, or are being handled.
InCq(x) == Len(cqRecv[x])
InWrq(x) == Len(wrq[x])
InHand(x) == One(cur[x] # NoMd)

LEMMA BufferInit == Init => BufferInv
<1> SUFFICES ASSUME Init PROVE BufferInv
  OBVIOUS
<1>1. \A e \in Ends : rq[e] = M /\ cqRecv[e] = <<>> /\ wrq[e] = <<>>
                      /\ cur[e] = NoMd /\ pc[e] = "idle"
  BY DEF Init
<1>2. Len(<<>>) = 0 /\ M \in Nat
  BY MAssumption
<1> QED
  BY <1>1, <1>2 DEF BufferInv, BufferConservation, CurHeld, One

\* What a step must do to the buffers of each endpoint.
LEMMA BufferStep ==
    ASSUME TypeOK, BufferInv,
           \A x \in Ends :
             /\ rq'[x] + InCq(x)' + InWrq(x)' + InHand(x)'
                = rq[x] + InCq(x) + InWrq(x) + InHand(x)
             /\ cur'[x] # NoMd <=> pc'[x] \in {"reading", "acking"}
    PROVE  BufferInv'
  BY DEF BufferInv, BufferConservation, CurHeld, InCq, InWrq, InHand

\* The four parts of the sum are numbers.
LEMMA BufferNumbers ==
    ASSUME TypeOK
    PROVE  \A x \in Ends : /\ rq[x] \in Nat
                           /\ InCq(x) \in Nat
                           /\ InWrq(x) \in Nat
                           /\ InHand(x) \in Nat
  BY DEF TypeOK, InCq, InWrq, InHand, One

LEMMA BufferNext == TypeOK /\ BufferInv /\ [Next]_vars => BufferInv'
<1> SUFFICES ASSUME TypeOK, BufferInv, [Next]_vars PROVE BufferInv'
  OBVIOUS
\* A step of e that moves the caller around outside recv_wc_handle.
<1>1. ASSUME NEW e \in Ends, UNCHANGED <<rq, cqRecv, wrq, cur>>,
             \E q : /\ pc' = [pc EXCEPT ![e] = q]
                    /\ \/ q = pc[e]
                       \/ /\ pc[e] \notin {"reading", "acking"}
                          /\ q \notin {"reading", "acking"}
      PROVE  BufferInv'
  BY <1>1, BufferStep DEF BufferInv, CurHeld, TypeOK, InCq, InWrq, InHand
<1>2. ASSUME NEW e \in Ends, DrainCQ(e), UNCHANGED <<rq, cur>>,
             \/ UNCHANGED pc
             \/ pc[e] = "idle" /\ pc' = [pc EXCEPT ![e] = "resolve"]
      PROVE  BufferInv'
  <2>1. InCq(e)' = 0 /\ InWrq(e)' = InWrq(e) + InCq(e)
    BY <1>2 DEF DrainCQ, TypeOK, InCq, InWrq
  <2>2. ASSUME NEW x \in Ends, x # e
        PROVE  InCq(x)' = InCq(x) /\ InWrq(x)' = InWrq(x)
    BY <1>2, <2>2 DEF DrainCQ, TypeOK, InCq, InWrq
  <2>3. \A x \in Ends : cur'[x] # NoMd <=> pc'[x] \in {"reading", "acking"}
    BY <1>2 DEF BufferInv, CurHeld, TypeOK
  <2> QED
    <3>1. \A x \in Ends : rq'[x] + InCq(x)' + InWrq(x)' + InHand(x)'
                            = rq[x] + InCq(x) + InWrq(x) + InHand(x)
      <4>1. UNCHANGED rq /\ \A x \in Ends : InHand(x)' = InHand(x)
        BY <1>2 DEF InHand
      <4> QED
        BY <2>1, <2>2, <4>1, BufferNumbers
    <3> QED
      BY <2>3, <3>1, BufferStep
<1>3. ASSUME NEW e \in Ends, NEW t, PopWr(e, t)
      PROVE  \A x \in Ends :
               /\ InCq(x)' = InCq(x)
               /\ InWrq(x)' = IF x = e THEN InWrq(e) - 1 ELSE InWrq(x)
  <2>1. UNCHANGED cqRecv /\ wrq[e] # <<>> /\ wrq[e] \in Seq(MetaData)
    BY <1>3 DEF PopWr, TypeOK, cq
  <2>2. Len(Tail(wrq[e])) = Len(wrq[e]) - 1
    BY <2>1
  <2>3. \A x \in Ends : wrq'[x] = IF x = e THEN Tail(wrq[e]) ELSE wrq[x]
    BY <1>3 DEF PopWr, TypeOK
  <2> QED
    BY <2>1, <2>2, <2>3 DEF InCq, InWrq
<1>4. ASSUME NEW e \in Ends, ResolveNormal(e) PROVE BufferInv'
  <2>1. PopWr(e, "NORMAL") /\ UNCHANGED rq
        /\ cur' = [cur EXCEPT ![e] = Head(wrq[e])]
        /\ \E q \in {"reading", "acking"} : pc' = [pc EXCEPT ![e] = q]
    BY <1>4 DEF ResolveNormal
  <2>2. Head(wrq[e]) # NoMd /\ pc[e] = "resolve"
    BY <2>1 DEF PopWr, NoMd
  <2>3. InHand(e) = 0 /\ InHand(e)' = 1
    BY <2>1, <2>2 DEF BufferInv, CurHeld, TypeOK, One, InHand
  <2>4. \A x \in Ends : x # e => cur'[x] = cur[x] /\ pc'[x] = pc[x]
    BY <2>1 DEF TypeOK
  <2>5. \A x \in Ends : cur'[x] # NoMd <=> pc'[x] \in {"reading", "acking"}
    BY <2>1, <2>2, <2>4 DEF BufferInv, CurHeld, TypeOK
  <2> QED
    <3>1. \A x \in Ends : rq'[x] + InCq(x)' + InWrq(x)' + InHand(x)'
                            = rq[x] + InCq(x) + InWrq(x) + InHand(x)
      <4>1. UNCHANGED rq /\ \A x \in Ends : x # e => InHand(x)' = InHand(x)
        BY <2>1, <2>4 DEF InHand
      <4> QED
        <5> TAKE x \in Ends
        <5>1. CASE x = e
          <6>1. InCq(e)' = InCq(e) /\ InWrq(e)' = InWrq(e) - 1
            BY <1>3, <2>1
          <6> QED
            BY <2>3, <4>1, <5>1, <6>1, BufferNumbers
        <5>2. CASE x # e
          BY <1>3, <2>1, <4>1, <5>2
        <5> QED
          BY <5>1, <5>2
    <3> QED
      BY <2>5, <3>1, BufferStep
<1>5. ASSUME NEW e \in Ends, ResolveAck(e) PROVE BufferInv'
  <2>1. PopWr(e, "ACK") /\ UNCHANGED <<pc, cur>>
        /\ rq' = [rq EXCEPT ![e] = @ + 1]
    BY <1>5 DEF ResolveAck, PostRecv
  <2>2. \A x \in Ends : rq'[x] = IF x = e THEN rq[e] + 1 ELSE rq[x]
    BY <2>1 DEF TypeOK
  <2> QED
    <3>1. \A x \in Ends : rq'[x] + InCq(x)' + InWrq(x)' + InHand(x)'
                            = rq[x] + InCq(x) + InWrq(x) + InHand(x)
      <4>1. \A x \in Ends : InHand(x)' = InHand(x)
        BY <2>1 DEF InHand
      <4> QED
        BY <1>3, <2>1, <2>2, <4>1, BufferNumbers
    <3> QED
      BY <2>1, <3>1, BufferStep DEF BufferInv, CurHeld
<1>6. ASSUME NEW e \in Ends, AckCompleted(e) PROVE BufferInv'
  <2>1. pc[e] = "acking" /\ pc' = [pc EXCEPT ![e] = "resolve"]
        /\ cur' = [cur EXCEPT ![e] = NoMd]
        /\ rq' = [rq EXCEPT ![e] = @ + 1]
        /\ UNCHANGED <<cqRecv, wrq>>
    BY <1>6 DEF AckCompleted, PollReturn, PostRecv, cq
  <2>2. \A x \in Ends : rq'[x] = IF x = e THEN rq[e] + 1 ELSE rq[x]
    BY <2>1 DEF TypeOK
  <2>3. InHand(e) = 1 /\ InHand(e)' = 0
    BY <2>1 DEF BufferInv, CurHeld, TypeOK, One, InHand
  <2>4. \A x \in Ends : x # e => cur'[x] = cur[x] /\ pc'[x] = pc[x]
    BY <2>1 DEF TypeOK
  <2>5. \A x \in Ends : cur'[x] # NoMd <=> pc'[x] \in {"reading", "acking"}
    BY <2>1, <2>4 DEF BufferInv, CurHeld, TypeOK
  <2>6. \A x \in Ends : InCq(x)' = InCq(x) /\ InWrq(x)' = InWrq(x)
    BY <2>1 DEF InCq, InWrq
  <2>7. \A x \in Ends : x # e => InHand(x)' = InHand(x)
    BY <2>4 DEF InHand
  <2>8. \A x \in Ends : rq'[x] + InCq(x)' + InWrq(x)' + InHand(x)'
                          = rq[x] + InCq(x) + InWrq(x) + InHand(x)
    <3> TAKE x \in Ends
    <3>1. CASE x = e
      <4>1. rq'[e] = rq[e] + 1 /\ InCq(e)' = InCq(e) /\ InWrq(e)' = InWrq(e)
        BY <2>2, <2>6
      <4> QED
        BY <2>3, <3>1, <4>1, BufferNumbers
    <3>2. CASE x # e
      BY <2>2, <2>6, <2>7, <3>2
    <3> QED
      BY <3>1, <3>2
  <2> QED
    BY <2>5, <2>8, BufferStep
<1>7. ASSUME NEW e \in Ends, ReadCompleted(e) PROVE BufferInv'
  <2>1. pc[e] = "reading" /\ pc' = [pc EXCEPT ![e] = "acking"]
        /\ UNCHANGED <<rq, cqRecv, wrq, cur>>
    BY <1>7 DEF ReadCompleted, PollReturn, cq
  <2> QED
    BY <2>1, BufferStep DEF BufferInv, CurHeld, TypeOK, InCq, InWrq, InHand
<1>8. ASSUME NEW e \in Ends, Deliver(e) PROVE BufferInv'
  <2>1. /\ rq' = [rq EXCEPT ![Peer(e)] = @ - 1]
        /\ cqRecv' = [cqRecv EXCEPT ![Peer(e)] = Append(@, wr[e].md)]
        /\ UNCHANGED <<wrq, cur, pc>>
    BY <1>8 DEF Deliver, caller
  <2>2. \A x \in Ends : rq'[x] = IF x = Peer(e) THEN rq[x] - 1 ELSE rq[x]
    BY <2>1 DEF TypeOK
  <2>3. \A x \in Ends : InCq(x)' = IF x = Peer(e) THEN InCq(x) + 1 ELSE InCq(x)
    BY <2>1 DEF TypeOK, InCq
  <2>4. \A x \in Ends : InWrq(x)' = InWrq(x) /\ InHand(x)' = InHand(x)
    BY <2>1 DEF InWrq, InHand
  <2>5. \A x \in Ends : rq'[x] + InCq(x)' + InWrq(x)' + InHand(x)'
                          = rq[x] + InCq(x) + InWrq(x) + InHand(x)
    BY <2>2, <2>3, <2>4, BufferNumbers
  <2> QED
    BY <2>1, <2>5, BufferStep DEF BufferInv, CurHeld
<1>9. ASSUME NEW e \in Ends, Complete(e) PROVE BufferInv'
  BY <1>9, BufferStep
     DEF Complete, caller, BufferInv, CurHeld, InCq, InWrq, InHand
<1>10. ASSUME NEW e \in Ends, NEW m \in Msg, Send(e, m) PROVE BufferInv'
  <2>1. UNCHANGED <<rq, cqRecv, wrq, cur>>
        /\ pc[e] = "idle" /\ pc' = [pc EXCEPT ![e] = "credit"]
    BY <1>10 DEF Send, cq
  <2>2. pc[e] \notin {"reading", "acking"}
        /\ "credit" \notin {"reading", "acking"}
    BY <2>1
  <2> QED
    BY <1>1, <2>1, <2>2
<1>11. ASSUME NEW e \in Ends, NEW call, Receive(e, call) PROVE BufferInv'
  BY <1>2, <1>11 DEF Receive
<1>12. ASSUME NEW e \in Ends, PollCQ(e) PROVE BufferInv'
  BY <1>2, <1>12 DEF PollCQ
<1>13. ASSUME NEW e \in Ends, PollAgain(e) PROVE BufferInv'
  <2>1. UNCHANGED <<rq, cqRecv, wrq, cur>> /\ pc' = [pc EXCEPT ![e] = pc[e]]
    BY <1>13 DEF PollAgain, PollReturn, cq
  <2> QED
    BY <1>1, <2>1
<1>14. ASSUME NEW e \in Ends,
              \/ CreditWait(e) \/ CreditPolled(e) \/ PostMetaData(e)
              \/ SendCompleted(e) \/ RecvPolled(e) \/ Return(e)
              \/ ReturnMessage(e) \/ RecvWait(e)
       PROVE  BufferInv'
  <2>1. UNCHANGED <<rq, cqRecv, wrq, cur>>
    BY <1>14 DEF CreditWait, CreditPolled, PostMetaData, SendCompleted,
       RecvPolled, Return, ReturnMessage, RecvWait, PollReturn, cq
  <2>2. \E q \in {"creditPoll", "post", "sending", "resolve", "idle",
                  "recvPoll"} :
          pc' = [pc EXCEPT ![e] = q] /\ pc[e] \notin {"reading", "acking"}
    BY <1>14 DEF CreditWait, CreditPolled, PostMetaData, SendCompleted,
       RecvPolled, Return, ReturnMessage, RecvWait, PollReturn, Resolved
  <2> QED
    BY <1>1, <2>1, <2>2
<1>15. CASE UNCHANGED vars
  BY <1>15, BufferStep
     DEF vars, cq, caller, BufferInv, CurHeld, InCq, InWrq, InHand
<1> QED
  BY <1>4, <1>5, <1>6, <1>7, <1>8, <1>9, <1>10, <1>11, <1>12, <1>13, <1>14,
     <1>15
     DEF Next, Call, Thread, Hca

\* Receive buffers are conserved for every MDBUFFERSIZE: each path through
\* recv_wc_handle posts its buffer again exactly once.
THEOREM BuffersConserved == Spec => []BufferConservation
<1>1. Init => BufferInv
  BY BufferInit
<1>2. TypeOK /\ BufferInv /\ [Next]_vars => BufferInv'
  BY BufferNext
<1>3. BufferInv => BufferConservation
  BY DEF BufferInv
<1>4. Spec => []TypeOK
  BY TypeCorrect
<1> QED
  BY <1>1, <1>2, <1>3, <1>4, PTL DEF Spec

\* The CQ created with 2 * MDBUFFERSIZE entries is never full, for receive
\* completions are limited by the buffers and there is one SEND or READ.
THEOREM CQNeverOverflows == Spec => []CQWithinCapacity
<1>1. TypeOK /\ BufferConservation => CQWithinCapacity
  <2> SUFFICES ASSUME TypeOK, BufferConservation, NEW e \in Ends
               PROVE  InCq(e) + One(cqDone[e]) =< 2 * M
    BY DEF CQWithinCapacity, InCq
  <2>1. rq[e] + InCq(e) + InWrq(e) + InHand(e) = M
    BY DEF BufferConservation, InCq, InWrq, InHand
  <2>2. InCq(e) =< M
    BY <2>1, BufferNumbers, MAssumption
  <2>3. One(cqDone[e]) =< 1 /\ One(cqDone[e]) \in Nat
    BY DEF One
  <2> HIDE DEF TypeOK, BufferConservation
  <2> QED
    BY <2>2, <2>3, BufferNumbers, MAssumption
<1> QED
  BY <1>1, TypeCorrect, BuffersConserved, PTL

-----------------------------------------------------------------------------
(* Completions *)

\* The places where a thread waits for a request it posted.
Waiting == {"sending", "reading", "acking"}

\* Exactly one of a request, its completion and the flag raised for it.
Owns(x) ==
    \/ wr[x] # NoWr /\ ~cqDone[x] /\ poll[x] # "done"
    \/ wr[x] = NoWr /\ cqDone[x] /\ poll[x] # "done"
    \/ wr[x] = NoWr /\ ~cqDone[x] /\ poll[x] = "done"

OwnsNothing(x) == wr[x] = NoWr /\ ~cqDone[x] /\ poll[x] # "done"

OwnInv ==
    \A x \in Ends : IF pc[x] \in Waiting THEN Owns(x) ELSE OwnsNothing(x)

LEMMA OwnInvIsOwnCompletion == OwnInv => OwnCompletion
  BY DEF OwnInv, Owns, OwnsNothing, OwnCompletion, Waiting, One

LEMMA OwnInit == Init => OwnInv
  BY DEF Init, OwnInv, OwnsNothing, Waiting

\* A step of e need only be looked at at e.
LEMMA OwnStep ==
    ASSUME OwnInv, NEW e \in Ends,
           \A x \in Ends : x # e => /\ wr'[x] = wr[x] /\ cqDone'[x] = cqDone[x]
                                    /\ poll'[x] = poll[x] /\ pc'[x] = pc[x],
           IF pc'[e] \in Waiting THEN Owns(e)' ELSE OwnsNothing(e)'
    PROVE  OwnInv'
  BY DEF OwnInv, Owns, OwnsNothing

LEMMA OwnNext == TypeOK /\ OwnInv /\ [Next]_vars => OwnInv'
<1> SUFFICES ASSUME TypeOK, OwnInv, [Next]_vars PROVE OwnInv'
  OBVIOUS
<1> USE DEF TypeOK, OwnInv, Owns, OwnsNothing, Waiting
<1>1. ASSUME NEW e \in Ends, NEW m \in Msg, Send(e, m) PROVE OwnInv'
  BY <1>1, OwnStep DEF Send, cq
<1>2. ASSUME NEW e \in Ends, NEW call, Receive(e, call) PROVE OwnInv'
  BY <1>2, OwnStep DEF Receive, DrainCQ
<1>3. ASSUME NEW e \in Ends, PollCQ(e) PROVE OwnInv'
  BY <1>3, OwnStep DEF PollCQ, DrainCQ
<1>4. ASSUME NEW e \in Ends, PollAgain(e) PROVE OwnInv'
  <2>1. PICK at \in Waiting : PollReturn(e, at, {"nothing"}, at)
    BY <1>4 DEF PollAgain
  <2>2. UNCHANGED wr
    BY <1>4 DEF PollAgain
  <2> QED
    BY <2>1, <2>2, OwnStep DEF PollReturn, cq
<1>5. ASSUME NEW e \in Ends,
             CreditWait(e) \/ Return(e) \/ ReturnMessage(e) \/ RecvWait(e)
      PROVE  OwnInv'
  <2>1. UNCHANGED <<poll, wr, cqDone>>
    BY <1>5 DEF CreditWait, Return, ReturnMessage, RecvWait, cq
  <2>2. pc[e] \in {"credit", "resolve"}
    BY <1>5 DEF CreditWait, Return, ReturnMessage, RecvWait, Resolved
  <2>3. \/ pc' = [pc EXCEPT ![e] = "creditPoll"]
        \/ pc' = [pc EXCEPT ![e] = "idle"]
        \/ pc' = [pc EXCEPT ![e] = "recvPoll"]
    BY <1>5 DEF CreditWait, Return, ReturnMessage, RecvWait
  <2> QED
    BY <2>1, <2>2, <2>3, OwnStep
<1>6. ASSUME NEW e \in Ends,
             CreditPolled(e) \/ SendCompleted(e) \/ RecvPolled(e)
      PROVE  OwnInv'
  <2>1. UNCHANGED <<wr, cqDone>> /\ poll' = [poll EXCEPT ![e] = "wait"]
    BY <1>6 DEF CreditPolled, SendCompleted, RecvPolled, PollReturn, cq
  <2>2. \/ pc' = [pc EXCEPT ![e] = "post"]
        \/ pc' = [pc EXCEPT ![e] = "resolve"]
    BY <1>6 DEF CreditPolled, SendCompleted, RecvPolled, PollReturn
  <2>3. \/ pc[e] \in {"creditPoll", "recvPoll"}
        \/ pc[e] = "sending" /\ poll[e] = "done"
    BY <1>6 DEF CreditPolled, SendCompleted, RecvPolled, PollReturn
  <2>4. wr[e] = NoWr /\ ~cqDone[e]
    BY <2>3
  <2> QED
    BY <2>1, <2>2, <2>4, OwnStep
<1>7. ASSUME NEW e \in Ends, PostMetaData(e) PROVE OwnInv'
  BY <1>7, OwnStep DEF PostMetaData, Post, NoWr, cq
<1>8. ASSUME NEW e \in Ends, ResolveNormal(e) PROVE OwnInv'
  <2>1. /\ pc[e] = "resolve"
        /\ UNCHANGED <<poll, cqDone>>
        /\ \E md : \/ Post(e, "read", md) /\ pc' = [pc EXCEPT ![e] = "reading"]
                   \/ Post(e, "send", md) /\ pc' = [pc EXCEPT ![e] = "acking"]
    BY <1>8 DEF ResolveNormal, PopWr, cq
  <2>2. OwnsNothing(e)
    BY <2>1
  <2>3. PICK md : \/ Post(e, "read", md) /\ pc' = [pc EXCEPT ![e] = "reading"]
                  \/ Post(e, "send", md) /\ pc' = [pc EXCEPT ![e] = "acking"]
    BY <2>1
  <2>4. pc'[e] \in Waiting /\ wr'[e] # NoWr
    BY <2>3 DEF Post, NoWr
  <2>5. \A x \in Ends : x # e => wr'[x] = wr[x] /\ pc'[x] = pc[x]
    BY <2>3 DEF Post
  <2> QED
    BY <2>1, <2>2, <2>4, <2>5, OwnStep
<1>9. ASSUME NEW e \in Ends, ReadCompleted(e) PROVE OwnInv'
  BY <1>9, OwnStep DEF ReadCompleted, PollReturn, Post, NoWr, cq
<1>10. ASSUME NEW e \in Ends, AckCompleted(e) PROVE OwnInv'
  BY <1>10, OwnStep DEF AckCompleted, PollReturn, cq
<1>11. ASSUME NEW e \in Ends, ResolveAck(e) PROVE OwnInv'
  BY <1>11, OwnStep DEF ResolveAck, PopWr, cq
<1>12. ASSUME NEW e \in Ends, Deliver(e) PROVE OwnInv'
  <2>1. wr[e].op = "send" /\ UNCHANGED <<pc, poll, cqDone>>
        /\ wr' = [wr EXCEPT ![e] = [wr[e] EXCEPT !.op = "sent"]]
    BY <1>12 DEF Deliver, caller
  <2>2. wr[e] # NoWr
    BY <2>1 DEF NoWr
  <2>3. wr[e] \in [op : {"send", "sent", "read"}, md : MetaData]
    BY <2>2 DEF WorkRequest
  <2>4. [wr[e] EXCEPT !.op = "sent"].op = "sent"
    BY <2>3
  <2>5. wr'[e] # NoWr
    BY <2>1, <2>4 DEF NoWr
  <2>6. \A x \in Ends : x # e => wr'[x] = wr[x]
    BY <2>1
  <2> QED
    BY <2>1, <2>2, <2>5, <2>6, OwnStep
<1>13. ASSUME NEW e \in Ends, Complete(e) PROVE OwnInv'
  <2>1. wr[e] # NoWr
    BY <1>13 DEF Complete, CanComplete, NoWr
  <2> QED
    BY <1>13, <2>1, OwnStep DEF Complete, caller
<1>14. CASE UNCHANGED vars
  BY <1>14 DEF vars, cq, caller
<1> QED
  BY <1>1, <1>2, <1>3, <1>4, <1>5, <1>6, <1>7, <1>8, <1>9, <1>10, <1>11,
     <1>12, <1>13, <1>14
     DEF Next, Call, Thread, Hca

\* A completion poll_wc reports is the caller's own, and no call leaves one
\* behind for a later call to take for its own.
THEOREM CompletionsOwned == Spec => []OwnCompletion
<1>1. Init => OwnInv
  BY OwnInit
<1>2. TypeOK /\ OwnInv /\ [Next]_vars => OwnInv'
  BY OwnNext
<1> QED
  BY <1>1, <1>2, OwnInvIsOwnCompletion, TypeCorrect, PTL DEF Spec

-----------------------------------------------------------------------------
(* Notifications *)

\* Outside the end of poll_wc a notification is there or the next completion
\* raises one, and the channel is armed over an empty CQ only.
ArmedAt(x) ==
    /\ poll[x] = "wait" => event[x] \/ armed[x]
    /\ armed[x] => CQEmpty(x)

ArmInv == \A x \in Ends : ArmedAt(x)

LEMMA ArmInit == Init => ArmInv
  BY DEF Init, ArmInv, ArmedAt, CQEmpty

LEMMA ArmNext ==
    ASSUME ArmReportsPending, TypeOK, ArmInv, [Next]_vars
    PROVE  ArmInv'
<1>1. ASSUME UNCHANGED <<poll, event, armed, cqRecv, cqDone>> PROVE ArmInv'
  BY <1>1 DEF ArmInv, ArmedAt, CQEmpty
<1>2. ASSUME NEW e \in Ends, DrainCQ(e), UNCHANGED <<poll, event, armed>>
      PROVE  ArmInv'
  BY <1>2 DEF DrainCQ, TypeOK, ArmInv, ArmedAt, CQEmpty
<1>3. ASSUME NEW e \in Ends, NEW at, NEW flags, NEW next,
             PollReturn(e, at, flags, next)
      PROVE  ArmInv'
  <2>1. UNCHANGED <<cqRecv, cqDone>>
    BY <1>3 DEF PollReturn, cq
  <2>2. CASE CQEmpty(e)
    BY <1>3, <2>1, <2>2
       DEF PollReturn, ReqNotify, TypeOK, ArmInv, ArmedAt, CQEmpty
  <2>3. CASE ~CQEmpty(e)
    <3>1. event' = [event EXCEPT ![e] = TRUE] /\ UNCHANGED armed
      BY <1>3, <2>3 DEF PollReturn, ReqNotify
    <3> QED
      BY <1>3, <2>1, <2>3, <3>1
         DEF PollReturn, TypeOK, ArmInv, ArmedAt, CQEmpty
  <2> QED
    BY <2>2, <2>3
<1>4. ASSUME NEW p \in Ends, Notify(p), UNCHANGED poll,
             \A x \in Ends : x # p => cqRecv'[x] = cqRecv[x]
                                      /\ cqDone'[x] = cqDone[x]
      PROVE  ArmInv'
  BY <1>4 DEF Notify, TypeOK, ArmInv, ArmedAt, CQEmpty
<1>5. ASSUME NEW e \in Ends, NEW m \in Msg, Send(e, m) PROVE ArmInv'
  BY <1>1, <1>5 DEF Send, chan, cq
<1>6. ASSUME NEW e \in Ends, NEW call, Receive(e, call) PROVE ArmInv'
  BY <1>2, <1>6 DEF Receive, chan
<1>7. ASSUME NEW e \in Ends, PollCQ(e) PROVE ArmInv'
  BY <1>7 DEF PollCQ, DrainCQ, TypeOK, ArmInv, ArmedAt, CQEmpty
<1>8. ASSUME NEW e \in Ends,
             \/ PollAgain(e) \/ CreditPolled(e) \/ SendCompleted(e)
             \/ RecvPolled(e) \/ ReadCompleted(e) \/ AckCompleted(e)
      PROVE  ArmInv'
  BY <1>3, <1>8 DEF PollAgain, CreditPolled, SendCompleted, RecvPolled,
     ReadCompleted, AckCompleted
<1>9. ASSUME NEW e \in Ends,
             \/ CreditWait(e) \/ PostMetaData(e) \/ ResolveNormal(e)
             \/ ResolveAck(e) \/ Return(e) \/ ReturnMessage(e) \/ RecvWait(e)
      PROVE  UNCHANGED <<poll, event, armed, cqRecv, cqDone>>
  BY <1>9 DEF CreditWait, PostMetaData, ResolveNormal, ResolveAck, Return,
     ReturnMessage, RecvWait, PopWr, chan, cq
<1>10. ASSUME NEW e \in Ends, Deliver(e) PROVE ArmInv'
  <2>1. /\ Notify(Peer(e)) /\ UNCHANGED <<poll, cqDone>>
        /\ cqRecv' = [cqRecv EXCEPT ![Peer(e)] = Append(@, wr[e].md)]
    BY <1>10 DEF Deliver, caller
  <2>2. Peer(e) \in Ends /\ \A x \in Ends : x # Peer(e) => cqRecv'[x] = cqRecv[x]
    BY <2>1, PeerFacts DEF TypeOK
  <2> QED
    BY <1>4, <2>1, <2>2
<1>11. ASSUME NEW e \in Ends, Complete(e) PROVE ArmInv'
  <2>1. /\ Notify(e) /\ UNCHANGED <<poll, cqRecv>>
        /\ cqDone' = [cqDone EXCEPT ![e] = TRUE]
    BY <1>11 DEF Complete, caller
  <2>2. \A x \in Ends : x # e => cqDone'[x] = cqDone[x]
    BY <2>1 DEF TypeOK
  <2> QED
    BY <1>4, <2>1, <2>2
<1>12. CASE UNCHANGED vars
  BY <1>1, <1>12 DEF vars, caller, chan, cq
<1> QED
  BY <1>1, <1>5, <1>6, <1>7, <1>8, <1>9, <1>10, <1>11, <1>12
     DEF Next, Call, Thread, Hca

\* With a device that reports pending completions when it is armed, a thread
\* that waits in poll_wc over a non-empty CQ has a notification to wake it.
THEOREM NotificationsNotMissed ==
    ASSUME ArmReportsPending
    PROVE  Spec => []NoMissedNotification
<1>1. Init => ArmInv
  BY ArmInit
<1>2. TypeOK /\ ArmInv /\ [Next]_vars => ArmInv'
  BY ArmNext
<1>3. ArmInv => NoMissedNotification
  BY DEF ArmInv, ArmedAt, NoMissedNotification
<1> QED
  BY <1>1, <1>2, <1>3, TypeCorrect, PTL DEF Spec

-----------------------------------------------------------------------------

(* Counting the records of one type in a queue *)

Rows(s, t) == {i \in DOMAIN s : s[i].type = t}

\* Count is the number of places that hold the type.
LEMMA CountIsRows == \A s, t : Count(s, t) = Cardinality(Rows(s, t))
  BY DEF Count, Rows

\* Moving a set of numbers does not change how many there are.
LEMMA Shifted ==
    ASSUME NEW S \in SUBSET Nat, IsFiniteSet(S), NEW n \in Nat
    PROVE  /\ IsFiniteSet({i + n : i \in S})
           /\ Cardinality({i + n : i \in S}) = Cardinality(S)
<1> DEFINE T == {i + n : i \in S}
           f == [i \in S |-> i + n]
<1>1. f \in [S -> T]
  OBVIOUS
<1>2. \A i, j \in S : f[i] = f[j] => i = j
  OBVIOUS
<1>3. \A k \in T : \E i \in S : f[i] = k
  OBVIOUS
<1>4. f \in Bijection(S, T)
  BY <1>1, <1>2, <1>3 DEF Bijection, Injection, Surjection, IsInjective
<1>5. ExistsBijection(S, T)
  BY <1>4 DEF ExistsBijection
<1> QED
  BY <1>5, FS_Bijection

\* The places of a type in a queue are finitely many natural numbers.
LEMMA RowsFinite ==
    ASSUME NEW s \in Seq(MetaData), NEW t
    PROVE  /\ Rows(s, t) \in SUBSET (1..Len(s))
           /\ IsFiniteSet(Rows(s, t)) /\ Count(s, t) \in Nat
<1>1. Rows(s, t) \in SUBSET (1..Len(s))
  BY DEF Rows
<1>2. IsFiniteSet(1..Len(s))
  BY FS_Interval
<1>3. IsFiniteSet(Rows(s, t))
  BY <1>1, <1>2, FS_Subset
<1> QED
  BY <1>1, <1>3, FS_CardinalityType DEF Rows, Count

\* An empty queue holds nothing of any type.
LEMMA CountEmpty == \A t : Count(<<>>, t) = 0
<1> TAKE t
<1>1. {i \in DOMAIN <<>> : <<>>[i].type = t} = {}
  OBVIOUS
<1> QED
  BY <1>1, FS_EmptySet DEF Count

\* A record at the end of a queue counts once.
LEMMA CountAppend ==
    ASSUME NEW s \in Seq(MetaData), NEW md \in MetaData, NEW t
    PROVE  Count(Append(s, md), t) = Count(s, t) + One(md.type = t)
<1> DEFINE n == Len(s) + 1
<1>1. n \in Nat /\ n \notin Rows(s, t)
  BY RowsFinite
<1>2. IsFiniteSet(Rows(s, t)) /\ Count(s, t) \in Nat
  BY RowsFinite
<1>3. Count(s, t) = Cardinality(Rows(s, t))
      /\ Count(Append(s, md), t) = Cardinality(Rows(Append(s, md), t))
  BY CountIsRows
<1>4. Cardinality(Rows(s, t) \union {n}) = Cardinality(Rows(s, t)) + 1
  <2> HIDE DEF n
  <2> QED
    BY <1>1, <1>2, FS_AddElement
<1>5. CASE md.type = t
  <2>1. Rows(Append(s, md), t) = Rows(s, t) \union {n}
    BY <1>5 DEF Rows
  <2> QED
    BY <1>3, <1>4, <1>5, <2>1 DEF One
<1>6. CASE md.type # t
  <2>1. Rows(Append(s, md), t) = Rows(s, t)
    BY <1>6 DEF Rows
  <2> QED
    BY <1>2, <1>3, <1>6, <2>1 DEF One
<1> QED
  BY <1>5, <1>6

\* A record taken from the front counts no longer.
LEMMA CountTail ==
    ASSUME NEW s \in Seq(MetaData), s # <<>>, NEW t
    PROVE  Count(Tail(s), t) = Count(s, t) - One(Head(s).type = t)
<1> DEFINE moved == {i + 1 : i \in Rows(Tail(s), t)}
<1>1. Tail(s) \in Seq(MetaData) /\ Head(s) = s[1] /\ 1 \in DOMAIN s
  OBVIOUS
<1>2. Rows(Tail(s), t) \in SUBSET Nat /\ IsFiniteSet(Rows(Tail(s), t))
  <2> DEFINE u == Tail(s)
  <2>1. u \in Seq(MetaData)
    OBVIOUS
  <2> HIDE DEF u
  <2>2. Rows(u, t) \in SUBSET (1..Len(u)) /\ IsFiniteSet(Rows(u, t))
    BY <2>1, RowsFinite
  <2>3. Rows(u, t) \in SUBSET Nat
    BY <2>1, <2>2
  <2> QED
    BY <2>2, <2>3 DEF u
<1>3. IsFiniteSet(moved) /\ Cardinality(moved) = Count(Tail(s), t)
  BY <1>2, Shifted DEF Count, Rows
<1>4. moved = Rows(s, t) \ {1}
  <2>1. ASSUME NEW k \in moved PROVE k \in Rows(s, t) \ {1}
    <3>1. PICK i \in Rows(Tail(s), t) : k = i + 1
      OBVIOUS
    <3>2. i \in 1..(Len(s) - 1) /\ Tail(s)[i] = s[i + 1]
      BY <3>1 DEF Rows
    <3> QED
      BY <3>1, <3>2 DEF Rows
  <2>2. ASSUME NEW k \in Rows(s, t) \ {1} PROVE k \in moved
    <3>1. k - 1 \in DOMAIN Tail(s) /\ Tail(s)[k - 1] = s[k]
      BY <2>2 DEF Rows
    <3>2. k - 1 \in Rows(Tail(s), t) /\ k = (k - 1) + 1
      BY <2>2, <3>1 DEF Rows
    <3> QED
      BY <3>2
  <2> QED
    BY <2>1, <2>2
<1>5. 1 \in Rows(s, t) <=> Head(s).type = t
  BY <1>1 DEF Rows
<1>6. IsFiniteSet(Rows(s, t)) /\ Count(s, t) \in Nat /\ Cardinality(Rows(s, t)) = Count(s, t)
  BY RowsFinite DEF Count, Rows
<1> QED
  BY <1>3, <1>4, <1>5, <1>6, FS_RemoveElement DEF One

\* Two queues one behind the other.
LEMMA CountConcat ==
    ASSUME NEW s \in Seq(MetaData), NEW u \in Seq(MetaData), NEW t
    PROVE  Count(s \o u, t) = Count(s, t) + Count(u, t)
<1> DEFINE n == Len(s)
           moved == {i + n : i \in Rows(u, t)}
<1>1. n \in Nat /\ Rows(u, t) \in SUBSET Nat /\ IsFiniteSet(Rows(u, t))
  BY RowsFinite
<1>2. IsFiniteSet(moved) /\ Cardinality(moved) = Count(u, t)
  <2> HIDE DEF n
  <2> QED
    BY <1>1, Shifted DEF Count, Rows
<1>3. Rows(s \o u, t) = Rows(s, t) \union moved
  <2>1. ASSUME NEW k \in Rows(s \o u, t) PROVE k \in Rows(s, t) \union moved
    <3>1. k \in 1..(Len(s) + Len(u)) /\ (s \o u)[k].type = t
      BY DEF Rows
    <3>2. CASE k =< Len(s)
      BY <3>1, <3>2 DEF Rows
    <3>3. CASE k > Len(s)
      <4>1. k - n \in DOMAIN u /\ (s \o u)[k] = u[k - n] /\ k = (k - n) + n
        BY <3>1, <3>3
      <4>2. k - n \in Rows(u, t)
        BY <3>1, <4>1 DEF Rows
      <4> QED
        BY <4>1, <4>2
    <3> QED
      BY <3>1, <3>2, <3>3
  <2>2. ASSUME NEW k \in Rows(s, t) PROVE k \in Rows(s \o u, t)
    BY <2>2 DEF Rows
  <2>3. ASSUME NEW k \in moved PROVE k \in Rows(s \o u, t)
    <3>1. PICK i \in Rows(u, t) : k = i + n
      OBVIOUS
    <3>2. i \in DOMAIN u /\ u[i].type = t
      BY <3>1 DEF Rows
    <3>3. k \in DOMAIN (s \o u) /\ (s \o u)[k] = u[i]
      BY <3>1, <3>2
    <3> QED
      BY <3>2, <3>3 DEF Rows
  <2> QED
    BY <2>1, <2>2, <2>3
<1>4. Rows(s, t) \cap moved = {}
  <2>1. \A k \in Rows(s, t) : k =< n
    BY DEF Rows
  <2>2. \A k \in moved : k > n
    BY <1>1 DEF Rows
  <2> QED
    BY <1>1, <2>1, <2>2 DEF Rows
<1>5. IsFiniteSet(Rows(s, t)) /\ Count(s, t) \in Nat /\ Cardinality(Rows(s, t)) = Count(s, t)
  BY RowsFinite DEF Count, Rows
<1>6. Count(u, t) \in Nat
  BY RowsFinite
<1>7. Cardinality(Rows(s, t) \union moved)
        = Count(s, t) + Count(u, t) - Cardinality(Rows(s, t) \cap moved)
  <2> HIDE DEF moved
  <2> QED
    BY <1>2, <1>5, FS_Union
<1>8. Cardinality(Rows(s, t) \union moved) = Count(s, t) + Count(u, t)
  <2>1. Cardinality(Rows(s, t) \cap moved) = 0
    BY <1>4, FS_EmptySet
  <2> HIDE DEF moved
  <2> QED
    BY <1>5, <1>6, <1>7, <2>1
<1>9. Count(s \o u, t) = Cardinality(Rows(s \o u, t))
  BY CountIsRows
<1> HIDE DEF moved
<1> QED
  BY <1>3, <1>8, <1>9

-----------------------------------------------------------------------------
(* The credit of an endpoint *)

Outgoing(x, type) == One(wr[x].op = "send" /\ wr[x].md.type = type)

\* Messages of x still to be taken, and ACKs for x on its own side.
Given(x) == Outgoing(x, "NORMAL") + Count(cqRecv[x], "ACK") + Count(wrq[x], "ACK")

\* Messages at x whose ACK has not reached the other endpoint.
Taken(x) == Count(cqRecv[x], "NORMAL") + Count(wrq[x], "NORMAL")
            + One(pc[x] = "reading") + Outgoing(x, "ACK")

\* One is a number.
LEMMA OneType == \A b : One(b) \in Nat
  BY DEF One

\* The parts of the sum are numbers.
LEMMA CreditNumbers ==
    ASSUME TypeOK, NEW x \in Ends
    PROVE  /\ peerBuff[x] \in Int /\ Given(x) \in Nat /\ Taken(x) \in Nat
           /\ \A t : Count(cqRecv[x], t) \in Nat /\ Count(wrq[x], t) \in Nat
           /\ \A t : Outgoing(x, t) \in Nat
<1>1. cqRecv[x] \in Seq(MetaData) /\ wrq[x] \in Seq(MetaData) /\ peerBuff[x] \in Int
  BY DEF TypeOK
<1>2. \A t : Count(cqRecv[x], t) \in Nat /\ Count(wrq[x], t) \in Nat
  BY <1>1, RowsFinite
<1>3. \A t : Outgoing(x, t) \in Nat
  BY OneType DEF Outgoing
<1> QED
  BY <1>1, <1>2, <1>3, OneType DEF Given, Taken

Credit(x) == peerBuff[x] + Given(x) + Taken(Peer(x)) = M
CreditInv == \A x \in Ends : Credit(x)

\* CreditInv is the credit conservation the runs check, in parts.
LEMMA CreditInvIsCreditConservation ==
    ASSUME TypeOK PROVE CreditInv <=> CreditConservation
<1>1. \A x \in Ends : Given(x) + Taken(Peer(x)) = Unacked(x)
  <2> TAKE x \in Ends
  <2> DEFINE p == Peer(x)
  <2>1. p \in Ends
    BY PeerFacts
  <2>2. /\ Count(cqRecv[x], "ACK") \in Nat /\ Count(wrq[x], "ACK") \in Nat
        /\ Count(cqRecv[p], "NORMAL") \in Nat /\ Count(wrq[p], "NORMAL") \in Nat
        /\ Outgoing(x, "NORMAL") \in Nat /\ Outgoing(p, "ACK") \in Nat
        /\ One(pc[p] = "reading") \in Nat
    BY <2>1, CreditNumbers, OneType
  <2> HIDE DEF p
  <2>3. Given(x) + Taken(p) =
          Outgoing(x, "NORMAL") + Count(cqRecv[p], "NORMAL") + Count(wrq[p], "NORMAL")
          + One(pc[p] = "reading") + Outgoing(p, "ACK")
          + Count(cqRecv[x], "ACK") + Count(wrq[x], "ACK")
    BY <2>2 DEF Given, Taken
  <2> QED
    BY <2>3 DEF Unacked, p, Outgoing
<1>2. \A x \in Ends : /\ peerBuff[x] \in Int /\ Given(x) \in Nat
                      /\ Taken(Peer(x)) \in Nat
  BY PeerFacts, CreditNumbers
<1> QED
  BY <1>1, <1>2 DEF CreditInv, Credit, CreditConservation

\* At the start all M credits are in peer_buff_count.
LEMMA CreditInit == Init => CreditInv
<1> SUFFICES ASSUME Init, NEW x \in Ends PROVE Credit(x)
  BY DEF CreditInv
<1>1. \A y \in Ends : Given(y) = 0 /\ Taken(y) = 0
  BY CountEmpty DEF Init, Given, Taken, Outgoing, One, NoWr
<1> QED
  BY <1>1, PeerFacts, MAssumption DEF Init, Credit

\* Most steps move a record within the share of one endpoint.
LEMMA CreditKept ==
    ASSUME TypeOK, TypeOK', CreditInv,
           \A x \in Ends : /\ peerBuff'[x] + Given(x)' = peerBuff[x] + Given(x)
                           /\ Taken(x)' = Taken(x)
    PROVE  CreditInv'
<1> SUFFICES ASSUME NEW x \in Ends PROVE Credit(x)'
  BY DEF CreditInv
<1>1. Peer(x) \in Ends /\ Credit(x)
  BY PeerFacts DEF CreditInv
<1>2. peerBuff'[x] + Given(x)' = peerBuff[x] + Given(x) /\ Taken(Peer(x))' = Taken(Peer(x))
  BY <1>1
<1> QED
  BY <1>1, <1>2 DEF Credit

\* What decides about the credit has not changed.
LEMMA CreditSame ==
    ASSUME TypeOK, TypeOK', CreditInv, UNCHANGED <<wr, cqRecv, wrq, peerBuff>>,
           \A x \in Ends : pc'[x] = "reading" <=> pc[x] = "reading"
    PROVE  CreditInv'
<1>1. \A x \in Ends : /\ peerBuff'[x] + Given(x)' = peerBuff[x] + Given(x)
                      /\ Taken(x)' = Taken(x)
  BY DEF Given, Taken, Outgoing, One
<1> QED
  BY <1>1, CreditKept

\* Every step of a thread and of the HCA keeps the sum.
LEMMA CreditNext ==
    TypeOK /\ TypeOK' /\ BufferInv /\ OwnInv /\ CreditInv /\ [Next]_vars => CreditInv'
<1> SUFFICES ASSUME TypeOK, TypeOK', BufferInv, OwnInv, CreditInv, [Next]_vars
             PROVE  CreditInv'
  OBVIOUS
\* poll_wc and its callers: completions move to wr_queue.
<1>1. ASSUME NEW e \in Ends, DrainCQ(e), UNCHANGED <<wr, peerBuff>>,
             \A x \in Ends : pc'[x] = "reading" <=> pc[x] = "reading"
      PROVE  CreditInv'
  <2>1. \A x \in Ends : \A t :
          Count(cqRecv[x], t)' + Count(wrq[x], t)' = Count(cqRecv[x], t) + Count(wrq[x], t)
    <3> TAKE x \in Ends
    <3> TAKE t
    <3>1. CASE x = e
      <4>1. cqRecv[e] \in Seq(MetaData) /\ wrq[e] \in Seq(MetaData)
        BY DEF TypeOK
      <4>2. cqRecv'[e] = <<>> /\ wrq'[e] = wrq[e] \o cqRecv[e]
        BY <1>1 DEF DrainCQ, TypeOK
      <4>3. Count(cqRecv[e], t)' = 0
        BY <4>2, CountEmpty
      <4>4. Count(wrq[e], t)' = Count(wrq[e], t) + Count(cqRecv[e], t)
        BY <4>1, <4>2, CountConcat
      <4> QED
        BY <3>1, <4>3, <4>4, CreditNumbers
    <3>2. CASE x # e
      BY <1>1, <3>2 DEF DrainCQ, TypeOK
    <3> QED
      BY <3>1, <3>2
  <2>2. \A x \in Ends : \A t : Outgoing(x, t)' = Outgoing(x, t)
    BY <1>1 DEF Outgoing
  <2>3. \A x \in Ends : One(pc[x] = "reading")' = One(pc[x] = "reading")
    BY <1>1 DEF One
  <2>4. \A x \in Ends : /\ peerBuff'[x] + Given(x)' = peerBuff[x] + Given(x)
                        /\ Taken(x)' = Taken(x)
    <3> TAKE x \in Ends
    <3>1. \A t : /\ Count(cqRecv[x], t) \in Nat /\ Count(wrq[x], t) \in Nat
                 /\ Count(cqRecv[x], t)' \in Nat /\ Count(wrq[x], t)' \in Nat
                 /\ Outgoing(x, t) \in Nat
      <4>1. cqRecv'[x] \in Seq(MetaData) /\ wrq'[x] \in Seq(MetaData)
        BY DEF TypeOK
      <4>2. \A t : Count(cqRecv'[x], t) \in Nat /\ Count(wrq'[x], t) \in Nat
        BY <4>1, RowsFinite
      <4> QED
        BY <4>2, CreditNumbers
    <3>2. Given(x)' = Given(x)
      <4>1. Count(cqRecv[x], "ACK")' + Count(wrq[x], "ACK")'
              = Count(cqRecv[x], "ACK") + Count(wrq[x], "ACK")
            /\ Outgoing(x, "NORMAL")' = Outgoing(x, "NORMAL")
        BY <2>1, <2>2
      <4> QED
        BY <3>1, <4>1 DEF Given
    <3>3. Taken(x)' = Taken(x)
      <4>1. Count(cqRecv[x], "NORMAL")' + Count(wrq[x], "NORMAL")'
              = Count(cqRecv[x], "NORMAL") + Count(wrq[x], "NORMAL")
            /\ Outgoing(x, "ACK")' = Outgoing(x, "ACK")
        BY <2>1, <2>2
      <4>2. One(pc[x] = "reading") \in Nat
        BY OneType
      <4> QED
        BY <2>3, <3>1, <4>1, <4>2 DEF Taken
    <3>4. UNCHANGED peerBuff
      BY <1>1
    <3> QED
      BY <3>2, <3>3, <3>4
  <2> QED
    BY <2>4, CreditKept
<1>2. ASSUME NEW e \in Ends, NEW m \in Msg, Send(e, m) PROVE CreditInv'
  <2>1. \A x \in Ends : pc'[x] = "reading" <=> pc[x] = "reading"
    BY <1>2 DEF Send, TypeOK
  <2> QED
    BY <1>2, <2>1, CreditSame DEF Send, cq, counters
<1>3. ASSUME NEW e \in Ends, NEW call, Receive(e, call) PROVE CreditInv'
  <2>1. \A x \in Ends : pc'[x] = "reading" <=> pc[x] = "reading"
    BY <1>3 DEF Receive, TypeOK
  <2> QED
    BY <1>1, <1>3, <2>1 DEF Receive, counters
<1>4. ASSUME NEW e \in Ends, PollCQ(e) PROVE CreditInv'
  BY <1>1, <1>4 DEF PollCQ, counters
<1>5. ASSUME NEW e \in Ends, PollAgain(e) PROVE CreditInv'
  <2>1. \A x \in Ends : pc'[x] = pc[x]
    BY <1>5 DEF PollAgain, PollReturn, TypeOK
  <2> QED
    BY <1>5, <2>1, CreditSame DEF PollAgain, PollReturn, cq, counters
<1>6. ASSUME NEW e \in Ends,
             CreditWait(e) \/ Return(e) \/ ReturnMessage(e) \/ RecvWait(e)
      PROVE  CreditInv'
  <2>1. \A x \in Ends : pc'[x] = "reading" <=> pc[x] = "reading"
    BY <1>6 DEF CreditWait, Return, ReturnMessage, RecvWait, Resolved, TypeOK
  <2> QED
    BY <1>6, <2>1, CreditSame
       DEF CreditWait, Return, ReturnMessage, RecvWait, cq, counters
<1>7. ASSUME NEW e \in Ends,
             CreditPolled(e) \/ SendCompleted(e) \/ RecvPolled(e) \/ AckCompleted(e)
      PROVE  CreditInv'
  <2>1. \A x \in Ends : pc'[x] = "reading" <=> pc[x] = "reading"
    BY <1>7 DEF CreditPolled, SendCompleted, RecvPolled, AckCompleted, PollReturn, TypeOK
  <2> QED
    BY <1>7, <2>1, CreditSame
       DEF CreditPolled, SendCompleted, RecvPolled, AckCompleted, PollReturn, cq, counters
\* A message leaves: the credit becomes a record on the wire.
<1>8. ASSUME NEW e \in Ends, PostMetaData(e) PROVE CreditInv'
  <2>1. wr[e] = NoWr
    BY <1>8 DEF PostMetaData, OwnInv, OwnsNothing, Waiting
  <2>2. /\ wr' = [wr EXCEPT ![e] = [op |-> "send", md |-> SendMd(e)]]
        /\ peerBuff' = [peerBuff EXCEPT ![e] = @ - 1]
        /\ UNCHANGED <<cqRecv, wrq>>
    BY <1>8 DEF PostMetaData, Post, cq
  <2>3. \A x \in Ends : One(pc[x] = "reading")' = One(pc[x] = "reading")
    BY <1>8 DEF PostMetaData, TypeOK, One
  <2>4. /\ Outgoing(e, "NORMAL") = 0 /\ Outgoing(e, "NORMAL")' = 1
        /\ Outgoing(e, "ACK") = 0 /\ Outgoing(e, "ACK")' = 0
    <3>1. wr'[e] = [op |-> "send", md |-> SendMd(e)]
      BY <2>2 DEF TypeOK
    <3>2. SendMd(e).type = "NORMAL"
      BY SendMdFacts
    <3>3. wr'[e].op = "send" /\ wr'[e].md.type = "NORMAL"
      BY <3>1, <3>2
    <3>4. wr[e].op # "send"
      BY <2>1 DEF NoWr
    <3> QED
      BY <3>3, <3>4 DEF Outgoing, One
  <2>5. \A x \in Ends : x # e => peerBuff'[x] = peerBuff[x]
                                 /\ \A t : Outgoing(x, t)' = Outgoing(x, t)
    BY <2>2 DEF Outgoing, TypeOK
  <2>6. \A x \in Ends : /\ peerBuff'[x] + Given(x)' = peerBuff[x] + Given(x)
                        /\ Taken(x)' = Taken(x)
    <3> TAKE x \in Ends
    <3>1. CASE x = e
      <4>1. peerBuff'[e] = peerBuff[e] - 1
        BY <2>2 DEF TypeOK
      <4>2. Given(e)' = Given(e) + 1
        BY <2>2, <2>4, CreditNumbers DEF Given
      <4>3. Taken(e)' = Taken(e)
        BY <2>2, <2>3, <2>4 DEF Taken
      <4> QED
        BY <3>1, <4>1, <4>2, <4>3, CreditNumbers
    <3>2. CASE x # e
      BY <2>2, <2>3, <2>5, <3>2 DEF Given, Taken
    <3> QED
      BY <3>1, <3>2
  <2> QED
    BY <2>6, CreditKept
\* A record is taken off wr_queue.
<1>9. ASSUME NEW e \in Ends, NEW type, PopWr(e, type)
      PROVE  /\ \A t : Count(wrq[e], t)' = Count(wrq[e], t) - One(type = t)
             /\ \A x \in Ends : x # e => wrq'[x] = wrq[x]
             /\ UNCHANGED cqRecv
             /\ Head(wrq[e]) \in MetaData
  <2>1. wrq[e] \in Seq(MetaData) /\ wrq[e] # <<>> /\ Head(wrq[e]).type = type
    BY <1>9 DEF PopWr, TypeOK
  <2>2. wrq'[e] = Tail(wrq[e])
    BY <1>9 DEF PopWr, TypeOK
  <2>3. \A t : Count(wrq[e], t)' = Count(wrq[e], t) - One(type = t)
    BY <2>1, <2>2, CountTail
  <2>4. Head(wrq[e]) \in MetaData
    BY <2>1
  <2> QED
    BY <1>9, <2>3, <2>4 DEF PopWr, cq, TypeOK
\* A message that is handled is read, or acknowledged at once.
<1>10. ASSUME NEW e \in Ends, ResolveNormal(e) PROVE CreditInv'
  <2> DEFINE md == Head(wrq[e])
  <2>1. PopWr(e, "NORMAL") /\ pc[e] = "resolve" /\ UNCHANGED peerBuff
    BY <1>10 DEF ResolveNormal, PopWr, counters
  <2>2. wr[e] = NoWr
    BY <2>1 DEF OwnInv, OwnsNothing, Waiting
  <2>3. \/ wr' = [wr EXCEPT ![e] = [op |-> "read", md |-> md]]
           /\ pc' = [pc EXCEPT ![e] = "reading"]
        \/ wr' = [wr EXCEPT ![e] = [op |-> "send", md |-> AckOf(md)]]
           /\ pc' = [pc EXCEPT ![e] = "acking"]
    BY <1>10 DEF ResolveNormal, Post
  <2>4. AckOf(md).type = "ACK"
    BY <1>9, <2>1, AckOfFacts
  <2>5. /\ Outgoing(e, "NORMAL") = 0 /\ Outgoing(e, "NORMAL")' = 0
        /\ One(pc[e] = "reading") = 0 /\ Outgoing(e, "ACK") = 0
        /\ One(pc[e] = "reading")' + Outgoing(e, "ACK")' = 1
    <3> HIDE DEF md
    <3> QED
      BY <2>1, <2>2, <2>3, <2>4 DEF Outgoing, One, NoWr, TypeOK
  <2>6. \A x \in Ends : x # e => /\ \A t : Outgoing(x, t)' = Outgoing(x, t)
                                 /\ One(pc[x] = "reading")' = One(pc[x] = "reading")
    <3> HIDE DEF md
    <3> QED
      BY <2>3 DEF Outgoing, TypeOK, One
  <2>7. \A x \in Ends : /\ peerBuff'[x] + Given(x)' = peerBuff[x] + Given(x)
                        /\ Taken(x)' = Taken(x)
    <3> TAKE x \in Ends
    <3>1. CASE x = e
      <4>1. Count(wrq[e], "NORMAL")' = Count(wrq[e], "NORMAL") - 1
            /\ Count(wrq[e], "ACK")' = Count(wrq[e], "ACK") - 0 /\ UNCHANGED cqRecv
        BY <1>9, <2>1 DEF One
      <4>2. Given(e)' = Given(e)
        BY <2>5, <4>1, CreditNumbers DEF Given
      <4>3. Taken(e)' = Taken(e)
        <5>1. One(pc[e] = "reading")' \in Nat /\ Outgoing(e, "ACK")' \in Nat
              /\ Count(wrq[e], "NORMAL") \in Nat /\ Count(cqRecv[e], "NORMAL") \in Nat
          BY CreditNumbers, OneType DEF Outgoing
        <5> QED
          BY <2>5, <4>1, <5>1 DEF Taken
      <4> QED
        BY <2>1, <3>1, <4>2, <4>3
    <3>2. CASE x # e
      BY <1>9, <2>1, <2>6, <3>2 DEF Given, Taken
    <3> QED
      BY <3>1, <3>2
  <2> QED
    BY <2>7, CreditKept
\* The record goes back as an ACK.
<1>11. ASSUME NEW e \in Ends, ReadCompleted(e) PROVE CreditInv'
  <2>1. /\ pc[e] = "reading" /\ poll[e] = "done"
        /\ pc' = [pc EXCEPT ![e] = "acking"]
        /\ wr' = [wr EXCEPT ![e] = [op |-> "send", md |-> AckOf(cur[e])]]
        /\ UNCHANGED <<cqRecv, wrq, peerBuff>>
    BY <1>11 DEF ReadCompleted, PollReturn, Post, cq, counters
  <2>2. wr[e] = NoWr
    BY <2>1 DEF OwnInv, Owns, Waiting
  <2>3. AckOf(cur[e]).type = "ACK"
    BY RecordTypes, AckOfFacts
  <2>4. /\ Outgoing(e, "NORMAL") = 0 /\ Outgoing(e, "NORMAL")' = 0
        /\ One(pc[e] = "reading") = 1 /\ Outgoing(e, "ACK") = 0
        /\ One(pc[e] = "reading")' = 0 /\ Outgoing(e, "ACK")' = 1
    BY <2>1, <2>2, <2>3 DEF Outgoing, One, NoWr, TypeOK
  <2>5. \A x \in Ends : x # e => /\ \A t : Outgoing(x, t)' = Outgoing(x, t)
                                 /\ One(pc[x] = "reading")' = One(pc[x] = "reading")
    BY <2>1 DEF Outgoing, TypeOK, One
  <2>6. \A x \in Ends : /\ peerBuff'[x] + Given(x)' = peerBuff[x] + Given(x)
                        /\ Taken(x)' = Taken(x)
    <3> TAKE x \in Ends
    <3>1. CASE x = e
      <4>1. Given(e)' = Given(e)
        BY <2>1, <2>4 DEF Given
      <4>2. Taken(e)' = Taken(e)
        BY <2>1, <2>4, CreditNumbers DEF Taken
      <4> QED
        BY <2>1, <3>1, <4>1, <4>2
    <3>2. CASE x # e
      BY <2>1, <2>5, <3>2 DEF Given, Taken
    <3> QED
      BY <3>1, <3>2
  <2> QED
    BY <2>6, CreditKept
\* An ACK becomes credit.
<1>12. ASSUME NEW e \in Ends, ResolveAck(e) PROVE CreditInv'
  <2>1. /\ PopWr(e, "ACK") /\ UNCHANGED <<pc, wr>>
        /\ peerBuff' = [peerBuff EXCEPT ![e] = @ + 1]
    BY <1>12 DEF ResolveAck
  <2>2. \A x \in Ends : /\ \A t : Outgoing(x, t)' = Outgoing(x, t)
                        /\ One(pc[x] = "reading")' = One(pc[x] = "reading")
    BY <2>1 DEF Outgoing
  <2>3. \A x \in Ends : /\ peerBuff'[x] + Given(x)' = peerBuff[x] + Given(x)
                        /\ Taken(x)' = Taken(x)
    <3> TAKE x \in Ends
    <3>1. CASE x = e
      <4>1. Count(wrq[e], "ACK")' = Count(wrq[e], "ACK") - 1
            /\ Count(wrq[e], "NORMAL")' = Count(wrq[e], "NORMAL") - 0 /\ UNCHANGED cqRecv
        BY <1>9, <2>1 DEF One
      <4>2. Given(e)' = Given(e) - 1
        BY <2>2, <4>1, CreditNumbers DEF Given
      <4>3. Taken(e)' = Taken(e)
        BY <2>2, <4>1, CreditNumbers, OneType DEF Taken
      <4>4. peerBuff'[e] = peerBuff[e] + 1
        BY <2>1 DEF TypeOK
      <4> QED
        BY <3>1, <4>2, <4>3, <4>4, CreditNumbers
    <3>2. CASE x # e
      <4>1. peerBuff'[x] = peerBuff[x]
        BY <2>1, <3>2 DEF TypeOK
      <4> QED
        BY <1>9, <2>1, <2>2, <3>2, <4>1 DEF Given, Taken
    <3> QED
      BY <3>1, <3>2
  <2> QED
    BY <2>3, CreditKept
\* A record passes from one endpoint to the other.
<1>13. ASSUME NEW e \in Ends, Deliver(e) PROVE CreditInv'
  <2> DEFINE md == wr[e].md
  <2>1. PICK p \in Ends : p = Peer(e) /\ p # e /\ Peer(p) = e /\ Ends = {e, p}
    BY EndsAssumption, PeerFacts
  <2>2. wr[e].op = "send" /\ md \in MetaData
    BY <1>13 DEF Deliver, TypeOK, WorkRequest, NoWr
  <2>3. /\ wr' = [wr EXCEPT ![e] = [@ EXCEPT !.op = "sent"]]
        /\ cqRecv' = [cqRecv EXCEPT ![p] = Append(@, md)]
        /\ UNCHANGED <<pc, peerBuff, wrq>>
    BY <1>13, <2>1 DEF Deliver, caller, counters
  <2>4. md.type \in {"NORMAL", "ACK"}
    BY <2>2 DEF MetaData
  <2>5. \A t : Count(cqRecv[p], t)' = Count(cqRecv[p], t) + One(md.type = t)
    <3>1. cqRecv[p] \in Seq(MetaData) /\ cqRecv'[p] = Append(cqRecv[p], md)
      BY <2>1, <2>3 DEF TypeOK
    <3> QED
      BY <2>2, <3>1, CountAppend
  <2>6. cqRecv'[e] = cqRecv[e] /\ wr'[p] = wr[p]
    BY <2>1, <2>3 DEF TypeOK
  <2>7. \A t : Outgoing(e, t) = One(md.type = t) /\ Outgoing(e, t)' = 0
    <3>1. wr'[e] = [wr[e] EXCEPT !.op = "sent"] /\ wr[e] \in WorkRequest
      BY <2>3 DEF TypeOK
    <3>2. wr'[e].op = "sent"
      BY <2>2, <3>1 DEF WorkRequest, NoWr
    <3> QED
      BY <2>2, <3>2 DEF Outgoing, One
  <2>8. \A t : Outgoing(p, t)' = Outgoing(p, t)
    BY <2>6 DEF Outgoing
  <2> HIDE DEF md
  <2>9. /\ Given(e)' = Given(e) - One(wr[e].md.type = "NORMAL")
        /\ Taken(p)' = Taken(p) + One(wr[e].md.type = "NORMAL")
        /\ Taken(e)' = Taken(e) - One(wr[e].md.type = "ACK")
        /\ Given(p)' = Given(p) + One(wr[e].md.type = "ACK")
    <3>1. /\ \A t : One(wr[e].md.type = t) \in Nat
          /\ One(pc[p] = "reading") \in Nat /\ One(pc[e] = "reading") \in Nat
      BY OneType
    <3>2. UNCHANGED <<pc, wrq>>
      BY <2>3
    <3>3. Given(e)' = Given(e) - One(wr[e].md.type = "NORMAL")
      BY <2>6, <2>7, <3>1, <3>2, CreditNumbers DEF Given, md
    <3>4. Taken(p)' = Taken(p) + One(wr[e].md.type = "NORMAL")
      <4>1. Count(cqRecv[p], "NORMAL")'
              = Count(cqRecv[p], "NORMAL") + One(wr[e].md.type = "NORMAL")
        BY <2>5 DEF md
      <4>2. Outgoing(p, "ACK")' = Outgoing(p, "ACK")
        BY <2>8
      <4>3. Count(cqRecv[p], "NORMAL") \in Nat /\ Count(wrq[p], "NORMAL") \in Nat
            /\ Outgoing(p, "ACK") \in Nat
        BY <2>1, CreditNumbers
      <4>4. Count(wrq[p], "NORMAL")' = Count(wrq[p], "NORMAL")
        BY <3>2
      <4>5. One(wr[e].md.type = "NORMAL") \in Nat
        BY OneType
      <4>6. One(pc[p] = "reading")' = One(pc[p] = "reading")
        BY <3>2
      <4>7. One(pc[p] = "reading") \in Nat
        BY OneType
      <4> QED
        BY <4>1, <4>2, <4>3, <4>4, <4>5, <4>6, <4>7 DEF Taken
    <3>5. Taken(e)' = Taken(e) - One(wr[e].md.type = "ACK")
      BY <2>6, <2>7, <3>1, <3>2, CreditNumbers DEF Taken, md
    <3>6. Given(p)' = Given(p) + One(wr[e].md.type = "ACK")
      <4>1. Count(cqRecv[p], "ACK")'
              = Count(cqRecv[p], "ACK") + One(wr[e].md.type = "ACK")
        BY <2>5 DEF md
      <4>2. Outgoing(p, "NORMAL")' = Outgoing(p, "NORMAL")
        BY <2>8
      <4>3. Count(cqRecv[p], "ACK") \in Nat /\ Count(wrq[p], "ACK") \in Nat
            /\ Outgoing(p, "NORMAL") \in Nat
        BY <2>1, CreditNumbers
      <4>4. Count(wrq[p], "ACK")' = Count(wrq[p], "ACK")
        BY <3>2
      <4>5. One(wr[e].md.type = "ACK") \in Nat
        BY OneType
      <4> QED
        BY <4>1, <4>2, <4>3, <4>4, <4>5 DEF Given
    <3> QED
      BY <3>3, <3>4, <3>5, <3>6
  <2>10. Credit(e) /\ Credit(p) /\ UNCHANGED peerBuff
    BY <2>1, <2>3 DEF CreditInv
  <2>11. /\ peerBuff[e] \in Int /\ peerBuff[p] \in Int
         /\ Given(e) \in Nat /\ Given(p) \in Nat /\ Taken(e) \in Nat /\ Taken(p) \in Nat
         /\ One(wr[e].md.type = "NORMAL") \in Nat /\ One(wr[e].md.type = "ACK") \in Nat
    BY <2>1, CreditNumbers, OneType
  <2>12. Credit(e)'
    <3>1. Peer(e) = p
      BY <2>1
    <3> QED
      BY <2>9, <2>10, <2>11, <3>1 DEF Credit
  <2>13. Credit(p)'
    BY <2>1, <2>9, <2>10, <2>11 DEF Credit
  <2> QED
    BY <2>1, <2>12, <2>13 DEF CreditInv
\* A completed request was not on the wire any more.
<1>14. ASSUME NEW e \in Ends, Complete(e) PROVE CreditInv'
  <2>1. /\ wr[e].op # "send" /\ wr' = [wr EXCEPT ![e] = NoWr]
        /\ UNCHANGED <<pc, cqRecv, wrq, peerBuff>>
    BY <1>14 DEF Complete, CanComplete, caller, counters
  <2>2. \A x \in Ends : \A t : Outgoing(x, t)' = Outgoing(x, t)
    BY <2>1 DEF Outgoing, One, NoWr, TypeOK
  <2>3. \A x \in Ends : /\ peerBuff'[x] + Given(x)' = peerBuff[x] + Given(x)
                        /\ Taken(x)' = Taken(x)
    BY <2>1, <2>2 DEF Given, Taken
  <2> QED
    BY <2>3, CreditKept
<1>15. CASE UNCHANGED vars
  BY <1>15, CreditSame DEF vars, caller, cq, counters
<1> QED
  BY <1>2, <1>3, <1>4, <1>5, <1>6, <1>7, <1>8, <1>10, <1>11, <1>12, <1>13, <1>14, <1>15
     DEF Next, Call, Thread, Hca

(***************************************************************************)
(* peer_buff_count and the messages on their way always add up to          *)
(* MDBUFFERSIZE: every record that takes a buffer of the peer comes back   *)
(* as exactly one ACK, whatever waits the other records are handled in.    *)
(***************************************************************************)
THEOREM CreditConserved == Spec => []CreditConservation
<1>1. Init => BufferInv /\ OwnInv /\ CreditInv
  BY BufferInit, OwnInit, CreditInit
<1>2. TypeOK /\ TypeOK' /\ BufferInv /\ OwnInv /\ CreditInv /\ [Next]_vars
        => BufferInv' /\ OwnInv' /\ CreditInv'
  BY BufferNext, OwnNext, CreditNext
<1>3. TypeOK /\ CreditInv => CreditConservation
  BY CreditInvIsCreditConservation
<1> QED
  BY <1>1, <1>2, <1>3, TypeCorrect, PTL DEF Spec

-----------------------------------------------------------------------------
(* The place of a record among those of its type *)

Rank(s, t, i) == Count(SubSeq(s, 1, i), t)

\* The beginning of a queue is a queue.
LEMMA Beginning ==
    ASSUME NEW s \in Seq(MetaData), NEW i \in 0..Len(s)
    PROVE  /\ SubSeq(s, 1, i) \in Seq(MetaData)
           /\ Len(SubSeq(s, 1, i)) = i
           /\ \A j \in 1..i : SubSeq(s, 1, i)[j] = s[j]
  OBVIOUS

\* A beginning holds no more than the whole.
LEMMA RankBound ==
    ASSUME NEW s \in Seq(MetaData), NEW t, NEW i \in 0..Len(s)
    PROVE  Rank(s, t, i) \in Nat /\ Rank(s, t, i) =< Count(s, t)
<1> DEFINE u == SubSeq(s, 1, i)
<1>1. u \in Seq(MetaData) /\ Len(u) = i /\ \A j \in 1..i : u[j] = s[j]
  BY Beginning
<1> HIDE DEF u
<1>2. Rows(u, t) \subseteq Rows(s, t)
  BY <1>1 DEF Rows
<1>3. IsFiniteSet(Rows(s, t)) /\ Count(u, t) \in Nat /\ Count(s, t) \in Nat
  BY <1>1, RowsFinite
<1>4. Count(u, t) = Cardinality(Rows(u, t)) /\ Count(s, t) = Cardinality(Rows(s, t))
  BY CountIsRows
<1> QED
  BY <1>2, <1>3, <1>4, FS_Subset DEF Rank, u

\* One more place.
LEMMA RankStep ==
    ASSUME NEW s \in Seq(MetaData), NEW t, NEW i \in 1..Len(s)
    PROVE  Rank(s, t, i) = Rank(s, t, i - 1) + One(s[i].type = t)
<1> DEFINE u == SubSeq(s, 1, i - 1)
<1>1. u \in Seq(MetaData) /\ s[i] \in MetaData
  <2>1. i - 1 \in 0..Len(s)
    OBVIOUS
  <2> QED
    BY <2>1, Beginning
<1>2. SubSeq(s, 1, i) = Append(u, s[i])
  OBVIOUS
<1>3. Count(Append(u, s[i]), t) = Count(u, t) + One(s[i].type = t)
  <2> HIDE DEF u
  <2> QED
    BY <1>1, CountAppend
<1> QED
  BY <1>2, <1>3 DEF Rank

\* Before the first place there is nothing, up to the last one is everything.
LEMMA RankEnds ==
    ASSUME NEW s \in Seq(MetaData), NEW t
    PROVE  Rank(s, t, 0) = 0 /\ Rank(s, t, Len(s)) = Count(s, t)
<1>1. SubSeq(s, 1, 0) = <<>> /\ SubSeq(s, 1, Len(s)) = s
  OBVIOUS
<1> QED
  BY <1>1, CountEmpty DEF Rank

\* A record at the end changes no place before it.
LEMMA RankAppend ==
    ASSUME NEW s \in Seq(MetaData), NEW md \in MetaData, NEW t
    PROVE  /\ \A i \in DOMAIN s : Rank(Append(s, md), t, i) = Rank(s, t, i)
           /\ Rank(Append(s, md), t, Len(s) + 1) = Count(s, t) + One(md.type = t)
<1>1. ASSUME NEW i \in DOMAIN s PROVE SubSeq(Append(s, md), 1, i) = SubSeq(s, 1, i)
  OBVIOUS
<1>2. SubSeq(Append(s, md), 1, Len(s) + 1) = Append(s, md)
  OBVIOUS
<1>3. Count(Append(s, md), t) = Count(s, t) + One(md.type = t)
  BY CountAppend
<1>4. \A i \in DOMAIN s : Rank(Append(s, md), t, i) = Rank(s, t, i)
  BY <1>1 DEF Rank
<1>5. Rank(Append(s, md), t, Len(s) + 1) = Count(Append(s, md), t)
  BY <1>2 DEF Rank
<1> QED
  BY <1>3, <1>4, <1>5

\* Without the first record all places move up.
LEMMA RankTail ==
    ASSUME NEW s \in Seq(MetaData), s # <<>>, NEW t, NEW i \in DOMAIN Tail(s)
    PROVE  Rank(s, t, i + 1) = Rank(Tail(s), t, i) + One(Head(s).type = t)
<1> DEFINE u == SubSeq(s, 1, i + 1)
<1>1. i + 1 \in 1..Len(s)
  OBVIOUS
<1>2. u \in Seq(MetaData) /\ Len(u) = i + 1 /\ \A j \in 1..(i + 1) : u[j] = s[j]
  BY <1>1, Beginning
<1>3. u # <<>> /\ Head(u) = Head(s)
  BY <1>2
<1>4. SubSeq(Tail(s), 1, i) = Tail(u)
  BY <1>1
<1>5. Count(Tail(u), t) \in Nat /\ Count(u, t) \in Nat
  <2>1. Tail(u) \in Seq(MetaData)
    BY <1>2, <1>3
  <2> HIDE DEF u
  <2> QED
    BY <1>2, <2>1, RowsFinite
<1>6. Count(Tail(u), t) = Count(u, t) - One(Head(u).type = t)
  <2> HIDE DEF u
  <2> QED
    BY <1>2, <1>3, CountTail
<1>7. Rank(Tail(s), t, i) = Count(Tail(u), t) /\ Rank(s, t, i + 1) = Count(u, t)
  BY <1>4 DEF Rank
<1> QED
  BY <1>3, <1>5, <1>6, <1>7, OneType

\* Induction over the natural numbers, for a set of them.
LEMMA NatSet ==
    ASSUME NEW S, 0 \in S, \A n \in Nat : n \in S => n + 1 \in S
    PROVE  Nat \subseteq S
<1> DEFINE T == Nat \ S
           R == OpToRel(<, Nat)
<1>1. IsWellFoundedOn(R, Nat)
  BY NatLessThanWellFounded
<1>2. \A x, y \in Nat : <<x, y>> \in R <=> x < y
  BY DEF OpToRel
<1> SUFFICES ASSUME T # {} PROVE FALSE
  OBVIOUS
<1>3. T \subseteq Nat
  OBVIOUS
<1> HIDE DEF T, R
<1>4. PICK x \in T : \A y \in T : ~(<<y, x>> \in R)
  BY <1>1, <1>3, WFMin
<1>5. \A y \in T : ~(y < x)
  BY <1>2, <1>3, <1>4
<1>6. x - 1 \in Nat /\ x - 1 < x
  BY <1>3 DEF T
<1>7. x - 1 \in S
  BY <1>5, <1>6 DEF T
<1> QED
  BY <1>3, <1>6, <1>7 DEF T

\* Every number up to the count of a type is the rank of a record of it.
LEMMA RankTaken ==
    ASSUME NEW s \in Seq(MetaData), NEW t, NEW r \in 1..Count(s, t)
    PROVE  \E i \in DOMAIN s : s[i].type = t /\ Rank(s, t, i) = r
<1> DEFINE S == {n \in Nat : n =< Len(s) =>
                   \A k \in 1..Rank(s, t, n) :
                     \E i \in 1..n : s[i].type = t /\ Rank(s, t, i) = k}
<1>1. 0 \in S
  BY RankEnds
<1>2. ASSUME NEW n \in Nat, n \in S PROVE n + 1 \in S
  <2> SUFFICES ASSUME n + 1 =< Len(s), NEW k \in 1..Rank(s, t, n + 1)
               PROVE  \E i \in 1..(n + 1) : s[i].type = t /\ Rank(s, t, i) = k
    OBVIOUS
  <2>1. Rank(s, t, n + 1) = Rank(s, t, n) + One(s[n + 1].type = t)
    <3>1. n + 1 \in 1..Len(s) /\ (n + 1) - 1 = n
      OBVIOUS
    <3> QED
      BY <3>1, RankStep
  <2>2. Rank(s, t, n) \in Nat
    <3>1. n \in 0..Len(s)
      OBVIOUS
    <3> QED
      BY <3>1, RankBound
  <2>3. CASE k =< Rank(s, t, n)
    <3>1. \E i \in 1..n : s[i].type = t /\ Rank(s, t, i) = k
      BY <1>2, <2>2, <2>3
    <3> QED
      BY <3>1
  <2>4. CASE k > Rank(s, t, n)
    <3>1. s[n + 1].type = t /\ k = Rank(s, t, n + 1)
      BY <2>1, <2>2, <2>4 DEF One
    <3> QED
      BY <3>1
  <2> QED
    BY <2>2, <2>3, <2>4
<1>3. Len(s) \in S
  <2> HIDE DEF S
  <2> QED
    BY <1>1, <1>2, NatSet
<1> QED
  BY <1>3, RankEnds

-----------------------------------------------------------------------------
(* The order of the messages *)

\* The receive completions of x in the order in which they are handled.
Stream(x) == wrq[x] \o cqRecv[x]

\* What the record of the k-th of the messages m says about its payload.
Nth(m, k) == IF m[k] = Empty THEN 0 ELSE k

\* The records of type t in s are those of the messages m after the n-th.
Numbered(s, t, m, n) ==
    \A i \in DOMAIN s : s[i].type = t => s[i].addr = Nth(m, n + Rank(s, t, i))

\* Messages that are at x, is there one in hand; messages of x, is there one not
\* yet posted?
Here(x) == Len(delivered[x]) + Len(recvq[x])
Held(x) == One(cur[x] # NoMd)
Said(x) == Len(sent[x])
Preparing(x) == One(pc[x] \in {"credit", "creditPoll", "post"})

\* A record is on the wire only while its sender waits for it.
WireAt(x) ==
    /\ wr[x].op = "send" /\ wr[x].md.type = "NORMAL" => pc[x] = "sending"
    /\ wr[x].op = "send" /\ wr[x].md.type = "ACK" => pc[x] = "acking"
    /\ wr[x].op = "read" =>
         pc[x] = "reading" /\ wr[x].md = cur[x] /\ cur[x].addr # 0

WireInv == \A x \in Ends : WireAt(x)

(***************************************************************************)
(* The messages on their way from p to e, in the order they were sent:     *)
(* every one is somewhere, recv_queue holds those after the ones returned, *)
(* then comes the one in hand, then those in the stream of e, and what p   *)
(* puts on the wire is its last one.                                       *)
(***************************************************************************)
MsgCount(e, p) ==
    Here(e) + Held(e) + Count(Stream(e), "NORMAL") + Outgoing(p, "NORMAL")
        + Preparing(p) = Said(p)

MsgQueued(e, p) ==
    \A k \in DOMAIN recvq[e] : recvq[e][k] = sent[p][Len(delivered[e]) + k]

MsgInHand(e, p) == cur[e] # NoMd => cur[e].addr = Nth(sent[p], Here(e) + 1)

MsgStream(e, p) == Numbered(Stream(e), "NORMAL", sent[p], Here(e) + Held(e))

OnWire(w, t) == w.op = "send" /\ w.md.type = t

MsgWire(p) ==
    OnWire(wr[p], "NORMAL") => wr[p].md.addr = Nth(sent[p], Said(p))

MsgAt(e, p) == /\ MsgCount(e, p) /\ MsgQueued(e, p) /\ MsgInHand(e, p)
               /\ MsgStream(e, p) /\ MsgWire(p)

(***************************************************************************)
(* The ACKs on their way from e to p, in the order of the messages of p,   *)
(* and the copies p keeps of those it has no ACK for.                      *)
(***************************************************************************)
AckCount(e, p) ==
    ackCnt[p] + Count(Stream(p), "ACK") + Outgoing(e, "ACK") + One(pc[e] = "reading")
        = Here(e) + Held(e)

AckStream(p) == Numbered(Stream(p), "ACK", sent[p], ackCnt[p])

AckWire(e, p) == OnWire(wr[e], "ACK") => wr[e].md.addr = Nth(sent[p], Here(e) + 1)

Copies(p) == live[p] = {k \in 1..Said(p) : k > ackCnt[p] /\ sent[p][k] # Empty}

AckAt(e, p) == AckCount(e, p) /\ AckStream(p) /\ AckWire(e, p) /\ Copies(p)

OrderInv == \A e \in Ends : MsgAt(e, Peer(e)) /\ AckAt(e, Peer(e))

-----------------------------------------------------------------------------
(* Work requests *)

\* No request is outstanding at first.
LEMMA WireInit == Init => WireInv
  BY DEF Init, WireInv, WireAt, NoWr

\* A step of e need only be looked at at e.
LEMMA WireStep ==
    ASSUME WireInv, NEW e \in Ends,
           \A x \in Ends : x # e => /\ wr'[x] = wr[x] /\ pc'[x] = pc[x]
                                    /\ cur'[x] = cur[x],
           WireAt(e)' \/ wr'[e] = NoWr
    PROVE  WireInv'
  BY DEF WireInv, WireAt, NoWr

\* Every request is posted where its thread will wait for it.
LEMMA WireNext == TypeOK /\ OwnInv /\ WireInv /\ [Next]_vars => WireInv'
<1> SUFFICES ASSUME TypeOK, OwnInv, WireInv, [Next]_vars PROVE WireInv'
  OBVIOUS
<1>0. \A x \in Ends : (pc[x] \notin Waiting \/ poll[x] = "done") => wr[x] = NoWr
  BY DEF OwnInv, Owns, OwnsNothing
\* A step of a thread that owns no request.
<1>1. ASSUME NEW e \in Ends, UNCHANGED <<wr>>,
             \E q : pc' = [pc EXCEPT ![e] = q],
             \E c : cur' = [cur EXCEPT ![e] = c],
             pc[e] \notin Waiting \/ poll[e] = "done"
      PROVE  WireInv'
  <2>1. wr'[e] = NoWr
    BY <1>0, <1>1
  <2>2. \A x \in Ends : x # e => pc'[x] = pc[x] /\ cur'[x] = cur[x]
    BY <1>1 DEF TypeOK
  <2> QED
    BY <1>1, <2>1, <2>2, WireStep
<1>2. ASSUME NEW e \in Ends, UNCHANGED <<wr, cur>>,
             \E q : /\ pc' = [pc EXCEPT ![e] = q]
                    /\ pc[e] \notin Waiting \/ poll[e] = "done"
      PROVE  WireInv'
  <2>1. cur' = [cur EXCEPT ![e] = cur[e]]
    BY <1>2 DEF TypeOK
  <2> QED
    BY <1>1, <1>2, <2>1
<1>3. ASSUME UNCHANGED <<pc, wr, cur>> PROVE WireInv'
  BY <1>3 DEF WireInv, WireAt
<1>4. ASSUME NEW e \in Ends, NEW m \in Msg, Send(e, m) PROVE WireInv'
  BY <1>2, <1>4 DEF Send, Waiting
<1>5. ASSUME NEW e \in Ends, NEW call, Receive(e, call) PROVE WireInv'
  BY <1>2, <1>5 DEF Receive, Waiting
<1>6. ASSUME NEW e \in Ends, PollCQ(e) PROVE WireInv'
  BY <1>3, <1>6 DEF PollCQ
<1>7. ASSUME NEW e \in Ends, PollAgain(e) PROVE WireInv'
  <2>1. UNCHANGED <<pc, wr, cur>>
    BY <1>7 DEF PollAgain, PollReturn, TypeOK
  <2> QED
    BY <1>3, <2>1
<1>8. ASSUME NEW e \in Ends,
             \/ CreditWait(e) \/ Return(e) \/ ReturnMessage(e) \/ RecvWait(e)
             \/ CreditPolled(e) \/ SendCompleted(e) \/ RecvPolled(e)
      PROVE  WireInv'
  <2>1. UNCHANGED <<wr, cur>> /\ \E q : pc' = [pc EXCEPT ![e] = q]
    BY <1>8 DEF CreditWait, Return, ReturnMessage, RecvWait, CreditPolled,
                SendCompleted, RecvPolled, PollReturn
  <2>2. pc[e] \in {"credit", "resolve", "creditPoll", "recvPoll"} \/ poll[e] = "done"
    BY <1>8 DEF CreditWait, Return, ReturnMessage, RecvWait, Resolved,
                CreditPolled, SendCompleted, RecvPolled, PollReturn
  <2> QED
    BY <1>2, <2>1, <2>2 DEF Waiting
<1>9. ASSUME NEW e \in Ends, PostMetaData(e) PROVE WireInv'
  <2>1. /\ wr' = [wr EXCEPT ![e] = [op |-> "send", md |-> SendMd(e)]]
        /\ pc' = [pc EXCEPT ![e] = "sending"] /\ cur' = cur
    BY <1>9 DEF PostMetaData, Post
  <2>2. SendMd(e).type = "NORMAL"
    BY SendMdFacts
  <2>3. WireAt(e)'
    BY <2>1, <2>2 DEF WireAt, TypeOK
  <2> QED
    BY <2>1, <2>3, WireStep DEF TypeOK
<1>10. ASSUME NEW e \in Ends, ResolveNormal(e) PROVE WireInv'
  <2> DEFINE md == Head(wrq[e])
  <2>1. cur' = [cur EXCEPT ![e] = md]
    BY <1>10 DEF ResolveNormal
  <2>2. \/ /\ wr' = [wr EXCEPT ![e] = [op |-> "read", md |-> md]]
           /\ pc' = [pc EXCEPT ![e] = "reading"] /\ md.addr # 0
        \/ /\ wr' = [wr EXCEPT ![e] = [op |-> "send", md |-> AckOf(md)]]
           /\ pc' = [pc EXCEPT ![e] = "acking"]
    BY <1>10 DEF ResolveNormal, Post
  <2>3. AckOf(md).type = "ACK"
    <3>1. md \in MetaData
      BY <1>10 DEF ResolveNormal, PopWr, TypeOK
    <3> QED
      BY <3>1, AckOfFacts
  <2>4. WireAt(e)'
    BY <2>1, <2>2, <2>3 DEF WireAt, TypeOK
  <2>5. \A x \in Ends : x # e => wr'[x] = wr[x] /\ pc'[x] = pc[x] /\ cur'[x] = cur[x]
    BY <2>1, <2>2 DEF TypeOK
  <2> QED
    BY <2>4, <2>5, WireStep
<1>11. ASSUME NEW e \in Ends, ReadCompleted(e) PROVE WireInv'
  <2>1. /\ wr' = [wr EXCEPT ![e] = [op |-> "send", md |-> AckOf(cur[e])]]
        /\ pc' = [pc EXCEPT ![e] = "acking"] /\ cur' = cur
    BY <1>11 DEF ReadCompleted, PollReturn, Post
  <2>2. AckOf(cur[e]).type = "ACK"
    BY AckOfFacts DEF TypeOK
  <2>3. WireAt(e)'
    BY <2>1, <2>2 DEF WireAt, TypeOK
  <2> QED
    BY <2>1, <2>3, WireStep DEF TypeOK
<1>12. ASSUME NEW e \in Ends, AckCompleted(e) PROVE WireInv'
  BY <1>1, <1>12 DEF AckCompleted, PollReturn
<1>13. ASSUME NEW e \in Ends, ResolveAck(e) PROVE WireInv'
  BY <1>3, <1>13 DEF ResolveAck
<1>14. ASSUME NEW e \in Ends, Deliver(e) PROVE WireInv'
  <2>1. /\ wr[e].op = "send" /\ UNCHANGED <<pc, cur>>
        /\ wr' = [wr EXCEPT ![e] = [wr[e] EXCEPT !.op = "sent"]]
    BY <1>14 DEF Deliver, caller
  <2>2. [wr[e] EXCEPT !.op = "sent"].op = "sent"
    BY <2>1 DEF TypeOK, WorkRequest, NoWr
  <2>3. WireAt(e)'
    BY <2>1, <2>2 DEF WireAt, TypeOK
  <2> QED
    BY <2>1, <2>3, WireStep
<1>15. ASSUME NEW e \in Ends, Complete(e) PROVE WireInv'
  BY <1>15, WireStep DEF Complete, caller, TypeOK
<1>16. CASE UNCHANGED vars
  BY <1>3, <1>16 DEF vars, caller
<1> QED
  BY <1>4, <1>5, <1>6, <1>7, <1>8, <1>9, <1>10, <1>11, <1>12, <1>13, <1>14,
     <1>15, <1>16
     DEF Next, Call, Thread, Hca

-----------------------------------------------------------------------------
(* Numbered queues *)

\* A record at the end, with the next number if it is of the type.
LEMMA NumberedAppend ==
    ASSUME NEW s \in Seq(MetaData), NEW md \in MetaData, NEW t, NEW m, NEW n \in Nat,
           Numbered(s, t, m, n),
           md.type = t => md.addr = Nth(m, n + Count(s, t) + 1)
    PROVE  Numbered(Append(s, md), t, m, n)
<1>0. \A j \in DOMAIN s : Rank(Append(s, md), t, j) = Rank(s, t, j)
  BY RankAppend
<1> DEFINE u == Append(s, md)
<1> SUFFICES ASSUME NEW i \in DOMAIN u, u[i].type = t
             PROVE  u[i].addr = Nth(m, n + Rank(u, t, i))
  BY DEF Numbered
<1>1. CASE i \in DOMAIN s
  <2>1. u[i] = s[i]
    BY <1>1
  <2>2. Rank(u, t, i) = Rank(s, t, i)
    BY <1>0, <1>1
  <2>3. s[i].addr = Nth(m, n + Rank(s, t, i))
    BY <1>1, <2>1 DEF Numbered
  <2> HIDE DEF u
  <2> QED
    BY <2>1, <2>2, <2>3
<1>2. CASE i = Len(s) + 1
  <2>1. u[i] = md
    BY <1>2
  <2>2. Rank(u, t, i) = Count(s, t) + One(md.type = t)
    BY <1>2, RankAppend
  <2> HIDE DEF u
  <2>3. md.type = t
    BY <2>1
  <2>4. Rank(u, t, i) = Count(s, t) + 1
    BY <2>2, <2>3 DEF One
  <2>5. n + (Count(s, t) + 1) = n + Count(s, t) + 1
    BY RowsFinite
  <2> QED
    BY <2>1, <2>3, <2>4, <2>5
<1> QED
  BY <1>1, <1>2

\* Without the first record, which has the first number if it is of the type.
LEMMA NumberedTail ==
    ASSUME NEW s \in Seq(MetaData), s # <<>>, NEW t, NEW m, NEW n \in Nat,
           Numbered(s, t, m, n)
    PROVE  /\ Numbered(Tail(s), t, m, n + One(Head(s).type = t))
           /\ Head(s).type = t => Head(s).addr = Nth(m, n + 1)
<1>1. Numbered(Tail(s), t, m, n + One(Head(s).type = t))
  <2> DEFINE u == Tail(s)
             b == One(Head(s).type = t)
  <2> SUFFICES ASSUME NEW i \in DOMAIN u, u[i].type = t
               PROVE  u[i].addr = Nth(m, n + b + Rank(u, t, i))
    BY DEF Numbered
  <2>1. i + 1 \in DOMAIN s /\ u[i] = s[i + 1]
    OBVIOUS
  <2>2. Rank(s, t, i + 1) = Rank(u, t, i) + b
    BY RankTail
  <2>3. s[i + 1].addr = Nth(m, n + Rank(s, t, i + 1))
    BY <2>1 DEF Numbered
  <2>4. u \in Seq(MetaData) /\ i \in 0..Len(u)
    OBVIOUS
  <2> HIDE DEF u
  <2>5. Rank(u, t, i) \in Nat /\ b \in Nat
    BY <2>4, RankBound, OneType
  <2> HIDE DEF b
  <2>6. n + (Rank(u, t, i) + b) = n + b + Rank(u, t, i)
    BY <2>5
  <2> QED
    BY <2>1, <2>2, <2>3, <2>6
<1>2. ASSUME Head(s).type = t PROVE Head(s).addr = Nth(m, n + 1)
  <2>1. 1 \in 1..Len(s) /\ s[1] = Head(s) /\ 1 - 1 = 0
    OBVIOUS
  <2>2. Rank(s, t, 1) = Rank(s, t, 0) + One(s[1].type = t)
    BY <2>1, RankStep
  <2>3. Rank(s, t, 1) = 1
    BY <1>2, <2>1, <2>2, RankEnds DEF One
  <2> QED
    BY <1>2, <2>1, <2>3 DEF Numbered
<1> QED
  BY <1>1, <1>2

\* One more message does not change what was said of those before.
LEMMA NumberedSend ==
    ASSUME NEW s \in Seq(MetaData), NEW t, NEW m \in Seq(Msg), NEW n \in Nat, NEW x \in Msg,
           Numbered(s, t, m, n), n + Count(s, t) =< Len(m)
    PROVE  Numbered(s, t, Append(m, x), n)
<1> SUFFICES ASSUME NEW i \in DOMAIN s, s[i].type = t
             PROVE  s[i].addr = Nth(Append(m, x), n + Rank(s, t, i))
  BY DEF Numbered
<1>1. i \in 1..Len(s) /\ i \in 0..Len(s) /\ i - 1 \in 0..Len(s)
  OBVIOUS
<1>2. /\ Rank(s, t, i) \in Nat /\ Rank(s, t, i) =< Count(s, t)
      /\ Rank(s, t, i - 1) \in Nat
      /\ Rank(s, t, i) = Rank(s, t, i - 1) + 1
      /\ Count(s, t) \in Nat
  BY <1>1, RankBound, RankStep, RowsFinite DEF One
<1>3. n + Rank(s, t, i) \in 1..Len(m)
  BY <1>2
<1>4. Append(m, x)[n + Rank(s, t, i)] = m[n + Rank(s, t, i)]
  BY <1>3
<1> QED
  BY <1>4 DEF Nth, Numbered

-----------------------------------------------------------------------------
(* The streams of completions *)

\* A stream is a queue of records.
LEMMA StreamType == ASSUME TypeOK, NEW x \in Ends PROVE Stream(x) \in Seq(MetaData)
  BY DEF TypeOK, Stream

\* poll_wc and recv_ move completions within a stream.
LEMMA StreamDrained ==
    ASSUME TypeOK, NEW e \in Ends, DrainCQ(e)
    PROVE  \A x \in Ends : Stream(x)' = Stream(x)
<1> TAKE x \in Ends
<1>1. CASE x = e
  <2>1. cqRecv'[e] = <<>> /\ wrq'[e] = wrq[e] \o cqRecv[e]
    BY DEF DrainCQ, TypeOK
  <2>2. (wrq[e] \o cqRecv[e]) \in Seq(MetaData)
    BY DEF TypeOK
  <2> QED
    BY <1>1, <2>1, <2>2 DEF Stream
<1>2. CASE x # e
  BY <1>2 DEF DrainCQ, TypeOK, Stream
<1> QED
  BY <1>1, <1>2

\* resolve_wr_queue takes the first record of a stream.
LEMMA StreamPopped ==
    ASSUME TypeOK, NEW e \in Ends, NEW t, PopWr(e, t)
    PROVE  /\ Stream(e) # <<>> /\ Head(Stream(e)) = Head(wrq[e]) /\ Head(wrq[e]).type = t
           /\ Stream(e)' = Tail(Stream(e))
           /\ \A x \in Ends : x # e => Stream(x)' = Stream(x)
<1>1. wrq[e] \in Seq(MetaData) /\ cqRecv[e] \in Seq(MetaData) /\ wrq[e] # <<>>
  BY DEF TypeOK, PopWr
<1>2. wrq' = [wrq EXCEPT ![e] = Tail(wrq[e])] /\ cqRecv' = cqRecv
  BY DEF PopWr, cq
<1>3. Stream(e)' = Tail(wrq[e]) \o cqRecv[e]
  BY <1>2 DEF TypeOK, Stream
<1>4. ASSUME NEW s \in Seq(MetaData), NEW u \in Seq(MetaData), s # <<>>
      PROVE  s \o u # <<>> /\ Head(s \o u) = Head(s) /\ Tail(s \o u) = Tail(s) \o u
  BY <1>4
<1>5. Stream(e) # <<>> /\ Head(Stream(e)) = Head(wrq[e])
      /\ Tail(Stream(e)) = Tail(wrq[e]) \o cqRecv[e]
  BY <1>1, <1>4 DEF Stream
<1>6. \A x \in Ends : x # e => Stream(x)' = Stream(x)
  BY <1>2 DEF TypeOK, Stream
<1> QED
  BY <1>3, <1>5, <1>6 DEF PopWr

\* The HCA adds a record at the end of the peer's stream.
LEMMA StreamDelivered ==
    ASSUME TypeOK, NEW e \in Ends, Deliver(e)
    PROVE  /\ wr[e].md \in MetaData
           /\ Stream(Peer(e))' = Append(Stream(Peer(e)), wr[e].md)
           /\ Stream(e)' = Stream(e)
<1> DEFINE p == Peer(e)
<1>1. p \in Ends /\ p # e
  BY PeerFacts
<1>2. wr[e].md \in MetaData
  BY DEF Deliver, TypeOK, WorkRequest, NoWr
<1> HIDE DEF p
<1>3. cqRecv' = [cqRecv EXCEPT ![p] = Append(cqRecv[p], wr[e].md)] /\ wrq' = wrq
  BY DEF Deliver, p
<1>4. ASSUME NEW s \in Seq(MetaData), NEW u \in Seq(MetaData), NEW md \in MetaData
      PROVE  s \o Append(u, md) = Append(s \o u, md)
  OBVIOUS
<1>5. wrq[p] \in Seq(MetaData) /\ cqRecv[p] \in Seq(MetaData)
  BY <1>1 DEF TypeOK
<1>6. Stream(p)' = Append(Stream(p), wr[e].md)
  <2>1. Stream(p)' = wrq[p] \o Append(cqRecv[p], wr[e].md)
    BY <1>1, <1>3 DEF TypeOK, Stream
  <2> QED
    BY <1>2, <1>4, <1>5, <2>1 DEF Stream
<1>7. Stream(e)' = Stream(e)
  BY <1>1, <1>3 DEF TypeOK, Stream
<1> QED
  BY <1>2, <1>6, <1>7 DEF p

\* The parts of the sums are numbers.
LEMMA OrderNumbers ==
    ASSUME TypeOK, NEW x \in Ends
    PROVE  /\ Here(x) \in Nat /\ Held(x) \in Nat /\ Preparing(x) \in Nat
           /\ \A t : Count(Stream(x), t) \in Nat /\ Outgoing(x, t) \in Nat
           /\ One(pc[x] = "reading") \in Nat
           /\ ackCnt[x] \in Nat /\ Said(x) \in Nat
<1>1. Here(x) \in Nat /\ ackCnt[x] \in Nat /\ Said(x) \in Nat
  BY DEF TypeOK, Here, Said
<1>2. \A t : Count(Stream(x), t) \in Nat
  BY StreamType, RowsFinite
<1> QED
  BY <1>1, <1>2, OneType DEF Held, Preparing, Outgoing

-----------------------------------------------------------------------------
(* Steps *)

\* There is no third endpoint.
LEMMA OnlyTwo == \A e, x \in Ends : x = e \/ x = Peer(e)
  BY EndsAssumption, PeerFacts

IInv == TypeOK /\ BufferInv /\ OwnInv /\ WireInv /\ OrderInv

\* What is known before a step of e.
Before(e, p) ==
    /\ e \in Ends /\ p \in Ends /\ p # e /\ Peer(e) = p /\ Peer(p) = e
    /\ MsgAt(e, p) /\ AckAt(e, p) /\ MsgAt(p, e) /\ AckAt(p, e)

\* What is to be shown of it.
After(e, p) == MsgAt(e, p)' /\ AckAt(e, p)' /\ MsgAt(p, e)' /\ AckAt(p, e)'

\* Both directions, seen from the endpoint e that takes the step.
LEMMA OrderBefore == ASSUME IInv, NEW e \in Ends PROVE Before(e, Peer(e))
  BY PeerFacts DEF IInv, OrderInv, Before

\* Both directions are all there is to show.
LEMMA OrderAfter == ASSUME NEW e \in Ends, After(e, Peer(e)) PROVE OrderInv'
  BY PeerFacts, OnlyTwo DEF After, OrderInv

\* A step that concerns neither the messages for e ...
LEMMA MsgFrame ==
    ASSUME NEW e \in Ends, NEW p \in Ends, MsgAt(e, p),
           Stream(e)' = Stream(e), recvq'[e] = recvq[e], delivered'[e] = delivered[e],
           cur'[e] = cur[e], sent'[p] = sent[p], Preparing(p)' = Preparing(p),
           \/ wr'[p] = wr[p]
           \/ ~OnWire(wr[p], "NORMAL") /\ ~OnWire(wr'[p], "NORMAL")
    PROVE  MsgAt(e, p)'
<1>1. Here(e)' = Here(e) /\ Held(e)' = Held(e) /\ Outgoing(p, "NORMAL")' = Outgoing(p, "NORMAL")
  BY DEF Here, Held, Outgoing, OnWire, One
<1> QED
  BY <1>1 DEF MsgAt, MsgCount, MsgQueued, MsgInHand, MsgStream, MsgWire, Said

\* ... nor the ACKs from e.
LEMMA AckFrame ==
    ASSUME NEW e \in Ends, NEW p \in Ends, AckAt(e, p),
           Stream(p)' = Stream(p), ackCnt'[p] = ackCnt[p], live'[p] = live[p],
           sent'[p] = sent[p], Here(e)' = Here(e), Held(e)' = Held(e),
           pc'[e] = "reading" <=> pc[e] = "reading",
           \/ wr'[e] = wr[e]
           \/ ~OnWire(wr[e], "ACK") /\ ~OnWire(wr'[e], "ACK")
    PROVE  AckAt(e, p)'
<1>1. /\ Outgoing(e, "ACK")' = Outgoing(e, "ACK")
      /\ One(pc[e] = "reading")' = One(pc[e] = "reading")
  BY DEF Outgoing, OnWire, One
<1> QED
  BY <1>1 DEF AckAt, AckCount, AckStream, AckWire, Copies, Said

\* A thread that moves on its way through the library, and poll_wc.
LEMMA OrderQuiet ==
    ASSUME OrderInv, UNCHANGED <<wr, cur, recvq, ackCnt, live, history>>,
           \A x \in Ends : /\ Stream(x)' = Stream(x) /\ Preparing(x)' = Preparing(x)
                           /\ pc'[x] = "reading" <=> pc[x] = "reading"
    PROVE  OrderInv'
<1> SUFFICES ASSUME NEW e \in Ends PROVE MsgAt(e, Peer(e))' /\ AckAt(e, Peer(e))'
  BY DEF OrderInv
<1>1. Peer(e) \in Ends /\ MsgAt(e, Peer(e)) /\ AckAt(e, Peer(e))
  BY PeerFacts DEF OrderInv
<1>2. Here(e)' = Here(e) /\ Held(e)' = Held(e)
  BY DEF Here, Held, history
<1> QED
  BY <1>1, <1>2, MsgFrame, AckFrame DEF history

\* send_ adds a message and registers its copy.
LEMMA OrderSend ==
    ASSUME IInv, TypeOK', NEW e \in Ends, NEW m \in Msg, Send(e, m) PROVE OrderInv'
<1> DEFINE p == Peer(e)
<1>1. Before(e, p)
  BY OrderBefore
<1> HIDE DEF p
<1>0. p \in Ends /\ p # e
  BY <1>1 DEF Before
<1>2. /\ pc[e] = "idle" /\ pc' = [pc EXCEPT ![e] = "credit"]
      /\ sent' = [sent EXCEPT ![e] = Append(sent[e], m)]
      /\ live' = [live EXCEPT ![e] = IF m = Empty THEN live[e]
                                     ELSE live[e] \cup {Said(e) + 1}]
      /\ UNCHANGED <<cqRecv, wr, wrq, cur, recvq, ackCnt, delivered>>
  BY DEF Send, cq, counters, Said
<1>3. wr[e] = NoWr
  BY <1>2 DEF IInv, OwnInv, OwnsNothing, Waiting
<1>4. \A x \in Ends : Stream(x)' = Stream(x) /\ Here(x)' = Here(x) /\ Held(x)' = Held(x)
                      /\ \A t : Outgoing(x, t)' = Outgoing(x, t)
  BY <1>2 DEF Stream, Here, Held, Outgoing
<1>5. /\ pc'[p] = pc[p] /\ pc'[e] = "credit" /\ sent'[p] = sent[p] /\ live'[p] = live[p]
      /\ sent'[e] = Append(sent[e], m) /\ Said(e)' = Said(e) + 1
      /\ \A k \in 1..Said(e) : sent'[e][k] = sent[e][k]
      /\ sent'[e][Said(e) + 1] = m
  BY <1>1, <1>2 DEF Before, IInv, TypeOK, Said
<1>6. MsgAt(e, p)'
  BY <1>1, <1>2, <1>4, <1>5, MsgFrame DEF Before, Preparing
<1>7. AckAt(e, p)'
  BY <1>1, <1>2, <1>4, <1>5, AckFrame DEF Before
<1>8. /\ Here(p) \in Nat /\ Held(p) \in Nat
      /\ Count(Stream(p), "NORMAL") \in Nat /\ Count(Stream(e), "ACK") \in Nat
      /\ Outgoing(e, "NORMAL") \in Nat /\ Outgoing(p, "ACK") \in Nat
      /\ One(pc[p] = "reading") \in Nat /\ ackCnt[e] \in Nat /\ Said(e) \in Nat
  BY <1>1, OrderNumbers DEF Before, IInv
<1>9. /\ Stream(p) \in Seq(MetaData) /\ Stream(e) \in Seq(MetaData)
      /\ sent[e] \in Seq(Msg) /\ recvq[p] \in Seq(Msg) /\ delivered[p] \in Seq(Msg)
  BY <1>1, StreamType DEF Before, IInv, TypeOK
<1>10. Preparing(e) = 0 /\ Preparing(e)' = 1
  BY <1>2, <1>5 DEF Preparing, One
<1>11. /\ Here(p) + Held(p) + Count(Stream(p), "NORMAL") + Outgoing(e, "NORMAL") = Said(e)
       /\ ackCnt[e] + Count(Stream(e), "ACK") + Outgoing(p, "ACK") + One(pc[p] = "reading")
            = Here(p) + Held(p)
  <2>1. MsgCount(p, e) /\ AckCount(p, e)
    BY <1>1 DEF Before, MsgAt, AckAt
  <2> QED
    BY <1>8, <1>10, <2>1 DEF MsgCount, AckCount
<1>12. /\ Here(p) + Held(p) + Count(Stream(p), "NORMAL") =< Said(e)
       /\ ackCnt[e] + Count(Stream(e), "ACK") =< Said(e)
       /\ Here(p) + Held(p) =< Said(e) /\ ackCnt[e] =< Said(e)
  <2>1. /\ Here(p) + Held(p) + Count(Stream(p), "NORMAL") =< Said(e)
        /\ Here(p) + Held(p) =< Said(e)
    BY <1>8, <1>11
  <2>2. ackCnt[e] + Count(Stream(e), "ACK") =< Here(p) + Held(p)
    BY <1>8, <1>11
  <2> QED
    BY <1>8, <2>1, <2>2
<1>13. \A k \in 1..Said(e) : Nth(sent'[e], k) = Nth(sent[e], k)
  BY <1>5 DEF Nth
<1>14. MsgAt(p, e)'
  <2>1. MsgCount(p, e)'
    BY <1>0, <1>4, <1>5, <1>8, <1>10, <1>11 DEF MsgCount
  <2>2. MsgQueued(p, e)'
    <3> SUFFICES ASSUME NEW k \in DOMAIN recvq[p]
                 PROVE  recvq[p][k] = sent'[e][Len(delivered[p]) + k]
      BY <1>2 DEF MsgQueued
    <3>1. Len(delivered[p]) + k \in 1..Said(e)
      <4> DEFINE d == Len(delivered[p])
                 r == Len(recvq[p])
      <4>1. d \in Nat /\ r \in Nat /\ k \in 1..r
        BY <1>9
      <4>2. d + r = Here(p)
        BY DEF Here
      <4> HIDE DEF d, r
      <4>3. d + k \in 1..Said(e)
        BY <1>8, <1>12, <4>1, <4>2
      <4> QED
        BY <4>3 DEF d
    <3>2. MsgQueued(p, e)
      BY <1>1 DEF Before, MsgAt
    <3> QED
      BY <1>5, <3>1, <3>2 DEF MsgQueued
  <2>3. MsgInHand(p, e)'
    <3> SUFFICES ASSUME cur[p] # NoMd PROVE cur[p].addr = Nth(sent'[e], Here(p) + 1)
      BY <1>0, <1>2, <1>4 DEF MsgInHand
    <3>1. Held(p) = 1
      BY DEF Held, One
    <3>2. Here(p) + 1 \in 1..Said(e)
      BY <1>8, <1>12, <3>1
    <3> QED
      BY <1>1, <1>13, <3>2 DEF Before, MsgAt, MsgInHand
  <2>4. MsgStream(p, e)'
    <3>1. Numbered(Stream(p), "NORMAL", sent[e], Here(p) + Held(p))
      BY <1>1 DEF Before, MsgAt, MsgStream
    <3>2. Here(p) + Held(p) \in Nat
      BY <1>8
    <3>3. Numbered(Stream(p), "NORMAL", Append(sent[e], m), Here(p) + Held(p))
      BY <1>9, <1>12, <3>1, <3>2, NumberedSend DEF Said
    <3> QED
      BY <1>0, <1>4, <1>5, <3>3 DEF MsgStream
  <2>5. MsgWire(e)'
    BY <1>2, <1>3 DEF MsgWire, OnWire, NoWr
  <2> QED
    BY <2>1, <2>2, <2>3, <2>4, <2>5 DEF MsgAt
<1>15. AckAt(p, e)'
  <2>1. AckCount(p, e)'
    BY <1>1, <1>2, <1>4, <1>5 DEF Before, AckAt, AckCount
  <2>2. AckStream(e)'
    <3>1. Numbered(Stream(e), "ACK", sent[e], ackCnt[e])
      BY <1>1 DEF Before, AckAt, AckStream
    <3>2. Numbered(Stream(e), "ACK", Append(sent[e], m), ackCnt[e])
      BY <1>8, <1>9, <1>12, <3>1, NumberedSend DEF Said
    <3> QED
      BY <1>2, <1>4, <1>5, <3>2 DEF AckStream
  <2>3. AckWire(p, e)'
    <3> SUFFICES ASSUME OnWire(wr[p], "ACK")
                 PROVE  wr[p].md.addr = Nth(sent'[e], Here(p) + 1)
      BY <1>0, <1>2, <1>4 DEF AckWire
    <3>1. pc[p] = "acking"
      BY <1>1 DEF Before, IInv, WireInv, WireAt, OnWire
    <3>2. Held(p) = 1
      BY <1>1, <3>1 DEF Before, IInv, BufferInv, CurHeld, Held, One
    <3>3. Here(p) + 1 \in 1..Said(e)
      BY <1>8, <1>12, <3>2
    <3> QED
      BY <1>1, <1>13, <3>3 DEF Before, AckAt, AckWire
  <2>4. Copies(e)'
    <3>1. live'[e] = IF m = Empty THEN live[e] ELSE live[e] \cup {Said(e) + 1}
      BY <1>1, <1>2 DEF IInv, TypeOK
    <3>2. live[e] = {k \in 1..Said(e) : k > ackCnt[e] /\ sent[e][k] # Empty}
      BY <1>1 DEF Before, AckAt, Copies
    <3>3. Said(e) + 1 > ackCnt[e]
      BY <1>8, <1>12
    <3>4. \A k : k \in 1..Said(e)' <=> k \in 1..Said(e) \/ k = Said(e) + 1
      BY <1>5, <1>8
    <3>5. live'[e] = {k \in 1..Said(e)' : k > ackCnt[e] /\ sent'[e][k] # Empty}
      BY <1>5, <3>1, <3>2, <3>3, <3>4
    <3> QED
      BY <1>2, <3>5 DEF Copies
  <2> QED
    BY <2>1, <2>2, <2>3, <2>4 DEF AckAt
<1> QED
  BY <1>6, <1>7, <1>14, <1>15, OrderAfter DEF After, p

\* send_ posts the record of its message.
LEMMA OrderPost ==
    ASSUME IInv, NEW e \in Ends, PostMetaData(e) PROVE OrderInv'
<1> DEFINE p == Peer(e)
<1>1. Before(e, p)
  BY OrderBefore
<1> HIDE DEF p
<1>0. p \in Ends /\ p # e
  BY <1>1 DEF Before
<1>2. /\ pc[e] \in {"post", "credit"} /\ pc' = [pc EXCEPT ![e] = "sending"]
      /\ wr' = [wr EXCEPT ![e] = [op |-> "send", md |-> SendMd(e)]]
      /\ UNCHANGED <<cqRecv, wrq, cur, recvq, ackCnt, live, sent, delivered>>
  BY DEF PostMetaData, Post, cq, history
<1>3. wr[e] = NoWr
  BY <1>2 DEF IInv, OwnInv, OwnsNothing, Waiting
<1>4. \A x \in Ends : Stream(x)' = Stream(x) /\ Here(x)' = Here(x) /\ Held(x)' = Held(x)
                      /\ Said(x)' = Said(x)
  BY <1>2 DEF Stream, Here, Held, Said
<1>5. /\ pc'[p] = pc[p] /\ wr'[p] = wr[p] /\ pc'[e] = "sending"
      /\ wr'[e] = [op |-> "send", md |-> SendMd(e)]
  BY <1>0, <1>2 DEF IInv, TypeOK
<1>6. OnWire(wr'[e], "NORMAL") /\ ~OnWire(wr'[e], "ACK") /\ ~OnWire(wr[e], "ACK")
      /\ SendMd(e).addr = Nth(sent[e], Said(e))
  <2>1. SendMd(e).type = "NORMAL"
    BY SendMdFacts DEF IInv
  <2>2. SendMd(e).addr = Nth(sent[e], Said(e))
    BY DEF SendMd, Nth, Said
  <2> QED
    BY <1>3, <1>5, <2>1, <2>2 DEF OnWire, NoWr
<1>7. MsgAt(e, p)'
  BY <1>0, <1>1, <1>2, <1>4, <1>5, MsgFrame DEF Before, Preparing
<1>8. AckAt(e, p)'
  BY <1>0, <1>1, <1>2, <1>4, <1>5, <1>6, AckFrame DEF Before
<1>9. AckAt(p, e)'
  BY <1>0, <1>1, <1>2, <1>4, <1>5, AckFrame DEF Before
<1>10. MsgAt(p, e)'
  <2>1. MsgCount(p, e)'
    <3>1. Preparing(e) = 1 /\ Preparing(e)' = 0
      BY <1>2, <1>5 DEF Preparing, One
    <3>2. Outgoing(e, "NORMAL") = 0 /\ Outgoing(e, "NORMAL")' = 1
      BY <1>3, <1>5, <1>6 DEF Outgoing, OnWire, NoWr, One
    <3>3. Here(p) \in Nat /\ Held(p) \in Nat /\ Count(Stream(p), "NORMAL") \in Nat
          /\ Said(e) \in Nat
      BY <1>0, OrderNumbers DEF IInv
    <3>4. MsgCount(p, e)
      BY <1>1 DEF Before, MsgAt
    <3> QED
      BY <1>0, <1>4, <3>1, <3>2, <3>3, <3>4 DEF MsgCount
  <2>2. MsgWire(e)'
    BY <1>2, <1>4, <1>5, <1>6 DEF MsgWire
  <2> QED
    BY <1>0, <1>1, <1>2, <1>4, <2>1, <2>2
       DEF Before, MsgAt, MsgQueued, MsgInHand, MsgStream
<1> QED
  BY <1>7, <1>8, <1>9, <1>10, OrderAfter DEF After, p

\* recv_wc_handle takes the record of the next message.
LEMMA OrderResolveNormal ==
    ASSUME IInv, NEW e \in Ends, ResolveNormal(e) PROVE OrderInv'
<1> DEFINE p == Peer(e)
           s == Stream(e)
           md == Head(wrq[e])
<1>1. Before(e, p)
  BY OrderBefore
<1>2. PopWr(e, "NORMAL") /\ pc[e] = "resolve"
  BY DEF ResolveNormal, PopWr
<1>3. /\ s # <<>> /\ Head(s) = md /\ md.type = "NORMAL" /\ Stream(e)' = Tail(s)
      /\ \A x \in Ends : x # e => Stream(x)' = Stream(x)
  BY <1>2, StreamPopped DEF IInv
<1>4. s \in Seq(MetaData) /\ md \in MetaData
  <2>1. s \in Seq(MetaData)
    BY StreamType DEF IInv
  <2> QED
    BY <1>3, <2>1
<1> HIDE DEF p, s
<1>0. p \in Ends /\ p # e
  BY <1>1 DEF Before
<1>5. /\ cur' = [cur EXCEPT ![e] = md]
      /\ \/ /\ wr' = [wr EXCEPT ![e] = [op |-> "read", md |-> md]]
            /\ pc' = [pc EXCEPT ![e] = "reading"]
         \/ /\ wr' = [wr EXCEPT ![e] = [op |-> "send", md |-> AckOf(md)]]
            /\ pc' = [pc EXCEPT ![e] = "acking"]
      /\ UNCHANGED <<recvq, ackCnt, live, sent, delivered>>
  BY DEF ResolveNormal, Post, counters, history
<1> HIDE DEF md
<1>6. wr[e] = NoWr /\ cur[e] = NoMd
  BY <1>2 DEF IInv, OwnInv, OwnsNothing, Waiting, BufferInv, CurHeld
<1>7. AckOf(md).type = "ACK" /\ AckOf(md).addr = md.addr
  BY <1>4, AckOfFacts DEF AckOf, MetaData
<1>8. /\ \A x \in Ends : Here(x)' = Here(x) /\ Said(x)' = Said(x)
      /\ Held(p)' = Held(p) /\ Held(e) = 0 /\ Held(e)' = 1 /\ cur'[e] = md
      /\ pc'[p] = pc[p] /\ wr'[p] = wr[p] /\ cur'[p] = cur[p]
      /\ Preparing(e)' = Preparing(e) /\ Preparing(p)' = Preparing(p)
      /\ ~OnWire(wr[e], "NORMAL") /\ ~OnWire(wr'[e], "NORMAL")
  <2>1. cur'[e] = md /\ pc'[p] = pc[p] /\ wr'[p] = wr[p] /\ cur'[p] = cur[p]
    BY <1>0, <1>5 DEF IInv, TypeOK
  <2>2. Held(e) = 0 /\ Held(e)' = 1 /\ Held(p)' = Held(p)
    BY <1>3, <1>6, <2>1 DEF Held, One, NoMd
  <2>3. \A x \in Ends : Here(x)' = Here(x) /\ Said(x)' = Said(x)
    BY <1>5 DEF Here, Said
  <2>4. pc'[e] \in {"reading", "acking"} /\ pc[e] = "resolve"
    BY <1>2, <1>5 DEF IInv, TypeOK
  <2>5. Preparing(e)' = Preparing(e) /\ Preparing(p)' = Preparing(p)
    BY <2>1, <2>4 DEF Preparing
  <2>6. ~OnWire(wr[e], "NORMAL") /\ ~OnWire(wr'[e], "NORMAL")
    BY <1>5, <1>6, <1>7 DEF IInv, TypeOK, OnWire, NoWr
  <2> QED
    BY <2>1, <2>2, <2>3, <2>5, <2>6
<1>9. /\ Here(e) \in Nat /\ Count(s, "NORMAL") \in Nat /\ Count(s, "ACK") \in Nat
      /\ Count(Stream(p), "ACK") \in Nat
      /\ Outgoing(p, "NORMAL") \in Nat /\ Outgoing(p, "ACK") \in Nat
      /\ Preparing(p) \in Nat /\ Said(p) \in Nat /\ Said(e) \in Nat
      /\ ackCnt[e] \in Nat /\ ackCnt[p] \in Nat
      /\ Here(p) \in Nat /\ Held(p) \in Nat /\ One(pc[p] = "reading") \in Nat
  BY <1>0, OrderNumbers DEF IInv, s
<1>10. /\ Count(Tail(s), "NORMAL") = Count(s, "NORMAL") - 1
       /\ Count(Tail(s), "ACK") = Count(s, "ACK")
  <2>1. \A t : Count(Tail(s), t) = Count(s, t) - One(Head(s).type = t)
    BY <1>3, <1>4, CountTail
  <2>2. One(Head(s).type = "NORMAL") = 1 /\ One(Head(s).type = "ACK") = 0
    BY <1>3 DEF One
  <2> QED
    BY <1>9, <2>1, <2>2
<1>11. MsgAt(e, p)'
  <2>1. Numbered(s, "NORMAL", sent[p], Here(e))
    <3>1. Numbered(s, "NORMAL", sent[p], Here(e) + 0)
      BY <1>1, <1>8 DEF Before, MsgAt, MsgStream, s
    <3> QED
      BY <1>9, <3>1
  <2>2. /\ Numbered(Tail(s), "NORMAL", sent[p], Here(e) + 1)
        /\ md.addr = Nth(sent[p], Here(e) + 1)
    BY <1>3, <1>4, <1>9, <2>1, NumberedTail DEF One
  <2>3. MsgCount(e, p)'
    <3>1. Outgoing(p, "NORMAL")' = Outgoing(p, "NORMAL")
      BY <1>8 DEF Outgoing
    <3>2. Here(e) + 0 + Count(s, "NORMAL") + Outgoing(p, "NORMAL") + Preparing(p) = Said(p)
      BY <1>1, <1>8 DEF Before, MsgAt, MsgCount, s
    <3>3. Here(e) + 1 + (Count(s, "NORMAL") - 1) + Outgoing(p, "NORMAL") + Preparing(p)
            = Said(p)
      BY <1>9, <3>2
    <3> QED
      BY <1>0, <1>3, <1>8, <1>10, <3>1, <3>3 DEF MsgCount
  <2>4. MsgQueued(e, p)' /\ MsgWire(p)'
    BY <1>0, <1>1, <1>5, <1>8 DEF Before, MsgAt, MsgQueued, MsgWire
  <2>5. MsgInHand(e, p)' /\ MsgStream(e, p)'
    BY <1>3, <1>5, <1>8, <2>2 DEF MsgInHand, MsgStream
  <2> QED
    BY <2>3, <2>4, <2>5 DEF MsgAt
<1>12. AckAt(e, p)'
  <2>1. Outgoing(e, "ACK")' + One(pc[e] = "reading")' = 1
    BY <1>5, <1>7 DEF IInv, TypeOK, Outgoing, One
  <2>2. Outgoing(e, "ACK") = 0 /\ One(pc[e] = "reading") = 0
    BY <1>2, <1>6 DEF Outgoing, One, NoWr
  <2>3. AckCount(e, p)'
    <3>1. ackCnt[p] + Count(Stream(p), "ACK") + 0 + 0 = Here(e) + 0
      BY <1>1, <1>8, <2>2 DEF Before, AckAt, AckCount
    <3>2. Outgoing(e, "ACK")' \in Nat /\ One(pc[e] = "reading")' \in Nat
      BY OneType DEF Outgoing
    <3>3. ackCnt[p] + Count(Stream(p), "ACK") + Outgoing(e, "ACK")' + One(pc[e] = "reading")'
            = Here(e) + 1
      BY <1>9, <2>1, <3>1, <3>2
    <3> QED
      BY <1>0, <1>3, <1>5, <1>8, <3>3 DEF AckCount
  <2>4. AckStream(p)' /\ Copies(p)'
    BY <1>0, <1>1, <1>3, <1>5, <1>8 DEF Before, AckAt, AckStream, Copies
  <2>5. AckWire(e, p)'
    <3>1. md.addr = Nth(sent[p], Here(e) + 1)
      BY <1>11, <1>3, <1>5, <1>8 DEF MsgAt, MsgInHand, NoMd
    <3>2. OnWire(wr'[e], "ACK") => wr'[e].md.addr = md.addr
      <4>1. wr'[e] = [op |-> "read", md |-> md] \/ wr'[e] = [op |-> "send", md |-> AckOf(md)]
        BY <1>5 DEF IInv, TypeOK
      <4> QED
        BY <1>7, <4>1 DEF OnWire
    <3> QED
      BY <1>5, <1>8, <3>1, <3>2 DEF AckWire
  <2> QED
    BY <2>3, <2>4, <2>5 DEF AckAt
<1>13. MsgAt(p, e)'
  BY <1>0, <1>1, <1>3, <1>5, <1>8, MsgFrame DEF Before
<1>14. AckAt(p, e)'
  <2>1. Numbered(Tail(s), "ACK", sent[e], ackCnt[e])
    <3>1. Numbered(s, "ACK", sent[e], ackCnt[e])
      BY <1>1 DEF Before, AckAt, AckStream, s
    <3>2. Numbered(Tail(s), "ACK", sent[e], ackCnt[e] + 0)
      BY <1>3, <1>4, <1>9, <3>1, NumberedTail DEF One
    <3> QED
      BY <1>9, <3>2
  <2>2. AckCount(p, e)'
    <3>1. Outgoing(p, "ACK")' = Outgoing(p, "ACK")
          /\ One(pc[p] = "reading")' = One(pc[p] = "reading")
      BY <1>8 DEF Outgoing
    <3> QED
      BY <1>0, <1>1, <1>3, <1>5, <1>8, <1>10, <3>1 DEF Before, AckAt, AckCount, s
  <2>3. AckStream(e)'
    BY <1>3, <1>5, <2>1 DEF AckStream
  <2>4. AckWire(p, e)' /\ Copies(e)'
    BY <1>0, <1>1, <1>5, <1>8 DEF Before, AckAt, AckWire, Copies
  <2> QED
    BY <2>2, <2>3, <2>4 DEF AckAt
<1> QED
  BY <1>11, <1>12, <1>13, <1>14, OrderAfter DEF After, p

\* The payload is there, its record goes back as an ACK.
LEMMA OrderReadCompleted ==
    ASSUME IInv, NEW e \in Ends, ReadCompleted(e) PROVE OrderInv'
<1> DEFINE p == Peer(e)
<1>1. Before(e, p)
  BY OrderBefore
<1> HIDE DEF p
<1>0. p \in Ends /\ p # e
  BY <1>1 DEF Before
<1>2. /\ pc[e] = "reading" /\ poll[e] = "done" /\ pc' = [pc EXCEPT ![e] = "acking"]
      /\ wr' = [wr EXCEPT ![e] = [op |-> "send", md |-> AckOf(cur[e])]]
      /\ UNCHANGED <<cqRecv, wrq, cur, recvq, ackCnt, live, sent, delivered>>
  BY DEF ReadCompleted, PollReturn, Post, cq, counters, history
<1>3. wr[e] = NoWr /\ cur[e] # NoMd
  BY <1>2 DEF IInv, OwnInv, Owns, Waiting, BufferInv, CurHeld
<1>4. \A x \in Ends : Stream(x)' = Stream(x) /\ Here(x)' = Here(x) /\ Held(x)' = Held(x)
                      /\ Said(x)' = Said(x)
  BY <1>2 DEF Stream, Here, Held, Said
<1>5. AckOf(cur[e]).type = "ACK" /\ AckOf(cur[e]).addr = cur[e].addr
  <2>1. cur[e] \in MetaData \cup {NoMd}
    BY DEF IInv, TypeOK
  <2> QED
    BY <2>1, AckOfFacts DEF AckOf, MetaData, NoMd
<1>6. /\ pc'[p] = pc[p] /\ wr'[p] = wr[p] /\ pc'[e] = "acking"
      /\ wr'[e] = [op |-> "send", md |-> AckOf(cur[e])]
      /\ ~OnWire(wr[e], "NORMAL") /\ ~OnWire(wr'[e], "NORMAL")
      /\ Preparing(e)' = Preparing(e) /\ Preparing(p)' = Preparing(p)
  <2>1. /\ pc'[p] = pc[p] /\ wr'[p] = wr[p] /\ pc'[e] = "acking"
        /\ wr'[e] = [op |-> "send", md |-> AckOf(cur[e])]
    BY <1>0, <1>2 DEF IInv, TypeOK
  <2> QED
    BY <1>2, <1>3, <1>5, <2>1 DEF OnWire, NoWr, Preparing
<1>7. MsgAt(e, p)'
  BY <1>0, <1>1, <1>2, <1>4, <1>6, MsgFrame DEF Before
<1>8. MsgAt(p, e)'
  BY <1>0, <1>1, <1>2, <1>4, <1>6, MsgFrame DEF Before
<1>9. AckAt(p, e)'
  BY <1>0, <1>1, <1>2, <1>4, <1>6, AckFrame DEF Before
<1>10. AckAt(e, p)'
  <2>1. AckCount(e, p)'
    <3>1. Outgoing(e, "ACK") = 0 /\ One(pc[e] = "reading") = 1
          /\ Outgoing(e, "ACK")' = 1 /\ One(pc[e] = "reading")' = 0
      BY <1>2, <1>3, <1>5, <1>6 DEF Outgoing, One, NoWr
    <3>2. ackCnt[p] \in Nat /\ Count(Stream(p), "ACK") \in Nat
      BY <1>0, OrderNumbers DEF IInv
    <3>3. AckCount(e, p)
      BY <1>1 DEF Before, AckAt
    <3> QED
      BY <1>0, <1>2, <1>4, <3>1, <3>2, <3>3 DEF AckCount
  <2>2. AckStream(p)' /\ Copies(p)'
    BY <1>0, <1>1, <1>2, <1>4 DEF Before, AckAt, AckStream, Copies
  <2>3. AckWire(e, p)'
    BY <1>0, <1>1, <1>2, <1>3, <1>4, <1>5, <1>6 DEF Before, MsgAt, MsgInHand, AckWire
  <2> QED
    BY <2>1, <2>2, <2>3 DEF AckAt
<1> QED
  BY <1>7, <1>8, <1>9, <1>10, OrderAfter DEF After, p

\* The message in hand goes to recv_queue.
LEMMA OrderAckCompleted ==
    ASSUME IInv, NEW e \in Ends, AckCompleted(e) PROVE OrderInv'
<1> DEFINE p == Peer(e)
<1>1. Before(e, p)
  BY OrderBefore
<1> HIDE DEF p
<1>0. p \in Ends /\ p # e /\ p = Peer(e)
  BY <1>1 DEF Before
<1>2. /\ pc[e] = "acking" /\ poll[e] = "done" /\ pc' = [pc EXCEPT ![e] = "resolve"]
      /\ recvq' = [recvq EXCEPT ![e] = Append(recvq[e], Fetched(e))]
      /\ cur' = [cur EXCEPT ![e] = NoMd]
      /\ UNCHANGED <<cqRecv, wrq, wr, ackCnt, live, sent, delivered>>
  BY DEF AckCompleted, PollReturn, cq, counters, history
<1>3. wr[e] = NoWr /\ cur[e] # NoMd
  BY <1>2 DEF IInv, OwnInv, Owns, Waiting, BufferInv, CurHeld
<1>4. /\ recvq'[e] = Append(recvq[e], Fetched(e)) /\ recvq'[p] = recvq[p]
      /\ cur'[e] = NoMd /\ cur'[p] = cur[p] /\ pc'[e] = "resolve" /\ pc'[p] = pc[p]
  BY <1>0, <1>2 DEF IInv, TypeOK
<1>5. recvq[e] \in Seq(Msg) /\ Len(delivered[e]) \in Nat
  BY DEF IInv, TypeOK
<1>6. /\ Len(recvq'[e]) = Len(recvq[e]) + 1
      /\ \A k \in 1..Len(recvq[e]) : recvq'[e][k] = recvq[e][k]
      /\ recvq'[e][Len(recvq[e]) + 1] = Fetched(e)
      /\ DOMAIN recvq'[e] = 1..(Len(recvq[e]) + 1)
  BY <1>4, <1>5
<1>7. /\ \A x \in Ends : Stream(x)' = Stream(x) /\ Said(x)' = Said(x)
      /\ Here(p)' = Here(p) /\ Held(p)' = Held(p)
      /\ Here(e)' = Here(e) + 1 /\ Held(e) = 1 /\ Held(e)' = 0
  <2> DEFINE d == Len(delivered[e])
             r == Len(recvq[e])
  <2>0. d \in Nat /\ r \in Nat /\ Len(recvq'[e]) = r + 1 /\ Len(delivered'[e]) = d
    BY <1>2, <1>5, <1>6
  <2>1. Here(e)' = d + (r + 1) /\ Here(e) = d + r /\ d \in Nat /\ r \in Nat
    <3>1. Here(e)' = Len(delivered'[e]) + Len(recvq'[e]) /\ Here(e) = d + r
      BY DEF Here
    <3> HIDE DEF d, r
    <3> QED
      BY <2>0, <3>1
  <2> HIDE DEF d, r
  <2>2. Here(e)' = Here(e) + 1
    BY <2>1
  <2> QED
    BY <1>2, <1>3, <1>4, <2>2 DEF Stream, Said, Here, Held, One
<1>8. Here(e) \in Nat /\ Here(e)' + Held(e)' = Here(e) + Held(e)
  BY <1>7, OrderNumbers DEF IInv
<1>9. Preparing(e)' = Preparing(e) /\ Preparing(p)' = Preparing(p)
  BY <1>2, <1>4 DEF Preparing
<1>10. MsgAt(p, e)'
  BY <1>0, <1>1, <1>2, <1>4, <1>7, <1>9, MsgFrame DEF Before
<1>11. AckAt(p, e)'
  BY <1>0, <1>1, <1>2, <1>4, <1>7, AckFrame DEF Before
<1>12. MsgAt(e, p)'
  <2>1. MsgCount(e, p)'
    <3>1. Outgoing(p, "NORMAL")' = Outgoing(p, "NORMAL")
      BY <1>2 DEF Outgoing
    <3> QED
      BY <1>0, <1>1, <1>7, <1>8, <1>9, <3>1 DEF Before, MsgAt, MsgCount
  <2>2. MsgQueued(e, p)'
    <3>1. Fetched(e) = sent[p][Here(e) + 1]
      <4>1. cur[e].addr = Nth(sent[p], Here(e) + 1)
        BY <1>1, <1>3 DEF Before, MsgAt, MsgInHand
      <4>2. Here(e) + 1 # 0
        BY <1>8
      <4> QED
        BY <1>0, <4>1, <4>2 DEF Fetched, Nth
    <3>2. Len(delivered[e]) + (Len(recvq[e]) + 1) = Here(e) + 1
      <4> DEFINE d == Len(delivered[e])
                 r == Len(recvq[e])
      <4>1. Here(e) = d + r /\ d \in Nat /\ r \in Nat
        BY <1>5 DEF Here
      <4> HIDE DEF d, r
      <4>2. d + (r + 1) = Here(e) + 1
        BY <4>1
      <4> QED
        BY <4>2 DEF d, r
    <3>3. MsgQueued(e, p)
      BY <1>1 DEF Before, MsgAt
    <3>4. ASSUME NEW k \in DOMAIN recvq'[e]
          PROVE  recvq'[e][k] = sent[p][Len(delivered[e]) + k]
      <4>1. CASE k \in 1..Len(recvq[e])
        BY <1>5, <1>6, <3>3, <4>1 DEF MsgQueued
      <4>2. CASE k = Len(recvq[e]) + 1
        BY <1>6, <3>1, <3>2, <4>2
      <4> QED
        BY <1>5, <1>6, <4>1, <4>2
    <3> QED
      BY <1>2, <3>4 DEF MsgQueued
  <2>3. MsgInHand(e, p)' /\ MsgWire(p)'
    BY <1>0, <1>1, <1>2, <1>4, <1>7 DEF Before, MsgAt, MsgInHand, MsgWire
  <2>4. MsgStream(e, p)'
    BY <1>0, <1>1, <1>2, <1>7, <1>8 DEF Before, MsgAt, MsgStream
  <2> QED
    BY <2>1, <2>2, <2>3, <2>4 DEF MsgAt
<1>13. AckAt(e, p)'
  <2>1. AckCount(e, p)'
    <3>1. Outgoing(e, "ACK")' = Outgoing(e, "ACK")
          /\ One(pc[e] = "reading")' = One(pc[e] = "reading")
      BY <1>2, <1>4 DEF Outgoing
    <3> QED
      BY <1>0, <1>1, <1>2, <1>7, <1>8, <3>1 DEF Before, AckAt, AckCount
  <2>2. AckStream(p)' /\ Copies(p)'
    BY <1>0, <1>1, <1>2, <1>7 DEF Before, AckAt, AckStream, Copies
  <2>3. AckWire(e, p)'
    BY <1>2, <1>3 DEF AckWire, OnWire, NoWr
  <2> QED
    BY <2>1, <2>2, <2>3 DEF AckAt
<1> QED
  BY <1>10, <1>11, <1>12, <1>13, OrderAfter DEF After, p

\* An ACK is taken and the copy it stands for freed.
LEMMA OrderResolveAck ==
    ASSUME IInv, NEW e \in Ends, ResolveAck(e) PROVE OrderInv'
<1> DEFINE p == Peer(e)
           s == Stream(e)
           md == Head(wrq[e])
<1>1. Before(e, p)
  BY OrderBefore
<1>2. PopWr(e, "ACK")
  BY DEF ResolveAck
<1>3. /\ s # <<>> /\ Head(s) = md /\ md.type = "ACK" /\ Stream(e)' = Tail(s)
      /\ \A x \in Ends : x # e => Stream(x)' = Stream(x)
  BY <1>2, StreamPopped DEF IInv
<1>4. s \in Seq(MetaData)
  BY StreamType DEF IInv
<1> HIDE DEF p, s
<1>0. p \in Ends /\ p # e
  BY <1>1 DEF Before
<1>5. /\ live' = [live EXCEPT ![e] = live[e] \ {md.addr}]
      /\ ackCnt' = [ackCnt EXCEPT ![e] = ackCnt[e] + 1]
      /\ UNCHANGED <<pc, wr, cur, recvq, sent, delivered>>
  BY DEF ResolveAck, history
<1> HIDE DEF md
<1>6. /\ live'[e] = live[e] \ {md.addr} /\ live'[p] = live[p]
      /\ ackCnt'[e] = ackCnt[e] + 1 /\ ackCnt'[p] = ackCnt[p]
  BY <1>0, <1>5 DEF IInv, TypeOK
<1>7. \A x \in Ends : /\ Here(x)' = Here(x) /\ Held(x)' = Held(x) /\ Said(x)' = Said(x)
                      /\ Preparing(x)' = Preparing(x)
                      /\ \A t : Outgoing(x, t)' = Outgoing(x, t)
  BY <1>5 DEF Here, Held, Said, Preparing, Outgoing
<1>8. /\ Here(e) \in Nat /\ Held(e) \in Nat /\ Here(e) + Held(e) \in Nat
      /\ Count(s, "NORMAL") \in Nat /\ Count(s, "ACK") \in Nat
      /\ Outgoing(p, "ACK") \in Nat /\ One(pc[p] = "reading") \in Nat
      /\ Said(e) \in Nat /\ ackCnt[e] \in Nat /\ Here(p) + Held(p) \in Nat
  BY <1>0, OrderNumbers DEF IInv, s
<1>9. /\ Count(Tail(s), "NORMAL") = Count(s, "NORMAL")
      /\ Count(Tail(s), "ACK") = Count(s, "ACK") - 1
  <2>1. \A t : Count(Tail(s), t) = Count(s, t) - One(Head(s).type = t)
    BY <1>3, <1>4, CountTail
  <2>2. One(Head(s).type = "NORMAL") = 0 /\ One(Head(s).type = "ACK") = 1
    BY <1>3 DEF One
  <2> QED
    BY <1>8, <2>1, <2>2
<1>10. AckAt(e, p)'
  BY <1>0, <1>1, <1>3, <1>5, <1>6, <1>7, AckFrame DEF Before
<1>11. MsgAt(p, e)'
  BY <1>0, <1>1, <1>3, <1>5, <1>6, <1>7, MsgFrame DEF Before
<1>12. MsgAt(e, p)'
  <2>1. MsgCount(e, p)'
    BY <1>0, <1>1, <1>3, <1>7, <1>9 DEF Before, MsgAt, MsgCount, s
  <2>2. MsgStream(e, p)'
    <3>1. Numbered(s, "NORMAL", sent[p], Here(e) + Held(e))
      BY <1>1 DEF Before, MsgAt, MsgStream, s
    <3>2. Numbered(Tail(s), "NORMAL", sent[p],
                   Here(e) + Held(e) + One(Head(s).type = "NORMAL"))
      BY <1>3, <1>4, <1>8, <3>1, NumberedTail
    <3>3. Here(e) + Held(e) + One(Head(s).type = "NORMAL") = Here(e) + Held(e)
      BY <1>3, <1>8 DEF One
    <3> QED
      BY <1>3, <1>5, <1>7, <3>2, <3>3 DEF MsgStream
  <2>3. MsgQueued(e, p)' /\ MsgInHand(e, p)' /\ MsgWire(p)'
    BY <1>0, <1>1, <1>5, <1>7 DEF Before, MsgAt, MsgQueued, MsgInHand, MsgWire
  <2> QED
    BY <2>1, <2>2, <2>3 DEF MsgAt
<1>13. AckAt(p, e)'
  <2>1. /\ Numbered(Tail(s), "ACK", sent[e], ackCnt[e] + 1)
        /\ md.addr = Nth(sent[e], ackCnt[e] + 1)
    <3>1. Numbered(s, "ACK", sent[e], ackCnt[e])
      BY <1>1 DEF Before, AckAt, AckStream, s
    <3>2. One(Head(s).type = "ACK") = 1
      BY <1>3 DEF One
    <3> QED
      BY <1>3, <1>4, <1>8, <3>1, <3>2, NumberedTail
  <2>2. AckCount(p, e)'
    <3>1. ackCnt[e] + Count(s, "ACK") + Outgoing(p, "ACK") + One(pc[p] = "reading")
            = Here(p) + Held(p)
      BY <1>1 DEF Before, AckAt, AckCount, s
    <3>2. (ackCnt[e] + 1) + (Count(s, "ACK") - 1) + Outgoing(p, "ACK")
            + One(pc[p] = "reading") = Here(p) + Held(p)
      BY <1>8, <3>1
    <3> QED
      BY <1>0, <1>3, <1>5, <1>6, <1>7, <1>9, <3>2 DEF AckCount
  <2>3. AckStream(e)'
    BY <1>3, <1>5, <1>6, <2>1 DEF AckStream
  <2>4. AckWire(p, e)'
    BY <1>0, <1>1, <1>5, <1>7 DEF Before, AckAt, AckWire
  <2>5. Copies(e)'
    <3>1. live[e] = {k \in 1..Said(e) : k > ackCnt[e] /\ sent[e][k] # Empty}
      BY <1>1 DEF Before, AckAt, Copies
    <3>2. \A k \in 1..Said(e) : k > ackCnt[e] + 1 <=> k > ackCnt[e] /\ k # ackCnt[e] + 1
      BY <1>8
    <3>3. \A k \in 1..Said(e) : sent[e][k] # Empty =>
            (k = md.addr <=> k = ackCnt[e] + 1)
      BY <1>8, <2>1 DEF Nth
    <3>4. live[e] \ {md.addr}
            = {k \in 1..Said(e) : k > ackCnt[e] + 1 /\ sent[e][k] # Empty}
      BY <3>1, <3>2, <3>3
    <3> QED
      BY <1>5, <1>6, <1>7, <3>4 DEF Copies
  <2> QED
    BY <2>2, <2>3, <2>4, <2>5 DEF AckAt
<1> QED
  BY <1>10, <1>11, <1>12, <1>13, OrderAfter DEF After, p

\* Nothing is on its way.
LEMMA OrderInit == Init => OrderInv
<1> SUFFICES ASSUME Init, NEW e \in Ends PROVE MsgAt(e, Peer(e)) /\ AckAt(e, Peer(e))
  BY DEF OrderInv
<1> DEFINE p == Peer(e)
<1>1. p \in Ends /\ p # e
  BY PeerFacts
<1> HIDE DEF p
<1>2. \A x \in Ends : Stream(x) = <<>>
  BY DEF Init, Stream
<1>3. \A x \in Ends : /\ Here(x) = 0 /\ Held(x) = 0 /\ Said(x) = 0 /\ Preparing(x) = 0
                      /\ \A t : Outgoing(x, t) = 0
                      /\ One(pc[x] = "reading") = 0
  BY DEF Init, Here, Held, Said, Preparing, Outgoing, One, NoWr
<1>4. \A x \in Ends : \A t : Count(Stream(x), t) = 0
  BY <1>2, CountEmpty
<1>5. ackCnt[p] = 0 /\ live[p] = {} /\ wr[p] = NoWr /\ wr[e] = NoWr /\ cur[e] = NoMd
      /\ recvq[e] = <<>>
  BY <1>1 DEF Init
<1>6. MsgAt(e, p)
  BY <1>1, <1>2, <1>3, <1>4, <1>5
     DEF MsgAt, MsgCount, MsgQueued, MsgInHand, MsgStream, MsgWire, Numbered, OnWire, NoWr
<1>7. AckAt(e, p)
  <2>1. AckCount(e, p) /\ AckStream(p) /\ AckWire(e, p)
    BY <1>1, <1>2, <1>3, <1>4, <1>5 DEF AckCount, AckStream, AckWire, Numbered, OnWire, NoWr
  <2>2. Copies(p)
    BY <1>1, <1>3, <1>5 DEF Copies
  <2> QED
    BY <2>1, <2>2 DEF AckAt
<1> QED
  BY <1>6, <1>7 DEF p

\* The oldest message of recv_queue is returned.
LEMMA OrderReturnMessage ==
    ASSUME IInv, NEW e \in Ends, ReturnMessage(e) PROVE OrderInv'
<1> DEFINE p == Peer(e)
<1>1. Before(e, p)
  BY OrderBefore
<1> HIDE DEF p
<1>0. p \in Ends /\ p # e
  BY <1>1 DEF Before
<1>2. /\ pc[e] = "resolve" /\ recvq[e] # <<>> /\ pc' = [pc EXCEPT ![e] = "idle"]
      /\ delivered' = [delivered EXCEPT ![e] = Append(delivered[e], Head(recvq[e]))]
      /\ recvq' = [recvq EXCEPT ![e] = Tail(recvq[e])]
      /\ UNCHANGED <<cqRecv, wrq, wr, cur, ackCnt, live, sent>>
  BY DEF ReturnMessage, Resolved, cq, counters
<1>3. recvq[e] \in Seq(Msg) /\ delivered[e] \in Seq(Msg)
  BY DEF IInv, TypeOK
<1>4. /\ recvq'[e] = Tail(recvq[e]) /\ delivered'[e] = Append(delivered[e], Head(recvq[e]))
      /\ recvq'[p] = recvq[p] /\ delivered'[p] = delivered[p]
      /\ pc'[e] = "idle" /\ pc'[p] = pc[p]
  BY <1>0, <1>2 DEF IInv, TypeOK
<1> DEFINE d == Len(delivered[e])
           r == Len(recvq[e])
<1>5. /\ d \in Nat /\ r \in Nat /\ Here(e) = d + r
      /\ Len(delivered'[e]) = d + 1 /\ Len(recvq'[e]) = r - 1
      /\ \A k \in DOMAIN recvq'[e] : /\ k \in Nat /\ k + 1 \in DOMAIN recvq[e]
                                   /\ recvq'[e][k] = recvq[e][k + 1]
  <2>1. ASSUME NEW s \in Seq(Msg), s # <<>>
        PROVE  /\ Len(s) \in Nat /\ Len(Tail(s)) = Len(s) - 1 /\ Head(s) \in Msg
               /\ \A k \in DOMAIN Tail(s) : /\ k \in Nat /\ k + 1 \in DOMAIN s
                                           /\ Tail(s)[k] = s[k + 1]
    BY <2>1
  <2>2. d \in Nat /\ Len(delivered'[e]) = d + 1
    BY <1>2, <1>3, <1>4, <2>1
  <2>3. Here(e) = d + r
    BY DEF Here
  <2> QED
    BY <1>2, <1>3, <1>4, <2>1, <2>2, <2>3
<1>6. Here(e)' = Len(delivered'[e]) + Len(recvq'[e])
  BY DEF Here
<1> HIDE DEF d, r
<1>7. Here(e)' = Here(e) /\ Here(p)' = Here(p)
  <2>1. Here(e)' = Here(e)
    BY <1>5, <1>6
  <2> QED
    BY <1>4, <2>1 DEF Here
<1>8. \A x \in Ends : /\ Stream(x)' = Stream(x) /\ Held(x)' = Held(x) /\ Said(x)' = Said(x)
                      /\ \A t : Outgoing(x, t)' = Outgoing(x, t)
  BY <1>2 DEF Stream, Held, Said, Outgoing
<1>9. Preparing(e)' = Preparing(e) /\ Preparing(p)' = Preparing(p)
  BY <1>2, <1>4 DEF Preparing
<1>10. MsgAt(p, e)'
  BY <1>0, <1>1, <1>2, <1>4, <1>8, <1>9, MsgFrame DEF Before
<1>11. AckAt(p, e)'
  BY <1>0, <1>1, <1>2, <1>4, <1>7, <1>8, AckFrame DEF Before
<1>12. AckAt(e, p)'
  BY <1>0, <1>1, <1>2, <1>4, <1>7, <1>8, AckFrame DEF Before
<1>13. MsgAt(e, p)'
  <2>1. MsgCount(e, p)'
    BY <1>0, <1>1, <1>7, <1>8, <1>9 DEF Before, MsgAt, MsgCount
  <2>2. MsgQueued(e, p)'
    <3> SUFFICES ASSUME NEW k \in DOMAIN recvq'[e]
                 PROVE  recvq'[e][k] = sent[p][Len(delivered'[e]) + k]
      BY <1>2 DEF MsgQueued
    <3>1. recvq[e][k + 1] = sent[p][d + (k + 1)]
      BY <1>1, <1>5 DEF Before, MsgAt, MsgQueued, d
    <3>2. d + (k + 1) = (d + 1) + k
      <4>1. k \in Nat /\ d \in Nat
        BY <1>5
      <4> QED
        BY <4>1
    <3> QED
      BY <1>5, <3>1, <3>2
  <2>3. MsgInHand(e, p)' /\ MsgWire(p)'
    BY <1>0, <1>1, <1>2, <1>7, <1>8 DEF Before, MsgAt, MsgInHand, MsgWire
  <2>4. MsgStream(e, p)'
    BY <1>0, <1>1, <1>2, <1>7, <1>8 DEF Before, MsgAt, MsgStream
  <2> QED
    BY <2>1, <2>2, <2>3, <2>4 DEF MsgAt
<1> QED
  BY <1>10, <1>11, <1>12, <1>13, OrderAfter DEF After, p

\* The request has completed.
LEMMA OrderComplete ==
    ASSUME IInv, NEW e \in Ends, Complete(e) PROVE OrderInv'
<1> DEFINE p == Peer(e)
<1>1. Before(e, p)
  BY OrderBefore
<1> HIDE DEF p
<1>0. p \in Ends /\ p # e
  BY <1>1 DEF Before
<1>2. /\ wr[e].op \in {"sent", "read"} /\ wr' = [wr EXCEPT ![e] = NoWr]
      /\ UNCHANGED <<pc, cqRecv, wrq, cur, recvq, ackCnt, live, sent, delivered>>
  BY DEF Complete, CanComplete, caller, counters, history
<1>3. /\ wr'[p] = wr[p] /\ \A t : ~OnWire(wr[e], t) /\ ~OnWire(wr'[e], t)
  BY <1>0, <1>2 DEF IInv, TypeOK, OnWire, NoWr
<1>4. \A x \in Ends : /\ Stream(x)' = Stream(x) /\ Here(x)' = Here(x) /\ Held(x)' = Held(x)
                      /\ Preparing(x)' = Preparing(x)
  BY <1>2 DEF Stream, Here, Held, Preparing
<1>5. MsgAt(e, p)' /\ MsgAt(p, e)'
  BY <1>0, <1>1, <1>2, <1>3, <1>4, MsgFrame DEF Before
<1>6. AckAt(e, p)' /\ AckAt(p, e)'
  BY <1>0, <1>1, <1>2, <1>3, <1>4, AckFrame DEF Before
<1> QED
  BY <1>5, <1>6, OrderAfter DEF After, p

\* The HCA hands a record to the peer.
LEMMA OrderDeliver ==
    ASSUME IInv, NEW e \in Ends, Deliver(e) PROVE OrderInv'
<1> DEFINE p == Peer(e)
           s == Stream(p)
           md == wr[e].md
<1>1. Before(e, p)
  BY OrderBefore
<1>2. md \in MetaData /\ Stream(p)' = Append(s, md) /\ Stream(e)' = Stream(e)
  BY StreamDelivered DEF IInv
<1> HIDE DEF p
<1>0. p \in Ends /\ p # e
  BY <1>1 DEF Before
<1>3. s \in Seq(MetaData)
  BY <1>0, StreamType DEF IInv
<1>4. /\ wr[e].op = "send" /\ wr' = [wr EXCEPT ![e] = [wr[e] EXCEPT !.op = "sent"]]
      /\ UNCHANGED <<pc, cur, recvq, ackCnt, live, sent, delivered>>
  BY DEF Deliver, caller, counters, history
<1>5. wr'[p] = wr[p] /\ wr'[e].op = "sent"
  <2>1. wr[e] \in WorkRequest /\ wr'[e] = [wr[e] EXCEPT !.op = "sent"] /\ wr'[p] = wr[p]
    BY <1>0, <1>4 DEF IInv, TypeOK
  <2> QED
    BY <2>1 DEF WorkRequest, NoWr
<1>6. \A x \in Ends : /\ Here(x)' = Here(x) /\ Held(x)' = Held(x) /\ Said(x)' = Said(x)
                      /\ Preparing(x)' = Preparing(x)
                      /\ One(pc[x] = "reading")' = One(pc[x] = "reading")
  BY <1>4 DEF Here, Held, Said, Preparing
<1>7. \A t : /\ Outgoing(e, t) = One(md.type = t) /\ Outgoing(e, t)' = 0
             /\ OnWire(wr[e], t) <=> md.type = t
             /\ ~OnWire(wr'[e], t)
  BY <1>4, <1>5 DEF Outgoing, OnWire, One
<1>8. \A t : Count(Stream(p), t)' = Count(s, t) + One(md.type = t)
  BY <1>2, <1>3, CountAppend
<1>9. /\ Here(e) \in Nat /\ Here(p) \in Nat /\ Held(p) \in Nat /\ Held(e) \in Nat
      /\ Count(s, "NORMAL") \in Nat /\ Count(s, "ACK") \in Nat
      /\ ackCnt[p] \in Nat /\ Said(e) \in Nat
      /\ One(pc[e] = "reading") \in Nat /\ Preparing(e) \in Nat
      /\ One(md.type = "NORMAL") \in Nat /\ One(md.type = "ACK") \in Nat
  BY <1>0, OrderNumbers, OneType DEF IInv, s
<1>10. MsgAt(e, p)'
  BY <1>0, <1>1, <1>2, <1>4, <1>5, <1>6, MsgFrame DEF Before
<1>11. AckAt(p, e)'
  BY <1>0, <1>1, <1>2, <1>4, <1>5, <1>6, AckFrame DEF Before
<1> HIDE DEF s, md
<1>12. MsgAt(p, e)'
  <2>1. Here(p) + Held(p) + Count(s, "NORMAL") + One(md.type = "NORMAL") + Preparing(e)
          = Said(e)
    BY <1>1, <1>7 DEF Before, MsgAt, MsgCount, s
  <2>2. MsgCount(p, e)'
    <3>1. Here(p) + Held(p) + (Count(s, "NORMAL") + One(md.type = "NORMAL")) + 0
            + Preparing(e) = Said(e)
      BY <1>9, <2>1
    <3> QED
      BY <1>0, <1>6, <1>7, <1>8, <3>1 DEF MsgCount
  <2>3. MsgStream(p, e)'
    <3>1. md.type = "NORMAL" => md.addr = Nth(sent[e], Here(p) + Held(p) + Count(s, "NORMAL") + 1)
      <4> SUFFICES ASSUME md.type = "NORMAL"
                   PROVE  md.addr = Nth(sent[e], Here(p) + Held(p) + Count(s, "NORMAL") + 1)
        OBVIOUS
      <4>1. pc[e] = "sending"
        BY <1>4 DEF IInv, WireInv, WireAt, md
      <4>2. Preparing(e) = 0
        BY <4>1 DEF Preparing, One
      <4>3. Here(p) + Held(p) + Count(s, "NORMAL") + 1 = Said(e)
        BY <1>9, <2>1, <4>2 DEF One
      <4> QED
        BY <1>1, <1>7, <4>3 DEF Before, MsgAt, MsgWire, md
    <3>2. Numbered(s, "NORMAL", sent[e], Here(p) + Held(p))
      BY <1>1 DEF Before, MsgAt, MsgStream, s
    <3>3. Here(p) + Held(p) \in Nat
      BY <1>9
    <3>4. Numbered(Append(s, md), "NORMAL", sent[e], Here(p) + Held(p))
      BY <1>2, <1>3, <3>1, <3>2, <3>3, NumberedAppend
    <3> QED
      BY <1>0, <1>2, <1>4, <1>6, <3>4 DEF MsgStream
  <2>4. MsgQueued(p, e)' /\ MsgInHand(p, e)' /\ MsgWire(e)'
    BY <1>0, <1>1, <1>4, <1>6, <1>7 DEF Before, MsgAt, MsgQueued, MsgInHand, MsgWire
  <2> QED
    BY <2>2, <2>3, <2>4 DEF MsgAt
<1>13. AckAt(e, p)'
  <2>1. ackCnt[p] + Count(s, "ACK") + One(md.type = "ACK") + One(pc[e] = "reading")
          = Here(e) + Held(e)
    BY <1>1, <1>7 DEF Before, AckAt, AckCount, s
  <2>2. AckCount(e, p)'
    <3>1. ackCnt[p] + (Count(s, "ACK") + One(md.type = "ACK")) + 0 + One(pc[e] = "reading")
            = Here(e) + Held(e)
      BY <1>9, <2>1
    <3> QED
      BY <1>0, <1>4, <1>6, <1>7, <1>8, <3>1 DEF AckCount
  <2>3. AckStream(p)'
    <3>1. md.type = "ACK" => md.addr = Nth(sent[p], ackCnt[p] + Count(s, "ACK") + 1)
      <4> SUFFICES ASSUME md.type = "ACK"
                   PROVE  md.addr = Nth(sent[p], ackCnt[p] + Count(s, "ACK") + 1)
        OBVIOUS
      <4>1. pc[e] = "acking"
        BY <1>4 DEF IInv, WireInv, WireAt, md
      <4>2. One(pc[e] = "reading") = 0 /\ Held(e) = 1
        BY <4>1 DEF IInv, BufferInv, CurHeld, Held, One
      <4>3. ackCnt[p] + Count(s, "ACK") + 1 = Here(e) + 1
        BY <1>9, <2>1, <4>2 DEF One
      <4> QED
        BY <1>1, <1>7, <4>3 DEF Before, AckAt, AckWire, md
    <3>2. Numbered(s, "ACK", sent[p], ackCnt[p])
      BY <1>1 DEF Before, AckAt, AckStream, s
    <3>3. Numbered(Append(s, md), "ACK", sent[p], ackCnt[p])
      BY <1>2, <1>3, <1>9, <3>1, <3>2, NumberedAppend
    <3> QED
      BY <1>0, <1>2, <1>4, <3>3 DEF AckStream
  <2>4. AckWire(e, p)' /\ Copies(p)'
    BY <1>0, <1>1, <1>4, <1>6, <1>7 DEF Before, AckAt, AckWire, Copies
  <2> QED
    BY <2>2, <2>3, <2>4 DEF AckAt
<1> QED
  BY <1>10, <1>11, <1>12, <1>13, OrderAfter DEF After, p

\* Every step keeps the order.
LEMMA OrderNext == IInv /\ TypeOK' /\ [Next]_vars => OrderInv'
<1> SUFFICES ASSUME IInv, TypeOK', [Next]_vars PROVE OrderInv'
  OBVIOUS
<1>0. TypeOK /\ OrderInv
  BY DEF IInv
\* A thread goes on without touching a record.
<1>1. ASSUME NEW e \in Ends, NEW q \in Pcs, pc' = [pc EXCEPT ![e] = q],
             UNCHANGED <<wr, cur, recvq, ackCnt, live, history>>,
             UNCHANGED <<cqRecv, wrq>> \/ DrainCQ(e),
             pc[e] \in {"credit", "creditPoll", "post"} <=> q \in {"credit", "creditPoll", "post"},
             q # "reading" /\ pc[e] # "reading"
      PROVE  OrderInv'
  <2>1. \A x \in Ends : Stream(x)' = Stream(x)
    BY <1>0, <1>1, StreamDrained DEF Stream
  <2>2. \A x \in Ends : /\ Preparing(x)' = Preparing(x)
                        /\ pc'[x] = "reading" <=> pc[x] = "reading"
    <3>1. ASSUME NEW x \in Ends
          PROVE  /\ pc'[x] \in {"credit", "creditPoll", "post"}
                       <=> pc[x] \in {"credit", "creditPoll", "post"}
                 /\ pc'[x] = "reading" <=> pc[x] = "reading"
      <4>1. pc'[x] = IF x = e THEN q ELSE pc[x]
        BY <1>0, <1>1 DEF TypeOK
      <4> QED
        BY <1>1, <4>1
    <3> QED
      BY <3>1 DEF Preparing, One
  <2> QED
    BY <1>0, <1>1, <2>1, <2>2, OrderQuiet
<1>2. ASSUME NEW e \in Ends, UNCHANGED <<pc, wr, cur, recvq, ackCnt, live, history>>,
             UNCHANGED <<cqRecv, wrq>> \/ DrainCQ(e)
      PROVE  OrderInv'
  <2>1. \A x \in Ends : Stream(x)' = Stream(x)
    BY <1>0, <1>2, StreamDrained DEF Stream
  <2>2. \A x \in Ends : /\ Preparing(x)' = Preparing(x)
                        /\ pc'[x] = "reading" <=> pc[x] = "reading"
    BY <1>2 DEF Preparing
  <2> QED
    BY <1>0, <1>2, <2>1, <2>2, OrderQuiet
<1>3. ASSUME NEW e \in Ends, NEW m \in Msg, Send(e, m) PROVE OrderInv'
  BY <1>3, OrderSend
<1>4. ASSUME NEW e \in Ends, NEW call, Receive(e, call) PROVE OrderInv'
  BY <1>1, <1>4 DEF Receive, Pcs, counters
<1>5. ASSUME NEW e \in Ends, PollCQ(e) PROVE OrderInv'
  BY <1>2, <1>5 DEF PollCQ, counters
<1>6. ASSUME NEW e \in Ends, PollAgain(e) PROVE OrderInv'
  <2>1. pc' = pc
    BY <1>0, <1>6 DEF PollAgain, PollReturn, TypeOK
  <2> QED
    BY <1>2, <1>6, <2>1 DEF PollAgain, PollReturn, counters, cq
<1>7. ASSUME NEW e \in Ends,
             \/ CreditWait(e) \/ CreditPolled(e) \/ SendCompleted(e)
             \/ RecvPolled(e) \/ Return(e) \/ RecvWait(e)
      PROVE  OrderInv'
  <2>1. /\ \E q \in {"creditPoll", "post", "resolve", "idle", "recvPoll"} :
             /\ pc' = [pc EXCEPT ![e] = q]
             /\ pc[e] \in {"credit", "creditPoll", "post"} <=> q \in {"creditPoll", "post"}
             /\ pc[e] # "reading"
        /\ UNCHANGED <<wr, cur, recvq, ackCnt, live, history, cqRecv, wrq>>
    BY <1>7 DEF CreditWait, CreditPolled, SendCompleted, RecvPolled, Return, RecvWait,
                Resolved, PollReturn, counters, cq
  <2> QED
    BY <1>1, <2>1 DEF Pcs, PollPcs
<1>8. ASSUME NEW e \in Ends,
             \/ PostMetaData(e) \/ ResolveNormal(e) \/ ReadCompleted(e) \/ AckCompleted(e)
             \/ ResolveAck(e) \/ ReturnMessage(e) \/ Deliver(e) \/ Complete(e)
      PROVE  OrderInv'
  BY <1>8, OrderPost, OrderResolveNormal, OrderReadCompleted, OrderAckCompleted,
     OrderResolveAck, OrderReturnMessage, OrderDeliver, OrderComplete
<1>9. CASE UNCHANGED vars
  <2>1. PICK e \in Ends : TRUE
    BY EndsAssumption
  <2> QED
    BY <1>2, <1>9, <2>1 DEF vars, caller, counters, cq
<1> QED
  BY <1>3, <1>4, <1>5, <1>6, <1>7, <1>8, <1>9 DEF Next, Call, Thread, Hca

-----------------------------------------------------------------------------
(* What follows *)

\* The inductive invariant.
LEMMA ChannelInv == Spec => []IInv
<1>1. Init /\ TypeOK => IInv
  BY BufferInit, OwnInit, WireInit, OrderInit DEF IInv
<1>2. TypeOK /\ TypeOK' /\ IInv /\ [Next]_vars => IInv'
  <2> SUFFICES ASSUME TypeOK, TypeOK', IInv, [Next]_vars PROVE IInv'
    OBVIOUS
  <2>1. TypeOK /\ BufferInv /\ OwnInv /\ WireInv
    BY DEF IInv
  <2>2. BufferInv' /\ OwnInv' /\ WireInv'
    BY <2>1, BufferNext, OwnNext, WireNext
  <2>3. OrderInv'
    BY OrderNext
  <2> QED
    BY <2>2, <2>3 DEF IInv
<1> QED
  BY <1>1, <1>2, TypeCorrect, PTL DEF Spec

\* What is returned is the next message of the peer.
LEMMA NextOfPeer ==
    ASSUME IInv, NEW e \in Ends, recvq[e] # <<>>
    PROVE  /\ Len(delivered[e]) < Len(sent[Peer(e)])
           /\ Head(recvq[e]) = sent[Peer(e)][Len(delivered[e]) + 1]
<1> DEFINE p == Peer(e)
           d == Len(delivered[e])
           r == Len(recvq[e])
<1>1. Before(e, p)
  BY OrderBefore
<1>2. d \in Nat /\ r \in Nat \ {0} /\ 1 \in DOMAIN recvq[e] /\ Head(recvq[e]) = recvq[e][1]
  BY DEF IInv, TypeOK
<1>3. Here(e) = d + r
  BY DEF Here
<1> HIDE DEF d, r, p
<1>4. /\ Here(e) \in Nat /\ Held(e) \in Nat /\ Count(Stream(e), "NORMAL") \in Nat
      /\ Outgoing(p, "NORMAL") \in Nat /\ Preparing(p) \in Nat /\ Said(p) \in Nat
  BY <1>1, OrderNumbers DEF Before, IInv
<1>5. Here(e) =< Said(p)
  BY <1>1, <1>4 DEF Before, MsgAt, MsgCount
<1>6. d < Said(p)
  BY <1>2, <1>3, <1>4, <1>5
<1>7. Head(recvq[e]) = sent[p][d + 1]
  BY <1>1, <1>2 DEF Before, MsgAt, MsgQueued, d
<1> QED
  BY <1>6, <1>7 DEF Said, d, p

\* Every step is a step of the channel or leaves it as it is.
LEMMA ChannelStep == IInv /\ [Next]_vars => [C!Next]_(C!vars)
<1> SUFFICES ASSUME IInv, [Next]_vars, ~UNCHANGED history PROVE C!Next
  BY DEF history, C!vars
<1>1. ASSUME NEW e \in Ends, NEW m \in Msg, Send(e, m) PROVE C!Next
  <2>1. C!Send(e, m)
    BY <1>1 DEF Send, C!Send
  <2> QED
    BY <2>1 DEF C!Next
<1>2. ASSUME NEW e \in Ends, ReturnMessage(e) PROVE C!Next
  <2>1. /\ recvq[e] # <<>> /\ sent' = sent
        /\ delivered' = [delivered EXCEPT ![e] = Append(delivered[e], Head(recvq[e]))]
    BY <1>2 DEF ReturnMessage
  <2>2. C!Peer(e) = Peer(e)
    BY DEF Peer, C!Peer
  <2>3. C!Receive(e)
    BY <2>1, <2>2, NextOfPeer DEF C!Receive
  <2> QED
    BY <2>3 DEF C!Next
<1>3. ASSUME NEW e \in Ends,
             \/ \E call \in {"recv_", "irecv_"} : Receive(e, call)
             \/ PollCQ(e) \/ PollAgain(e) \/ CreditWait(e) \/ CreditPolled(e)
             \/ PostMetaData(e) \/ SendCompleted(e) \/ RecvPolled(e)
             \/ ResolveNormal(e) \/ ReadCompleted(e) \/ AckCompleted(e) \/ ResolveAck(e)
             \/ Return(e) \/ RecvWait(e) \/ Deliver(e) \/ Complete(e)
      PROVE  FALSE
  BY <1>3 DEF Receive, PollCQ, PollAgain, CreditWait, CreditPolled, PostMetaData,
              SendCompleted, RecvPolled, ResolveNormal, ReadCompleted, AckCompleted,
              ResolveAck, Return, RecvWait, Deliver, Complete
<1> QED
  BY <1>1, <1>2, <1>3 DEF Next, Call, Thread, Hca, vars

(***************************************************************************)
(* A connection is a reliable FIFO channel in each direction: what recv_   *)
(* and irecv_ return at one end is what send_ was called with at the other *)
(* end, each message once and in the order of the calls, although the      *)
(* payloads are fetched by READs and records and ACKs of both directions   *)
(* share the receive buffers, the CQ and wr_queue.                         *)
(***************************************************************************)
THEOREM ImplementsChannel == Spec => ChannelSpec
<1>1. Init => C!Init
  BY DEF Init, C!Init
<1>2. IInv /\ [Next]_vars => [C!Next]_(C!vars)
  BY ChannelStep
<1> QED
  BY <1>1, <1>2, ChannelInv, PTL DEF Spec, ChannelSpec, C!Spec

\* A channel keeps what it returned a beginning of what was sent.
LEMMA InOrderStep ==
    ASSUME TypeOK, C!InOrder, [C!Next]_(C!vars) PROVE C!InOrder'
<1>1. CASE UNCHANGED C!vars
  BY <1>1 DEF C!vars, C!InOrder
<1>2. ASSUME NEW x \in Ends, NEW m \in Msg, C!Send(x, m) PROVE C!InOrder'
  <2> SUFFICES ASSUME NEW e \in Ends
               PROVE  /\ Len(delivered'[e]) =< Len(sent'[C!Peer(e)])
                      /\ \A i \in DOMAIN delivered'[e] :
                           delivered'[e][i] = sent'[C!Peer(e)][i]
    BY DEF C!InOrder
  <2> DEFINE p == C!Peer(e)
  <2>1. p \in Ends
    BY PeerFacts DEF Peer, C!Peer
  <2>2. Len(delivered[e]) =< Len(sent[p]) /\ \A i \in DOMAIN delivered[e] : delivered[e][i] = sent[p][i]
    BY DEF C!InOrder
  <2> HIDE DEF p
  <2>3. delivered' = delivered /\ sent' = [sent EXCEPT ![x] = Append(sent[x], m)]
    BY <1>2 DEF C!Send
  <2>4. sent[p] \in Seq(Msg) /\ delivered[e] \in Seq(Msg)
    BY <2>1 DEF TypeOK
  <2>5. sent'[p] = sent[p] \/ sent'[p] = Append(sent[p], m)
    BY <2>1, <2>3 DEF TypeOK
  <2>6. Len(sent'[p]) >= Len(sent[p]) /\ \A i \in 1..Len(sent[p]) : sent'[p][i] = sent[p][i]
    BY <2>4, <2>5
  <2> QED
    BY <2>2, <2>3, <2>4, <2>5, <2>6 DEF p
<1>3. ASSUME NEW x \in Ends, C!Receive(x) PROVE C!InOrder'
  <2> SUFFICES ASSUME NEW e \in Ends
               PROVE  /\ Len(delivered'[e]) =< Len(sent'[C!Peer(e)])
                      /\ \A i \in DOMAIN delivered'[e] :
                           delivered'[e][i] = sent'[C!Peer(e)][i]
    BY DEF C!InOrder
  <2>1. /\ sent' = sent /\ Len(delivered[x]) < Len(sent[C!Peer(x)])
        /\ delivered' = [delivered EXCEPT
                 ![x] = Append(delivered[x], sent[C!Peer(x)][Len(delivered[x]) + 1])]
    BY <1>3 DEF C!Receive
  <2>2. CASE e # x
    BY <2>1, <2>2 DEF C!InOrder, TypeOK
  <2>3. CASE e = x
    <3> DEFINE s == sent[C!Peer(e)]
               d == delivered[e]
    <3>1. delivered'[e] = Append(d, s[Len(d) + 1]) /\ d \in Seq(Msg) /\ Len(d) < Len(s)
      BY <2>1, <2>3 DEF TypeOK
    <3>2. s \in Seq(Msg) /\ \A i \in DOMAIN d : d[i] = s[i]
      BY PeerFacts DEF Peer, C!Peer, TypeOK, C!InOrder
    <3> HIDE DEF s, d
    <3>3. /\ Len(delivered'[e]) = Len(d) + 1
          /\ \A i \in DOMAIN delivered'[e] :
               \/ i \in DOMAIN d /\ delivered'[e][i] = d[i]
               \/ i = Len(d) + 1 /\ delivered'[e][i] = s[Len(d) + 1]
      BY <3>1
    <3>4. Len(delivered'[e]) =< Len(s)
      BY <3>1, <3>2, <3>3
    <3> QED
      BY <2>1, <3>2, <3>3, <3>4 DEF s
  <2> QED
    BY <2>2, <2>3
<1> QED
  BY <1>1, <1>2, <1>3 DEF C!Next

(***************************************************************************)
(* So at any time what was returned at one end is a beginning of what the  *)
(* other end sent: nothing is lost, doubled or overtaken.                  *)
(***************************************************************************)
THEOREM ReturnedInOrder == Spec => []C!InOrder
<1>1. Init => C!InOrder
  <2> SUFFICES ASSUME Init, NEW e \in Ends
               PROVE  delivered[e] = <<>> /\ sent[C!Peer(e)] = <<>>
    BY DEF C!InOrder
  <2> QED
    BY PeerFacts DEF Init, Peer, C!Peer
<1>2. IInv /\ C!InOrder /\ [Next]_vars => C!InOrder'
  BY ChannelStep, InOrderStep DEF IInv
<1> QED
  BY <1>1, <1>2, ChannelInv, PTL DEF Spec

-----------------------------------------------------------------------------
(* The copies of the payloads *)

\* An address in a queue is that of one of its records.
LEMMA AddrsMember ==
    \A s, t, a : a \in AddrsIn(s, t) <=> \E i \in DOMAIN s : s[i].type = t /\ a = s[i].addr
  BY DEF AddrsIn

\* The addresses in two queues.
LEMMA AddrsConcat ==
    ASSUME NEW s \in Seq(MetaData), NEW u \in Seq(MetaData), NEW t
    PROVE  AddrsIn(s \o u, t) = AddrsIn(s, t) \cup AddrsIn(u, t)
<1> DEFINE w == s \o u
<1>1. \A i \in DOMAIN s : i \in DOMAIN w /\ w[i] = s[i]
  OBVIOUS
<1>2. \A i \in DOMAIN u : Len(s) + i \in DOMAIN w /\ w[Len(s) + i] = u[i]
  OBVIOUS
<1>3. \A i \in DOMAIN w : i \in DOMAIN s \/ \E j \in DOMAIN u : i = Len(s) + j
  <2> TAKE i \in DOMAIN w
  <2>1. i \in 1..(Len(s) + Len(u)) /\ Len(s) \in Nat /\ Len(u) \in Nat
    OBVIOUS
  <2>2. i \in 1..Len(s) \/ i - Len(s) \in 1..Len(u)
    BY <2>1
  <2>3. i = Len(s) + (i - Len(s))
    BY <2>1
  <2> QED
    BY <2>2, <2>3
<1> HIDE DEF w
<1>4. ASSUME NEW a
      PROVE  a \in AddrsIn(w, t) <=> a \in AddrsIn(s, t) \/ a \in AddrsIn(u, t)
  <2>1. ASSUME a \in AddrsIn(w, t) PROVE a \in AddrsIn(s, t) \/ a \in AddrsIn(u, t)
    <3>1. PICK i \in DOMAIN w : w[i].type = t /\ a = w[i].addr
      BY <2>1, AddrsMember
    <3>2. CASE i \in DOMAIN s
      BY <1>1, <3>1, <3>2, AddrsMember
    <3>3. CASE \E j \in DOMAIN u : i = Len(s) + j
      BY <1>2, <3>1, <3>3, AddrsMember
    <3> QED
      BY <1>3, <3>2, <3>3
  <2>2. ASSUME a \in AddrsIn(s, t) PROVE a \in AddrsIn(w, t)
    BY <1>1, <2>2, AddrsMember
  <2>3. ASSUME a \in AddrsIn(u, t) PROVE a \in AddrsIn(w, t)
    BY <1>2, <2>3, AddrsMember
  <2> QED
    BY <2>1, <2>2, <2>3
<1> QED
  BY <1>4 DEF w

\* The addresses in a numbered queue are those of consecutive messages.
LEMMA AddrsNumbered ==
    ASSUME NEW s \in Seq(MetaData), NEW t, NEW m, NEW n \in Nat, Numbered(s, t, m, n)
    PROVE  /\ \A r \in 1..Count(s, t) : Nth(m, n + r) \in AddrsIn(s, t)
           /\ \A a \in AddrsIn(s, t) : \E r \in 1..Count(s, t) : a = Nth(m, n + r)
<1>1. ASSUME NEW r \in 1..Count(s, t) PROVE Nth(m, n + r) \in AddrsIn(s, t)
  <2>1. PICK i \in DOMAIN s : s[i].type = t /\ Rank(s, t, i) = r
    BY RankTaken
  <2>2. s[i].addr = Nth(m, n + r)
    BY <2>1 DEF Numbered
  <2> QED
    BY <2>1, <2>2 DEF AddrsIn
<1>2. ASSUME NEW a \in AddrsIn(s, t) PROVE \E r \in 1..Count(s, t) : a = Nth(m, n + r)
  <2>1. PICK i \in DOMAIN s : s[i].type = t /\ a = s[i].addr
    BY DEF AddrsIn
  <2>2. i \in 1..Len(s) /\ i \in 0..Len(s) /\ i - 1 \in 0..Len(s)
    OBVIOUS
  <2>3. /\ Rank(s, t, i) \in Nat /\ Rank(s, t, i) =< Count(s, t) /\ Count(s, t) \in Nat
        /\ Rank(s, t, i - 1) \in Nat /\ Rank(s, t, i) = Rank(s, t, i - 1) + 1
    BY <2>1, <2>2, RankBound, RankStep, RowsFinite DEF One
  <2>4. Rank(s, t, i) \in 1..Count(s, t)
    BY <2>3
  <2> QED
    BY <2>1, <2>4 DEF Numbered
<1> QED
  BY <1>1, <1>2

\* The addresses that Referenced collects, the 0 of empty messages included.
Mentioned(e, p) ==
    UNION {IF Preparing(e) = 1 THEN {SendMd(e).addr} ELSE {},
           IF OnWire(wr[e], "NORMAL") THEN {wr[e].md.addr} ELSE {},
           IF OnWire(wr[p], "ACK") THEN {wr[p].md.addr} ELSE {},
           IF pc[p] = "reading" THEN {cur[p].addr} ELSE {},
           AddrsIn(Stream(p), "NORMAL"), AddrsIn(Stream(e), "ACK")}

\* The completions in the CQ and those in wr_queue are one stream.
LEMMA ReferencedMentioned ==
    ASSUME TypeOK, NEW e \in Ends PROVE Referenced(e) = Mentioned(e, Peer(e)) \ {0}
<1> DEFINE p == Peer(e)
           local == IF pc[e] \in {"credit", "creditPoll", "post"}
                      THEN {SendMd(e).addr} ELSE {}
           wire == {wr[x].md.addr : x \in {y \in Ends :
                      /\ wr[y].op = "send"
                      /\ wr[y].md.type = IF y = e THEN "NORMAL" ELSE "ACK"}}
           busy == IF pc[p] = "reading" THEN {cur[p].addr} ELSE {}
<1>1. p \in Ends /\ p # e /\ \A x \in Ends : x = e \/ x = p
  BY PeerFacts, OnlyTwo
<1>2. Referenced(e) = (UNION {local, wire, busy,
                AddrsIn(cqRecv[p], "NORMAL"), AddrsIn(wrq[p], "NORMAL"),
                AddrsIn(cqRecv[e], "ACK"), AddrsIn(wrq[e], "ACK")}) \ {0}
  BY DEF Referenced
<1> HIDE DEF p
<1>3. local = IF Preparing(e) = 1 THEN {SendMd(e).addr} ELSE {}
  BY DEF Preparing, One
<1>4. wire = (IF OnWire(wr[e], "NORMAL") THEN {wr[e].md.addr} ELSE {})
               \cup (IF OnWire(wr[p], "ACK") THEN {wr[p].md.addr} ELSE {})
  BY <1>1 DEF OnWire
<1>5. \A x \in Ends : \A t : AddrsIn(Stream(x), t) = AddrsIn(wrq[x], t) \cup AddrsIn(cqRecv[x], t)
  <2> SUFFICES ASSUME NEW x \in Ends, NEW t
               PROVE  AddrsIn(wrq[x] \o cqRecv[x], t)
                        = AddrsIn(wrq[x], t) \cup AddrsIn(cqRecv[x], t)
    BY DEF Stream
  <2>1. wrq[x] \in Seq(MetaData) /\ cqRecv[x] \in Seq(MetaData)
    BY DEF TypeOK
  <2> QED
    BY <2>1, AddrsConcat
<1> HIDE DEF local, wire
<1>6. Mentioned(e, p) = UNION {local, wire, busy,
                AddrsIn(cqRecv[p], "NORMAL"), AddrsIn(wrq[p], "NORMAL"),
                AddrsIn(cqRecv[e], "ACK"), AddrsIn(wrq[e], "ACK")}
  <2>1. \A S1, S2, S3, S4, S5, S6, S7 :
          UNION {S1, S2, S3, S4, S5, S6, S7} = S1 \cup S2 \cup S3 \cup S4 \cup S5 \cup S6 \cup S7
    OBVIOUS
  <2>2. \A S1, S2, S3, S4, S5, S6 :
          UNION {S1, S2, S3, S4, S5, S6} = S1 \cup S2 \cup S3 \cup S4 \cup S5 \cup S6
    OBVIOUS
  <2>3. Mentioned(e, p) = local \cup wire \cup busy
            \cup AddrsIn(Stream(p), "NORMAL") \cup AddrsIn(Stream(e), "ACK")
    BY <1>3, <1>4, <2>2 DEF Mentioned
  <2>4. /\ AddrsIn(Stream(p), "NORMAL") = AddrsIn(wrq[p], "NORMAL") \cup AddrsIn(cqRecv[p], "NORMAL")
        /\ AddrsIn(Stream(e), "ACK") = AddrsIn(wrq[e], "ACK") \cup AddrsIn(cqRecv[e], "ACK")
    BY <1>1, <1>5
  <2> HIDE DEF busy
  <2> QED
    BY <2>1, <2>3, <2>4
<1> QED
  BY <1>2, <1>6 DEF p

\* The addresses on their way are those of the messages without an ACK.
LEMMA MentionedNumbers ==
    ASSUME IInv, NEW e \in Ends
    PROVE  /\ \A k \in 1..Said(e) : k > ackCnt[e] => Nth(sent[e], k) \in Mentioned(e, Peer(e))
           /\ \A a \in Mentioned(e, Peer(e)) :
                \E k \in 1..Said(e) : k > ackCnt[e] /\ a = Nth(sent[e], k)
<1> DEFINE p == Peer(e)
           a == ackCnt[e]
           ca == Count(Stream(e), "ACK")
           oa == Outgoing(p, "ACK")
           rd == One(pc[p] = "reading")
           h == Here(p) + Held(p)
           cn == Count(Stream(p), "NORMAL")
           on == Outgoing(e, "NORMAL")
           pr == Preparing(e)
<1>1. Before(e, p)
  BY OrderBefore
<1> HIDE DEF p
<1>0. p \in Ends /\ p # e
  BY <1>1 DEF Before
<1>2. /\ a \in Nat /\ ca \in Nat /\ h \in Nat /\ cn \in Nat /\ Here(p) \in Nat /\ Said(e) \in Nat
      /\ oa \in 0..1 /\ rd \in 0..1 /\ on \in 0..1 /\ pr \in 0..1
  <2>1. \A b : One(b) \in 0..1
    BY DEF One
  <2>2. oa \in 0..1 /\ rd \in 0..1 /\ on \in 0..1 /\ pr \in 0..1
    BY <2>1 DEF Outgoing, Preparing
  <2>3. Here(p) \in Nat /\ Held(p) \in Nat /\ a \in Nat /\ ca \in Nat /\ cn \in Nat /\ Said(e) \in Nat
    BY <1>0, OrderNumbers DEF IInv
  <2> QED
    BY <2>2, <2>3
<1>3. a + ca + oa + rd = h /\ h + cn + on + pr = Said(e)
  BY <1>1 DEF Before, MsgAt, AckAt, MsgCount, AckCount
\* The five kinds of places.
<1>4. /\ Numbered(Stream(e), "ACK", sent[e], a)
      /\ Numbered(Stream(p), "NORMAL", sent[e], h)
      /\ Stream(e) \in Seq(MetaData) /\ Stream(p) \in Seq(MetaData)
  <2>1. AckStream(e) /\ MsgStream(p, e)
    BY <1>1 DEF Before, MsgAt, AckAt
  <2> QED
    BY <1>0, <2>1, StreamType DEF AckStream, MsgStream, IInv
<1>5. /\ OnWire(wr[p], "ACK") <=> oa = 1
      /\ pc[p] = "reading" <=> rd = 1
      /\ OnWire(wr[e], "NORMAL") <=> on = 1
  BY DEF Outgoing, OnWire, One
<1>6. oa = 1 => pc[p] = "acking"
  BY <1>0, <1>5 DEF OnWire, IInv, WireInv, WireAt
<1>7. on = 1 => pc[e] = "sending"
  BY <1>5 DEF OnWire, IInv, WireInv, WireAt
<1>8. (oa = 1 \/ rd = 1) => h = Here(p) + 1 /\ cur[p] # NoMd
  <2> SUFFICES ASSUME pc[p] \in {"reading", "acking"} PROVE h = Here(p) + 1 /\ cur[p] # NoMd
    BY <1>5, <1>6
  <2> QED
    BY <1>0 DEF IInv, BufferInv, CurHeld, Held, One
<1>9. oa = 1 => rd = 0 /\ wr[p].md.addr = Nth(sent[e], h)
  BY <1>1, <1>5, <1>6, <1>8 DEF Before, AckAt, AckWire, One
<1>10. rd = 1 => cur[p].addr = Nth(sent[e], h)
  BY <1>1, <1>8 DEF Before, MsgAt, MsgInHand
<1>11. on = 1 => pr = 0 /\ wr[e].md.addr = Nth(sent[e], Said(e))
  BY <1>1, <1>5, <1>7 DEF Before, MsgAt, MsgWire, Preparing, One
<1>12. pr = 1 => SendMd(e).addr = Nth(sent[e], Said(e))
  BY DEF SendMd, Nth, Said
<1> DEFINE R == Mentioned(e, p)
<1>13. \A x : x \in R <=>
         \/ pr = 1 /\ x = SendMd(e).addr
         \/ on = 1 /\ x = wr[e].md.addr
         \/ oa = 1 /\ x = wr[p].md.addr
         \/ rd = 1 /\ x = cur[p].addr
         \/ x \in AddrsIn(Stream(p), "NORMAL")
         \/ x \in AddrsIn(Stream(e), "ACK")
  BY <1>5 DEF Mentioned
<1>14. /\ \A r \in 1..ca : Nth(sent[e], a + r) \in AddrsIn(Stream(e), "ACK")
       /\ \A x \in AddrsIn(Stream(e), "ACK") : \E r \in 1..ca : x = Nth(sent[e], a + r)
  BY <1>2, <1>4, AddrsNumbered
<1>15. /\ \A r \in 1..cn : Nth(sent[e], h + r) \in AddrsIn(Stream(p), "NORMAL")
       /\ \A x \in AddrsIn(Stream(p), "NORMAL") : \E r \in 1..cn : x = Nth(sent[e], h + r)
  <2> HIDE DEF h
  <2> QED
    BY <1>2, <1>4, AddrsNumbered
<1> HIDE DEF a, ca, oa, rd, h, cn, on, pr, R
<1>16. ASSUME NEW k \in 1..Said(e), k > a PROVE Nth(sent[e], k) \in R
  <2>1. CASE k =< a + ca
    <3>1. k - a \in 1..ca /\ a + (k - a) = k
      BY <1>2, <1>16, <2>1
    <3> QED
      BY <1>13, <1>14, <3>1
  <2>2. CASE k > a + ca /\ k =< h
    <3>1. (oa = 1 \/ rd = 1) /\ k = h
      BY <1>2, <1>3, <1>9, <1>16, <2>2
    <3> QED
      BY <1>9, <1>10, <1>13, <3>1
  <2>3. CASE k > h /\ k =< h + cn
    <3>1. k - h \in 1..cn /\ h + (k - h) = k
      BY <1>2, <1>16, <2>3
    <3> QED
      BY <1>13, <1>15, <3>1
  <2>4. CASE k > h + cn
    <3>1. (on = 1 \/ pr = 1) /\ k = Said(e)
      BY <1>2, <1>3, <1>11, <1>16, <2>4
    <3> QED
      BY <1>11, <1>12, <1>13, <3>1
  <2> QED
    BY <1>2, <1>16, <2>1, <2>2, <2>3, <2>4
<1>17. ASSUME NEW x \in R PROVE \E k \in 1..Said(e) : k > a /\ x = Nth(sent[e], k)
  <2>1. CASE (pr = 1 \/ on = 1) /\ x = Nth(sent[e], Said(e))
    <3>1. Said(e) \in 1..Said(e) /\ Said(e) > a
      BY <1>2, <1>3, <2>1
    <3> QED
      BY <2>1, <3>1
  <2>2. CASE (oa = 1 \/ rd = 1) /\ x = Nth(sent[e], h)
    <3>1. h \in 1..Said(e) /\ h > a
      BY <1>2, <1>3, <2>2
    <3> QED
      BY <2>2, <3>1
  <2>3. CASE x \in AddrsIn(Stream(p), "NORMAL")
    <3>1. PICK r \in 1..cn : x = Nth(sent[e], h + r)
      BY <1>15, <2>3
    <3>2. h + r \in 1..Said(e) /\ h + r > a
      BY <1>2, <1>3
    <3> QED
      BY <3>1, <3>2
  <2>4. CASE x \in AddrsIn(Stream(e), "ACK")
    <3>1. PICK r \in 1..ca : x = Nth(sent[e], a + r)
      BY <1>14, <2>4
    <3>2. a + r \in 1..Said(e) /\ a + r > a
      BY <1>2, <1>3
    <3> QED
      BY <3>1, <3>2
  <2> QED
    BY <1>9, <1>10, <1>11, <1>12, <1>13, <1>17, <2>1, <2>2, <2>3, <2>4
<1> QED
  BY <1>16, <1>17 DEF R, a, p

(***************************************************************************)
(* The registered copies of an endpoint are exactly those some record on   *)
(* its way still refers to: the copy of a message is there for the READ    *)
(* of the peer, and it is freed once, when its own ACK comes, although     *)
(* the peer acknowledges messages without saying how many and an empty     *)
(* message has no copy at all.                                             *)
(***************************************************************************)
THEOREM CopiesKept == Spec => []CopiesReferenced
<1>1. IInv => CopiesReferenced
  <2> SUFFICES ASSUME IInv, NEW e \in Ends PROVE live[e] = Referenced(e)
    BY DEF CopiesReferenced
  <2>1. Referenced(e) = Mentioned(e, Peer(e)) \ {0}
    BY ReferencedMentioned DEF IInv
  <2>2. live[e] = {k \in 1..Said(e) : k > ackCnt[e] /\ sent[e][k] # Empty}
    BY OrderBefore DEF Before, AckAt, Copies
  <2>3. Said(e) \in Nat
    BY OrderNumbers DEF IInv
  <2>4. \A k \in 1..Said(e) : /\ Nth(sent[e], k) = k <=> sent[e][k] # Empty
                              /\ Nth(sent[e], k) = 0 <=> sent[e][k] = Empty
    BY <2>3 DEF Nth
  <2>5. ASSUME NEW k \in live[e] PROVE k \in Mentioned(e, Peer(e)) \ {0}
    BY <2>2, <2>3, <2>4, MentionedNumbers
  <2>6. ASSUME NEW x \in Mentioned(e, Peer(e)), x # 0 PROVE x \in live[e]
    <3>1. PICK k \in 1..Said(e) : k > ackCnt[e] /\ x = Nth(sent[e], k)
      BY MentionedNumbers
    <3> QED
      BY <2>2, <2>4, <2>6, <3>1
  <2> QED
    BY <2>1, <2>5, <2>6
<1> QED
  BY <1>1, ChannelInv, PTL

(***************************************************************************)
(* The READ that recv_wc_handle posts finds the copy of its message        *)
(* registered at the peer, and that message is the one that recv_queue     *)
(* lacks next: a READ reaches no freed memory and no other message, and it *)
(* is never held up.                                                       *)
(***************************************************************************)
ReadsTheirPayload ==
    \A e \in Ends : wr[e].op = "read" =>
        CanComplete(e) /\ wr[e].md.addr = Here(e) + 1

THEOREM ReadsSucceed == Spec => []ReadsTheirPayload
<1>1. IInv => ReadsTheirPayload
  <2> SUFFICES ASSUME IInv, NEW e \in Ends, wr[e].op = "read"
               PROVE  CanComplete(e) /\ wr[e].md.addr = Here(e) + 1
    BY DEF ReadsTheirPayload
  <2> DEFINE p == Peer(e)
  <2>1. Before(e, p)
    BY OrderBefore
  <2> HIDE DEF p
  <2>2. pc[e] = "reading" /\ wr[e].md = cur[e] /\ cur[e].addr # 0
    BY DEF IInv, WireInv, WireAt
  <2>3. cur[e] # NoMd /\ Held(e) = 1 /\ One(pc[e] = "reading") = 1
    BY <2>2 DEF IInv, BufferInv, CurHeld, Held, One, NoMd
  <2>4. cur[e].addr = Nth(sent[p], Here(e) + 1)
    BY <2>1, <2>3 DEF Before, MsgAt, MsgInHand
  <2>5. sent[p][Here(e) + 1] # Empty /\ cur[e].addr = Here(e) + 1
    BY <2>2, <2>4 DEF Nth
  <2>6. /\ Here(e) \in Nat /\ Said(p) \in Nat /\ ackCnt[p] \in Nat
        /\ Count(Stream(p), "ACK") \in Nat /\ Outgoing(e, "ACK") \in Nat
        /\ Count(Stream(e), "NORMAL") \in Nat /\ Outgoing(p, "NORMAL") \in Nat
        /\ Preparing(p) \in Nat
    BY <2>1, OrderNumbers DEF Before, IInv
  <2>7. Here(e) + 1 \in 1..Said(p)
    BY <2>1, <2>3, <2>6 DEF Before, MsgAt, MsgCount
  <2>8. Here(e) + 1 > ackCnt[p]
    BY <2>1, <2>3, <2>6 DEF Before, AckAt, AckCount
  <2>9. Here(e) + 1 \in live[p]
    BY <2>1, <2>5, <2>7, <2>8 DEF Before, AckAt, Copies
  <2> QED
    BY <2>2, <2>5, <2>9 DEF CanComplete, p
<1> QED
  BY <1>1, ChannelInv, PTL
=============================================================================
