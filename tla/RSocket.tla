------------------------------ MODULE RSocket ------------------------------
(***************************************************************************)
(* The data path of a connected pair of rsocket endpoints                  *)
(* (rsocket/src/rdma_socket.cpp, poll_wc.cpp, post_wr.cpp, init.cpp).      *)
(*                                                                         *)
(* Each endpoint is driven by one thread that calls send_, recv_ and       *)
(* irecv_, one call at a time.  A send_ posts a small MetaData record that *)
(* lands in one of the M receive buffers the peer pre-posted; the peer     *)
(* fetches the payload with an RDMA READ and sends the same record back as *)
(* an ACK, which lets the sender free its copy.  Work requests, the wire   *)
(* and the completion channel belong to the HCA: they advance on their own *)
(* between any two steps of the threads.                                   *)
(*                                                                         *)
(* The connection is open throughout: close_lock is free whenever it is    *)
(* tried, and every completion has status IBV_WC_SUCCESS.                  *)
(***************************************************************************)
EXTENDS Integers, Sequences, FiniteSets

CONSTANTS
    Ends,              \* the two endpoints
    Payload,           \* contents of a message of non-zero length
    Empty,             \* the content of a message of length 0
    M,                 \* MDBUFFERSIZE: receive buffers per endpoint
    MaxSend,           \* bound: how often each endpoint calls send_
    ArmReportsPending  \* does ibv_req_notify_cq raise an event for completions
                       \* that are already in the CQ?  The verbs do not say so.

ASSUME EndsAssumption == \E a, b \in Ends : a # b /\ Ends = {a, b}
ASSUME MAssumption == M \in Nat \ {0}
ASSUME BoundAssumption == MaxSend \in [Ends -> Nat]
ASSUME EmptyAssumption == Empty \notin Payload
ASSUME ArmAssumption == ArmReportsPending \in BOOLEAN

Peer(e) == CHOOSE p \in Ends : p # e

Msg == Payload \cup {Empty}

(***************************************************************************)
(* A MetaData record: its type and the address of the sender's registered  *)
(* copy of the payload (0, NULL, for a message of length 0).  Addresses    *)
(* are numbered in the order of the sender's calls.                        *)
(***************************************************************************)
One(b) == IF b THEN 1 ELSE 0

Addr == Nat
NoMd == [type |-> "NONE", addr |-> 0]
MetaData == [type : {"NORMAL", "ACK"}, addr : Addr]
\* Fault: the type is cleared before the record is sent back, not after.
AckOfCleared(md) == [md EXCEPT !.type = "NONE"]

AckOf(md) == [md EXCEPT !.type = "ACK"]

(***************************************************************************)
(* The work request outstanding on the send queue: a SEND not yet received *)
(* by the peer, a SEND received but not yet completed, or a READ.          *)
(***************************************************************************)
NoWr == [op |-> "none", md |-> NoMd]
WorkRequest == [op : {"send", "sent", "read"}, md : MetaData] \cup {NoWr}

VARIABLES
    pc,         \* where the thread of e stands
    op,         \* the call it is executing
    poll,       \* poll_wc: "wait" until the CQ is drained, then its flag
    event,      \* a notification waits in the completion channel
    armed,      \* the next completion will raise one
    rq,         \* receive buffers posted
    cqRecv,     \* IBV_WC_RECV completions in the CQ, oldest first
    cqDone,     \* a SEND or READ completion is in the CQ
    wr,         \* the work request on the send queue
    wrq,        \* wr_queue: receive completions not yet handled
    cur,        \* the record recv_wc_handle is working on
    recvq,      \* recv_queue: messages fetched and not yet returned
    peerBuff,   \* peer_buff_count
    ackCnt,     \* ack_counter
    mdCnt,      \* metadata_counter
    live,       \* addresses of the payload copies registered at e
    sent,       \* messages send_ was called with
    delivered   \* messages recv_ and irecv_ returned

caller == <<pc, op, poll>>
chan == <<event, armed>>
cq == <<cqRecv, cqDone>>
counters == <<peerBuff, ackCnt, mdCnt>>
history == <<sent, delivered>>
vars == <<caller, chan, rq, cq, wr, wrq, cur, recvq, counters, live, history>>

Calls == {"none", "send_", "recv_", "irecv_"}

\* The places where a thread is inside poll_wc, by the caller's line:
\* send_ 331, send_ 341, recv_wc_handle 166 and 189, recv_ 455.
PollPcs == {"creditPoll", "sending", "reading", "acking", "recvPoll"}
Pcs == {"idle", "credit", "post", "resolve"} \cup PollPcs

\* buildConnection: M receive buffers posted, the CQ armed, full credit.
Init ==
    /\ pc = [e \in Ends |-> "idle"]
    /\ op = [e \in Ends |-> "none"]
    /\ poll = [e \in Ends |-> "wait"]
    /\ event = [e \in Ends |-> FALSE]
    /\ armed = [e \in Ends |-> TRUE]
    /\ rq = [e \in Ends |-> M]
    /\ cqRecv = [e \in Ends |-> <<>>]
    /\ cqDone = [e \in Ends |-> FALSE]
    /\ wr = [e \in Ends |-> NoWr]
    /\ wrq = [e \in Ends |-> <<>>]
    /\ cur = [e \in Ends |-> NoMd]
    /\ recvq = [e \in Ends |-> <<>>]
    /\ peerBuff = [e \in Ends |-> M]
    /\ ackCnt = [e \in Ends |-> 0]
    /\ mdCnt = [e \in Ends |-> 0]
    /\ live = [e \in Ends |-> {}]
    /\ sent = [e \in Ends |-> <<>>]
    /\ delivered = [e \in Ends |-> <<>>]

-----------------------------------------------------------------------------
(* The completion queue and its channel (verbs semantics). *)

\* A completion enters the CQ of e: the armed channel gets one notification.
Notify(e) ==
    /\ event' = [event EXCEPT ![e] = @ \/ armed[e]]
    /\ armed' = [armed EXCEPT ![e] = FALSE]

CQEmpty(e) == cqRecv[e] = <<>> /\ ~cqDone[e]

\* Fault: poll_wc forgets ibv_req_notify_cq.
ReqNotifyForgotten(e) == UNCHANGED chan

\* ibv_req_notify_cq.
ReqNotify(e) ==
    IF ArmReportsPending /\ ~CQEmpty(e)
      THEN event' = [event EXCEPT ![e] = TRUE] /\ UNCHANGED armed
      ELSE armed' = [armed EXCEPT ![e] = TRUE] /\ UNCHANGED event

\* Fault: new completions overtake those already in wr_queue.
DrainCQOvertaking(e) ==
    /\ wrq' = [wrq EXCEPT ![e] = cqRecv[e] \o @]
    /\ cqRecv' = [cqRecv EXCEPT ![e] = <<>>]
    /\ cqDone' = [cqDone EXCEPT ![e] = FALSE]

\* Fault: the loop skips every completion, as recv_ does for SENDs.
DrainCQSkipping(e) ==
    /\ cqRecv' = [cqRecv EXCEPT ![e] = <<>>]
    /\ cqDone' = [cqDone EXCEPT ![e] = FALSE]
    /\ UNCHANGED wrq

\* Both kinds of completion leave the CQ: the receives go to wr_queue.
DrainCQ(e) ==
    /\ wrq' = [wrq EXCEPT ![e] = @ \o cqRecv[e]]
    /\ cqRecv' = [cqRecv EXCEPT ![e] = <<>>]
    /\ cqDone' = [cqDone EXCEPT ![e] = FALSE]

\* poll_wc up to its last, empty ibv_poll_cq: wait for a notification, drain.
PollCQ(e) ==
    /\ pc[e] \in PollPcs /\ poll[e] = "wait"
    /\ event[e]
    /\ event' = [event EXCEPT ![e] = FALSE]
    /\ DrainCQ(e)
    /\ poll' = [poll EXCEPT ![e] = IF cqDone[e] THEN "done" ELSE "nothing"]
    /\ UNCHANGED <<pc, op, armed, rq, wr, cur, recvq, counters, live, history>>

\* The end of poll_wc, called at `at`: arm the channel and return.  The caller
\* goes on at `next` if its completion was found (flag 0), or if it asks once.
PollReturn(e, at, flags, next) ==
    /\ pc[e] = at /\ poll[e] \in flags
    /\ poll' = [poll EXCEPT ![e] = "wait"]
    /\ pc' = [pc EXCEPT ![e] = next]
    /\ ReqNotify(e)
    /\ UNCHANGED <<op, cq, wrq>>

\* while(poll_wc(...)): no SEND or READ completion yet, poll again.
PollAgain(e) ==
    /\ \E at \in {"sending", "reading", "acking"} :
          PollReturn(e, at, {"nothing"}, at)
    /\ UNCHANGED <<rq, wr, cur, recvq, counters, live, history>>

\* Hand a work request to the HCA; take back a receive buffer.
Post(e, kind, md) == wr' = [wr EXCEPT ![e] = [op |-> kind, md |-> md]]
PostRecv(e) == rq' = [rq EXCEPT ![e] = @ + 1]

-----------------------------------------------------------------------------
(* send_ *)

\* The record that describes the message send_ is working on.
SendMd(e) ==
    [type |-> "NORMAL",
     addr |-> IF sent[e][Len(sent[e])] = Empty THEN 0 ELSE Len(sent[e])]

\* Copy and register the payload.
Send(e, m) ==
    /\ pc[e] = "idle" /\ Len(sent[e]) < MaxSend[e]
    /\ sent' = [sent EXCEPT ![e] = Append(@, m)]
    /\ live' = [live EXCEPT ![e] = IF m = Empty THEN @
                                   ELSE @ \cup {Len(sent[e]) + 1}]
    /\ pc' = [pc EXCEPT ![e] = "credit"]
    /\ op' = [op EXCEPT ![e] = "send_"]
    /\ UNCHANGED <<poll, chan, rq, cq, wr, wrq, cur, recvq, counters, delivered>>

\* No credit: call poll_wc once, then go on whatever it brought.
CreditWait(e) ==
    /\ pc[e] = "credit" /\ peerBuff[e] =< 0
    /\ pc' = [pc EXCEPT ![e] = "creditPoll"]
    /\ UNCHANGED <<op, poll, chan, rq, cq, wr, wrq, cur, recvq, counters, live,
                   history>>

CreditPolled(e) ==
    /\ PollReturn(e, "creditPoll", {"done", "nothing"}, "post")
    /\ UNCHANGED <<rq, wr, cur, recvq, counters, live, history>>

PostMetaData(e) ==
    /\ pc[e] = "post" \/ (pc[e] = "credit" /\ peerBuff[e] > 0)
    /\ Post(e, "send", SendMd(e))
    /\ peerBuff' = [peerBuff EXCEPT ![e] = @ - 1]
    /\ pc' = [pc EXCEPT ![e] = "sending"]
    /\ UNCHANGED <<op, poll, chan, rq, cq, wrq, cur, recvq, ackCnt, mdCnt, live,
                   history>>

\* Fault: poll_wc is called once, not until the SEND has completed.
SendCompletedOnce(e) ==
    /\ PollReturn(e, "sending", {"done", "nothing"}, "resolve")
    /\ mdCnt' = [mdCnt EXCEPT ![e] = @ + 1]
    /\ UNCHANGED <<rq, wr, cur, recvq, peerBuff, ackCnt, live, history>>

\* Fault: the copy is freed when the SEND of its record has completed.
SendCompletedFrees(e) ==
    /\ PollReturn(e, "sending", {"done"}, "resolve")
    /\ mdCnt' = [mdCnt EXCEPT ![e] = @ + 1]
    /\ live' = [live EXCEPT ![e] = @ \ {Len(sent[e])}]
    /\ UNCHANGED <<rq, wr, cur, recvq, peerBuff, ackCnt, history>>

SendCompleted(e) ==
    /\ PollReturn(e, "sending", {"done"}, "resolve")
    /\ mdCnt' = [mdCnt EXCEPT ![e] = @ + 1]
    /\ UNCHANGED <<rq, wr, cur, recvq, peerBuff, ackCnt, live, history>>

-----------------------------------------------------------------------------
(* recv_ and irecv_: drain the CQ without waiting, then resolve. *)

Receive(e, call) ==
    /\ pc[e] = "idle"
    /\ DrainCQ(e)
    /\ pc' = [pc EXCEPT ![e] = "resolve"]
    /\ op' = [op EXCEPT ![e] = call]
    /\ UNCHANGED <<poll, chan, rq, wr, cur, recvq, counters, live, history>>

\* recv_ with nothing to return polls and resolves until there is something.
RecvPolled(e) ==
    /\ PollReturn(e, "recvPoll", {"done", "nothing"}, "resolve")
    /\ UNCHANGED <<rq, wr, cur, recvq, counters, live, history>>

-----------------------------------------------------------------------------
(* resolve_wr_queue and recv_wc_handle *)

\* The oldest receive completion is taken off wr_queue.
PopWr(e, type) ==
    /\ pc[e] = "resolve" /\ wrq[e] # <<>>
    /\ Head(wrq[e]).type = type
    /\ wrq' = [wrq EXCEPT ![e] = Tail(@)]
    /\ UNCHANGED <<op, poll, chan, cq>>

\* A message: post the READ of its payload, or acknowledge an empty one.
ResolveNormal(e) ==
    /\ PopWr(e, "NORMAL")
    /\ LET md == Head(wrq[e]) IN
         /\ cur' = [cur EXCEPT ![e] = md]
         /\ \/ /\ md.addr # 0
               /\ Post(e, "read", md)
               /\ pc' = [pc EXCEPT ![e] = "reading"]
            \/ /\ md.addr = 0
               /\ Post(e, "send", AckOf(md))
               /\ pc' = [pc EXCEPT ![e] = "acking"]
    /\ UNCHANGED <<rq, recvq, counters, live, history>>

\* The payload is here: acknowledge it with the same record.
ReadCompleted(e) ==
    /\ PollReturn(e, "reading", {"done"}, "acking")
    /\ Post(e, "send", AckOf(cur[e]))
    /\ UNCHANGED <<rq, cur, recvq, counters, live, history>>

\* The payload that was read, or the empty message.
Fetched(e) == IF cur[e].addr = 0 THEN Empty ELSE sent[Peer(e)][cur[e].addr]

\* Fault: the buffer of a message is not posted again.
AckCompletedKeeps(e) ==
    /\ PollReturn(e, "acking", {"done"}, "resolve")
    /\ recvq' = [recvq EXCEPT ![e] = Append(@, Fetched(e))]
    /\ cur' = [cur EXCEPT ![e] = NoMd]
    /\ UNCHANGED <<rq, wr, counters, live, history>>

\* The ACK is out: post the buffer again and queue the message.
AckCompleted(e) ==
    /\ PollReturn(e, "acking", {"done"}, "resolve")
    /\ PostRecv(e)
    /\ recvq' = [recvq EXCEPT ![e] = Append(@, Fetched(e))]
    /\ cur' = [cur EXCEPT ![e] = NoMd]
    /\ UNCHANGED <<wr, counters, live, history>>

\* Fault: the buffer of an ACK is not posted again.
ResolveAckKeeps(e) ==
    /\ PopWr(e, "ACK")
    /\ peerBuff' = [peerBuff EXCEPT ![e] = @ + 1]
    /\ live' = [live EXCEPT ![e] = @ \ {Head(wrq[e]).addr}]
    /\ ackCnt' = [ackCnt EXCEPT ![e] = @ + 1]
    /\ UNCHANGED <<pc, rq, wr, cur, recvq, mdCnt, history>>

\* Fault: only the ACK of a non-empty message gives the credit back.
ResolveAckOfCopy(e) ==
    /\ PopWr(e, "ACK")
    /\ peerBuff' = [peerBuff EXCEPT ![e] = @ + One(Head(wrq[e]).addr # 0)]
    /\ live' = [live EXCEPT ![e] = @ \ {Head(wrq[e]).addr}]
    /\ ackCnt' = [ackCnt EXCEPT ![e] = @ + 1]
    /\ PostRecv(e)
    /\ UNCHANGED <<pc, wr, cur, recvq, mdCnt, history>>

\* An ACK: one more buffer at the peer, the copy is freed.
ResolveAck(e) ==
    /\ PopWr(e, "ACK")
    /\ peerBuff' = [peerBuff EXCEPT ![e] = @ + 1]
    /\ live' = [live EXCEPT ![e] = @ \ {Head(wrq[e]).addr}]
    /\ ackCnt' = [ackCnt EXCEPT ![e] = @ + 1]
    /\ PostRecv(e)
    /\ UNCHANGED <<pc, wr, cur, recvq, mdCnt, history>>

\* wr_queue is empty, the call goes on: send_ returns, irecv_ and recv_ return
\* the oldest message, without one irecv_ returns NULL and recv_ polls.  The
\* flag of resolve_wr_queue says just whether recv_queue holds a message.
Resolved(e) == pc[e] = "resolve" /\ wrq[e] = <<>>

Return(e) ==
    /\ Resolved(e)
    /\ op[e] = "send_" \/ (op[e] = "irecv_" /\ recvq[e] = <<>>)
    /\ pc' = [pc EXCEPT ![e] = "idle"]
    /\ op' = [op EXCEPT ![e] = "none"]
    /\ UNCHANGED <<poll, chan, rq, cq, wr, wrq, cur, recvq, counters, live,
                   history>>

ReturnMessage(e) ==
    /\ Resolved(e)
    /\ op[e] \in {"recv_", "irecv_"} /\ recvq[e] # <<>>
    /\ delivered' = [delivered EXCEPT ![e] = Append(@, Head(recvq[e]))]
    /\ recvq' = [recvq EXCEPT ![e] = Tail(@)]
    /\ pc' = [pc EXCEPT ![e] = "idle"]
    /\ op' = [op EXCEPT ![e] = "none"]
    /\ UNCHANGED <<poll, chan, rq, cq, wr, wrq, cur, counters, live, sent>>

RecvWait(e) ==
    /\ Resolved(e)
    /\ op[e] = "recv_" /\ recvq[e] = <<>>
    /\ pc' = [pc EXCEPT ![e] = "recvPoll"]
    /\ UNCHANGED <<op, poll, chan, rq, cq, wr, wrq, cur, recvq, counters, live,
                   history>>

-----------------------------------------------------------------------------
(* The HCAs: reliable, in order; a SEND waits for a posted receive buffer    *)
(* (rnr_retry_count = 7, for ever).                                          *)

Deliver(e) ==
    LET p == Peer(e) IN
    /\ wr[e].op = "send" /\ rq[p] > 0
    /\ rq' = [rq EXCEPT ![p] = @ - 1]
    /\ cqRecv' = [cqRecv EXCEPT ![p] = Append(@, wr[e].md)]
    /\ Notify(p)
    /\ wr' = [wr EXCEPT ![e].op = "sent"]
    /\ UNCHANGED <<caller, cqDone, wrq, cur, recvq, counters, live, history>>

\* A READ reaches the memory registered at the peer without its thread.
CanComplete(e) ==
    \/ wr[e].op = "sent"
    \/ wr[e].op = "read" /\ wr[e].md.addr \in live[Peer(e)]

Complete(e) ==
    /\ CanComplete(e)
    /\ cqDone' = [cqDone EXCEPT ![e] = TRUE]
    /\ Notify(e)
    /\ wr' = [wr EXCEPT ![e] = NoWr]
    /\ UNCHANGED <<caller, rq, cqRecv, wrq, cur, recvq, counters, live, history>>

-----------------------------------------------------------------------------
Thread(e) ==
    \/ PollCQ(e) \/ PollAgain(e)
    \/ CreditWait(e) \/ CreditPolled(e) \/ PostMetaData(e) \/ SendCompleted(e)
    \/ RecvPolled(e)
    \/ ResolveNormal(e) \/ ReadCompleted(e) \/ AckCompleted(e) \/ ResolveAck(e)
    \/ Return(e) \/ ReturnMessage(e) \/ RecvWait(e)

Call(e) ==
    \/ \E m \in Msg : Send(e, m)
    \/ \E call \in {"recv_", "irecv_"} : Receive(e, call)

Hca(e) == Deliver(e) \/ Complete(e)

Next == \E e \in Ends : Call(e) \/ Thread(e) \/ Hca(e)

Spec == Init /\ [][Next]_vars

(***************************************************************************)
(* Fairness: the kernel runs a thread that can take a step and the HCA     *)
(* executes posted work.  AppFairness says that an endpoint outside of any *)
(* call will call irecv_ again: a message can only get through, and credit *)
(* come back, if the program at the other end keeps entering the library.  *)
(***************************************************************************)
AppFairness == \A e \in Ends : WF_vars(Receive(e, "irecv_"))

FairSpec ==
    /\ Spec
    /\ \A e \in Ends : WF_vars(Thread(e)) /\ WF_vars(Deliver(e))
                                          /\ WF_vars(Complete(e))
    /\ AppFairness

-----------------------------------------------------------------------------
TypeOK ==
    /\ pc \in [Ends -> Pcs]
    /\ op \in [Ends -> Calls]
    /\ poll \in [Ends -> {"wait", "done", "nothing"}]
    /\ event \in [Ends -> BOOLEAN]
    /\ armed \in [Ends -> BOOLEAN]
    /\ rq \in [Ends -> Nat]
    /\ cqRecv \in [Ends -> Seq(MetaData)]
    /\ cqDone \in [Ends -> BOOLEAN]
    /\ wr \in [Ends -> WorkRequest]
    /\ wrq \in [Ends -> Seq(MetaData)]
    /\ cur \in [Ends -> MetaData \cup {NoMd}]
    /\ recvq \in [Ends -> Seq(Msg)]
    /\ peerBuff \in [Ends -> Int]
    /\ ackCnt \in [Ends -> Nat]
    /\ mdCnt \in [Ends -> Nat]
    /\ live \in [Ends -> SUBSET Addr]
    /\ sent \in [Ends -> Seq(Msg)]
    /\ delivered \in [Ends -> Seq(Msg)]

(***************************************************************************)
(* The M receive buffers of an endpoint are never lost nor duplicated:     *)
(* each is posted, or carries a record that waits in the CQ or in          *)
(* wr_queue, or is the one recv_wc_handle works on.  Every path of         *)
(* recv_wc_handle must post its buffer again exactly once.                 *)
(***************************************************************************)
BufferConservation ==
    \A e \in Ends :
        rq[e] + Len(cqRecv[e]) + Len(wrq[e]) + One(cur[e] # NoMd) = M

\* The CQ is created with 2 * MDBUFFERSIZE entries and never overflows.
CQWithinCapacity == \A e \in Ends : Len(cqRecv[e]) + One(cqDone[e]) =< 2 * M

(***************************************************************************)
(* poll_wc takes any SEND or READ completion for the one its caller waits  *)
(* for, so a waiting caller must own exactly one request, completion or    *)
(* flag, and nobody may leave one behind for a later call.                 *)
(***************************************************************************)
OwnCompletion ==
    \A e \in Ends :
        One(wr[e] # NoWr) + One(cqDone[e]) + One(poll[e] = "done")
            = One(pc[e] \in {"sending", "reading", "acking"})

\* Addresses in the records of type t among the entries of s.
AddrsIn(s, t) == {s[i].addr : i \in {j \in DOMAIN s : s[j].type = t}}

\* Addresses of payload copies of e that a record on its way refers to.
Referenced(e) ==
    LET p == Peer(e)
        local == IF pc[e] \in {"credit", "creditPoll", "post"}
                   THEN {SendMd(e).addr} ELSE {}
        wire == {wr[x].md.addr : x \in {y \in Ends :
                   /\ wr[y].op = "send"
                   /\ wr[y].md.type = IF y = e THEN "NORMAL" ELSE "ACK"}}
        busy == IF pc[p] = "reading" THEN {cur[p].addr} ELSE {}
    IN  (UNION {local, wire, busy,
                AddrsIn(cqRecv[p], "NORMAL"), AddrsIn(wrq[p], "NORMAL"),
                AddrsIn(cqRecv[e], "ACK"), AddrsIn(wrq[e], "ACK")}) \ {0}

(***************************************************************************)
(* The copy of a payload stays registered as long as a record on its way   *)
(* refers to it (no READ of freed memory, no double free by an ACK) and    *)
(* no longer (no leak).                                                    *)
(***************************************************************************)
CopiesReferenced == \A e \in Ends : live[e] = Referenced(e)

Count(s, t) == Cardinality({i \in DOMAIN s : s[i].type = t})

\* Messages of e posted to the peer whose ACK e has not handled.
Unacked(e) ==
    LET p == Peer(e) IN
      One(wr[e].op = "send" /\ wr[e].md.type = "NORMAL")
      + Count(cqRecv[p], "NORMAL") + Count(wrq[p], "NORMAL")
      + One(pc[p] = "reading")
      + One(wr[p].op = "send" /\ wr[p].md.type = "ACK")
      + Count(cqRecv[e], "ACK") + Count(wrq[e], "ACK")

(***************************************************************************)
(* Credit is conserved: peer_buff_count and the messages on their way,     *)
(* each with exactly one ACK to come, always add up to MDBUFFERSIZE.       *)
(***************************************************************************)
CreditConservation == \A e \in Ends : peerBuff[e] + Unacked(e) = M

(***************************************************************************)
(* An endpoint that waits for a notification with a completion already in  *)
(* its CQ has a notification coming.                                       *)
(***************************************************************************)
NoMissedNotification ==
    \A e \in Ends :
        pc[e] \in PollPcs /\ poll[e] = "wait" /\ ~event[e] => CQEmpty(e)

\* The connection is a reliable FIFO channel in each direction.
C == INSTANCE Channel
ChannelSpec == C!Spec

\* send_ returns.
SendReturns == \A e \in Ends : (op[e] = "send_") ~> (op[e] = "none")

\* Every message is returned by a receiving call at the other end.
Delivery ==
    \A e \in Ends : \A k \in 1..MaxSend[e] :
        (Len(sent[e]) >= k) ~> (Len(delivered[Peer(e)]) >= k)
=============================================================================
