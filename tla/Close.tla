------------------------------- MODULE Close -------------------------------
(***************************************************************************)
(* The end of a connection: close_, send_close_md and wait_for_close of    *)
(* rsocket/src/rdma_socket.cpp against the calls that may be under way,    *)
(* send_, recv_ and irecv_, with poll_wc, resolve_wr_queue, recv_wc_handle *)
(* and close_handle of rsocket/src/poll_wc.cpp.                            *)
(*                                                                         *)
(* Each end has two threads: the one that calls the functions, and the one *)
(* that wait_for_close runs in.  They share the close_lock, which nearly   *)
(* everybody only tries: the first thread looks whether it is free and     *)
(* goes on without it.                                                     *)
(*                                                                         *)
(* Module RSocket has the connection while it is up.  Left out here: what  *)
(* a payload is, the credits, and lost notifications: ibv_get_cq_event     *)
(* returns when there is a completion.  The receives that a failing queue  *)
(* pair flushes count as one.  The process of an end may be killed: the    *)
(* other end gets the same event as from rdma_disconnect.  Who touches a   *)
(* queue pair or completion queue that is destroyed, or takes the record   *)
(* of a send from wr_queue for a message, goes "undefined".                *)
(***************************************************************************)
EXTENDS Naturals, Sequences, FiniteSets

CONSTANTS
    Ends,
    Client,       \* the end that has called connect_
    Programs,     \* the calls of both ends, in order
    MayCrash      \* the ends whose process may be killed at any time

ASSUME CrashAssumption == MayCrash \subseteq Ends
ASSUME EndsAssumption == Client \in Ends /\ \E p \in Ends : p # Client /\ Ends = {p, Client}
ASSUME ProgramsAssumption ==
    Programs \subseteq [Ends -> Seq({"send", "recv", "irecv", "close"})]

VARIABLES
    todo,       \* the calls an end has not begun
    at,         \* where its first thread is
    then,       \* where it goes on after resolve_wr_queue
    checked,    \* is it behind the trylock of poll_wc?
    closer,     \* where wait_for_close is
    lock,       \* close_lock
    qp,         \* the queue pair, with its completion queue and channel
    flushed,    \* are the receives of a failed queue pair flushed?
    sq,         \* sends and READs that are not completed, and whether they have arrived
    cq,         \* completions
    wrq,        \* wr_queue
    recvq,      \* messages in recv_queue
    metadata,   \* metadata_counter
    acks,       \* ack_counter
    closeFlag,  \* close_flag
    asked,      \* the ends that have called rdma_disconnect, or are killed
    taken,      \* messages of the other end whose payload has been read
    under       \* was a call under way when wait_for_close got the lock?

thread == <<todo, at, then, checked>>
wire == <<qp, flushed, sq>>
counts == <<recvq, metadata, acks, closeFlag, taken>>
vars == <<thread, closer, lock, wire, cq, wrq, counts, asked, under>>

Completion(op, ok, kind) == [op |-> op, ok |-> ok, kind |-> kind]

Peer(e) == CHOOSE p \in Ends : p # e

\* In the state after RDMA_Init the last message of the client, the number
\* of its node, is acknowledged, but it has not seen that.
Init ==
    /\ todo \in Programs
    /\ at = [e \in Ends |-> "user"]
    /\ then = [e \in Ends |-> "user"]
    /\ checked = [e \in Ends |-> FALSE]
    /\ closer = [e \in Ends |-> "listen"]
    /\ lock = [e \in Ends |-> "free"]
    /\ qp = [e \in Ends |-> "up"]
    /\ flushed = [e \in Ends |-> FALSE]
    /\ sq = [e \in Ends |-> <<>>]
    /\ wrq = [e \in Ends |-> <<>>]
    /\ recvq = [e \in Ends |-> 0]
    /\ acks = [e \in Ends |-> 0]
    /\ closeFlag = [e \in Ends |-> FALSE]
    /\ asked = {}
    /\ under = [e \in Ends |-> FALSE]
    /\ metadata = [e \in Ends |-> IF e = Client THEN 1 ELSE 0]
    /\ taken = [e \in Ends |-> IF e = Client THEN 0 ELSE 1]
    /\ cq = [e \in Ends |->
              IF e = Client THEN <<Completion("recv", TRUE, "ack")>> ELSE <<>>]

Goto(e, place) == at' = [at EXCEPT ![e] = place]

\* A queue pair or completion queue is used that is there no longer.
Undefined(e) ==
    /\ qp[e] = "destroyed"
    /\ Goto(e, "undefined")
    /\ UNCHANGED <<todo, then, checked, closer, lock, wire, cq, wrq, counts, asked, under>>

Post(e, kind) == sq' = [sq EXCEPT ![e] = Append(@, [kind |-> kind, arrived |-> FALSE])]

-----------------------------------------------------------------------------
(* Completions and poll_wc *)

\* What the completions look like: where the status is an error, the opcode is
\* not set.  "send" is IBV_WC_SEND or IBV_WC_RDMA_READ.
Seen(e) ==
    {[i \in DOMAIN cq[e] |-> [cq[e][i] EXCEPT !.op = op[i]]] :
        op \in {f \in [DOMAIN cq[e] -> {"send", "recv", "other"}] :
                 \A i \in DOMAIN cq[e] : cq[e][i].ok => f[i] = cq[e][i].op}}

ReceiveAt(seen, ops) == {i \in DOMAIN seen : seen[i].op \in ops}

\* The completions with one of the opcodes, in their order.  (With a SelectSeq
\* here the provers could not count what poll_wc moves to wr_queue.)
Receives(seen, ops) ==
    LET nth(k) == CHOOSE i \in ReceiveAt(seen, ops) :
                    Cardinality({j \in ReceiveAt(seen, ops) : j <= i}) = k
    IN  [k \in 1..Cardinality(ReceiveAt(seen, ops)) |-> seen[nth(k)]]

IsSend(c) == c.op = "send"

\* What poll_wc returns and leaves in send_wc: the last send counts.
Polled(seen) ==
    IF \A i \in DOMAIN seen : ~IsSend(seen[i]) THEN "none"
    ELSE LET last == CHOOSE i \in DOMAIN seen :
                        IsSend(seen[i]) /\ \A j \in (i + 1)..Len(seen) : ~IsSend(seen[j])
         IN  IF seen[last].ok THEN "ok" ELSE "failed"

\* Where poll_wc is called, and where each of its results leads: send_, and
\* recv_wc_handle with its READ and its acknowledgement, poll again when they
\* are refused.
AfterPoll ==
    [sent    |-> [ok |-> "resolve", failed |-> "user",    none |-> "sent",    refused |-> "sent"],
     reading |-> [ok |-> "ack",     failed |-> "unread",  none |-> "reading", refused |-> "reading"],
     acking  |-> [ok |-> "resolve", failed |-> "ack",     none |-> "acking",  refused |-> "acking"],
     await   |-> [ok |-> "resolve", failed |-> "resolve", none |-> "resolve", refused |-> "user"],
     ackpoll |-> [ok |-> "resolve", failed |-> "resolve", none |-> "resolve", refused |-> "disconnect"]]

\* An acknowledged message goes to recv_queue, its buffer is posted again.
PollReturns(e, result) ==
    LET next == AfterPoll[at[e]][result]
        sent == at[e] = "sent" /\ result = "ok"
        taking == at[e] = "acking" /\ result = "ok"
        read == at[e] = "reading" /\ result = "ok"
    IN  /\ Goto(e, next)
        /\ checked' = [checked EXCEPT ![e] = FALSE]
        /\ then' = [then EXCEPT ![e] = IF next = "resolve" /\ ~taking THEN at[e] ELSE @]
        /\ metadata' = [metadata EXCEPT ![e] = IF sent THEN @ + 1 ELSE @]
        /\ recvq' = [recvq EXCEPT ![e] = IF taking THEN @ + 1 ELSE @]
        /\ taken' = [taken EXCEPT ![e] = IF read THEN @ + 1 ELSE @]
        /\ UNCHANGED <<todo, acks, closeFlag>>

\* poll_wc tries close_lock: a free one is left free.
PollTry(e) ==
    /\ at[e] \in DOMAIN AfterPoll /\ ~checked[e]
    /\ IF lock[e] = "free" THEN /\ checked' = [checked EXCEPT ![e] = TRUE]
                               /\ UNCHANGED <<todo, at, then, counts>>
       ELSE PollReturns(e, "refused")
    /\ UNCHANGED <<closer, lock, wire, cq, wrq, asked, under>>

\* ibv_get_cq_event and what poll_wc finds then; what is neither a send nor a
\* receive is dropped.
PollEvent(e) ==
    /\ at[e] \in DOMAIN AfterPoll /\ checked[e]
    /\ qp[e] # "destroyed" /\ cq[e] # <<>>
    /\ \E seen \in Seen(e) :
         /\ wrq' = [wrq EXCEPT ![e] = @ \o Receives(seen, {"recv"})]
         /\ PollReturns(e, Polled(seen))
    /\ cq' = [cq EXCEPT ![e] = <<>>]
    /\ UNCHANGED <<closer, lock, wire, asked, under>>

\* The completion channel is destroyed: the call may fail, or not.
PollDestroyed(e) ==
    /\ at[e] \in DOMAIN AfterPoll /\ checked[e]
    /\ \/ Undefined(e)
       \/ /\ qp[e] = "destroyed" /\ PollReturns(e, "refused")
          /\ UNCHANGED <<closer, lock, wire, cq, wrq, asked, under>>

-----------------------------------------------------------------------------
(* The calls *)

Begin(e, call) == at[e] = "user" /\ todo[e] # <<>> /\ Head(todo[e]) = call

\* A call returns at once where it finds close_lock taken.
Enter(e, place) ==
    /\ todo' = [todo EXCEPT ![e] = Tail(@)]
    /\ Goto(e, IF lock[e] = "free" THEN place ELSE "user")
    /\ UNCHANGED <<checked, closer, lock, wire, cq, wrq, counts, asked, under>>

Send(e) == Begin(e, "send") /\ Enter(e, "send") /\ UNCHANGED then

\* Fault: recv_ does not look at close_lock first.
RecvUnchecked(e) ==
    \E call \in {"recv", "irecv"} :
        /\ Begin(e, call)
        /\ todo' = [todo EXCEPT ![e] = Tail(@)]
        /\ Goto(e, "poll") /\ then' = [then EXCEPT ![e] = call]
        /\ UNCHANGED <<checked, closer, lock, wire, cq, wrq, counts, asked, under>>

\* recv_ and irecv_
Recv(e) ==
    \E call \in {"recv", "irecv"} :
        Begin(e, call) /\ Enter(e, "poll") /\ then' = [then EXCEPT ![e] = call]

\* What is posted at which place, and where it is waited for.
Posting ==
    [send |-> [kind |-> "normal", wait |-> "sent"],
     read |-> [kind |-> "read",   wait |-> "reading"],
     ack  |-> [kind |-> "ack",    wait |-> "acking"]]

\* post_send_wr in send_; the READ and the ACK in recv_wc_handle.
PostMessage(e) ==
    /\ at[e] \in DOMAIN Posting
    /\ \/ Undefined(e)
       \/ /\ qp[e] # "destroyed"
          /\ Post(e, Posting[at[e]].kind)
          /\ Goto(e, Posting[at[e]].wait)
          /\ UNCHANGED <<todo, then, checked, closer, lock, qp, flushed, cq, wrq, counts,
                         asked, under>>

\* The polling at the start of recv_ and irecv_; completed sends are dropped,
\* everything else is kept.
PollFirst(e) ==
    /\ at[e] = "poll"
    /\ \/ Undefined(e)
       \/ /\ qp[e] # "destroyed"
          /\ \E seen \in Seen(e) :
               wrq' = [wrq EXCEPT ![e] = @ \o Receives(seen, {"recv", "other"})]
          /\ cq' = [cq EXCEPT ![e] = <<>>]
          /\ Goto(e, "resolve")
          /\ UNCHANGED <<todo, then, checked, closer, lock, wire, counts, asked, under>>

-----------------------------------------------------------------------------
(* resolve_wr_queue *)

\* Fault: recv_ takes from an empty queue.
GivenAnyway(e) == then[e] # "irecv"

\* Does the call take a message from recv_queue?
Given(e) == recvq[e] > 0

\* What follows resolve_wr_queue, which has come to the end of wr_queue or to
\* a record that ends the connection.
Resolved(e, ended) ==
    LET call == then[e]
        takes == \/ call \in {"recv", "await"} /\ Given(e)
                 \/ call = "irecv" /\ ~ended /\ Given(e)
    IN  /\ recvq' = [recvq EXCEPT ![e] = IF takes THEN @ - 1 ELSE @]
        /\ closeFlag' = [closeFlag EXCEPT ![e] =
                            @ \/ (ended /\ call \in {"sent", "recv", "irecv", "await"})]
        /\ Goto(e, IF call = "ackpoll" THEN "acks"
                   ELSE IF call = "join" THEN "closed"
                   ELSE IF call = "recv" /\ ~takes THEN "try"
                   ELSE IF call = "await" /\ ~takes /\ ~ended THEN "await" ELSE "user")

\* recv_wc_handle posts the buffer again of what it has handled; a message is
\* read, unless it is empty, and acknowledged first.  While wait_for_close
\* drains, the record of a send may be in wr_queue.
ResolveNext(e) ==
    /\ at[e] = "resolve" /\ wrq[e] # <<>>
    /\ wrq' = [wrq EXCEPT ![e] = Tail(@)]
    /\ LET record == Head(wrq[e])
           received == record.ok /\ ~IsSend(record)
           there == qp[e] # "destroyed"
       IN  \/ /\ ~record.ok \/ (received /\ record.kind = "close" /\ there)
             /\ Resolved(e, TRUE) /\ UNCHANGED <<acks, taken>>
          \/ /\ received /\ record.kind = "ack" /\ there
             /\ acks' = [acks EXCEPT ![e] = @ + 1]
             /\ UNCHANGED <<at, recvq, closeFlag, taken>>
          \/ /\ received /\ record.kind = "normal"
             /\ \/ Goto(e, "read") /\ UNCHANGED taken
                \/ Goto(e, "ack") /\ taken' = [taken EXCEPT ![e] = @ + 1]
             /\ UNCHANGED <<acks, recvq, closeFlag>>
          \/ /\ record.ok /\ (IsSend(record) \/ (record.kind # "normal" /\ ~there))
             /\ Goto(e, "undefined") /\ UNCHANGED <<acks, recvq, closeFlag, taken>>
    /\ UNCHANGED <<todo, then, checked, closer, lock, wire, cq, metadata, asked, under>>

\* The READ has failed: the message is lost, resolve_wr_queue returns -1.
ResolveFails(e) ==
    /\ at[e] = "unread"
    /\ Resolved(e, TRUE)
    /\ UNCHANGED <<todo, then, checked, closer, lock, wire, cq, wrq, acks, metadata, taken,
                   asked, under>>

ResolveEnds(e) ==
    /\ at[e] = "resolve" /\ wrq[e] = <<>>
    /\ Resolved(e, FALSE)
    /\ UNCHANGED <<todo, then, checked, closer, lock, wire, cq, wrq, acks, metadata, taken,
                   asked, under>>

\* recv_ has found no message.  When close_flag is set it returns with
\* close_lock.
TryLock(e) ==
    /\ at[e] = "try"
    /\ Goto(e, IF lock[e] = "free" /\ ~closeFlag[e] THEN "await" ELSE "user")
    /\ lock' = [lock EXCEPT ![e] = IF @ = "free" /\ closeFlag[e] THEN "user" ELSE @]
    /\ UNCHANGED <<todo, then, checked, closer, wire, cq, wrq, counts, asked, under>>

-----------------------------------------------------------------------------
(* close_ *)

Close(e) ==
    /\ Begin(e, "close")
    /\ todo' = [todo EXCEPT ![e] = Tail(@)]
    /\ Goto(e, IF lock[e] = "free" THEN "acks" ELSE "disconnect")
    /\ UNCHANGED <<then, checked, closer, lock, wire, cq, wrq, counts, asked, under>>

\* Fault: the last message need not be acknowledged.
UnacknowledgedButOne(e) == acks[e] + 1 < metadata[e]

Unacknowledged(e) == acks[e] < metadata[e]

\* The loop of send_close_md, which waits for the peer to take all messages.
\* Then CLOSE is posted under close_lock; poll_wc does not wait for it, as it
\* finds that lock taken.
CloseMessage(e) ==
    /\ at[e] = "acks"
    /\ Goto(e, IF Unacknowledged(e) THEN "ackpoll" ELSE "disconnect")
    /\ IF ~Unacknowledged(e) /\ lock[e] = "free" THEN Post(e, "close") ELSE UNCHANGED sq
    /\ UNCHANGED <<todo, then, checked, closer, lock, qp, flushed, cq, wrq, counts, asked, under>>

\* rdma_disconnect: the queue pair fails, both ends get an event.
RdmaDisconnect(e) ==
    /\ asked' = asked \union {e}
    /\ qp' = [qp EXCEPT ![e] = IF @ = "up" THEN "error" ELSE @]

Disconnect(e) ==
    /\ at[e] = "disconnect"
    /\ RdmaDisconnect(e)
    /\ Goto(e, "join")
    /\ UNCHANGED <<todo, then, checked, closer, lock, flushed, sq, cq, wrq, counts, under>>

\* Fault: close_ does not wait for the other thread.
JoinNot(e) ==
    /\ at[e] = "join"
    /\ Goto(e, "resolve") /\ then' = [then EXCEPT ![e] = "join"]
    /\ UNCHANGED <<todo, checked, closer, lock, wire, cq, wrq, counts, asked, under>>

\* pthread_join; what is in wr_queue is resolved before everything is freed.
Join(e) ==
    /\ at[e] = "join" /\ closer[e] = "ended"
    /\ Goto(e, "resolve") /\ then' = [then EXCEPT ![e] = "join"]
    /\ UNCHANGED <<todo, checked, closer, lock, wire, cq, wrq, counts, asked, under>>

-----------------------------------------------------------------------------
(* wait_for_close *)

\* Fault: the event of the other end's disconnection is missed.
DisconnectedOwn(e) == e \in asked

\* RDMA_CM_EVENT_DISCONNECTED
Disconnected(e) == asked # {}

\* The places from which the first thread goes on to what gets destroyed.
Inside == {"send", "sent", "poll", "resolve", "read", "reading", "unread", "ack", "acking",
           "try", "await", "acks", "ackpoll"}

\* The event, and the lock when it is free, which is never given back.
CloserLock(e) ==
    /\ closer[e] = "listen" /\ Disconnected(e) /\ lock[e] = "free"
    /\ lock' = [lock EXCEPT ![e] = "closer"]
    /\ RdmaDisconnect(e)
    /\ closer' = [closer EXCEPT ![e] = "drain"]
    /\ under' = [under EXCEPT ![e] = at[e] \in Inside]
    /\ UNCHANGED <<thread, flushed, sq, cq, wrq, counts>>

\* All completions go to wr_queue, whatever they are, ...
CloserDrain(e) ==
    /\ closer[e] = "drain"
    /\ wrq' = [wrq EXCEPT ![e] = @ \o cq[e]]
    /\ cq' = [cq EXCEPT ![e] = <<>>]
    /\ closer' = [closer EXCEPT ![e] = "empty"]
    /\ UNCHANGED <<thread, lock, wire, counts, asked, under>>

\* ... and close_handle frees what the records of wr_queue refer to, one by one.
CloserEmpty(e) ==
    /\ closer[e] = "empty"
    /\ \/ /\ wrq[e] # <<>>
          /\ wrq' = [wrq EXCEPT ![e] = Tail(@)]
          /\ UNCHANGED closer
       \/ /\ wrq[e] = <<>>
          /\ closer' = [closer EXCEPT ![e] = "destroy"]
          /\ UNCHANGED wrq
    /\ UNCHANGED <<thread, lock, wire, cq, counts, asked, under>>

CloserDestroy(e) ==
    /\ closer[e] = "destroy"
    /\ qp' = [qp EXCEPT ![e] = "destroyed"]
    /\ sq' = [sq EXCEPT ![e] = <<>>]
    /\ cq' = [cq EXCEPT ![e] = <<>>]
    /\ closer' = [closer EXCEPT ![e] = "ended"]
    /\ UNCHANGED <<thread, lock, flushed, wrq, counts, asked, under>>

-----------------------------------------------------------------------------
(* The queue pairs *)

Complete(e, completion) == cq' = [cq EXCEPT ![e] = Append(@, completion)]
Others == <<thread, closer, lock, wrq, counts, asked, under>>

\* The next message that has not arrived.
Pending(e, i) ==
    /\ i \in DOMAIN sq[e] /\ ~sq[e][i].arrived
    /\ \A j \in 1..(i - 1) : sq[e][j].arrived

\* A READ takes no receive of the other end.
Arrive(e) ==
    /\ qp[e] = "up" /\ qp[Peer(e)] = "up"
    /\ \E i \in DOMAIN sq[e] :
         /\ Pending(e, i)
         /\ sq' = [sq EXCEPT ![e][i].arrived = TRUE]
         /\ IF sq[e][i].kind = "read" THEN UNCHANGED cq
            ELSE Complete(Peer(e), Completion("recv", TRUE, sq[e][i].kind))
    /\ UNCHANGED <<Others, qp, flushed>>

SendCompletes(e) ==
    /\ qp[e] = "up" /\ sq[e] # <<>> /\ Head(sq[e]).arrived
    /\ sq' = [sq EXCEPT ![e] = Tail(@)]
    /\ Complete(e, Completion("send", TRUE, Head(sq[e]).kind))
    /\ UNCHANGED <<Others, qp, flushed>>

\* The other queue pair does not answer.
Unanswered(e) ==
    /\ qp[e] = "up" /\ qp[Peer(e)] # "up"
    /\ \E i \in DOMAIN sq[e] : Pending(e, i)
    /\ qp' = [qp EXCEPT ![e] = "error"]
    /\ UNCHANGED <<Others, flushed, sq, cq>>

\* What a failed queue pair still has is flushed, now or later.
Flush(e) ==
    /\ qp[e] = "error" /\ (sq[e] # <<>> \/ ~flushed[e])
    /\ cq' = [cq EXCEPT ![e] =
                @ \o [i \in DOMAIN sq[e] |-> Completion("send", FALSE, sq[e][i].kind)]
                  \o (IF flushed[e] THEN <<>> ELSE <<Completion("recv", FALSE, "none")>>)]
    /\ sq' = [sq EXCEPT ![e] = <<>>]
    /\ flushed' = [flushed EXCEPT ![e] = TRUE]
    /\ UNCHANGED <<Others, qp>>

-----------------------------------------------------------------------------
\* The process is killed, as ffrun does with the others when one fails: its
\* threads stop, the kernel destroys the queue pair and disconnects.
Crash(e) ==
    /\ e \in MayCrash /\ at[e] \notin {"closed", "crashed"}
    /\ Goto(e, "crashed")
    /\ asked' = asked \union {e}
    /\ closer' = [closer EXCEPT ![e] = "ended"]
    /\ lock' = [lock EXCEPT ![e] = "closer"]
    /\ qp' = [qp EXCEPT ![e] = "destroyed"]
    /\ sq' = [sq EXCEPT ![e] = <<>>]
    /\ cq' = [cq EXCEPT ![e] = <<>>]
    /\ wrq' = [wrq EXCEPT ![e] = <<>>]
    /\ UNCHANGED <<todo, then, checked, flushed, counts, under>>

-----------------------------------------------------------------------------
First(e) ==
    \/ Send(e) \/ Recv(e) \/ Close(e)
    \/ PostMessage(e) \/ PollFirst(e) \/ PollTry(e) \/ PollEvent(e) \/ PollDestroyed(e)
    \/ ResolveNext(e) \/ ResolveFails(e) \/ ResolveEnds(e) \/ TryLock(e)
    \/ CloseMessage(e) \/ Disconnect(e) \/ Join(e)

Closer(e) == CloserLock(e) \/ CloserDrain(e) \/ CloserEmpty(e) \/ CloserDestroy(e)

QueuePair(e) ==
    Arrive(e) \/ SendCompletes(e) \/ Unanswered(e) \/ Flush(e)

Next == \E e \in Ends : First(e) \/ Closer(e) \/ QueuePair(e) \/ Crash(e)

Spec == Init /\ [][Next]_vars

\* Both threads run, the devices work; a mutex that is free is given to the
\* thread that waits for it: nobody else keeps it for longer than a test.
FairSpec ==
    /\ Spec
    /\ \A e \in Ends : WF_vars(First(e)) /\ WF_vars(Closer(e)) /\ WF_vars(QueuePair(e))

-----------------------------------------------------------------------------
(* Properties *)

Places == Inside \union {"user", "disconnect", "join", "closed", "undefined", "crashed"}

\* Every variable has its type; no more messages are taken than there are.
TypeOK ==
    /\ at \in [Ends -> Places]
    /\ then \in [Ends -> {"user", "sent", "recv", "irecv", "await", "ackpoll", "join"}]
    /\ checked \in [Ends -> BOOLEAN] /\ flushed \in [Ends -> BOOLEAN]
    /\ closeFlag \in [Ends -> BOOLEAN] /\ under \in [Ends -> BOOLEAN]
    /\ closer \in [Ends -> {"listen", "drain", "empty", "destroy", "ended"}]
    /\ lock \in [Ends -> {"free", "user", "closer"}]
    /\ qp \in [Ends -> {"up", "error", "destroyed"}]
    /\ asked \subseteq Ends
    /\ \A counter \in {recvq, metadata, acks, taken} : counter \in [Ends -> Nat]

\* What wait_for_close destroys is used by nobody whose call begins after it
\* has close_lock, close_ with its last resolve_wr_queue included: only a call
\* that was under way then, behind its test of the lock, can meet a destroyed
\* queue pair.
LateCallsHarmless == \A e \in Ends : at[e] = "undefined" => under[e]

\* Who is the first to disconnect loses nothing: the other end has read every
\* message whose send_ has returned 0 (the loop of send_close_md).  Only who
\* has kept close_lock in recv_ disconnects without waiting.
GracefulClose ==
    [][\A e \in Ends :
         at[e] = "disconnect" /\ at'[e] = "join" /\ asked = {} /\ lock[e] = "free" =>
             taken[Peer(e)] = metadata[e]]_vars

\* What an end has of the connection.
Life == [e \in Ends |-> IF at[e] = "crashed" THEN "crashed"
                        ELSE IF at[e] = "closed" THEN "freed"
                        ELSE IF qp[e] = "up" THEN "open"
                        ELSE IF qp[e] = "error" THEN "down" ELSE "destroyed"]

\* What the two ends do to the connection is an orderly teardown.
T == INSTANCE Teardown WITH life <- Life
OrderlyTeardown == T!Spec

Done(e) == at[e] \in {"closed", "crashed"} \/ (at[e] = "user" /\ todo[e] = <<>>)

\* send_, the READ of a message and its acknowledgement poll for ever once
\* they are refused (rsocket/README.md:68 has the calls of the other end return
\* -1 when one end closes).
Spins(e) == at[e] \in {"sent", "reading", "acking"} /\ ~checked[e] /\ lock[e] = "closer"

\* recv_ has returned with close_lock, wait_for_close cannot get it.
LockKept(e) == at[e] = "join" /\ lock[e] = "user"

\* Once an end has disconnected, or its process is killed, all calls of both
\* ends return, with exactly these exceptions: a send or a READ that polls for
\* ever because wait_for_close has the lock, a close_ that waits for
\* wait_for_close, which waits for the lock recv_ has kept, and the use of what
\* is destroyed.
EveryCallEnds ==
    asked # {} ~>
        \A e \in Ends : Done(e) \/ Spins(e) \/ LockKept(e) \/ at[e] = "undefined"
=============================================================================
