------------------------------ MODULE Receiver ------------------------------
(***************************************************************************)
(* The one-receiver/many-senders queue of rsocket/src/receiver.cpp on the  *)
(* queues of rsocket/src/queue.cpp.                                        *)
(*                                                                         *)
(* Every connection has a thread, recv_process, that moves what recv_      *)
(* returns to the receiver's common queue; the frames of a multi-frame     *)
(* message wait in the connection's more_queue until the last one is here. *)
(* Readers call receiver_recv.  Every operation of a queue runs under its  *)
(* queue_lock, so it is one step; the condition variable is signalled      *)
(* without the lock, in a step of its own.                                 *)
(*                                                                         *)
(* recv_ fetches what has arrived, one frame after the other: a READ, an   *)
(* ACK to the sender, and the wait for the completion of each; then it     *)
(* returns the oldest frame of the connection's queue.  wait_for_close may *)
(* take close_lock at any moment: a call that begins then returns NULL at  *)
(* once, but poll_wc refuses a call that is under way, and where it waits  *)
(* for a completion it does so for ever.                                   *)
(***************************************************************************)
EXTENDS Naturals, Sequences, FiniteSets

CONSTANTS
    Conns,      \* connections to the receiver
    Readers,    \* threads that call receiver_recv
    MayClose,   \* the connections that may be closed
    MaxFrames   \* bound: frames that arrive per connection

ASSUME ConnsAssumption == IsFiniteSet(Conns) /\ MayClose \subseteq Conns
ASSUME ReadersAssumption == IsFiniteSet(Readers) /\ Readers # {}
ASSUME MaxFramesAssumption == MaxFrames \in Nat

\* An AMessage: the n-th frame of a connection; more is SND_MORE_FLAG.
Frame == [from : Conns, n : 1..MaxFrames, more : BOOLEAN]

VARIABLES
    pc,         \* where recv_process of a connection stands
    msg,        \* the frames recv_process holds in msg: none or one
    closed,     \* the connection has ended: close_lock is taken, by
                \* wait_for_close or by recv_, or recv_ has returned NULL
    hand,       \* the frame recv_ has acknowledged and not queued yet
    sockq,      \* l->recv_queue: frames fetched and not yet returned by recv_
    more,       \* l->more_queue
    recvq,      \* re->recv_queue
    reader,     \* where a reader stands in receiver_recv
    acked,      \* frames of a connection that were acknowledged to its sender
    delivered   \* what receiver_recv returned

conn == <<msg, closed, hand, sockq, more, acked>>
vars == <<pc, conn, recvq, reader, delivered>>

Init ==
    /\ pc = [c \in Conns |-> "none"]
    /\ msg = [c \in Conns |-> <<>>]
    /\ closed = [c \in Conns |-> FALSE]
    /\ hand = [c \in Conns |-> <<>>]
    /\ sockq = [c \in Conns |-> <<>>]
    /\ more = [c \in Conns |-> <<>>]
    /\ recvq = <<>>
    /\ reader = [r \in Readers |-> "check"]
    /\ acked = [c \in Conns |-> <<>>]
    /\ delivered = <<>>

-----------------------------------------------------------------------------
(* The connections *)

\* listen_process: accept_ returned c, its thread is created.
Accept(c) ==
    /\ pc[c] = "none"
    /\ pc' = [pc EXCEPT ![c] = "recv"]
    /\ UNCHANGED <<conn, recvq, reader, delivered>>

\* The connection is disconnected; wait_for_close takes close_lock.
Close(c) ==
    /\ c \in MayClose /\ ~closed[c] /\ pc[c] # "none"
    /\ closed' = [closed EXCEPT ![c] = TRUE]
    /\ UNCHANGED <<pc, msg, hand, sockq, more, acked, recvq, reader, delivered>>

-----------------------------------------------------------------------------
(* recv_ *)

\* close_lock is taken: NULL.
RecvNull(c) ==
    /\ pc[c] = "recv" /\ closed[c]
    /\ pc' = [pc EXCEPT ![c] = "closing"]
    /\ UNCHANGED <<conn, recvq, reader, delivered>>

\* close_lock is free, recv_ goes on without it.
Enter(c) ==
    /\ pc[c] = "recv" /\ ~closed[c]
    /\ pc' = [pc EXCEPT ![c] = "in"]
    /\ UNCHANGED <<conn, recvq, reader, delivered>>

\* A frame has arrived and was read; its ACK is on its way to the sender, and the
\* completion of the ACK has not been polled.
Acknowledge(c, flag) ==
    LET f == [from |-> c, n |-> Len(acked[c]) + 1, more |-> flag] IN
    /\ pc[c] = "in" /\ ~closed[c]
    /\ Len(acked[c]) < MaxFrames
    /\ acked' = [acked EXCEPT ![c] = Append(@, f)]
    /\ hand' = [hand EXCEPT ![c] = <<f>>]
    /\ pc' = [pc EXCEPT ![c] = "acking"]
    /\ UNCHANGED <<msg, closed, sockq, more, recvq, reader, delivered>>

\* The completion of the ACK has come: the frame is queued.
Handled(c) ==
    /\ pc[c] = "acking"
    /\ sockq' = [sockq EXCEPT ![c] = @ \o hand[c]]
    /\ hand' = [hand EXCEPT ![c] = <<>>]
    /\ pc' = [pc EXCEPT ![c] = "in"]
    /\ UNCHANGED <<msg, closed, more, acked, recvq, reader, delivered>>

\* recv_ returns the oldest frame.
Recv(c) ==
    /\ pc[c] = "in" /\ sockq[c] # <<>>
    /\ msg' = [msg EXCEPT ![c] = <<Head(sockq[c])>>]
    /\ sockq' = [sockq EXCEPT ![c] = Tail(@)]
    /\ pc' = [pc EXCEPT ![c] = "got"]
    /\ UNCHANGED <<closed, hand, more, acked, recvq, reader, delivered>>

\* With no frame left recv_ returns NULL.
RecvEnds(c) ==
    /\ pc[c] = "in" /\ sockq[c] = <<>>
    /\ closed' = [closed EXCEPT ![c] = TRUE]
    /\ pc' = [pc EXCEPT ![c] = "closing"]
    /\ UNCHANGED <<msg, hand, sockq, more, acked, recvq, reader, delivered>>

\* poll_wc is refused.
RecvRefused(c) == closed[c] /\ RecvEnds(c)

\* The peer's close message or a failed completion is met.
RecvFails(c) == c \in MayClose /\ ~closed[c] /\ RecvEnds(c)

\* The connection was closed in the middle of recv_, which waits for ever: for a
\* READ or an ACK with a poll_wc that is refused, or for an event of a channel that
\* is gone.
Stick(c) ==
    /\ pc[c] \in {"in", "acking"} /\ closed[c]
    /\ pc' = [pc EXCEPT ![c] = "stuck"]
    /\ UNCHANGED <<conn, recvq, reader, delivered>>

-----------------------------------------------------------------------------
(* recv_process *)

\* Fault: every frame goes to the common queue at once.
KeepMoreCommon(c) ==
    /\ pc[c] = "got" /\ Head(msg[c]).more
    /\ recvq' = recvq \o msg[c]
    /\ msg' = [msg EXCEPT ![c] = <<>>]
    /\ pc' = [pc EXCEPT ![c] = "recv"]
    /\ UNCHANGED <<closed, hand, sockq, more, acked, reader, delivered>>

\* A frame that is not the last one of its message waits in more_queue.
KeepMore(c) ==
    /\ pc[c] = "got" /\ Head(msg[c]).more
    /\ more' = [more EXCEPT ![c] = @ \o msg[c]]
    /\ msg' = [msg EXCEPT ![c] = <<>>]
    /\ pc' = [pc EXCEPT ![c] = "recv"]
    /\ UNCHANGED <<closed, hand, sockq, acked, recvq, reader, delivered>>

\* Fault: no signal after a message that had more than one frame.
AppendMessageSilently(c) ==
    /\ pc[c] = "got" /\ ~Head(msg[c]).more
    /\ recvq' = recvq \o more[c] \o msg[c]
    /\ more' = [more EXCEPT ![c] = <<>>]
    /\ msg' = [msg EXCEPT ![c] = <<>>]
    /\ pc' = [pc EXCEPT ![c] = IF more[c] = <<>> THEN "signal" ELSE "recv"]
    /\ UNCHANGED <<closed, hand, sockq, acked, reader, delivered>>

\* The last frame: the whole message is appended in one queue_push_q (or one
\* queue_push, if it has just this frame).  more_queue is the thread's own.
AppendMessage(c) ==
    /\ pc[c] = "got" /\ ~Head(msg[c]).more
    /\ recvq' = recvq \o more[c] \o msg[c]
    /\ more' = [more EXCEPT ![c] = <<>>]
    /\ msg' = [msg EXCEPT ![c] = <<>>]
    /\ pc' = [pc EXCEPT ![c] = "signal"]
    /\ UNCHANGED <<closed, hand, sockq, acked, reader, delivered>>

\* The connection is closed: append the unfinished message ...
AppendMore(c) ==
    /\ pc[c] = "closing"
    /\ recvq' = recvq \o more[c]
    /\ more' = [more EXCEPT ![c] = <<>>]
    /\ pc' = [pc EXCEPT ![c] = "closing2"]
    /\ UNCHANGED <<msg, closed, hand, sockq, acked, reader, delivered>>

\* Fault: what recv_ has fetched and not returned is dropped.
AppendRestDropped(c) ==
    /\ pc[c] = "closing2"
    /\ sockq' = [sockq EXCEPT ![c] = <<>>]
    /\ pc' = [pc EXCEPT ![c] = "lastSignal"]
    /\ UNCHANGED <<msg, closed, hand, more, acked, recvq, reader, delivered>>

\* ... then, in a second step, what recv_ has fetched and not returned.
AppendRest(c) ==
    /\ pc[c] = "closing2"
    /\ recvq' = recvq \o sockq[c]
    /\ sockq' = [sockq EXCEPT ![c] = <<>>]
    /\ pc' = [pc EXCEPT ![c] = "lastSignal"]
    /\ UNCHANGED <<msg, closed, hand, more, acked, reader, delivered>>

\* pthread_cond_signal wakes one sleeping reader, if there is one.
Wake ==
    \/ \E r \in Readers : reader[r] = "sleep"
                          /\ reader' = [reader EXCEPT ![r] = "pop"]
    \/ (\A r \in Readers : reader[r] # "sleep") /\ UNCHANGED reader

Signal(c) ==
    /\ pc[c] \in {"signal", "lastSignal"}
    /\ Wake
    /\ pc' = [pc EXCEPT ![c] = IF @ = "signal" THEN "recv" ELSE "done"]
    /\ UNCHANGED <<conn, recvq, delivered>>

-----------------------------------------------------------------------------
(* receiver_recv *)

\* Fault: queue_lock is not held between the check and the wait.
CheckUnlocked(r) ==
    /\ \/ /\ reader[r] = "check"
          /\ reader' = [reader EXCEPT ![r] = IF recvq = <<>> THEN "wait" ELSE "pop"]
       \/ /\ reader[r] = "wait"
          /\ reader' = [reader EXCEPT ![r] = "sleep"]
    /\ UNCHANGED <<pc, conn, recvq, delivered>>

\* Under queue_lock: wait for the condition variable if the queue is empty.
Check(r) ==
    /\ reader[r] = "check"
    /\ reader' = [reader EXCEPT ![r] = IF recvq = <<>> THEN "sleep" ELSE "pop"]
    /\ UNCHANGED <<pc, conn, recvq, delivered>>

\* pthread_cond_wait may return without a signal.
SpuriousWakeup(r) ==
    /\ reader[r] = "sleep"
    /\ reader' = [reader EXCEPT ![r] = "pop"]
    /\ UNCHANGED <<pc, conn, recvq, delivered>>

\* queue_pop; with nothing to pop receiver_recv starts over.
Pop(r) ==
    /\ reader[r] = "pop"
    /\ reader' = [reader EXCEPT ![r] = "check"]
    /\ delivered' = IF recvq = <<>> THEN delivered
                                    ELSE Append(delivered, Head(recvq))
    /\ recvq' = IF recvq = <<>> THEN recvq ELSE Tail(recvq)
    /\ UNCHANGED <<pc, conn>>

-----------------------------------------------------------------------------
\* What the thread of a connection does by itself.
Process(c) == \/ RecvNull(c) \/ Enter(c) \/ Handled(c) \/ Recv(c)
              \/ RecvRefused(c) \/ Stick(c) \/ KeepMore(c) \/ AppendMessage(c)
              \/ AppendMore(c) \/ AppendRest(c) \/ Signal(c)

Read(r) == Check(r) \/ Pop(r)

Next ==
    \/ \E c \in Conns : \/ Accept(c) \/ Close(c) \/ RecvFails(c) \/ Process(c)
                        \/ \E flag \in BOOLEAN : Acknowledge(c, flag)
    \/ \E r \in Readers : Read(r) \/ SpuriousWakeup(r)

Spec == Init /\ [][Next]_vars

(***************************************************************************)
(* Fairness: the kernel runs the threads, and the device completes their   *)
(* READs and ACKs as long as the connection is there.  Arrivals,           *)
(* disconnections and spurious wake-ups are not fair.                      *)
(***************************************************************************)
FairSpec ==
    /\ Spec
    /\ \A c \in Conns : WF_vars(Process(c))
    /\ \A r \in Readers : WF_vars(Read(r))

-----------------------------------------------------------------------------
TypeOK ==
    /\ pc \in [Conns -> {"none", "recv", "in", "acking", "stuck", "got",
                         "signal", "closing", "closing2", "lastSignal", "done"}]
    /\ msg \in [Conns -> Seq(Frame)]
    /\ closed \in [Conns -> BOOLEAN]
    /\ hand \in [Conns -> Seq(Frame)]
    /\ sockq \in [Conns -> Seq(Frame)]
    /\ more \in [Conns -> Seq(Frame)]
    /\ recvq \in Seq(Frame)
    /\ reader \in [Readers -> {"check", "sleep", "pop"}]
    /\ acked \in [Conns -> Seq(Frame)]
    /\ delivered \in Seq(Frame)

\* How many of the frames in s came from c.
Number(s, c) == Cardinality({i \in DOMAIN s : s[i].from = c})

\* What the readers got and will get next, and what c has not appended yet.
Common == delivered \o recvq
Kept(c) == more[c] \o msg[c] \o sockq[c] \o hand[c]

(***************************************************************************)
(* No frame is lost, duplicated or moved before an earlier one of its      *)
(* connection: the frames of a connection in what the reader got and in    *)
(* the common queue, then more_queue, the frame in hand, the connection's  *)
(* queue and the frame that recv_ has acknowledged last and still holds    *)
(* are, in this order, exactly the frames that were acknowledged to the    *)
(* sender, also after a close.                                             *)
(***************************************************************************)
FramesConserved ==
    \A c \in Conns :
        /\ Number(Common, c) + Len(Kept(c)) = Len(acked[c])
        /\ \A k \in DOMAIN Kept(c) : Kept(c)[k] = acked[c][Number(Common, c) + k]
        /\ \A i \in DOMAIN Common : Common[i].from = c =>
              Common[i] = acked[c][Number(SubSeq(Common, 1, i), c)]

(***************************************************************************)
(* If all readers sleep although frames are queued, a thread is on its way *)
(* to pthread_cond_signal.                                                 *)
(***************************************************************************)
NoMissedSignal ==
    recvq # <<>> /\ (\A r \in Readers : reader[r] = "sleep")
        => \E c \in Conns : pc[c] \in {"signal", "closing2", "lastSignal"}

(***************************************************************************)
(* The frames of a message are received one right after the other: when    *)
(* two consecutive frames of a message have been returned, nothing was     *)
(* returned between them.                                                  *)
(***************************************************************************)
FramesTogether ==
    \A i, j \in DOMAIN delivered :
        LET f == delivered[i]
            g == delivered[j]
        IN  f.more /\ g.from = f.from /\ g.n = f.n + 1 => j = i + 1

\* The receiver is a mailbox.
M == INSTANCE Mailbox
MailboxSpec == M!Spec

(***************************************************************************)
(* The last frame of a message, and with it by FramesConserved the whole   *)
(* message, is eventually returned to a reader; once the thread of a       *)
(* connection has ended, so is every other frame.  The one exception: the  *)
(* connection was closed in the middle of recv_, which never returns, and  *)
(* what had not reached the common queue by then stays where it is.        *)
(***************************************************************************)
FramesDelivered ==
    \A c \in Conns : \A k \in 1..MaxFrames :
        (Len(acked[c]) >= k /\ (pc[c] = "done" \/ ~acked[c][k].more))
            ~> \/ Number(delivered, c) >= k
               \/ pc[c] = "stuck" /\ Number(Common, c) < k
=============================================================================
