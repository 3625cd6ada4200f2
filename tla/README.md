# A verification development for ffrdma

ffrdma is an MPI-like message passing library over RDMA verbs, with a launcher
(`ffrun`) that starts one process per rank. This directory holds TLA+ models of
its parts, TLC configurations that check them on small instances, and TLAPS
proofs of what must hold on every instance. All paths below are relative to
`src/`.

## 1. Inventory

| component | source | state | operations |
|---|---|---|---|
| rsocket connection | `rsocket/src/rdma_socket.cpp`, `poll_wc.cpp`, `post_wr.cpp`, `init.cpp` | QP, CQ with completion channel, 50 receive buffers (`MDBUFFERSIZE`), `wr_queue`, `recv_queue`, `peer_buff_count`, `ack_counter`, `metadata_counter`, registered payload copies | `send_`, `recv_`, `irecv_`, `poll_wc`, `resolve_wr_queue`, `recv_wc_handle` |
| connection set-up and close | same files | CM events, `close_lock`, `close_flag`, the `wait_for_close` thread | `connect_`, `accept_`, `close_`, `send_close_md` |
| queue | `rsocket/src/queue.cpp` | linked list, recursive `queue_lock` | `queue_push`, `queue_pop`, `queue_push_q`, `queue_reset`, `queue_destroy` |
| receiver | `rsocket/src/receiver.cpp` | common `recv_queue`, condition variable, one `more_queue` per connection | `recv_process`, `listen_process`, `receiver_recv`, `receiver_close` |
| process | `src/process.cc`, `include/process.hpp`, `src/utils/socket.cc` | `m_state`, listen socket, `m_socketPool` | `setup`, `reconnect`, `Destroy` |
| collectives | `src/mpi.cc` | the caller's buffers, position in the algorithm | `RDMA_Bcast` ... `RDMA_Barrier` |
| communicators | `src/process.cc`, `include/comm.hpp`, `src/fmpi.cc` | `m_commPool` of every process, the handles of the program | `RDMA_Comm_split`, `RDMA_Comm_free`, `commGetSocket` |
| command line of a process | `include/utils/arg_parser.hpp`, `decoder.hpp`, `rank_alg.hpp`, `src/fmpi.cc` | the parsed options, the list of processes | `parse_args`, `decode`, `calRank`, `getRank`, `RDMA_Init` |
| ffrun pool | `tools/ffrun/pkg/executors`, `cmd/run.go` | `notifyCh`, wait group, context, child processes | `Run`, `Stop`, `StartProcess`, `runCmd` |
| ffrun rank and port selection | `tools/ffrun/pkg/algorithm`, `pkg/types` | ports per host | `PortSelect`, `CalculateRank` |
| ffrun commands | `tools/ffrun/cmd`, `pkg/generator`, `pkg/parser` | position of the generator | `runCmd`, `CmdResultGenerator`, `ToArgv`, `Parse` |

How they interact: `ffrun` computes ranks and ports and starts the processes;
every process parses the same host list, computes the same ranks, listens,
connects to every higher rank and accepts every lower one, which leaves one
rsocket connection per pair of ranks. The collectives are sequences of `send_`
and `recv_` on these connections; nothing but the FIFO order of a connection
tells one call's messages from the next one's. The receiver is a second client
of the connections: one thread per connection feeds a common queue.

What is hard: completions arrive between any two steps of a thread and are
drained inside unrelated waits; a record is sent back as its own ACK, through
receive buffers that are limited and not accounted for in that direction; a
second thread tears the connection down; several threads feed the receiver's
queue; the start-up is a chain of blocking connects and accepts; the launcher
may be told to stop while it still starts processes. The list of these hazards,
each at its line, is in `PROJECT.json`.

What makes each part correct:

* connection: no buffer, copy, completion or credit is lost or used twice;
  messages are delivered once and in order; a caller that waits is woken up.
* receiver: messages of a connection stay in order, frames of one message stay
  together, nobody sleeps while messages are queued.
* close: both ends learn of it, nobody waits for ever, nothing is used after it
  was freed.
* set-up: all pairs get connected, under every start order, if no process is
  later than the retries last.
* collectives: every process ends up with the buffers MPI prescribes, no message
  is left over for the next call, nobody leaves a barrier early.
* launch: both languages compute the same ranks, a job comes up as a whole or not
  at all, and the program gets its own arguments.
* communicators: all members have the same one, with ranks in the order of the
  keys, although no message says which one it belongs to.
* pool: after `runCmd` returns no process it started is left running.

## 2. Plan

In the order in which the modules were written; all of them are there.

1. `RSocket`: the data path of one connection, the part everything rests on;
   abstract specification `Channel` (a FIFO channel per direction), proofs, the
   refinement included, in `RSocketProofs`.
2. `Receiver`: many connections into one queue; abstract specification
   `Mailbox`; proofs, the refinement included, in `ReceiverProofs`.
3. `Collectives`: the algorithms of `mpi.cc`, composed over connections that
   behave as `Channel`; proofs in `CollectivesProofs`.
4. `Setup`: `RdmaProcess::setup` and `reconnect`: every pair gets one
   connection; proofs in `SetupProofs`.
5. `Pool`: the launcher's goroutines, timers and children; proofs in
   `PoolProofs`.
6. `Close`: `close_`, `send_close_md`, `wait_for_close`, the `close_lock`
   discipline and failed completions; abstract specification `Teardown`, proofs,
   the refinement included, in `CloseProofs`.
7. `Launch`: from the command of `ffrun` to the rank of every process; proofs in
   `WorldProofs`.
8. `Comm`: `RDMA_Comm_split`, `RDMA_Comm_free` and the rank translation; `World`
   composes `Launch` and `Comm`: the processes that a command brings up split
   their communicators; proofs about `Comm` in `CommProofs`, about `World` in
   `WorldProofs`.

What a further stage could add: `receiver_close` with the connections of `Close` under the threads of
`Receiver`; time-outs of the connection manager in `Setup`.

## 3. Modules

### RSocket (`rdma_socket.cpp`, `poll_wc.cpp`, `post_wr.cpp`, `init.cpp`)

Two endpoints, each with one thread that makes one call at a time. A step is
what the thread does between two points where the HCA or the peer can be seen:

* `Send`, `CreditWait`, `CreditPolled`, `PostMetaData`, `SendCompleted`,
  `Return` are `send_`; `pc` says between which lines the thread stands;
* `Receive`, `RecvWait`, `RecvPolled`, `ReturnMessage`, `Return` are `recv_` and
  `irecv_`, told apart by `op`;
* `PollCQ` is `poll_wc` up to its last, empty `ibv_poll_cq`, and `PollReturn` the
  rest: `ibv_req_notify_cq` and the return to the caller. They are two steps because a completion may
  enter between them. `PollAgain` is another round of `while(poll_wc(...))`;
* `ResolveNormal`, `ReadCompleted`, `AckCompleted`, `ResolveAck` are
  `resolve_wr_queue` with `recv_wc_handle`: post the READ, wait, send the record
  back as an ACK, wait, post the buffer again, queue the message; or take an ACK
  in;
* `Deliver` and `Complete` are the HCA: it moves a SEND into a receive buffer of
  the peer if there is one (`rnr_retry_count` 7 is "for ever") and completes work
  requests. It is external and is modelled from what the code relies on.

Data: a payload is a model value, an empty message is `Empty`. The address of a
payload copy is the number of the call that registered it, so the addresses in
`live` say which copies are allocated. `sent` and `delivered` are history. The
handle of a record's own registration (`send_mr`) is not modelled.

What is assumed: the connection stays open, so `close_lock` is free at every
`trylock` and every completion succeeds (module `Close` has the rest); one thread uses an endpoint at a time,
as the programs in `test/` and `recv_process` do.

`ArmReportsPending` is a parameter because the verbs leave it open: whether a
completion that is in the CQ when `ibv_req_notify_cq` is called raises an event.

`Channel` is the abstract specification: per direction, what was received is a
prefix of what was sent. `C == INSTANCE Channel` maps its variables by name to
the history variables.

### Receiver and Mailbox (`receiver.cpp`, `queue.cpp`)

One thread per connection (`pc[c]`) and any number of callers of `receiver_recv`
(`reader[r]`). Every queue operation holds `queue_lock` and is one step, the signal is a
step of its own. `recv_` is taken apart where a close can meet it: at its first test of
`close_lock` (`RecvNull` returns NULL, `Enter` goes on without the lock), between the
ACK of a frame and the completion of that ACK (`Acknowledge`, `Handled`, with the frame
in `hand`), and where it returns: `Recv` with the oldest frame, or, with none left, NULL
once `poll_wc` is refused (`RecvRefused`) or the end of the connection is met
(`RecvFails`). A close in the middle of it may leave it where it is for ever (`Stick`):
`poll_wc` returns -1 at once, and the waits for a READ and for an ACK poll again
(`poll_wc.cpp:166`, `189`), or it sleeps on a channel that is gone. That its process may
use what `wait_for_close` has destroyed, and end by it, is in `Close`; `Receiver` takes
the process for one that survives that. How `recv_` finds frames is `RSocket`.
`AppendMore` and `AppendRest` are the two `queue_push_q` of a thread whose connection
was closed. `Wake` is `pthread_cond_signal`; `SpuriousWakeup` is allowed by POSIX.

`Mailbox` is what the receiver promises: frames are put in per connection, and
taken out in order, a message at a time; only a message whose connection has
closed in the middle of it may be interrupted.

### Collectives (`mpi.cc`, `comm.hpp`)

A collective call is a sequence of sends, receives and copies that depends only
on the caller's rank, the root and the size. `Script` gives this sequence for
each function; the loops of the code are `For`. `SendStep`, `RecvStep` and
`CopyStep` execute it over the connections; a send blocks while `capacity`
messages are under way. Messages carry no tag in the code, so `call` in a
message of the model is for the properties only. Data are sequences of
contributions, so a block says exactly whose data it holds, and a reduction is
the sequence of what was combined. `Peer` translates a rank of a communicator
to a root rank, as `commGetSocket` does. `ProgramsAssumption` says what a call is:
its root is a rank of its communicator, and nobody is a member twice or alone.

Blocks have one size and messages the length the receiver expects (the length checks of
`RDMA_Recv` are not modelled), and communicators have at least two members. All
operations of `mpi.cc` are there but `RDMA_Irecv` and `RDMA_Allgatherv_exp`. The latter
multiplies `recvcount` and `displs` of its caller by the size of the type in place
(`mpi.cc:142-145`), so that a second call with the same arrays of a type over one byte
returns 5 in the middle of the exchange (166, 182) or writes to wrong places: what
`Collectives` assumes, that both sides mean the same length, it breaks by itself, and
nothing is claimed of it.

### Setup (`src/process.cc`, `connect_` and `accept_`, `createConnectToServer`)

`state[p]` says where a process stands in `setup` or `reconnect`; as a client it has a
`target` and an attempt (`link`, `retry`), as a server a `listening` socket whose
channel holds requests (`inbox`) and the connection `accept_` works on (`serving`).
`Start` is `setupAsServer` with the first step of `setupAsClient`, `Request`, `Retry`,
`GiveUp`, `WakeUp` and `Connected` are `connectToServer`, `TakeRequest` and
`AcceptReturns` are `accept_`, `Accept` a round of `setupAccept`, and `Reconnect`,
`Reaccept`, `ReacceptThrows` are `reconnect` up to the new connection (`fresh`,
`Renewed`). Then, in state `"closing"`, the process is in `close_` of the old connection
(`process.cc:166`, `176`), which both ends run at once: it returns and the new
connection is stored (`CloseReturns`), or it never does (`CloseLost`, state `"lost"`),
because it waits or polls for ever, or because what is destroyed is used and the process
may be gone, its listener with it. Which of these happens is what `Close` is about; here
either may. Connections are numbered, so that both ends of one can be compared.

The connection manager is external: it rejects a request if nobody listens,
otherwise keeps it until it is taken, and has no time-out. `program` and `late`
are chosen at the start and stay: what the processes reconnect, and whether a
process may begin to listen only after the retries of another have ended.
`Barrier` says whether the program calls `RDMA_Barrier` between `RDMA_Init` and
its first `RDMA_Reconnect`.

### Pool (`pool.go`, `process.go`, `run.go` of `tools/ffrun`)

`at` holds the two threads that may call `Stop`: the goroutine of `Run` and
`runCmd` itself, which ends `"returned"` after `Run` and `"interrupted"` after a
signal. `StartTask` and `RunNotified` are the loop of `Run`, `Cancel`,
`Wait` and `Resume` are `Stop`, `Signal`, `RunReturns` and `MainReturns` the end of
`runCmd`; `StartCmd`, `Selected`, `StopCmd`, `NotifyPool` and `Done` are
`StartProcess` with its deferred calls. `Resume` is a step of its own because
`wg.Wait` panics when the wait group was used again between its release and its
return. go-cmd is external: its `Start` returns before the child exists, and its
`Stop` does nothing then (`Fork`).

The code orders its steps by sleeping (200 ms between two starts, 100 ms before
the cancellation), so time is part of the model: `Tick` is 100 ms, and happens
only when no goroutine has a step to take. This assumes that a step of a
goroutine takes far less than 100 ms. Children, the user, and the draining of a
child's output take as long as they like. `runCmd` is in its `select` from the
start, because `Run` sleeps at least 200 ms before it can end.

### Close and Teardown (`rdma_socket.cpp`, `poll_wc.cpp`)

Two ends with two threads each. `at[e]` is where the thread that makes the calls stands,
`closer[e]` where `wait_for_close` does. `Send` and `Recv` are `send_`, `recv_` and
`irecv_` up to their first `trylock`, `PollFirst` the polling at the start of the
receiving calls, `PostMessage` what is posted on the way (`Posting`): the message of
`send_`, and in `recv_wc_handle` the READ of a message that is not empty and the ACK.
`sent`, `reading` and `acking` are the waits for these three. `PollTry` and `PollEvent`
are `poll_wc` before and behind its `trylock`; `AfterPoll` is the table of what each
place does with each result of `poll_wc`, so that the loops that poll again when they
are refused can be told from those that return. `ResolveNext`, `ResolveFails` (after a
READ that failed, at `unread`), `ResolveEnds` and `Resolved` are `resolve_wr_queue` and
what its caller does next (`then`). `Close`, `CloseMessage`, `Disconnect` and `Join` are
`close_` with `send_close_md`; `CloserLock`, `CloserDrain`, `CloserEmpty` (with
`close_handle`, a record at a time) and `CloserDestroy` are `wait_for_close`. `Crash` is
the kill of a whole process, as `ffrun` does it to the others of a job when one fails:
the other end is disconnected by it.

`close_lock` is never held while its holder waits, with one exception, so a
`trylock` that succeeds leaves it free: the step is one test. The exception is
`recv_` at line 445, which returns with the lock (`TryLock`). `wait_for_close`
never gives it back either.

`Arrive`, `SendCompletes`, `Unanswered` and `Flush` are the device. A failed queue pair
flushes what it has, now or later, with an error status, and the opcode of such a
completion is not set (`Seen` chooses one: a send, a receive or neither, which `poll_wc`
drops and the first polling of `recv_` keeps), as the verbs define it. Whoever touches a
destroyed queue pair or completion queue, or takes a record of a send, which only
`wait_for_close` puts into `wr_queue`, for a message, goes to `"undefined"`. `lock`,
`qp`, `cq` and `wrq` are shared by both threads and read where the code reads them. What
a payload is, credit and lost notifications are in `RSocket` only; that `recv_queue` is
shared with the receiver's threads is in neither.

`Teardown` is what the close promises: a connection is open, down, destroyed, freed, in
this order, and only when an end has asked for it; a process that is killed counts as
one that has asked, and may be at any point. `T == INSTANCE Teardown WITH life <- Life`
is the refinement mapping.

### Launch (`tools/ffrun`, `arg_parser.hpp`, `decoder.hpp`, `rank_alg.hpp`, `fmpi.cc`)

The first half is Go: `ReadNumproc` and `ReadPorts` are the two host formats (a
host that is repeated keeps the first number, but the last ports), `PortSelect` any
choice its random permutation allows, `CalculateRank` the sorted list, `ToArgv` a
command line, `SingularityParse` the cut of a container's command. The second half is
C++: `ReadToken` is one round of `parse_args`, `Valid`, `Decode`, `CalRank`
and `GetRank` are what `RDMA_Init` does with the result. The actions are `ffrun` on
each node (`Prepare`, `StartProcess`, `AllStarted`, `Fail`) and the start of each
process (`InitProcess`); `StartByHand` is a user without `ffrun`.

A host is its place in the order of names, an argument a token: its kind (begins with
`-`, with `--`, is `--`, or neither) and what it is. The name of an option is accepted
behind one dash too, as `argsMap.at` has it, and `Singularity.Parse` skips a `--` like a
flag. A script of `ffrun generate` is a line that a shell cuts and expands again
(`generate.go:33`): `Words` drops what is empty in it, and `JobsAssumption` leaves out
words a shell changes (`Special`) in such a command, which has no container. `MinPort`
and `PortLimit` stand for 10000 and 65535.

`JobsAssumption` says what a command of `ffrun` is: a host list in one of the two
formats, a program, arguments of any number of words each (an empty one is one empty
word), and, with a container, `[sudo] singularity exec`, options of one word each, and
the image (`IsContainer`). What sorts is written without its algorithm: an entry's place
is the number of those before it (`Earlier`, `Ascending`), as `sort.Sort` and the order
of a `std::set` promise. `sort.Sort` need not keep equal entries in place; `Earlier`
does, and equal entries differ in nothing. A port that the user lists twice for a host
is two ranks for `ffrun` and one for the processes, whose `std::set` has it once;
`RanksAgree` and `RanksCovered` speak of host lists without one (`Distinct`), and no
test or document uses one.

`RanksCovered` is about jobs the way the readme has them started (`Proper`, `OneLauncher`): each
host of the list is one node and each node one host, and where `ffrun` chooses the ports, with `-H`
or `generate`, it is run once. The example in the help of `ffrun run` (`run.go:149`), `-H`
with two hosts, is not one of them if it is run on both: each run then chooses ports of its
own (`command.go:47`), from a seed of the current second, and the lists of the two nodes
differ. The readme warns of it (line 125).

### Comm and World (`process.cc`, `comm.hpp`, `fmpi.cc`)

Every process has its `pool` of communicators with both translation tables, and
a `handle` per split it has made. `CommSplit` is the call with the sends of its
all-gather, `Gather` the receives, `splitComm` and the report of the barrier, `Barrier`
the rest. The all-gather is one round of messages in each direction, as
`Collectives` shows it to behave; its sends do not block. `tie` is a choice of how
`std::sort` orders equal keys, the same everywhere because all sort the same
input. The messages carry the step they belong to for the properties only.

`JobNext(n)` is what a job of `n` processes does: each takes its place in the root
communicator, and goes on when all have. `World` extends both: `Join` is `RDMA_Init` of one process, which hands its rank
and the list of processes to `SetupRoot`; `Work(r)` is the program of rank `r`, and
begins when all ranks are there, which is what `Setup` shows of `setup`. `JoinsAgree`
says that the processes of an `ffrun` job take the steps of `JobNext(n)` with one
and the same `n`; so what `CommProofs` shows of `JobSpec(n)` holds of them.

## 4. Runs

| run | instance | what it shows |
|---|---|---|
| `rsocket_safety` | 2 messages each way, `M = 2` | buffers, completions, copies and credit are conserved; FIFO channel (`ChannelSpec`) |
| `rsocket_live` | 4 and 1 messages, `M = 3`, `ArmReportsPending` | no lost wake-up, `send_` returns, messages are delivered |
| `rsocket_notify` | 1 message each way, not `ArmReportsPending` | finding: `send_` may never return |
| `receiver` | 2 connections, one of which may close, 2 frames each, 2 readers | refinement of `Mailbox`, nothing lost, no missed signal, complete messages and what a closed connection left reach a reader, unless the close has caught its `recv_` for ever |
| `receiver_frames` | 1 of 2 connections closes | finding: frames of a message are separated |
| `collectives` | 3 processes, capacities 1 and 3, all pairs of calls but of `RDMA_Allgatherv_exp`, a call on a pair in reverse order between two on all, and a barrier between any two | results, also with translated ranks, no stray message, the barrier separates, termination |
| `setup` | 5 processes, 2 retries, in time or late, a barrier, then reconnects in pairs or all to the last rank, whose `close_` returns or not | all pairs connected under every start order, reconnects in pairs return unless a `close_` of the two is lost, both ends hold the same connection, nobody is half set up or connected to the wrong rank |
| `setup_unsynced` | 4 processes, reconnects in pairs, no barrier | finding: a reconnect is counted as a first connection |
| `pool` | 3 tasks, a signal at any moment or never | nothing is stopped early, children are stopped, ffrun ends |
| `pool_orphan` | 2 tasks, a signal | finding: a child started after the cancellation outlives ffrun |
| `world` | 22 commands on 1 or 2 nodes with ports 2 and 3, 9 command lines by hand; 3 programs of splits on 3 or 4 processes | ranks of Go and C++ agree, jobs come up as a whole and join as one, arguments arrive; splits agree, follow the keys, do not mix, let nobody return early, and end |
| `close` | 2 ends, 4 pairs of programs of up to 2 calls and a `close_` each, one process may be killed | graceful close loses nothing, late calls are harmless, `Teardown`, every call ends but for the named exceptions |

Bounds, and why they are enough:

* `RSocket`: `MaxSend` caps the calls of `send_`. With `M = 2` and two messages
  each way every buffer of an endpoint can be in use by a message and by an
  ACK at the same time, and each path through `recv_wc_handle` is taken with the
  other endpoint at each of its waits. Four messages with `M` of 2 or 3 exhaust the
  credit, and with 3 use every buffer again. Liveness is checked with empty messages only: these skip the READ,
  which `rsocket_safety` covers. Symmetry of the two endpoints is used in
  safety runs only.
* Whether two endpoints can exhaust each other's buffers with messages and ACKs
  and wait for ever depends on `M`: with `M` of 1 or 2 they can, with 3 they
  cannot in the instance checked (`SendReturns` would fail), and the code has
  `MDBUFFERSIZE` = 50. This is a statement about the instance, not a theorem.
* `Receiver`: two connections are enough for one to get between another's frames, two
  frames are a message of two, or two messages, or one of which the second frame is
  missing. `MaxFrames` bounds what arrives, so a peer that keeps `recv_` busy for ever
  is not in the run. One of the two may close in the run; the theorems of
  `ReceiverProofs` hold for any connections and closes. Two readers can steal each
  other's wake-up.
* `Collectives`: three processes are the smallest number at which left and right
  partners differ and the loops of the ring algorithms run. Capacity 1 is the
  most restrictive for termination; a larger capacity lets a process run further ahead.
* `Setup`: five processes give a chain in which a process is client, server, both
  and neither at once; a retry count of 1 or 2 stands for 10 and 5, since only
  "was it the last attempt" is tested. Two pairs reconnect beside each other, or
  four clients request the same server at once.
* `Pool`: with three tasks one can be in each of three places (not started,
  starting, running) when the signal comes; the theorems of `PoolProofs` hold for
  any number.
* `World`: two ports make the capacity check, the exhausted choice and the case in
  between happen with one to four processes per host. The command lines have
  every kind of token at every place `parse_args` distinguishes. Four processes
  and two levels of splits are those of `test/comm/hello_4.cc`; the other programs
  have equal keys, `RDMA_UNDEFINED`, members with different handles for one
  communicator, and a communicator of one. `Runs` pairs commands with programs,
  since the splits depend on the command by the number of processes only.
* `Close`: programs of up to two calls put a thread at each of its places when the other
  end disconnects or is killed; up to two messages are under way, acknowledged or taken.
  Only the client's process is killed (`MayCrash`). A READ fails or is refused only if
  the peer was killed: one that closes waits for the ACK first. The theorems of
  `CloseProofs` hold for any programs.

Deadlock is not checked in the `RSocket` runs because the programs at both ends
may stop calling, nor in the `Setup`, `Pool`, `World` and `Close` runs, where the system ends: all
processes are set up or have thrown, `ffrun` and its children are gone, the
programs are over, or the connection is closed.
`Receiver` and `Collectives` are checked for deadlock
(`Exit` is the normal end of all programs).

Fairness:

* `RSocket!FairSpec`: a thread that can take a step takes it, and the HCA
  executes posted work (weak fairness each: nothing disables such a step but
  itself). `AppFairness` is an assumption about the program: outside of any call
  an endpoint calls `irecv_` again. Without it nothing is delivered, because
  the library has no thread of its own that receives.
* `Receiver!FairSpec`: weak fairness of `recv_process`, with the completion of its READs
  and ACKs, and of readers. Arrivals, closes, a `recv_` that meets the end of the
  connection and spurious wake-ups are not fair.
* `Collectives!FairSpec`: weak fairness of each process.
* `Setup!FairSpec`: every process starts and runs; a `close_` returns or is lost.
* `Pool!FairSpec`: goroutines run, time passes, and the output of a child that is
  to be stopped can be consumed. No child need ever end. A panic of the wait
  group counts as an end of `ffrun`.
* `World!WorldSpec`: a connected process goes on. Nothing is assumed of `ffrun`.
* `Close!FairSpec`: both threads and the devices go on. A free `close_lock` is given
  to `wait_for_close` when it waits for it, since all others hold it only for a
  test. No fairness is assumed of what a program calls.

`EveryCallEnds` lists the ways in which a call may not return after a disconnection:
`send_`, the READ of a message and its acknowledgement poll for ever once
`wait_for_close` has the lock, since `poll_wc` returns -1 and their loops treat it as
"not yet" (`rdma_socket.cpp:341`, `poll_wc.cpp:166`, `189`); `close_` waits for
`wait_for_close`, which waits for the lock a `recv_` has kept (`rdma_socket.cpp:445`);
and the use of what is destroyed. Each of them is reachable in the run, and the property
says that there is no other way. The first disagrees with `rsocket/README.md:68`, by
which the `send`/`recv` of the peer fail after `close_` and return -1: see section 5.

## 5. Findings

* `rsocket_notify` (`poll_wc.cpp:68`): the completion queue is emptied before
  it is armed, so a completion that enters between the two raises no event on
  devices that report only later ones. `send_` then waits for ever.
* `receiver_frames` (`receiver.cpp:32`): when a connection closes in the middle
  of a message, its frames get into the common queue in two steps and another
  connection's message can separate them.
* `setup_unsynced` (`process.cc:146`): `setupAccept` counts connections without
  asking from whom, so that a lower rank that is already set up and calls
  `RDMA_Reconnect` takes the place of a rank that has not connected yet.
* `pool_orphan` (`pool.go:91`): `Run` does not look at the context before it
  starts the next task; a child that does not exist yet when its `StartProcess`
  calls `cmd.Stop` is never stopped.

Besides, `close` shows a disagreement with `rsocket/README.md:68` ("使得对端的 send/recv
操作失效（返回 -1，表示连接已关闭）": `close_` makes the peer's send/recv fail, returning -1). A call
that begins after `wait_for_close` has the lock does return at once, but a `send_`, a
READ or an ACK that is under way polls for ever. The run is not marked as a violation,
since `EveryCallEnds` names these states (`Spins`) and shows that they are, with the
other two, all there are; `FramesDelivered` of `receiver` has the consequence for what
`recv_` had acknowledged.

The counterexamples are executions of the models; the runs are marked as
violations and their `PROJECT.json` entries quote the documentation that says
otherwise.

## 6. Proofs

All proofs are checked by TLAPS from nothing and rest on no assumption but the
ones named in the modules (`ASSUME`), which TLC evaluates in every run of them.

`RSocketProofs`, for every `M`, every set of payloads and every number of calls:

* `TypeCorrect` (`TypeOK`). Type correctness is not inductive as it stands:
  `Fetched` indexes the peer's `sent` by an address that comes from a record, so
  the invariant `TypeInv` adds `AddrsSent`: every address in a record anywhere,
  on the wire, in a CQ, in `wr_queue`, or in `cur`, is 0 or the number of a call
  its sender has made.
* `BuffersConserved` (`BufferConservation`): inductive relative to `TypeInv`.
  The one delicate point is that `cur` is occupied exactly while the thread is
  in the wait of a READ or an ACK, so that `AckCompleted` posts one buffer for
  one record.
* `CQNeverOverflows` (`CQWithinCapacity`): follows from `BuffersConserved`.
* `CompletionsOwned` (`OwnCompletion`): the caller's place, the work request,
  the completion and the flag of `poll_wc` always add up: inductive.
* `NotificationsNotMissed` (`NoMissedNotification`): on devices with
  `ArmReportsPending`.

`ReceiverProofs`, for any connections, readers and frames. The inductive invariant
`IInv` numbers the frames of a connection in the order of their arrival and says where
each of them is: with `recv_` (in the connection's queue, or acknowledged and in its
hand), in the hands of its thread, in the common queue, or returned.

* `TypeCorrect` (`TypeOK`);
* `SignalsNotMissed` (`NoMissedSignal`): inductive together with the type
  invariant. Only three kinds of step matter: an append leaves its thread before
  its signal, a signal leaves a reader awake, and a reader falls asleep only
  over an empty queue, all under `queue_lock`;
* `FramesKept` (`FramesConserved`): the numbers along the queues of a connection
  follow each other, so none is lost, doubled or overtaken;
* `MessagesWhole` (`TogetherUnlessClosed`, defined there): the frames of a message
  stay together in the common queue unless the connection closed in the middle of
  one. It is the exact form of `FramesTogether`, which `receiver_frames` refutes;
* `ImplementsMailbox` (`MailboxSpec`): an append moves the first frames a connection
  keeps to the end of the common queue (lemma `Appended`), a return takes the
  first frame of that queue, and every other step is a stutter of `Mailbox`.

`PoolProofs`, for any number of tasks:

* `TypeCorrect` (`TypeOK`): the bounds of the counter are not inductive without
  `Counted`, which says that `wg` is the number of tasks whose goroutine is there
  (`Active`, a set whose cardinality each step changes by one or not at all) and
  that tasks are started in order.
* `NeverStoppedEarly` (`NotStoppedEarly`): the invariant `EarlyInv` traces
  whatever can lead to a cancellation while `runCmd` waits, a token, a `Run` that
  has left its loop, a `StartProcess` that has left its select, back to a child
  that ended.
* `NoneLeftRunning` (`ChildrenStopped`): the invariant `StoppedInv` adds to `EarlyInv`
  that `Run` starts a task long before it can end; `RunningInv` says
  that a child that ran at the cancellation is signalled before its goroutine
  notifies the pool, and that whoever has returned from `wg.Wait`, or panicked in
  it, finds those goroutines gone. The step that matters is the one at which
  the counter is zero: then every task that has a child is gone.

`CloseProofs`, for any programs of calls on two ends:

* `TypeCorrect` (`TypeOK`): the invariant `IInv` is, per end, one conjunct for each
  relation between the two threads, the lock and the queue pair (`ThreadsOf`), and
  `QueueInv`, what the queues hold: only `wait_for_close` puts the record of a send that
  has succeeded into `wr_queue`.
* `LateCallsSafe` (`LateCallsHarmless`): whoever stands at a place that touches the
  queue pair while `wait_for_close` destroys has been inside when it got the lock,
  because every way in tests the lock.
* `TearsDownInOrder` (`OrderlyTeardown`): the initial states map to those of
  `Teardown`, and under `IInv` every step maps to a step of it or to a stutter.
  `Destroy` needs that `wait_for_close` has called `rdma_disconnect`, `Free` that
  `close_` has joined it.
* `ClosesGracefully` (`GracefulClose`), from `Quiet`, which holds until the first end
  disconnects: no completion has failed, an end has at most one send outstanding,
  that of the call it is in, so a completion poll_wc reports is the one that is
  waited for (`SendInv`); what has arrived at an end, in its CQ, in `wr_queue` or
  handled, is what has left the other one (`CountInv`, for messages and for ACKs);
  and an end that comes to `rdma_disconnect` with the lock free has as many ACKs as
  messages sent (`WaitInv`). Then its ACKs are at most the messages the other end
  has read, and these at most the messages sent, so all three are equal. No step
  but the arrival of a message changes what has left or arrived. `GotReceives`, that
  poll_wc moves every receive to `wr_queue` once, counts the positions of a
  sequence by their ranks, as nothing can be proved of `SelectSeq`.

Its second part, for every number of buffers:

* `CreditConserved` (`CreditConservation`): the invariant `CreditInv` adds up, for
  each end, `peer_buff_count`, what has been posted and not yet handled by the
  other end, and the ACKs on their way back, and says that the sum is `M`. That a step
  only moves a record from one part of the sum to another rests on two things: the
  counting lemmas (`CountAppend`, `CountTail`, `CountConcat`: a record appended to a
  queue counts once, one taken from the front no longer, and `wr_queue` behind
  the CQ adds up), and `OwnInv`: a thread that posts
  owns no other request, so a post overwrites nothing that was counted.

Its third part, the way of the messages, again for every number of buffers, any
payloads and any bound on the calls. The inductive invariant `IInv` is the type invariant,
`BufferInv` and `OwnInv`, with two parts more: `WireInv`, that
a record is on the wire only while its sender waits for it, and `OrderInv`, which
says of every message and of every ACK where it is. A message, numbered by the call
that sent it, goes through the wire, the CQ, `wr_queue` and the READ into
`recv_queue`, an ACK comes back the same way; along each way the numbers follow
each other without a gap, and the payload copies are those of the messages not
acknowledged yet.

* `ReturnedInOrder` (`C!InOrder`): what was received is a prefix of what was sent;
* `ImplementsChannel` (`ChannelSpec`): under the invariant a call of `send_` is a send
  of `Channel`, a return from `recv_` or `irecv_` with a message a receive, and
  every other step a stutter;
* `CopiesKept` (`CopiesReferenced`) and `ReadsSucceed` (`ReadsTheirPayload`): a copy
  lives until its READ is done and is freed after it, so that a READ always finds
  the payload its record announced.

`SetupProofs`, for any number of processes, retry policies and programs of
reconnects. `Base` is inductive for every step: types, where a client and a server
can stand (a client asks higher ranks only, a server works on lower ones only), and
that no two processes work on the same connection.

* `TypeCorrect` (`TypeOK`), with the bounds of the retries and of the accepted
  clients;
* `PeersRight` (`RightPeer`): `AgreeInv` says of every pair that the higher rank has, in
  `m_socketPool` or still in the hands of `accept_`, the connection the lower one has
  written into its own: a client writes the connection its target is serving, nobody
  else can write that place, and the target stores it before it returns from `accept_`.
  It holds with and without a barrier, for matched and unmatched calls of reconnect, and
  whether `close_` of the old connection returns or not: until it has, `AgreeInv` takes
  the new connection, which is not in `m_socketPool` yet, for the one the process holds
  (`Held`); a process that has thrown is left out;
* `AllConnected` (`SetupComplete`), if the program has a barrier before its
  reconnects (`Barrier`; without it `setup_unsynced` refutes it). `setupAccept` only
  counts. The count is right because the clients counted are different ranks
  (`LowerAt`): `Fresh` says that a request in the channel, or in the hands of
  `accept_`, of a process in setup comes from a rank that is not connected to it yet
  and that has gone past it once it is, so it does not come back; `BarrierInv` says
  that nobody reconnects while somebody is in setup. A set of `p` ranks below `p` is
  all of them. `HigherAt` does the same for the ranks `setupAsClient` has gone past.

`CommProofs`, for any number `n` of processes, any programs of splits and frees
(`ProgramsAssumption`: a step splits what an earlier one has made, and the colors and
keys are those the assertions of `RDMA_Comm_split` admit) and any order `std::sort`
gives equal keys (`TiesAssumption`: the same order everywhere, since all sort the
same input). A handle is a place in the pool of its owner and means nothing to
anybody else, so the proofs name a communicator by the step that made it: `Of(p, k)`
is the entry of `p` for step `k`, `Parent(p, k)` what `p` splits in it. The inductive
invariant `IInv` has three parts:

* `Tables`, of each process by itself: its entries are in the order of the steps,
  each behind its parent's, and a handle is the place of the entry of its step or -1;
* `Entries`, between processes: the entry of step `k` is what `splitComm` makes of the
  parent and of the colors and keys the program gives its members (`SplitOf`); two
  members that have made it have the same; whoever has made it finds every member of
  the parent in the call or past it, and whoever has returned finds that all have made it;
* `Wires`: what is on the way from `p` to `q` is determined by where the two stand: the
  answer of rank 0 if `q` still waits for it, then the color and key of `p` if `q` has
  not taken them, then the report of `p` to rank 0. So the messages of
  different steps and of different communicators over one connection are never in a
  different order than they are taken in.

`Wires` is needed for `Entries`, since the colors a process takes are those of the
step only if no message is taken for another, and `Entries` for `Wires`, since the
two ends must agree on the members and on rank 0. That sorting yields a bijective
renumbering that follows the keys is `NewRanksBijective` and `NewRanksRise`: a rank is
the number of members before one, so no induction over a sorting algorithm is needed.

* `TablesKept`; `MembersAgree` (`GroupsAgree`); `SplitsAreRight` (`SplitRight`);
  `MessagesNotMixedUp` (`NoMixup`).

They are theorems of `JobSpec(n)`; that `ffrun` jobs of `World` are such jobs is
`JoinsAreOne` of `WorldProofs`, which carries them over.

`CollectivesProofs`, for any number of processes, any programs of calls on any
communicators (`ProgramsAssumption`) and any capacity of the connections:

* what the loops unroll to. `LoopRuns` says that the function inside `For` is defined
  by its recursion, so an invariant of a loop can be carried along it (`Along`);
  `BcastMade`, `ExchangeMade` and the `...Scripted` lemmas give, for each function of
  `mpi.cc`, whom it sends to, whom it receives from, which blocks, and in which
  order where that matters. `ScriptScripted` has it in one form for all kinds:
  every step is one of `ScriptSteps`, no rank is sent to or received from twice, and
  the ranks are `Dests` and `Sources`. `Mirror` is the heart of it: in every kind of
  call, `r` sends to `s` exactly if `s` receives from `r`.
* the inductive invariant `IInv`. `Going` says that what a process has still to do is
  part of the script of its call; `Wire(p, q)` says that the messages from `p` to `q`
  are, in the order of the calls, exactly those of the calls in which `p` has sent to
  `q` and `q` has not received from `p`. Each needs the other: which message is the
  next one is clear only if the wire holds nothing of an earlier call, and that it
  holds nothing else needs that each process has done a part of the scripts.
* `CallsTyped` (`TypeOK`); `ReceivesMatched` (`CallsMatched`): a receive takes a message of
  its own call, although messages carry no tag and fast processes are calls ahead;
* `BarriersSeparate` (`BarrierSeparates`): rank 0 has nothing left to receive when it
  sends its first message (`ToldLast`), what a returned process has received was
  sent, and what rank 0 has received was sent by a process inside the barrier.
* `ResultsRight` (`ResultsCorrect`), for all operations of the module, which
  `RDMA_Allgatherv_exp` is not among, from a second invariant, `DataInv`, on top of
  `IInv`. `Carried`: a message holds what its sender sends in its call (`Payload`): a
  block of the send buffer, or block 0 of the receive buffer of rank 0 in an allreduce,
  which does not change any more once it was sent (`ToldStays`). `Holds` says what the
  receive buffer of a process holds, given the steps it has still to do (`Ahead`): a
  block is right or its step is still to come (`Filled`); a root has combined the
  contributions of exactly those it has heard from (`Reduced`: as many as are missing in
  `In`, so each once); whoever has heard from rank 0 in an allreduce has its block. The
  rest is the comparison of the scripts with `Moves`, the reference: no two steps write
  the same block (`PlainBlocks`), and they move what they are to move (`PlainMoves`).

`WorldProofs`, for any commands that `JobsAssumption` admits, any nodes, hosts and
ports, any choice of `PortSelect`, and with any program of splits beside it:

* what the pure functions of both languages yield. `BelowBijective` counts the entries
  below an entry of a strict order: this is a bijection onto the places, so
  `CalculateRank` and `CalRank` are lists in the order of their entries
  (`CalculateRankRight`, `CalRankRight`), and `SortedUnique` says there is only one such
  list of a set. `Decoded` gives what `Decode` reads out of any text of a host list,
  in whatever order Go visits the hosts. Together they are `RanksAlike`.
* what `parse_args` does with a line of `ffrun`: `ParsesLine` follows it token by token
  (`ReadsOption`, `ReadsValue`, `ReadsEnd`) up to the `--` of `ToArgv` and past the
  rest; `ParsedRight` and `LineCut` say that the command of a container is cut at the
  right place and that the line of the process is what is left of it behind the container's.
* the inductive invariant `LaunchInv`: each process `ffrun` has started stands for an
  entry of the list of its node, its command line names the entry and the node's
  host list, and what it is, is what `RDMA_Init` makes of that line. Neither of the two
  properties is inductive without it, since they do not mention the command line.
* the invariant `NodesInv`: on each node exactly the processes of its own entries are
  there, up to the position of its `CmdResultGenerator`. So an entry is started on one
  node only (`OneOfEach`) and, when `ffrun` has ended everywhere, on one at least
  (`AllOfEach`); the number of entries is the number asked for (`ListAsked`); and whether
  `Decode` throws depends on the ports alone, so all processes come up or none
  (`UpTogether`).
* the invariants `SizeInv` and `JoinInv`: whoever is up has a rank below the one number of
  processes all count, and a rank has joined only if a process of that rank is up. With
  `UpKept` (nobody who is up is touched again) a step of `Join` or `Work` is a step of
  `JobNext` for that number (`JobSteps`).
* `CommInv`: the invariant `IInv(n)` of `CommProofs` holds for every `n` as long as
  nobody is up, and then for the number of processes, which does not change (`SizeKept`).
* `LaunchRight` (`LaunchInv`); `RanksAreOne` (`RanksAgree`); `ArgsAreDelivered`
  (`ArgsDelivered`: in a script of `generate` the words a shell makes of the arguments,
  for words it takes as they are); `NodesRight` (`NodesInv`); `RanksAreCovered`
  (`RanksCovered`); `JoinsAreOne` (`JoinsAgree`); `JobsSplitRight`, the composition:
  `GroupsAgree`, `SplitRight` and `NoMixup` of the processes of an `ffrun` job, if
  `Procs` has their ranks.

Every safety property that a passing run checks is a theorem. Only model-checked: the liveness
properties. Out of the prover's reach: liveness under fairness and `ENABLED`, and what a
recursive definition given by an operator computes for every input. Facts about the positions of a sequence
that would be proved by induction are proved with the least counterexample
instead (`WellFoundedInduction`).

## 7. Not modelled

* `receiver_close`, which frees the connections and queues its detached threads may
  still use: no order between the two exists in the code that a property could
  be about.
* An `accept_` whose client is gone before it has sent its node number, and the
  time-outs of the connection manager (about a minute): `Setup` has clients that
  start late, not clients that leave.
* `RDMA_Allgatherv_exp` (section 3, Collectives), `RDMA_Irecv`, lengths that do not
  match in `RDMA_Recv`, and failing sends inside a collective; `RDMA_Abort`.
* Errors of the verbs calls (`TEST_NZ`, `TEST_Z`), which end the process.
* What a shell expands in a script of `ffrun generate`; single-letter options, help
  texts, converters of other types in `arg_parser.hpp`; the option reader, the script
  files and address utilities of `ffrun`; `pkg/remote/ssh.go`, which no command uses;
  logging and pretty printing; the linked list inside `queue.cpp`. They are formatting,
  pure I/O or sequential data structures without a property beyond that of a sequence.
* The programs under `test/` and `rsocket/test/` were read for how the library is
  called.
