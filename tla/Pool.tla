-------------------------------- MODULE Pool --------------------------------
(***************************************************************************)
(* The process pool of the launcher: Pool.Run and Pool.Stop (pool.go),     *)
(* StartProcess (process.go) and the end of runCmd (cmd/run.go) in         *)
(* tools/ffrun.                                                            *)
(*                                                                         *)
(* runCmd starts a goroutine that calls Run and waits for its end or for a *)
(* signal; on a signal it calls Stop itself, while Run may still be        *)
(* starting processes and will call Stop as well.  Run starts a goroutine  *)
(* StartProcess per task; each starts a child through go-cmd, whose Start  *)
(* returns before the child exists and whose Stop does nothing then.       *)
(*                                                                         *)
(* Time passes in ticks of 100 ms.  Goroutines take their steps within the *)
(* tick in which they can; children, signals and the draining of a child's *)
(* output take as long as they like.                                       *)
(***************************************************************************)
EXTENDS Naturals, FiniteSets

CONSTANT Tasks  \* number of tasks of the pool

ASSUME TasksAssumption == Tasks \in Nat /\ Tasks > 0

\* Callers of Stop: the goroutine of Run, and runCmd itself.
Callers == {"run", "main"}
Task == 1..Tasks

StartGap == 2   \* 200 ms between two starts
WaitTime == 1   \* 100 ms, the WaitTime runCmd gives to every task

VARIABLES
    at,         \* where a caller stands
    timer,      \* ticks that a caller still sleeps
    started,    \* tasks whose StartProcess goroutine exists
    gor,        \* where StartProcess of a task stands
    child,      \* the child process of a task
    token,      \* notifyCh (capacity 1) holds a token
    cancelled,  \* the context is cancelled
    wg,         \* the counter of the wait group
    atCancel    \* history: the children that ran when it was cancelled

vars == <<at, timer, started, gor, child, token, cancelled, wg, atCancel>>

\* runCmd reaches its select long before Run can end: Run sleeps 200 ms first.
Init ==
    /\ at = [c \in Callers |-> IF c = "run" THEN "loop" ELSE "select"]
    /\ timer = [c \in Callers |-> 0]
    /\ started = 0
    /\ gor = [i \in Task |-> "none"]
    /\ child = [i \in Task |-> "none"]
    /\ token = FALSE
    /\ cancelled = FALSE
    /\ wg = 0
    /\ atCancel = {}

\* runCmd has returned, or a goroutine has panicked: ffrun is gone.
Ended == at["main"] \in {"returned", "interrupted", "panicked"}

Goto(c, place) == at' = [at EXCEPT ![c] = place]
Sleep(c, place, ticks) ==
    /\ Goto(c, place)
    /\ timer' = [timer EXCEPT ![c] = ticks]

\* A send on notifyCh that does not block: a second token is dropped.
Notify == token' = TRUE

-----------------------------------------------------------------------------
(* Run *)

\* Fault: the wait group is counted up once, not for every task.
StartTaskCountedOnce ==
    /\ at["run"] = "loop" /\ timer["run"] = 0 /\ started < Tasks
    /\ started' = started + 1
    /\ wg' = IF started = 0 THEN 1 ELSE wg
    /\ gor' = [gor EXCEPT ![started + 1] = "launched"]
    /\ Sleep("run", "loop", StartGap)
    /\ UNCHANGED <<child, token, cancelled, atCancel>>

\* The next task: count it, start its goroutine, sleep.
StartTask ==
    /\ at["run"] = "loop" /\ timer["run"] = 0 /\ started < Tasks
    /\ started' = started + 1
    /\ wg' = wg + 1
    /\ gor' = [gor EXCEPT ![started + 1] = "launched"]
    /\ Sleep("run", "loop", StartGap)
    /\ UNCHANGED <<child, token, cancelled, atCancel>>

\* Fault: Stop is called without waiting for the end of a process.
RunNotifiedAnyway ==
    /\ at["run"] = "loop" /\ timer["run"] = 0 /\ started = Tasks
    /\ Sleep("run", "stop", WaitTime)
    /\ Notify
    /\ UNCHANGED <<started, gor, child, cancelled, wg, atCancel>>

\* All are started and one has ended (or Stop was called): Run calls Stop,
\* which leaves a token again and sleeps.
RunNotified ==
    /\ at["run"] = "loop" /\ timer["run"] = 0 /\ started = Tasks
    /\ token
    /\ Sleep("run", "stop", WaitTime)
    /\ Notify
    /\ UNCHANGED <<started, gor, child, cancelled, wg, atCancel>>

-----------------------------------------------------------------------------
(* Stop *)

Cancel(c) ==
    /\ at[c] = "stop" /\ timer[c] = 0
    /\ cancelled' = TRUE
    /\ atCancel' = IF cancelled THEN atCancel
                   ELSE {i \in Task : child[i] = "running"}
    /\ Goto(c, "wait")
    /\ UNCHANGED <<timer, started, gor, child, token, wg>>

\* Fault: Stop does not wait for the wait group.
WaitSkipped(c) ==
    /\ at[c] = "wait"
    /\ Goto(c, "stopped")
    /\ UNCHANGED <<timer, started, gor, child, token, cancelled, wg, atCancel>>

\* wg.Wait: park while the counter is not zero.
Wait(c) ==
    /\ at[c] = "wait"
    /\ Goto(c, IF wg = 0 THEN "stopped" ELSE "parked")
    /\ UNCHANGED <<timer, started, gor, child, token, cancelled, wg, atCancel>>

\* A parked caller that was released goes on, and panics if the wait group
\* was used again in the meantime.
Resume(c) ==
    /\ at[c] = "released"
    /\ at' = IF wg = 0 THEN [at EXCEPT ![c] = "stopped"]
                       ELSE [at EXCEPT !["main"] = "panicked"]
    /\ UNCHANGED <<timer, started, gor, child, token, cancelled, wg, atCancel>>

-----------------------------------------------------------------------------
(* runCmd *)

\* A signal: runCmd calls Stop.
Signal ==
    /\ at["main"] = "select"
    /\ Sleep("main", "stop", WaitTime)
    /\ Notify
    /\ UNCHANGED <<started, gor, child, cancelled, wg, atCancel>>

\* Run has returned: runCmd returns if it waits for that, otherwise the send
\* on endCh is dropped.
RunReturns ==
    /\ at["run"] = "stopped"
    /\ at' = [at EXCEPT !["run"] = "returned",
                        !["main"] = IF @ = "select" THEN "returned" ELSE @]
    /\ UNCHANGED <<timer, started, gor, child, token, cancelled, wg, atCancel>>

\* Stop has returned to runCmd after a signal.
MainReturns ==
    /\ at["main"] = "stopped"
    /\ Goto("main", "interrupted")
    /\ UNCHANGED <<timer, started, gor, child, token, cancelled, wg, atCancel>>

-----------------------------------------------------------------------------
(* StartProcess *)

\* cmd.Start returns, the child does not exist yet.
StartCmd(i) ==
    /\ gor[i] = "launched"
    /\ gor' = [gor EXCEPT ![i] = "select"]
    /\ child' = [child EXCEPT ![i] = "forking"]
    /\ UNCHANGED <<at, timer, started, token, cancelled, wg, atCancel>>

\* The child is done or the context is cancelled.
Selected(i) ==
    /\ gor[i] = "select"
    /\ child[i] = "ended" \/ cancelled
    /\ gor' = [gor EXCEPT ![i] = "drain"]
    /\ UNCHANGED <<at, timer, started, child, token, cancelled, wg, atCancel>>

\* The output is consumed; cmd.Stop signals the child if it runs.
StopCmd(i) ==
    /\ gor[i] = "drain"
    /\ gor' = [gor EXCEPT ![i] = "notify"]
    /\ child' = [child EXCEPT ![i] = IF @ = "running" THEN "signalled" ELSE @]
    /\ UNCHANGED <<at, timer, started, token, cancelled, wg, atCancel>>

\* Fault: without a receiver the notification is dropped.
NotifyPoolUnbuffered(i) ==
    /\ gor[i] = "notify"
    /\ gor' = [gor EXCEPT ![i] = "done"]
    /\ token' = (token \/ (at["run"] = "loop" /\ timer["run"] = 0 /\ started = Tasks))
    /\ UNCHANGED <<at, timer, started, child, cancelled, wg, atCancel>>

\* The deferred calls, last first: notify the pool ...
NotifyPool(i) ==
    /\ gor[i] = "notify"
    /\ gor' = [gor EXCEPT ![i] = "done"]
    /\ Notify
    /\ UNCHANGED <<at, timer, started, child, cancelled, wg, atCancel>>

\* ... and leave the wait group, which releases its waiters at zero.
Done(i) ==
    /\ gor[i] = "done"
    /\ gor' = [gor EXCEPT ![i] = "gone"]
    /\ wg' = wg - 1
    /\ at' = [c \in Callers |-> IF wg = 1 /\ at[c] = "parked" THEN "released"
                                                              ELSE at[c]]
    /\ UNCHANGED <<timer, started, child, token, cancelled, atCancel>>

-----------------------------------------------------------------------------
(* The children, and time *)

\* The child exists, or could not be created.
Fork(i) ==
    /\ child[i] = "forking"
    /\ \E fate \in {"running", "ended"} : child' = [child EXCEPT ![i] = fate]
    /\ UNCHANGED <<at, timer, started, gor, token, cancelled, wg, atCancel>>

ChildEnds(i) ==
    /\ child[i] \in {"running", "signalled"}
    /\ child' = [child EXCEPT ![i] = "ended"]
    /\ UNCHANGED <<at, timer, started, gor, token, cancelled, wg, atCancel>>

\* A goroutine that is neither asleep nor blocked has a step to take.
Busy ==
    \/ at["run"] = "loop" /\ timer["run"] = 0 /\ (started < Tasks \/ token)
    \/ \E c \in Callers : \/ at[c] = "stop" /\ timer[c] = 0
                          \/ at[c] \in {"wait", "released", "stopped"}
    \/ \E i \in Task : \/ gor[i] \in {"launched", "notify", "done"}
                       \/ gor[i] = "select" /\ (child[i] = "ended" \/ cancelled)
                       \/ child[i] = "forking"

Tick ==
    /\ ~Busy
    /\ \E c \in Callers : timer[c] > 0
    /\ timer' = [c \in Callers |-> IF timer[c] > 0 THEN timer[c] - 1 ELSE 0]
    /\ UNCHANGED <<at, started, gor, child, token, cancelled, wg, atCancel>>

Launcher ==
    \/ StartTask \/ RunNotified \/ RunReturns \/ MainReturns
    \/ \E c \in Callers : Cancel(c) \/ Wait(c) \/ Resume(c)

StartProcess(i) ==
    \/ StartCmd(i) \/ Selected(i) \/ StopCmd(i) \/ NotifyPool(i) \/ Done(i)
    \/ Fork(i)

\* After the end of ffrun only the children are left.
Next ==
    \/ ~Ended /\ (Launcher \/ Signal \/ Tick \/ \E i \in Task : StartProcess(i))
    \/ \E i \in Task : ChildEnds(i)

Spec == Init /\ [][Next]_vars

(***************************************************************************)
(* Fairness: goroutines run, time passes, and the output of a child that   *)
(* is to be stopped can be consumed.  No child need ever end.              *)
(***************************************************************************)
FairSpec ==
    /\ Spec
    /\ WF_vars(~Ended /\ Launcher)
    /\ WF_vars(~Ended /\ Tick)
    /\ \A i \in Task : WF_vars(~Ended /\ StartProcess(i))

-----------------------------------------------------------------------------
TypeOK ==
    /\ at \in [Callers -> {"loop", "select", "stop", "wait", "parked", "released",
                           "stopped", "returned", "interrupted", "panicked"}]
    /\ at["run"] \notin {"select", "interrupted", "panicked"}
    /\ at["main"] # "loop"
    /\ timer \in [Callers -> 0..StartGap]
    /\ started \in 0..Tasks
    /\ gor \in [Task -> {"none", "launched", "select", "drain", "notify",
                         "done", "gone"}]
    /\ child \in [Task -> {"none", "forking", "running", "signalled", "ended"}]
    /\ token \in BOOLEAN /\ cancelled \in BOOLEAN
    /\ wg \in 0..Tasks
    /\ atCancel \subseteq Task

\* "Stop all the process", however ffrun ends.
AllStopped == Ended => \A i \in Task : child[i] # "running"

\* The children that ran when the context was cancelled are not left running.
RunningChildrenStopped == Ended => \A i \in atCancel : child[i] # "running"

(***************************************************************************)
(* When ffrun has ended by itself, because a process has, no child it      *)
(* started is left running untold.  Also when Stop runs while tasks are    *)
(* being started: every child that ran when the context was cancelled has  *)
(* ended or was signalled before ffrun ends.                               *)
(***************************************************************************)
ChildrenStopped ==
    /\ at["main"] = "returned" => \A i \in Task : child[i] # "running"
    /\ RunningChildrenStopped

(***************************************************************************)
(* No child is stopped before all tasks were started and one of them       *)
(* ended, unless the user asked for it.                                    *)
(***************************************************************************)
NotStoppedEarly ==
    cancelled /\ at["main"] = "select" =>
        started = Tasks /\ \E i \in Task : child[i] = "ended"

\* The end of one process, or a signal, ends ffrun.
PoolEnds ==
    (at["main"] # "select" \/ \E i \in Task : child[i] = "ended") ~> Ended
=============================================================================
