----------------------------- MODULE PoolProofs -----------------------------
(***************************************************************************)
(* Theorems about Pool: type correctness, that running children are        *)
(* stopped before ffrun ends, and that nothing is stopped too early, for   *)
(* any number of tasks.                                                    *)
(***************************************************************************)
EXTENDS Pool, FiniteSetTheorems, TLAPS

\* The tasks whose StartProcess is in the wait group.
Active == {i \in Task : gor[i] \notin {"none", "gone"}}

Stopping == {"drain", "notify", "done", "gone"}

(***************************************************************************)
(* The counter of the wait group counts the goroutines that are there, the *)
(* tasks are started in order, and a child exists once cmd.Start was       *)
(* called.                                                                 *)
(***************************************************************************)
Counted ==
    /\ wg = Cardinality(Active)
    /\ \A i \in Task : gor[i] = "none" <=> i > started
    /\ \A i \in Task : child[i] = "none" <=> gor[i] \in {"none", "launched"}

TypeInv == TypeOK /\ Counted

LEMMA TaskFinite == IsFiniteSet(Task) /\ Cardinality(Task) = Tasks
  BY TasksAssumption, FS_Interval DEF Task

LEMMA ActiveFinite ==
    IsFiniteSet(Active) /\ Cardinality(Active) \in 0..Tasks
<1>1. Active \subseteq Task
  BY DEF Active
<1> QED
  BY <1>1, TaskFinite, FS_Subset, FS_CardinalityType, TasksAssumption

LEMMA TypeInit == Init => TypeInv
<1> SUFFICES ASSUME Init PROVE TypeInv
  OBVIOUS
<1>1. TypeOK
  <2>1. at \in [Callers -> {"loop", "select"}] /\ timer \in [Callers -> 0..StartGap]
    BY DEF Init, Callers, StartGap
  <2>2. at["run"] = "loop" /\ at["main"] = "select"
    BY DEF Init, Callers
  <2>3. started \in 0..Tasks /\ wg \in 0..Tasks
    BY TasksAssumption DEF Init
  <2> QED
    BY <2>1, <2>2, <2>3 DEF Init, TypeOK
<1>2. Active = {}
  BY DEF Init, Active
<1>3. Cardinality(Active) = 0
  BY <1>2, FS_EmptySet
<1> QED
  BY <1>1, <1>3 DEF Init, TypeInv, Counted, Task

\* A step that changes the place of no goroutine, or of one within the group.
LEMMA SameActive ==
    ASSUME TypeInv, Active' = Active, wg' = wg
    PROVE  wg' = Cardinality(Active)'
  BY DEF TypeInv, Counted

LEMMA TypeNext == TypeInv /\ [Next]_vars => TypeInv'
<1> SUFFICES ASSUME TypeInv, [Next]_vars PROVE TypeInv'
  OBVIOUS
<1> USE TasksAssumption DEF TypeInv, Callers, StartGap, WaitTime
<1>0. TypeOK /\ Counted /\ wg \in 0..Tasks /\ started \in 0..Tasks
  BY DEF TypeOK
<1>1. CASE UNCHANGED vars
  BY <1>0, <1>1 DEF vars, TypeOK, Counted, Active
<1>2. CASE StartTask
  <2> DEFINE i == started + 1
  <2>1. i \in Task /\ gor[i] = "none" /\ child[i] = "none"
    BY <1>0, <1>2 DEF StartTask, Task, Counted
  <2>2. Active' = Active \cup {i} /\ i \notin Active
    BY <1>0, <1>2, <2>1 DEF StartTask, Active, TypeOK
  <2>3. Cardinality(Active') = Cardinality(Active) + 1
    BY <2>2, ActiveFinite, FS_AddElement
  <2>4. wg' = Cardinality(Active')
    BY <1>0, <1>2, <2>3 DEF StartTask, Counted
  <2>5. Active' \subseteq Task
    BY <2>1, <2>2 DEF Active
  <2>6. wg' \in 0..Tasks
    BY <2>4, <2>5, TaskFinite, FS_Subset, FS_CardinalityType, TasksAssumption
  <2>7. TypeOK'
    BY <1>0, <1>2, <2>1, <2>6 DEF StartTask, Sleep, Goto, TypeOK
  <2>8. \A j \in Task : gor'[j] = "none" <=> j > started'
    BY <1>0, <1>2, <2>1 DEF StartTask, TypeOK, Counted, Task
  <2>9. \A j \in Task : child'[j] = "none" <=> gor'[j] \in {"none", "launched"}
    BY <1>0, <1>2, <2>1 DEF StartTask, TypeOK, Counted
  <2> QED
    BY <2>4, <2>7, <2>8, <2>9 DEF Counted
<1>3. CASE \/ RunNotified \/ RunReturns \/ MainReturns \/ Signal \/ Tick
           \/ \E c \in Callers : Cancel(c) \/ Wait(c) \/ Resume(c)
  <2>1. UNCHANGED <<started, gor, child, wg>>
    BY <1>3 DEF RunNotified, RunReturns, MainReturns, Signal, Tick, Cancel, Wait,
                Resume
  <2>2. Counted'
    BY <1>0, <2>1 DEF Counted, Active
  <2>3. TypeOK'
    <3> USE <1>0 DEF TypeOK, Goto
    <3>1. CASE RunNotified
      BY <3>1 DEF RunNotified, Sleep, Notify
    <3>2. CASE RunReturns
      BY <3>2 DEF RunReturns
    <3>3. CASE MainReturns
      BY <3>3 DEF MainReturns
    <3>4. CASE Signal
      BY <3>4 DEF Signal, Sleep, Notify
    <3>5. CASE Tick
      BY <3>5 DEF Tick
    <3>6. ASSUME NEW c \in Callers, Cancel(c)
          PROVE  TypeOK'
      BY <3>6 DEF Cancel
    <3>7. ASSUME NEW c \in Callers, Wait(c)
          PROVE  TypeOK'
      BY <3>7 DEF Wait
    <3>8. ASSUME NEW c \in Callers, Resume(c)
          PROVE  TypeOK'
      BY <3>8 DEF Resume
    <3> QED
      BY <1>3, <3>1, <3>2, <3>3, <3>4, <3>5, <3>6, <3>7, <3>8
  <2> QED
    BY <2>2, <2>3
<1>4. ASSUME NEW i \in Task, StartCmd(i) \/ Selected(i) \/ StopCmd(i) \/ NotifyPool(i)
      PROVE  TypeInv'
  <2>1. Active' = Active
    BY <1>0, <1>4 DEF StartCmd, Selected, StopCmd, NotifyPool, Active, TypeOK
  <2>2. wg' = Cardinality(Active)'
    BY <1>4, <2>1, SameActive DEF StartCmd, Selected, StopCmd, NotifyPool
  <2>3. \A j \in Task : gor'[j] = "none" <=> j > started'
    BY <1>0, <1>4 DEF StartCmd, Selected, StopCmd, NotifyPool, TypeOK, Counted
  <2>4. \A j \in Task : child'[j] = "none" <=> gor'[j] \in {"none", "launched"}
    BY <1>0, <1>4 DEF StartCmd, Selected, StopCmd, NotifyPool, TypeOK, Counted
  <2>5. TypeOK'
    BY <1>0, <1>4 DEF StartCmd, Selected, StopCmd, NotifyPool, Notify, TypeOK
  <2> QED
    BY <2>2, <2>3, <2>4, <2>5 DEF Counted
<1>5. ASSUME NEW i \in Task, Done(i)
      PROVE  TypeInv'
  <2>1. Active' = Active \ {i} /\ i \in Active
    BY <1>0, <1>5 DEF Done, Active, TypeOK
  <2>2. Cardinality(Active') = Cardinality(Active) - 1
    BY <2>1, ActiveFinite, FS_RemoveElement
  <2>3. wg' = Cardinality(Active)'
    BY <1>0, <1>5, <2>2 DEF Done, Counted
  <2>4. IsFiniteSet(Active')
    BY <2>1, ActiveFinite, FS_RemoveElement
  <2>5. Cardinality(Active') \in Nat
    BY <2>4, FS_CardinalityType
  <2>6. wg' \in 0..Tasks
    BY <1>0, <1>5, <2>3, <2>5 DEF Done
  <2>7. TypeOK'
    BY <1>0, <1>5, <2>6 DEF Done, TypeOK
  <2>8. Counted'
    BY <1>0, <1>5, <2>3 DEF Done, TypeOK, Counted
  <2> QED
    BY <2>7, <2>8
<1>6. ASSUME NEW i \in Task, Fork(i) \/ ChildEnds(i)
      PROVE  TypeInv'
  <2>1. UNCHANGED <<started, gor, wg>>
    BY <1>6 DEF Fork, ChildEnds
  <2>2. \A j \in Task : child'[j] = "none" <=> child[j] = "none"
    BY <1>0, <1>6 DEF Fork, ChildEnds, TypeOK
  <2>3. Counted'
    BY <1>0, <2>1, <2>2 DEF Counted, Active
  <2>4. TypeOK'
    BY <1>0, <1>6 DEF Fork, ChildEnds, TypeOK
  <2> QED
    BY <2>3, <2>4
<1> QED
  BY <1>1, <1>2, <1>3, <1>4, <1>5, <1>6 DEF Next, Launcher, StartProcess

(***************************************************************************)
(* Every variable of the pool keeps its type: the counter of the wait      *)
(* group never falls below zero nor rises above the number of tasks.       *)
(***************************************************************************)
THEOREM TypeCorrect == Spec => []TypeOK
<1>1. TypeInv => TypeOK
  BY DEF TypeInv
<1> QED
  BY <1>1, TypeInit, TypeNext, PTL DEF Spec

-----------------------------------------------------------------------------
(***************************************************************************)
(* While runCmd waits in its select, whatever can make Run or StartProcess *)
(* stop something is owed to a child that ended, and Run has not left its  *)
(* loop before all tasks were started.                                     *)
(***************************************************************************)
SomeEnded == \E i \in Task : child[i] = "ended"

LoopFirst == at["run"] # "loop" => started = Tasks
CancelledByRun == cancelled /\ at["main"] = "select" => at["run"] # "loop"
StopIsOwed ==
    /\ at["main"] = "select"
    /\ token \/ at["run"] # "loop" \/ \E i \in Task : gor[i] \in Stopping
    => SomeEnded

EarlyInv == TypeInv /\ LoopFirst /\ CancelledByRun /\ StopIsOwed

LEMMA EarlyInit == Init => EarlyInv
<1> SUFFICES ASSUME Init PROVE EarlyInv
  OBVIOUS
<1>1. TypeInv
  BY TypeInit
<1>2. at["run"] = "loop"
  BY DEF Init, Callers
<1> QED
  BY <1>1, <1>2 DEF Init, EarlyInv, LoopFirst, CancelledByRun, StopIsOwed,
                    Stopping

LEMMA EarlyNext == EarlyInv /\ [Next]_vars => EarlyInv'
<1> SUFFICES ASSUME EarlyInv, [Next]_vars PROVE EarlyInv'
  OBVIOUS
<1>1. TypeInv' /\ TypeOK
  BY TypeNext DEF EarlyInv, TypeInv
<1>2. /\ at \in [Callers -> {"loop", "select", "stop", "wait", "parked",
                            "released", "stopped", "returned",
                            "interrupted", "panicked"}]
      /\ at["run"] # "select" /\ at["main"] # "loop"
      /\ started \in 0..Tasks
      /\ DOMAIN gor = Task /\ DOMAIN child = Task
  BY <1>1 DEF TypeOK
<1> USE TasksAssumption
     DEF EarlyInv, LoopFirst, CancelledByRun, StopIsOwed, SomeEnded, Callers, Goto
<1>3. SUFFICES (LoopFirst /\ CancelledByRun /\ StopIsOwed)'
  BY <1>1
<1>4. CASE UNCHANGED vars
  BY <1>4 DEF vars
<1>5. CASE StartTask
  BY <1>2, <1>5 DEF StartTask, Sleep, Stopping
<1>6. CASE RunNotified
  BY <1>2, <1>6 DEF RunNotified, Sleep
<1>7. CASE RunReturns
  BY <1>2, <1>7 DEF RunReturns
<1>8. CASE MainReturns
  BY <1>2, <1>8 DEF MainReturns
<1>9. CASE Signal
  BY <1>2, <1>9 DEF Signal, Sleep
<1>10. CASE Tick
  BY <1>10 DEF Tick
<1>11. ASSUME NEW c \in Callers, Cancel(c)
       PROVE  (LoopFirst /\ CancelledByRun /\ StopIsOwed)'
  BY <1>2, <1>11 DEF Cancel
<1>12. ASSUME NEW c \in Callers, Wait(c)
       PROVE  (LoopFirst /\ CancelledByRun /\ StopIsOwed)'
  BY <1>2, <1>12 DEF Wait
<1>13. ASSUME NEW c \in Callers, Resume(c)
       PROVE  (LoopFirst /\ CancelledByRun /\ StopIsOwed)'
  BY <1>2, <1>13 DEF Resume
<1>14. ASSUME NEW i \in Task, StartCmd(i)
       PROVE  (LoopFirst /\ CancelledByRun /\ StopIsOwed)'
  <2>1. UNCHANGED <<at, started, token, cancelled>>
    BY <1>14 DEF StartCmd
  <2>2. \A j \in Task : gor'[j] \in Stopping => gor[j] \in Stopping
    BY <1>2, <1>14 DEF StartCmd, Stopping
  <2>3. child[i] = "none"
    BY <1>14 DEF StartCmd, TypeInv, Counted
  <2>4. SomeEnded => SomeEnded'
    BY <1>2, <1>14, <2>3 DEF StartCmd
  <2> QED
    BY <2>1, <2>2, <2>4
<1>15. ASSUME NEW i \in Task, Selected(i)
       PROVE  (LoopFirst /\ CancelledByRun /\ StopIsOwed)'
  BY <1>2, <1>15 DEF Selected, Stopping
<1>16. ASSUME NEW i \in Task, StopCmd(i)
       PROVE  (LoopFirst /\ CancelledByRun /\ StopIsOwed)'
  <2>1. UNCHANGED <<at, started, token, cancelled>> /\ gor[i] \in Stopping
    BY <1>16 DEF StopCmd, Stopping
  <2>2. SomeEnded => SomeEnded'
    BY <1>2, <1>16 DEF StopCmd
  <2> QED
    BY <2>1, <2>2
<1>17. ASSUME NEW i \in Task, NotifyPool(i) \/ Done(i)
       PROVE  (LoopFirst /\ CancelledByRun /\ StopIsOwed)'
  <2>1. UNCHANGED <<started, cancelled, child>> /\ gor[i] \in Stopping
    BY <1>17 DEF NotifyPool, Done, Stopping
  <2>2. at'["main"] = "select" <=> at["main"] = "select"
    BY <1>2, <1>17 DEF NotifyPool, Done
  <2>3. at'["run"] = "loop" <=> at["run"] = "loop"
    BY <1>2, <1>17 DEF NotifyPool, Done
  <2> QED
    BY <2>1, <2>2, <2>3
<1>18. ASSUME NEW i \in Task, Fork(i) \/ ChildEnds(i)
       PROVE  (LoopFirst /\ CancelledByRun /\ StopIsOwed)'
  <2>1. UNCHANGED <<at, started, token, cancelled, gor>>
    BY <1>18 DEF Fork, ChildEnds
  <2>2. SomeEnded => SomeEnded'
    BY <1>2, <1>18 DEF Fork, ChildEnds
  <2> QED
    BY <2>1, <2>2
<1> QED
  BY <1>4, <1>5, <1>6, <1>7, <1>8, <1>9, <1>10, <1>11, <1>12, <1>13, <1>14,
     <1>15, <1>16, <1>17, <1>18 DEF Next, Launcher, StartProcess

(***************************************************************************)
(* Without a signal, Run and StartProcess stop no child before all tasks   *)
(* were started and one of them has ended.                                 *)
(***************************************************************************)
THEOREM NeverStoppedEarly == Spec => []NotStoppedEarly
<1>1. EarlyInv => NotStoppedEarly
  BY DEF EarlyInv, LoopFirst, CancelledByRun, StopIsOwed, SomeEnded,
         NotStoppedEarly
<1> QED
  BY <1>1, EarlyInit, EarlyNext, PTL DEF Spec

-----------------------------------------------------------------------------
(***************************************************************************)
(* A child that ran when the context was cancelled is signalled before its *)
(* StartProcess leaves the wait group, and Stop returns only when all      *)
(* those have left it.                                                     *)
(***************************************************************************)
PastCancel == {"wait", "parked", "released", "stopped", "returned", "interrupted",
               "panicked"}
PastWait == {"released", "stopped", "returned", "interrupted", "panicked"}

StopAfterEnd ==
    ~cancelled => \A i \in Task : gor[i] \in Stopping => child[i] = "ended"
SignalledFirst ==
    \A i \in atCancel : /\ child[i] \notin {"none", "forking"}
                        /\ gor[i] \in {"notify", "done", "gone"}
                             => child[i] # "running"
CancelFirst == \A c \in Callers : at[c] \in PastCancel => cancelled
WaitForAll ==
    (\E c \in Callers : at[c] \in PastWait) => \A i \in atCancel : gor[i] = "gone"

RunningInv ==
    TypeInv /\ StopAfterEnd /\ SignalledFirst /\ CancelFirst /\ WaitForAll

LEMMA RunningInit == Init => RunningInv
<1> SUFFICES ASSUME Init PROVE RunningInv
  OBVIOUS
<1>1. TypeInv
  BY TypeInit
<1>2. \A c \in Callers : at[c] \notin PastCancel
  BY DEF Init, Callers, PastCancel
<1> QED
  BY <1>1, <1>2 DEF Init, RunningInv, StopAfterEnd, SignalledFirst, CancelFirst,
                    WaitForAll, Stopping

\* When the wait group is empty, every task that has a child is gone.
LEMMA EmptyGroup ==
    ASSUME TypeInv, wg = 0, NEW i \in Task, child[i] # "none"
    PROVE  gor[i] = "gone"
<1>1. Active = {}
  BY ActiveFinite, FS_EmptySet DEF TypeInv, Counted
<1>2. gor[i] # "none"
  BY DEF TypeInv, Counted
<1> QED
  BY <1>1, <1>2 DEF Active

LEMMA RunningNext == RunningInv /\ [Next]_vars => RunningInv'
<1> SUFFICES ASSUME RunningInv, [Next]_vars PROVE RunningInv'
  OBVIOUS
<1> DEFINE Parts == StopAfterEnd /\ SignalledFirst /\ CancelFirst /\ WaitForAll
<1>1. TypeInv /\ TypeInv' /\ Parts
  BY TypeNext DEF RunningInv
<1>2. /\ at \in [Callers -> {"loop", "select", "stop", "wait", "parked",
                            "released", "stopped", "returned",
                            "interrupted", "panicked"}]
      /\ DOMAIN gor = Task /\ DOMAIN child = Task
      /\ atCancel \subseteq Task
      /\ started \in 0..Tasks
  BY <1>1 DEF TypeInv, TypeOK
<1>3. \A i \in Task : child[i] = "none" <=> gor[i] \in {"none", "launched"}
  BY <1>1 DEF TypeInv, Counted
<1> USE DEF StopAfterEnd, SignalledFirst, CancelFirst, WaitForAll, Goto
<1>4. CASE UNCHANGED vars
  BY <1>1, <1>4 DEF vars, RunningInv
<1>5. CASE StartTask
  <2>1. started + 1 \in Task /\ gor[started + 1] = "none"
    BY <1>1, <1>2, <1>5, TasksAssumption DEF StartTask, Task, TypeInv, Counted
  <2>2. UNCHANGED <<child, cancelled, atCancel>>
    BY <1>5 DEF StartTask
  <2>3. \A c \in Callers : at'[c] = at[c]
    BY <1>2, <1>5 DEF StartTask, Sleep, Callers
  <2>4. gor' = [gor EXCEPT ![started + 1] = "launched"]
    BY <1>5 DEF StartTask
  <2>5. StopAfterEnd'
    BY <1>1, <1>2, <2>1, <2>2, <2>4 DEF Stopping
  <2>6. SignalledFirst' /\ WaitForAll'
    BY <1>1, <1>2, <2>1, <2>2, <2>3, <2>4
  <2> QED
    BY <1>1, <2>2, <2>3, <2>5, <2>6 DEF RunningInv
<1>6. CASE RunNotified \/ RunReturns \/ MainReturns \/ Signal \/ Tick
           \/ \E c \in Callers : Resume(c)
  <2>1. UNCHANGED <<gor, child, cancelled, atCancel>>
    BY <1>6 DEF RunNotified, RunReturns, MainReturns, Signal, Tick, Resume
  <2>2. (\E c \in Callers : at'[c] \in PastCancel) =>
            \E c \in Callers : at[c] \in PastCancel
    <3> USE <1>2 DEF PastCancel, Callers
    <3>1. CASE RunNotified \/ Signal
      BY <3>1 DEF RunNotified, Signal, Sleep
    <3>2. CASE RunReturns
      BY <3>2 DEF RunReturns
    <3>3. CASE MainReturns
      BY <3>3 DEF MainReturns
    <3>4. CASE Tick
      BY <3>4 DEF Tick
    <3>5. CASE \E c \in Callers : Resume(c)
      BY <3>5 DEF Resume
    <3> QED
      BY <1>6, <3>1, <3>2, <3>3, <3>4, <3>5
  <2>3. (\E c \in Callers : at'[c] \in PastWait) =>
            \E c \in Callers : at[c] \in PastWait
    <3> USE <1>2 DEF PastWait, Callers
    <3>1. CASE RunNotified \/ Signal
      BY <3>1 DEF RunNotified, Signal, Sleep
    <3>2. CASE RunReturns
      BY <3>2 DEF RunReturns
    <3>3. CASE MainReturns
      BY <3>3 DEF MainReturns
    <3>4. CASE Tick
      BY <3>4 DEF Tick
    <3>5. CASE \E c \in Callers : Resume(c)
      BY <3>5 DEF Resume
    <3> QED
      BY <1>6, <3>1, <3>2, <3>3, <3>4, <3>5
  <2> QED
    BY <1>1, <2>1, <2>2, <2>3 DEF RunningInv
<1>7. ASSUME NEW c \in Callers, Cancel(c)
      PROVE  RunningInv'
  <2>1. cancelled' /\ UNCHANGED <<gor, child>>
    BY <1>7 DEF Cancel
  <2>2. \A d \in Callers : at'[d] \in PastWait => at[d] \in PastWait
    BY <1>2, <1>7 DEF Cancel, PastWait, Callers
  <2>3. CASE cancelled
    <3>1. UNCHANGED atCancel
      BY <1>7, <2>3 DEF Cancel
    <3> QED
      BY <1>1, <2>1, <2>2, <3>1 DEF RunningInv
  <2>4. CASE ~cancelled
    <3>1. \A i \in atCancel' : i \in Task /\ child[i] = "running"
      BY <1>7, <2>4 DEF Cancel
    <3>2. \A i \in atCancel' : gor[i] \notin Stopping
      BY <1>1, <2>4, <3>1
    <3>3. SignalledFirst'
      BY <2>1, <3>1, <3>2 DEF Stopping
    <3>4. WaitForAll'
      BY <1>1, <2>2, <2>4 DEF PastCancel, PastWait
    <3> QED
      BY <1>1, <2>1, <3>3, <3>4 DEF RunningInv
  <2> QED
    BY <2>3, <2>4
<1>8. ASSUME NEW c \in Callers, Wait(c)
      PROVE  RunningInv'
  <2>1. UNCHANGED <<gor, child, cancelled, atCancel>>
    BY <1>8 DEF Wait
  <2>2. \A d \in Callers : at'[d] \in PastCancel => at[d] \in PastCancel
    BY <1>2, <1>8 DEF Wait, PastCancel
  <2>3. CASE wg = 0
    <3>1. \A i \in atCancel : gor[i] = "gone"
      BY <1>1, <1>2, <2>3, EmptyGroup
    <3> QED
      BY <1>1, <2>1, <2>2, <3>1 DEF RunningInv
  <2>4. CASE wg # 0
    <3>1. \A d \in Callers : at'[d] \in PastWait => at[d] \in PastWait
      BY <1>2, <1>8, <2>4 DEF Wait, PastWait
    <3> QED
      BY <1>1, <2>1, <2>2, <3>1 DEF RunningInv
  <2> QED
    BY <2>3, <2>4
<1>9. ASSUME NEW i \in Task, StartCmd(i) \/ Selected(i) \/ StopCmd(i) \/ NotifyPool(i)
      PROVE  RunningInv'
  <2>1. UNCHANGED <<at, cancelled, atCancel>>
    BY <1>9 DEF StartCmd, Selected, StopCmd, NotifyPool
  <2>2. gor[i] # "gone" /\ \A j \in Task : j # i => gor'[j] = gor[j] /\ child'[j] = child[j]
    BY <1>2, <1>9 DEF StartCmd, Selected, StopCmd, NotifyPool
  <2>3. ~cancelled /\ gor'[i] \in Stopping => child'[i] = "ended"
    BY <1>1, <1>2, <1>9 DEF StartCmd, Selected, StopCmd, NotifyPool, Stopping
  <2>4. i \in atCancel => /\ child'[i] \notin {"none", "forking"}
                          /\ gor'[i] \in {"notify", "done", "gone"}
                               => child'[i] # "running"
    BY <1>1, <1>2, <1>3, <1>9 DEF StartCmd, Selected, StopCmd, NotifyPool
  <2>5. StopAfterEnd'
    BY <1>1, <2>1, <2>2, <2>3
  <2>6. SignalledFirst'
    BY <1>1, <1>2, <2>1, <2>2, <2>4
  <2>7. WaitForAll'
    BY <1>1, <1>2, <2>1, <2>2
  <2> QED
    BY <1>1, <2>1, <2>5, <2>6, <2>7 DEF RunningInv
<1>10. ASSUME NEW i \in Task, Done(i)
       PROVE  RunningInv'
  <2>1. /\ UNCHANGED <<cancelled, atCancel, child>>
        /\ gor' = [gor EXCEPT ![i] = "gone"]
        /\ gor[i] = "done"
    BY <1>10 DEF Done
  <2>2. StopAfterEnd' /\ SignalledFirst'
    BY <1>1, <1>2, <2>1 DEF Stopping
  <2>3. CancelFirst'
    BY <1>1, <1>2, <1>10, <2>1 DEF Done, PastCancel
  <2>4. CASE wg = 1
    <3>1. wg' = 0
      BY <1>10, <2>4 DEF Done
    <3>2. \A j \in Task : child'[j] # "none" => gor'[j] = "gone"
      <4>1. Active' = {}
        <5>1. Active' = Active \ {i} /\ i \in Active
          BY <1>2, <2>1 DEF Active
        <5>2. Cardinality(Active') = Cardinality(Active) - 1 /\ IsFiniteSet(Active')
          BY <5>1, ActiveFinite, FS_RemoveElement
        <5>3. wg = Cardinality(Active)
          BY <1>1 DEF TypeInv, Counted
        <5>4. Cardinality(Active') = 0
          BY <2>4, <5>2, <5>3
        <5> QED
          BY <5>2, <5>4, FS_EmptySet
      <4>2. \A j \in Task : gor'[j] \in {"none", "gone"}
        BY <4>1 DEF Active
      <4> QED
        BY <1>1, <4>2 DEF TypeInv, Counted
    <3> QED
      BY <1>1, <1>2, <2>1, <2>2, <2>3, <3>2 DEF RunningInv
  <2>5. CASE wg # 1
    <3>1. \A c \in Callers : at'[c] = at[c]
      BY <1>10, <2>5 DEF Done
    <3> QED
      BY <1>1, <1>2, <2>1, <2>2, <2>3, <3>1 DEF RunningInv
  <2> QED
    BY <2>4, <2>5
<1>11. ASSUME NEW i \in Task, Fork(i) \/ ChildEnds(i)
       PROVE  RunningInv'
  <2>1. UNCHANGED <<at, cancelled, atCancel, gor>>
    BY <1>11 DEF Fork, ChildEnds
  <2>2. \A j \in Task : j # i => child'[j] = child[j]
    BY <1>2, <1>11 DEF Fork, ChildEnds
  <2>3. child[i] = "ended" => FALSE
    BY <1>11 DEF Fork, ChildEnds
  <2>4. i \in atCancel => child'[i] = "ended"
    BY <1>1, <1>2, <1>11 DEF Fork, ChildEnds
  <2>5. StopAfterEnd'
    BY <1>1, <2>1, <2>2, <2>3
  <2>6. SignalledFirst'
    BY <1>1, <1>2, <2>1, <2>2, <2>4
  <2> QED
    BY <1>1, <2>1, <2>5, <2>6 DEF RunningInv
<1> QED
  BY <1>4, <1>5, <1>6, <1>7, <1>8, <1>9, <1>10, <1>11
     DEF Next, Launcher, StartProcess

-----------------------------------------------------------------------------
(***************************************************************************)
(* Run leaves its loop 200 ms after the last start, when every child       *)
(* exists: when it cancels the context, no child is still to come.         *)
(***************************************************************************)
AllThere == \A i \in Task : /\ gor[i] \notin {"none", "launched"}
                           /\ child[i] \notin {"none", "forking"}
ThereInTime ==
    at["run"] # "loop" \/ (started = Tasks /\ timer["run"] < StartGap) => AllThere
RunningKnown ==
    at["main"] \in {"select", "returned"} /\ cancelled =>
        \A i \in Task : child[i] = "running" => i \in atCancel
RunFirst == at["main"] = "returned" => at["run"] = "returned"

StoppedInv == EarlyInv /\ RunningInv /\ ThereInTime /\ RunningKnown /\ RunFirst

LEMMA StoppedInit == Init => StoppedInv
<1> SUFFICES ASSUME Init PROVE StoppedInv
  OBVIOUS
<1>1. at["run"] = "loop" /\ at["main"] = "select" /\ started # Tasks /\ ~cancelled
  BY TasksAssumption DEF Init, Callers
<1> QED
  BY <1>1, EarlyInit, RunningInit DEF StoppedInv, ThereInTime, RunningKnown, RunFirst

LEMMA StoppedNext == StoppedInv /\ [Next]_vars => StoppedInv'
<1> SUFFICES ASSUME StoppedInv, [Next]_vars PROVE StoppedInv'
  OBVIOUS
<1> DEFINE Parts == ThereInTime /\ RunningKnown /\ RunFirst
<1>1. EarlyInv /\ RunningInv /\ EarlyInv' /\ RunningInv' /\ Parts
  BY EarlyNext, RunningNext DEF StoppedInv
<1>2. /\ at \in [Callers -> {"loop", "select", "stop", "wait", "parked",
                            "released", "stopped", "returned",
                            "interrupted", "panicked"}]
      /\ at["run"] # "select" /\ at["main"] # "loop"
      /\ timer \in [Callers -> 0..StartGap]
      /\ started \in 0..Tasks
      /\ DOMAIN gor = Task /\ DOMAIN child = Task
      /\ "run" \in Callers /\ "main" \in Callers /\ "run" # "main"
  BY <1>1 DEF EarlyInv, TypeInv, TypeOK, Callers
<1>3. \A i \in Task : gor[i] = "none" <=> i > started
  BY <1>1 DEF EarlyInv, TypeInv, Counted
<1>4. SUFFICES Parts'
  BY <1>1 DEF StoppedInv
<1> USE TasksAssumption DEF ThereInTime, RunningKnown, RunFirst, StartGap
<1>5. CASE UNCHANGED vars
  BY <1>1, <1>5 DEF vars, AllThere
<1>6. CASE StartTask
  <2>1. UNCHANGED <<child, cancelled, atCancel>> /\ timer'["run"] = StartGap
        /\ at["run"] = "loop" /\ at'["run"] = "loop" /\ at'["main"] = at["main"]
    BY <1>2, <1>6 DEF StartTask, Sleep, Goto
  <2> QED
    BY <1>1, <2>1
<1>7. CASE RunNotified \/ Signal
  <2>1. UNCHANGED <<started, gor, child, cancelled, atCancel>>
    BY <1>7 DEF RunNotified, Signal
  <2>2. AllThere => AllThere'
    BY <2>1 DEF AllThere
  <2>3. CASE RunNotified
    <3>1. started = Tasks /\ timer["run"] = 0 /\ at'["run"] = "stop" /\ at'["main"] = at["main"]
          /\ at["run"] = "loop"
      BY <1>2, <2>3 DEF RunNotified, Sleep, Goto
    <3> QED
      BY <1>1, <2>1, <2>2, <3>1
  <2>4. CASE Signal
    <3>1. at'["run"] = at["run"] /\ at'["main"] = "stop" /\ timer'["run"] = timer["run"]
      BY <1>2, <2>4 DEF Signal, Sleep, Goto
    <3> QED
      BY <1>1, <2>1, <2>2, <3>1
  <2> QED
    BY <1>7, <2>3, <2>4
<1>8. CASE RunReturns \/ MainReturns \/ \E c \in Callers : Wait(c) \/ Resume(c)
  <2>1. UNCHANGED <<timer, started, gor, child, cancelled, atCancel>>
    BY <1>8 DEF RunReturns, MainReturns, Wait, Resume
  <2>2. AllThere => AllThere'
    BY <2>1 DEF AllThere
  <2>3. at'["run"] = "loop" <=> at["run"] = "loop"
    BY <1>2, <1>8 DEF RunReturns, MainReturns, Wait, Resume, Goto
  <2>4. at'["main"] = "select" => at["main"] = "select"
    BY <1>2, <1>8 DEF RunReturns, MainReturns, Wait, Resume, Goto
  <2>5. at'["main"] = "returned" =>
            at["main"] \in {"select", "returned"} /\ at'["run"] = "returned"
    BY <1>1, <1>2, <1>8 DEF RunReturns, MainReturns, Wait, Resume, Goto
  <2> QED
    BY <1>1, <2>1, <2>2, <2>3, <2>4, <2>5
<1>9. CASE Tick
  <2>1. UNCHANGED <<at, started, gor, child, cancelled, atCancel>>
    BY <1>9 DEF Tick
  <2>2. AllThere => AllThere'
    BY <2>1 DEF AllThere
  <2>3. CASE started = Tasks
    <3>1. \A i \in Task : gor[i] # "none"
      BY <1>3, <2>3 DEF Task
    <3>2. \A i \in Task : gor[i] # "launched" /\ child[i] # "forking"
      BY <1>9 DEF Tick, Busy
    <3>3. \A i \in Task : child[i] # "none"
      BY <1>1, <3>1, <3>2 DEF EarlyInv, TypeInv, Counted
    <3>4. AllThere
      BY <3>1, <3>2, <3>3 DEF AllThere
    <3> QED
      BY <1>1, <2>1, <2>2, <3>4
  <2>4. CASE started # Tasks
    BY <1>1, <2>1, <2>2, <2>4
  <2> QED
    BY <2>3, <2>4
<1>10. ASSUME NEW c \in Callers, Cancel(c)
       PROVE  Parts'
  <2>1. UNCHANGED <<timer, started, gor, child>> /\ at[c] = "stop"
        /\ at' = [at EXCEPT ![c] = "wait"]
    BY <1>10 DEF Cancel, Goto
  <2>2. AllThere => AllThere'
    BY <2>1 DEF AllThere
  <2>3. at'["run"] = "loop" <=> at["run"] = "loop"
    BY <1>2, <2>1
  <2>4. at'["main"] \in {"select", "returned"} => at'["main"] = at["main"]
    BY <1>2, <2>1
  <2>5. RunFirst'
    BY <1>1, <1>2, <2>1
  <2>6. CASE cancelled
    <3>1. cancelled' /\ atCancel' = atCancel
      BY <1>10, <2>6 DEF Cancel
    <3> QED
      BY <1>1, <2>1, <2>2, <2>3, <2>4, <2>5, <2>6, <3>1
  <2>7. CASE ~cancelled
    <3>1. atCancel' = {i \in Task : child[i] = "running"}
      BY <1>10, <2>7 DEF Cancel
    <3> QED
      BY <1>1, <2>1, <2>2, <2>3, <2>5, <3>1
  <2> QED
    BY <2>6, <2>7
<1>11. ASSUME NEW i \in Task, StartCmd(i) \/ Selected(i) \/ StopCmd(i) \/ NotifyPool(i) \/ Done(i)
       PROVE  Parts'
  <2>1. UNCHANGED <<timer, started, cancelled, atCancel>>
    BY <1>11 DEF StartCmd, Selected, StopCmd, NotifyPool, Done
  <2>2. AllThere => AllThere'
    BY <1>2, <1>11 DEF StartCmd, Selected, StopCmd, NotifyPool, Done, AllThere
  <2>3. at'["run"] = "loop" <=> at["run"] = "loop"
    BY <1>2, <1>11 DEF StartCmd, Selected, StopCmd, NotifyPool, Done
  <2>4. at'["main"] \in {"select", "returned"} <=> at["main"] \in {"select", "returned"}
    BY <1>2, <1>11 DEF StartCmd, Selected, StopCmd, NotifyPool, Done
  <2>5. RunFirst'
    BY <1>1, <1>2, <1>11 DEF StartCmd, Selected, StopCmd, NotifyPool, Done
  <2>6. \A j \in Task : child'[j] = "running" => child[j] = "running"
    BY <1>2, <1>11 DEF StartCmd, Selected, StopCmd, NotifyPool, Done
  <2> QED
    BY <1>1, <2>1, <2>2, <2>3, <2>4, <2>5, <2>6
<1>12. ASSUME NEW i \in Task, Fork(i) \/ ChildEnds(i)
       PROVE  Parts'
  <2>1. UNCHANGED <<at, timer, started, gor, cancelled, atCancel>>
    BY <1>12 DEF Fork, ChildEnds
  <2>2. AllThere => AllThere'
    BY <1>2, <1>12 DEF Fork, ChildEnds, AllThere
  \* A child that comes into being after the cancellation is of a signal.
  <2>3. RunningKnown'
    <3>1. CASE Fork(i)
      <4>1. ~AllThere
        BY <3>1 DEF Fork, AllThere
      <4>2. ~(at["main"] \in {"select", "returned"} /\ cancelled)
        BY <1>1, <4>1 DEF EarlyInv, CancelledByRun
      <4> QED
        BY <2>1, <4>2
    <3>2. CASE ChildEnds(i)
      BY <1>1, <1>2, <2>1, <3>2 DEF ChildEnds
    <3> QED
      BY <1>12, <3>1, <3>2
  <2> QED
    BY <1>1, <2>1, <2>2, <2>3
<1> QED
  BY <1>5, <1>6, <1>7, <1>8, <1>9, <1>10, <1>11, <1>12 DEF Next, Launcher, StartProcess

(***************************************************************************)
(* However ffrun ends, also when Stop was called while Run was starting    *)
(* tasks, and also by a panic of the wait group: every child that ran when *)
(* the context was cancelled has ended or was signalled.  When Run has     *)
(* ended it because a process had ended, that is every child.              *)
(***************************************************************************)
THEOREM NoneLeftRunning == Spec => []ChildrenStopped
<1>1. StoppedInv => RunningChildrenStopped
  BY DEF StoppedInv, RunningInv, WaitForAll, SignalledFirst, RunningChildrenStopped,
         Ended, PastWait, Callers
<1>2. StoppedInv /\ at["main"] = "returned" => cancelled
  BY DEF StoppedInv, RunningInv, RunFirst, CancelFirst, PastCancel, Callers
<1>3. StoppedInv => ChildrenStopped
  BY <1>1, <1>2 DEF StoppedInv, RunningKnown, ChildrenStopped, RunningChildrenStopped, Ended
<1> QED
  BY <1>3, StoppedInit, StoppedNext, PTL DEF Spec
=============================================================================
