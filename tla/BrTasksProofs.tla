---------------------------- MODULE BrTasksProofs ----------------------------
(***************************************************************************)
(* Theorems about task management (BrTasks).                               *)
(***************************************************************************)
EXTENDS BrTasks, BrCpuProofs

(***************************************************************************)
(* A call of br_task_resume or br_task_create that has left its first      *)
(* critical section remembers a slot: br_sched_ready is never applied to   *)
(* the null pointer.                                                       *)
(***************************************************************************)
TargetChosen == \A t \in Tasks : pc[t] # "app" => target[t] \in Tasks

TypeInv == TypeOK /\ BootQuiet /\ TargetChosen

\* Initially every variable has a value of its type ...
LEMMA InitTypes == Init => TypeInv
<1> SUFFICES ASSUME Init PROVE TypeInv
  OBVIOUS
<1>1. CpuTypes
  BY CpuInitTypes DEF Init
<1> QED BY <1>1 DEF Init, CpuInit, CpuTypes, TypeInv, TypeOK, TargetChosen

\* ... every step keeps that.
LEMMA NextTypes == TypeInv /\ [Next]_vars => TypeInv'
<1> SUFFICES ASSUME TypeInv, [Next]_vars PROVE TypeInv'
  OBVIOUS
<1> USE DEF TypeInv, TypeOK, TargetChosen
<1>1. CASE CpuNext /\ UNCHANGED target
  BY <1>1, CpuNextTypes, CpuNextFrame DEF CpuTypes
<1>2. ASSUME NEW t \in Tasks, NEW u \in Tasks, Suspend(t, u)
      PROVE  TypeInv'
  <2>1. k' \in Kernel
    BY <1>2, TaskSectionsType DEF Suspend, CpuTypeOK
  <2>2. k'.current = k.current
    BY <1>2, TaskFrame DEF Suspend
  <2>3. k.current # NULL
    BY <1>2, ListAssumption DEF Suspend, InApp, Running
  <2> QED BY <1>2, <2>1, <2>2, <2>3 DEF Suspend, CpuTypeOK, BootQuiet, Booting
<1>3. ASSUME NEW t \in Tasks, NEW u \in Tasks, ResumeCheck(t, u)
      PROVE  TypeInv'
  BY <1>3 DEF ResumeCheck, CpuTypeOK, BootQuiet, Booting
<1>4. ASSUME NEW t \in Tasks, ResumeReady(t) \/ CreateReady(t)
      PROVE  TypeInv'
  <2>1. target[t] \in Tasks
    BY <1>4 DEF ResumeReady, CreateReady
  <2>2. k' = br_sched_ready(k, target[t]) /\ k.current # NULL
    BY <1>4, ListAssumption DEF ResumeReady, CreateReady, Running
  <2>3. k' \in Kernel /\ k'.current = k.current
    BY <2>1, <2>2, ReadyType, SchedFrame DEF CpuTypeOK
  <2>4. resched' \in [Tasks -> BOOLEAN]
    BY <1>4 DEF ResumeReady, CreateReady, CpuTypeOK
  <2> QED BY <1>4, <2>2, <2>3, <2>4 DEF ResumeReady, CreateReady, CpuTypeOK, BootQuiet, Booting
<1>5. ASSUME NEW t \in Tasks, NEW prio \in AppPriorities, CreateSlot(t, prio)
      PROVE  TypeInv'
  <2> DEFINE u == FirstFree(k)
  <2>1. u \in Tasks /\ prio \in Priorities
    BY <1>5, FirstFreeFound, CpuAssumption DEF CreateSlot
  <2>2. k' = InitTcb(k, u, prio)
    BY <1>5 DEF CreateSlot
  <2>3. k' \in Kernel
    BY <2>1, <2>2, TaskSectionsType DEF CpuTypeOK
  <2>4. k'.current = k.current /\ k.current # NULL
    BY <1>5, <2>2, ListAssumption DEF InitTcb, CreateSlot, InApp, Running
  <2>5. /\ pc' = [pc EXCEPT ![t] = "create", ![u] = "app"]
        /\ obj' = [obj EXCEPT ![u] = NULL]
        /\ resched' = [resched EXCEPT ![u] = FALSE]
        /\ target' = [target EXCEPT ![t] = u, ![u] = NULL]
        /\ UNCHANGED isr
    BY <1>5 DEF CreateSlot
  <2> HIDE DEF u
  <2>6. TargetChosen'
    BY <2>1, <2>5
  <2> QED BY <2>1, <2>3, <2>4, <2>5, <2>6 DEF CpuTypeOK, BootQuiet, Booting
<1>6. ASSUME NEW t \in Tasks, NEW u \in Tasks, Delete(t, u)
      PROVE  TypeInv'
  <2>1. k' \in Kernel
    BY <1>6, TaskSectionsType DEF Delete, CpuTypeOK
  <2>2. k'.current = k.current
    BY <1>6, TaskFrame DEF Delete
  <2>3. k.current # NULL
    BY <1>6, ListAssumption DEF Delete, InApp, Running
  <2> QED BY <1>6, <2>1, <2>2, <2>3 DEF Delete, CpuTypeOK, BootQuiet, Booting
<1>7. CASE UNCHANGED vars
  BY <1>7 DEF vars, CpuTypeOK, BootQuiet, Booting
<1> QED BY <1>1, <1>2, <1>3, <1>4, <1>5, <1>6, <1>7 DEF Next, TasksNext

\* The processor never goes back to main().
LEMMA StaysStarted ==
    ASSUME TypeInv, Next, k.current # NULL
    PROVE  k'.current # NULL
<1>1. k \in Kernel /\ k.current \in Tasks
  BY DEF TypeInv, TypeOK, CpuTypeOK, Kernel
<1>2. CASE CpuNext
  BY <1>1, <1>2, CpuStaysStarted
<1>3. CASE TasksNext
  <2>1. PICK t \in Tasks :
          \/ \E u \in Tasks : Suspend(t, u)
          \/ \E u \in Tasks : ResumeCheck(t, u)
          \/ ResumeReady(t)
          \/ \E prio \in AppPriorities : CreateSlot(t, prio)
          \/ CreateReady(t)
          \/ \E u \in Tasks : Delete(t, u)
    BY <1>3 DEF TasksNext
  <2>2. CASE \E u \in Tasks : Suspend(t, u)
    BY <1>1, <2>2, TaskFrame DEF Suspend
  <2>3. CASE \E u \in Tasks : ResumeCheck(t, u)
    BY <2>3 DEF ResumeCheck
  <2>4. CASE ResumeReady(t) \/ CreateReady(t)
    BY <2>4, SchedFrame DEF ResumeReady, CreateReady
  <2>5. CASE \E prio \in AppPriorities : CreateSlot(t, prio)
    BY <2>5, TaskFrame DEF CreateSlot
  <2>6. CASE \E u \in Tasks : Delete(t, u)
    BY <2>6, TaskFrame DEF Delete
  <2> QED BY <2>1, <2>2, <2>3, <2>4, <2>5, <2>6
<1> QED BY <1>2, <1>3 DEF Next

\* Every variable of task management always has a value of its type.
THEOREM TypeCorrect == Spec => []TypeOK
<1>1. TypeInv => TypeOK
  BY DEF TypeInv
<1> QED BY <1>1, InitTypes, NextTypes, PTL DEF Spec

-------------------------------------------------------------------------------
(***************************************************************************)
(* The lists, their order and the alarm.                                   *)
(*                                                                         *)
(* They are intact under a discipline that the code does not enforce: one  *)
(* task at most manages others (br_task_resume tests the state outside of  *)
(* its critical section, and br_task_create readies the slot in a second   *)
(* one), nobody suspends a BLOCKED task or names the idle task, nobody     *)
(* blocks with the scheduler locked, and no interrupt wakes a task between *)
(* its blocking section and its call of reschedule.                        *)
(***************************************************************************)
Disciplined ==
    /\ Careful /\ ~SuspendBlocked /\ Idle \notin Victims
    /\ \A a, b \in Managers : a = b

\* What a manager is about to ready is neither on a list nor running, and
\* nobody else touches it in between.
CallsInProgress ==
    \A t \in Tasks : pc[t] # "app" =>
        /\ t \in Managers
        /\ k.current # NULL /\ target[t] # k.current
        /\ pc[t] = "resume" => k.state[target[t]] = "SUSPENDED"
        /\ pc[t] = "create" => k.state[target[t]] = "INACTIVE"

\* A slot that is in use, or that br_task_create has chosen.
Present(u) ==
    \/ k.state[u] # "INACTIVE"
    \/ \E x \in Tasks : pc[x] = "create" /\ target[x] = u

NobodyAppears == \A u \in Tasks : Present(u)' => Present(u)

TasksSound ==
    /\ TypeInv /\ CpuSound /\ InOrder /\ OnTime /\ CallsInProgress
    /\ \A t \in Tasks : obj[t] = NULL

LEMMA InitSound == ASSUME Init, Disciplined PROVE TasksSound
<1>1. TypeInv /\ CpuSound
  BY InitTypes, CpuInitSound DEF Init, Disciplined
<1>2. \A t \in Tasks : obj[t] = NULL /\ pc[t] = "app"
  BY DEF Init, CpuInit, InitialKernel
<1>3. InOrder /\ OnTime
  BY InitOrder DEF Init
<1> QED BY <1>1, <1>2, <1>3 DEF TasksSound, CallsInProgress

\* What a step of a call that keeps the lists in order leaves to show.
Goes(k2, o2) ==
    /\ Sound(k2, o2) /\ k2.current = k.current
    /\ KeepsOrder(k, obj, k2, o2) /\ KeepsTime(k, obj, k2, o2)

LEMMA StepSound ==
    ASSUME TasksSound, TypeInv', Goes(k', obj'), isr' = isr,
           WindowCloses(k', resched'), CallsInProgress',
           \A t \in Tasks : obj'[t] = NULL
    PROVE  TasksSound'
<1>1. CpuSound'
  BY DEF CpuSound, Goes
<1>2. InOrder'
  BY OrderStep DEF TasksSound, Goes
<1>3. OnTime'
  BY TimedKept DEF TasksSound, OnTime, Goes
<1> QED BY <1>1, <1>2, <1>3 DEF TasksSound

\* The caller is RUNNING between two calls.
LEMMA Caller ==
    ASSUME TasksSound, NEW t \in Tasks, InApp(t)
    PROVE  /\ k \in Kernel /\ Sound(k, obj) /\ Levels(k, ReadySet(k))
           /\ k.current = t /\ k.state[t] = "RUNNING" /\ t # Idle
           /\ pc[t] = "app" /\ ~resched[t]
           /\ resched \in [Tasks -> BOOLEAN]
           /\ \A x \in Tasks : k.state[x] = "RUNNING" => x = t
<1>1. CpuTypeOK /\ CpuSound
  BY DEF TasksSound, TypeInv, TypeOK
<1>2. Running(t) /\ ~resched[t] /\ pc[t] = "app" /\ t # Idle
  BY DEF InApp
<1>3. k.current = t /\ k.state[t] = "RUNNING"
  BY <1>1, <1>2, AppRuns
<1> QED BY <1>1, <1>2, <1>3 DEF TasksSound, InOrder, CpuTypeOK, CpuSound, Sound, OneRunner

\* While the only manager makes a call, no other call is in progress.
LEMMA OnlyCall ==
    ASSUME TasksSound, Disciplined, NEW t \in Managers, NEW x \in Tasks, x # t
    PROVE  pc[x] = "app"
BY DEF TasksSound, CallsInProgress, Disciplined

LEMMA SuspendKeeps ==
    ASSUME TasksSound, TypeInv', Disciplined,
           NEW t \in Tasks, NEW u \in Tasks, Suspend(t, u)
    PROVE  TasksSound' /\ NobodyAppears
<1>1. /\ k' = SuspendSection(k, u) /\ InApp(t)
      /\ resched' = [resched EXCEPT ![t] = u = t]
      /\ UNCHANGED <<pc, obj, isr, target>>
      /\ u # t => t \in Managers /\ u \in Victims
      /\ u = t => MayBlock
      /\ k.state[u] \notin {"INACTIVE", "BLOCKED"}
  BY DEF Suspend, Disciplined
<1>2. /\ k \in Kernel /\ Sound(k, obj) /\ Levels(k, ReadySet(k))
      /\ k.current = t /\ k.state[t] = "RUNNING" /\ t # Idle /\ pc[t] = "app"
      /\ resched \in [Tasks -> BOOLEAN]
      /\ \A x \in Tasks : k.state[x] = "RUNNING" => x = t
  BY <1>1, Caller
<1>3. u # Idle
  BY <1>1, <1>2 DEF Disciplined
<1>4. k.state[u] \in {"READY", "RUNNING", "SUSPENDED"}
  BY <1>1, <1>2 DEF Kernel, States
<1>5. k.state[u] = "RUNNING" => k.lock = 0
  <2>1. k.lock \in 0 .. MaxLock
    BY <1>2 DEF Kernel
  <2>2. u = t => ~(k.lock > 0)
    BY <1>1 DEF MayBlock, Disciplined, Careful
  <2> QED BY <1>2, <2>1, <2>2, KernelAssumption
<1>6. /\ Goes(k', obj) /\ k'.state = [k.state EXCEPT ![u] = "SUSPENDED"]
  BY <1>1, <1>2, <1>3, <1>4, <1>5, SuspendSound DEF Goes
<1>7. \A x \in Tasks : k'.state[x] = IF x = u THEN "SUSPENDED" ELSE k.state[x]
  BY <1>2, <1>6 DEF Kernel
<1>8. WindowCloses(k', resched')
  <2>1. u = t => resched'[k'.current]
    BY <1>1, <1>2, <1>6 DEF Goes
  <2>2. u # t => k'.state[k'.current] = "RUNNING"
    BY <1>2, <1>6, <1>7 DEF Goes
  <2> QED BY <2>1, <2>2 DEF WindowCloses
<1>9. CallsInProgress'
  <2>1. \A x \in Tasks : pc[x] # "app" => u = t
    BY <1>1, <1>2, OnlyCall
  <2>2. \A x \in Tasks : pc[x] # "app" => target[x] \in Tasks
    BY DEF TasksSound, TypeInv, TargetChosen
  <2> QED BY <1>1, <1>2, <1>6, <1>7, <2>1, <2>2 DEF TasksSound, CallsInProgress, Goes
<1>10. NobodyAppears
  BY <1>1, <1>4, <1>7 DEF NobodyAppears, Present
<1> QED BY <1>1, <1>6, <1>8, <1>9, <1>10, StepSound DEF TasksSound

LEMMA ResumeCheckKeeps ==
    ASSUME TasksSound, TypeInv', Disciplined,
           NEW t \in Tasks, NEW u \in Tasks, ResumeCheck(t, u)
    PROVE  TasksSound' /\ NobodyAppears
<1>1. /\ InApp(t) /\ t \in Managers /\ k.state[u] = "SUSPENDED"
      /\ pc' = [pc EXCEPT ![t] = "resume"]
      /\ target' = [target EXCEPT ![t] = u]
      /\ UNCHANGED <<k, obj, resched, isr>>
  BY DEF ResumeCheck
<1>2. k.current = t /\ k.state[t] = "RUNNING"
  BY <1>1, Caller
<1>3. CallsInProgress'
  <2>1. \A x \in Tasks : x # t => pc[x] = "app"
    BY <1>1, OnlyCall
  <2>2. \A x \in Tasks : pc'[x] # "app" => x = t /\ pc'[x] = "resume" /\ target'[x] = u
    BY <1>1, <2>1 DEF TasksSound, TypeInv, TypeOK
  <2> QED BY <1>1, <1>2, <2>2, ListAssumption DEF CallsInProgress
<1>4. NobodyAppears
  <2>1. \A x \in Tasks : pc'[x] = "create" => pc[x] = "create" /\ target'[x] = target[x]
    BY <1>1 DEF TasksSound, TypeInv, TypeOK
  <2> QED BY <1>1, <2>1 DEF NobodyAppears, Present
<1> QED BY <1>1, <1>3, <1>4 DEF TasksSound, CpuSound, InOrder, OnTime

LEMMA ReadyKeeps ==
    ASSUME TasksSound, TypeInv', Disciplined,
           NEW t \in Tasks, ResumeReady(t) \/ CreateReady(t)
    PROVE  TasksSound' /\ NobodyAppears
<1> DEFINE u == target[t]
<1>1. /\ Running(t) /\ pc[t] \in {"resume", "create"}
      /\ k' = br_sched_ready(k, u)
      /\ pc' = [pc EXCEPT ![t] = "app"]
      /\ UNCHANGED <<obj, isr>>
      /\ resched' = resched \/ resched' = [resched EXCEPT ![t] = TRUE]
  BY DEF ResumeReady, CreateReady
<1>2. k \in Kernel /\ Sound(k, obj) /\ resched \in [Tasks -> BOOLEAN]
  BY DEF TasksSound, TypeInv, TypeOK, CpuTypeOK, CpuSound
<1>3. /\ u \in Tasks /\ u # k.current /\ k.current = t /\ k.current # NULL
      /\ k.state[u] \in {"SUSPENDED", "INACTIVE"} /\ t \in Managers
  BY <1>1 DEF TasksSound, TypeInv, TargetChosen, CallsInProgress, Running
<1> HIDE DEF u
<1>4. Goes(k', obj) /\ k'.state = [k.state EXCEPT ![u] = "READY"]
  BY <1>1, <1>2, <1>3, EnterSound DEF Goes
<1>5. WindowCloses(k', resched')
  <2>1. k'.state[k'.current] = k.state[k.current]
    BY <1>2, <1>3, <1>4 DEF Goes, Kernel
  <2>2. resched[k.current] => resched'[k.current]
    BY <1>1, <1>2, <1>3
  <2> QED BY <1>4, <2>1, <2>2 DEF TasksSound, CpuSound, WindowCloses, Goes
<1>6. CallsInProgress'
  <2>1. \A x \in Tasks : x # t => pc[x] = "app"
    BY <1>3, OnlyCall
  <2>2. \A x \in Tasks : pc'[x] = "app"
    BY <1>1, <2>1 DEF TasksSound, TypeInv, TypeOK
  <2> QED BY <2>2 DEF CallsInProgress
<1>7. NobodyAppears
  <2>1. Present(u)
    BY <1>1, <1>3 DEF Present, u, TasksSound, CallsInProgress
  <2>2. \A x \in Tasks : pc'[x] # "create"
    BY <1>6, <1>3, <1>1, OnlyCall DEF TasksSound, TypeInv, TypeOK
  <2>3. \A x \in Tasks : x # u => k'.state[x] = k.state[x]
    BY <1>2, <1>4 DEF Kernel
  <2> QED BY <2>1, <2>2, <2>3 DEF NobodyAppears, Present
<1> QED BY <1>1, <1>4, <1>5, <1>6, <1>7, StepSound DEF TasksSound

LEMMA CreateSlotKeeps ==
    ASSUME TasksSound, TypeInv', Disciplined,
           NEW t \in Tasks, NEW prio \in AppPriorities, CreateSlot(t, prio)
    PROVE  /\ TasksSound'
           /\ \A x \in Tasks : Present(x)' => Present(x) \/ x = FirstFree(k)
<1> DEFINE u == FirstFree(k)
<1>1. /\ InApp(t) /\ t \in Managers /\ FreeSlots(k) # {}
      /\ k' = InitTcb(k, u, prio)
      /\ pc' = [pc EXCEPT ![t] = "create", ![u] = "app"]
      /\ obj' = [obj EXCEPT ![u] = NULL]
      /\ resched' = [resched EXCEPT ![u] = FALSE]
      /\ target' = [target EXCEPT ![t] = u, ![u] = NULL]
      /\ isr' = isr
  BY DEF CreateSlot
<1>2. u \in Tasks /\ k.state[u] = "INACTIVE"
  BY <1>1, FirstFreeFound DEF FreeSlots
<1> HIDE DEF u
<1>3. /\ k \in Kernel /\ Sound(k, obj) /\ k.current = t
      /\ k.state[t] = "RUNNING" /\ resched \in [Tasks -> BOOLEAN]
  BY <1>1, Caller
<1>4. obj \in [Tasks -> WaitQueues \cup {NULL}]
  BY DEF TasksSound, TypeInv, TypeOK, CpuTypeOK
<1>5. Goes(k', obj') /\ k'.state = k.state
  <2>1. /\ Sound(k', obj') /\ k'.current = k.current /\ k'.state = k.state
        /\ KeepsOrder(k, obj, k', obj') /\ KeepsTime(k, obj, k', obj')
    <3>1. FilledSlot(k, obj, u, prio, k', obj')
      BY <1>1, <1>2, <1>3, <1>4 DEF FilledSlot
    <3> QED BY <1>2, <1>3, <3>1, FillSound
  <2> QED BY <2>1 DEF Goes
<1>6. WindowCloses(k', resched')
  BY <1>3, <1>5 DEF WindowCloses, Goes
<1>7. CallsInProgress'
  <2>1. \A x \in Tasks : x # t => pc[x] = "app"
    BY <1>1, OnlyCall
  <2>2. u # t
    BY <1>2, <1>3
  <2>3. \A x \in Tasks : pc'[x] # "app" => x = t /\ pc'[x] = "create" /\ target'[x] = u
    BY <1>1, <1>2, <2>1, <2>2 DEF TasksSound, TypeInv, TypeOK
  <2> QED BY <1>1, <1>2, <1>3, <1>5, <2>2, <2>3, ListAssumption DEF CallsInProgress, Goes
<1>8. \A x \in Tasks : obj'[x] = NULL
  BY <1>1, <1>4 DEF TasksSound
<1>9. \A x \in Tasks : Present(x)' => Present(x) \/ x = u
  <2>1. \A x \in Tasks : pc'[x] = "create" =>
           \/ target'[x] = u
           \/ pc[x] = "create" /\ target'[x] = target[x]
    BY <1>1, <1>2 DEF TasksSound, TypeInv, TypeOK
  <2> QED BY <1>5, <2>1 DEF Present
<1> QED BY <1>1, <1>5, <1>6, <1>7, <1>8, <1>9, StepSound DEF u

LEMMA DeleteKeeps ==
    ASSUME TasksSound, TypeInv', Disciplined,
           NEW t \in Tasks, NEW u \in Tasks, Delete(t, u)
    PROVE  TasksSound' /\ NobodyAppears /\ ~Present(u)'
<1>1. /\ InApp(t) /\ t \in Managers /\ u \in Victims /\ u # k.current
      /\ k' = DeleteSection(k, u)
      /\ UNCHANGED <<pc, obj, resched, isr, target>>
  BY DEF Delete
<1>2. /\ k \in Kernel /\ Sound(k, obj) /\ Levels(k, ReadySet(k))
      /\ k.current = t /\ k.state[t] = "RUNNING" /\ pc[t] = "app"
  BY <1>1, Caller
<1>3. u # Idle /\ NULL \notin WaitQueues /\ obj[u] = NULL
  BY <1>1 DEF Disciplined, Careful, TasksSound
<1>4. Goes(k', obj) /\ k'.state = [k.state EXCEPT ![u] = "INACTIVE"]
  BY <1>1, <1>2, <1>3, DeleteSound DEF Goes
<1>5. WindowCloses(k', resched')
  <2>1. k'.state[t] = "RUNNING"
    BY <1>1, <1>2, <1>4 DEF Kernel
  <2> QED BY <1>2, <1>4, <2>1 DEF WindowCloses, Goes
<1>6. CallsInProgress'
  <2>1. \A x \in Tasks : pc[x] = "app"
    BY <1>1, <1>2, OnlyCall
  <2> QED BY <1>1, <2>1 DEF CallsInProgress
<1>7. NobodyAppears /\ ~Present(u)'
  <2>1. \A x \in Tasks : pc'[x] = "app"
    BY <1>1, <1>2, OnlyCall
  <2>2. \A x \in Tasks : k'.state[x] = IF x = u THEN "INACTIVE" ELSE k.state[x]
    BY <1>2, <1>4 DEF Kernel
  <2> QED BY <2>1, <2>2 DEF NobodyAppears, Present
<1> QED BY <1>1, <1>4, <1>5, <1>6, <1>7, StepSound DEF TasksSound

LEMMA CpuKeeps ==
    ASSUME TasksSound, TypeInv', Disciplined, CpuNext, UNCHANGED target
    PROVE  /\ TasksSound'
           /\ CpuRuns => NobodyAppears
<1>1. CpuTypes /\ CpuSound /\ Careful
  BY DEF TasksSound, TypeInv, TypeOK, CpuTypes, Disciplined
<1>2. /\ CpuSound' /\ Keeps(k, isr, k', isr', obj)
      /\ CpuRuns => KeepsOut(k, k')
  BY <1>1, CpuNextSound
<1>3. pc' = pc /\ obj' = obj
  BY CpuNextFrame
<1>4. InOrder'
  BY <1>2, <1>3, OrderStep DEF TasksSound, Keeps
<1>5. OnTime'
  BY <1>2, <1>3 DEF TasksSound, InOrder, OnTime, Keeps
<1>6. CallsInProgress'
  <2> SUFFICES ASSUME NEW t \in Tasks, pc[t] # "app"
               PROVE  /\ t \in Managers
                      /\ k'.current # NULL /\ target[t] # k'.current
                      /\ pc[t] = "resume" => k'.state[target[t]] = "SUSPENDED"
                      /\ pc[t] = "create" => k'.state[target[t]] = "INACTIVE"
    BY <1>3 DEF CallsInProgress
  <2>1. /\ t \in Managers /\ k.current # NULL /\ target[t] # k.current
        /\ target[t] \in Tasks /\ pc[t] \in {"app", "resume", "create"}
        /\ pc[t] = "resume" => k.state[target[t]] = "SUSPENDED"
        /\ pc[t] = "create" => k.state[target[t]] = "INACTIVE"
    BY DEF TasksSound, CallsInProgress, TypeInv, TypeOK, TargetChosen
  <2>2. k'.current # NULL
    BY <1>1, <2>1, CpuStaysStarted DEF CpuTypes, CpuTypeOK, Kernel
  <2>3. KeepsOut(k, k')
    BY <1>2, <2>1 DEF CpuNext, CpuRuns, BootCreate, Booting
  <2> QED BY <2>1, <2>2, <2>3 DEF KeepsOut
<1>7. KeepsOut(k, k') => NobodyAppears
  <2>1. \A u \in Tasks : k.state[u] = "INACTIVE" => u # k.current
    <3>1. k.current = NULL \/ k.state[k.current] # "INACTIVE"
      BY DEF TasksSound, CpuSound, Sound, OneRunner
    <3> QED BY <3>1, ListAssumption
  <2> QED BY <1>3, <2>1 DEF NobodyAppears, Present, KeepsOut
<1> QED BY <1>2, <1>3, <1>4, <1>5, <1>6, <1>7 DEF TasksSound

LEMMA NextSound == ASSUME TasksSound, [Next]_vars, Disciplined PROVE TasksSound'
<1>1. TypeInv'
  BY NextTypes DEF TasksSound
<1>2. CASE CpuNext /\ UNCHANGED target
  BY <1>1, <1>2, CpuKeeps
<1>3. CASE TasksNext
  BY <1>1, <1>3, SuspendKeeps, ResumeCheckKeeps, ReadyKeeps, CreateSlotKeeps,
     DeleteKeeps DEF TasksNext
<1>4. CASE UNCHANGED vars
  BY <1>1, <1>4 DEF vars, TasksSound, CpuSound, InOrder, OnTime, CallsInProgress
<1> QED BY <1>2, <1>3, <1>4 DEF Next

LEMMA AlwaysSound == ASSUME Disciplined PROVE Spec => []TasksSound
<1>1. Init => TasksSound
  BY InitSound
<1>2. TasksSound /\ [Next]_vars => TasksSound'
  BY NextSound
<1> QED BY <1>1, <1>2, PTL DEF Spec

\* Whatever a manager does to the other tasks, the lists hold exactly the tasks
\* whose state says so ...
THEOREM ListsIntact == ASSUME Disciplined PROVE Spec => []ListsMatchStates
<1>1. TasksSound => ListsMatchStates
  BY SoundMeans DEF TasksSound, TypeInv, TypeOK
<1> QED BY <1>1, AlwaysSound, PTL

\* ... so that no walk along a list runs for good in a critical section,
THEOREM WalksEnd == ASSUME Disciplined PROVE Spec => []NoEndlessWalk
<1>1. TasksSound => NoEndlessWalk
  BY SoundMeans DEF TasksSound, TypeInv, TypeOK
<1> QED BY <1>1, AlwaysSound, PTL

\* and nobody is RUNNING but the task that executes, who is, unless he is about
\* to give the processor away.
THEOREM CurrentRuns == ASSUME Disciplined PROVE Spec => []OneRunning
<1>1. TasksSound => OneRunning
  BY SoundMeans DEF TasksSound, TypeInv, TypeOK
<1> QED BY <1>1, AlwaysSound, PTL

\* br_sched_unready finds a READY task where it looks for it: in the queue of
\* its own priority.
THEOREM UnreadyFindsTask == ASSUME Disciplined PROVE Spec => []QueuedAtPriority
<1>1. ASSUME TasksSound PROVE QueuedAtPriority
  <2> DEFINE R  == ReadySet(k)
             h  == k.ready
             nx == k.next
             pr == k.priority
  <2>1. nx \in Links /\ R \in SUBSET Tasks /\ Queue(Priorities, h, nx, R)
    BY <1>1 DEF TasksSound, CpuSound, Sound, Listed, ReadySet,
                TypeInv, TypeOK, CpuTypeOK, Kernel
  <2>2. Leveled(Priorities, h, nx, R, pr)
    BY <1>1 DEF TasksSound, InOrder, Levels
  <2>3. ASSUME NEW p \in Priorities, NEW x \in Visited(h[p], nx, {})
        PROVE  pr[x] = p
    <3> HIDE DEF R, h, nx, pr
    <3>1. MetOn(Priorities, h, nx, R, pr, p, {}, x)
      BY <2>1, <2>2, <2>3 DEF MetOn
    <3> QED BY <3>1, LevelVisited
  <2> QED BY <2>3 DEF QueuedAtPriority
<1> QED BY <1>1, AlwaysSound, PTL

\* The one alarm of the system is never set later than the first deadline, and
\* the sleep list starts with that one, whoever is deleted or created.
THEOREM AlarmInTime == ASSUME Disciplined PROVE Spec => []AlarmCoversSleepers
<1>1. TasksSound => AlarmCoversSleepers
  BY AlarmMeans DEF TasksSound, TypeInv, TypeOK, InOrder, OnTime
<1> QED BY <1>1, AlwaysSound, PTL

\* After the timer interrupt nobody sleeps whose time is up.
THEOREM NobodyOversleeps == ASSUME Disciplined PROVE Spec => []NoOversleep
<1>1. TasksSound => NoOversleep
  BY DEF TasksSound, OnTime, Timed, NoOversleep, Asleep, Sleepers
<1> QED BY <1>1, AlwaysSound, PTL
===============================================================================
