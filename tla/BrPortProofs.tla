---------------------------- MODULE BrPortProofs ----------------------------
(***************************************************************************)
(* Theorems about the two ports: the context switch of the Cortex-M        *)
(* (BrPendSV) and the one of the host (BrHost), each of them under the     *)
(* task system of BrTasks.                                                 *)
(***************************************************************************)
EXTENDS BrPendSV, BrHost, BrTasksProofs

(***************************************************************************)
(* The kernel's part of a step of the port is a step of task management:   *)
(* the port only delays and restricts what a task may do.                  *)
(***************************************************************************)
LEMMA KernelStep ==
    ASSUME [PortNext]_allVars
    PROVE  [Next]_vars
<1>1. CASE Create
  <2>1. PICK prio \in Priorities :
          \/ BootCreate(prio) /\ UNCHANGED target
          \/ prio \in AppPriorities /\ \E t \in Tasks : CreateSlot(t, prio)
    BY <1>1 DEF Create
  <2> QED BY <2>1 DEF Next, CpuNext, TasksNext
<1>2. CASE DeleteTask
  BY <1>2 DEF DeleteTask, Next, TasksNext
<1>3. CASE Call
  <2>1. CASE Start /\ UNCHANGED target
    BY <2>1 DEF Next, CpuNext
  <2>2. ASSUME NEW t \in Tasks, UNCHANGED target,
               \/ Reschedule(t)
               \/ Yield(t)
               \/ \E ticks \in 1 .. MaxTicks : Sleep(t, ticks)
               \/ br_sched_lock(t)
               \/ br_sched_unlock(t)
        PROVE  [Next]_vars
    BY <2>2 DEF Next, CpuNext
  <2>3. ASSUME NEW t \in Tasks,
               \/ \E u \in Tasks : Suspend(t, u)
               \/ \E u \in Tasks : ResumeCheck(t, u)
               \/ ResumeReady(t)
               \/ CreateReady(t)
        PROVE  [Next]_vars
    BY <2>3 DEF Next, TasksNext
  <2> QED BY <1>3, <2>1, <2>2, <2>3 DEF Call
<1>4. CASE Interrupt
  BY <1>4 DEF Interrupt, Next, CpuNext
<1>5. CASE Overflow \/ SVC_Handler \/ PendSV_Handler \/ UNCHANGED allVars
  BY <1>5 DEF Overflow, SVC_Handler, PendSV_Handler, allVars
<1> QED BY <1>1, <1>2, <1>3, <1>4, <1>5 DEF PortNext

(***************************************************************************)
(* PortNext is built from the steps of BrTasks, so that what holds of      *)
(* every behavior of BrTasks holds here.  It says nothing of the switch:   *)
(* that the restricted steps are those of the task in the registers, and   *)
(* that the handlers get it there, is what ContextsInPlace and             *)
(* SwitchDelivers are about.                                               *)
(***************************************************************************)
LEMMA KernelBehaves == PortSpec => Spec
<1>1. PortInit => Init
  BY DEF PortInit
<1> QED BY <1>1, KernelStep, PTL DEF PortSpec, Spec

(***************************************************************************)
(* A pending switch is overwritten, or one is requested on the stack of    *)
(* main(), only when a tick ends a slice and wakes a sleeper in the same   *)
(* interrupt, or comes before the first task has been given the registers. *)
(***************************************************************************)
THEOREM RacesKnown == PortSpec => OnlyTwoRaces
<1> DEFINE Race == \/ isr = "alarm" /\ pendsv # NONE
                   \/ Starting
           Flag == clobbered \in BOOLEAN
<1>1. ASSUME Flag, [PortNext]_allVars, clobbered' # clobbered
      PROVE  Race
  <2>1. /\ Call \/ Interrupt
        /\ Request
    BY <1>1 DEF PortNext, Create, DeleteTask, Call, Interrupt, Overflow,
                SVC_Handler, PendSV_Handler, allVars, portVars
  <2>2. /\ k'.current # k.current /\ k.current # NULL
        /\ pendsv # NONE \/ cpu = MAIN
    BY <1>1, <2>1 DEF Request, br_hal_context_switch, br_hal_panic
  <2>3. ThreadMode => Race
    BY <2>2 DEF ThreadMode, Starting
  <2>4. CASE Call
    BY <2>3, <2>4 DEF Call
  <2>5. CASE Interrupt
    <3>1. CASE SysTick_Handler /\ (ThreadMode \/ Starting)
      BY <2>3, <3>1
    <3>2. CASE AlarmWake \/ AlarmDone
      BY <2>2, <3>2 DEF AlarmWake, AlarmDone, Starting
    <3> QED BY <2>5, <3>1, <3>2 DEF Interrupt
  <2> QED BY <2>1, <2>4, <2>5
<1>2. Flag /\ [PortNext]_allVars => [clobbered' # clobbered => Race]_allVars
  BY <1>1
<1>3. PortInit => Flag
  BY DEF PortInit
<1>4. Flag /\ [PortNext]_allVars => Flag'
  BY DEF PortNext, Create, DeleteTask, Call, Interrupt, Overflow, SVC_Handler,
         PendSV_Handler, Request, br_hal_context_switch, br_hal_panic, allVars,
         portVars
<1> QED BY <1>2, <1>3, <1>4, PTL DEF PortSpec, OnlyTwoRaces

-------------------------------------------------------------------------------
(***************************************************************************)
(* Until the first task has the registers main() has them, and no switch   *)
(* is pending: nobody can damage a stack before it is somebody's turn.     *)
(***************************************************************************)
MainFirst == k.current = NULL => cpu = MAIN /\ pendsv = NONE

OverflowInv ==
    /\ TypeInv
    /\ MainFirst
    /\ intact \in [Tasks -> BOOLEAN]
    /\ OverflowCaught

LEMMA AlwaysStopped == PortSpec => []OverflowInv
<1>1. PortInit => OverflowInv
  <2> SUFFICES ASSUME PortInit PROVE OverflowInv
    OBVIOUS
  <2>1. TypeInv
    BY InitTypes DEF PortInit
  <2> QED BY <2>1 DEF PortInit, OverflowInv, MainFirst, OverflowCaught
<1>2. OverflowInv /\ [PortNext]_allVars => OverflowInv'
  <2> SUFFICES ASSUME OverflowInv, [PortNext]_allVars PROVE OverflowInv'
    OBVIOUS
  <2> USE DEF OverflowInv
  <2>1. TypeInv'
    BY KernelStep, NextTypes
  <2>2. k.current # NULL => k'.current # NULL
    BY KernelStep, StaysStarted DEF vars
  <2>3. CASE (Call \/ Interrupt) /\ Request /\ UNCHANGED <<cpu, sp, intact>>
    <3>1. MainFirst'
      BY <2>2, <2>3 DEF MainFirst, Request, br_hal_context_switch, br_hal_panic
    <3>2. ASSUME ~halted' PROVE ~halted
      BY <2>3, <3>2 DEF Call, Interrupt, ThreadMode
    <3>3. OverflowCaught'
      <4> SUFFICES ASSUME ~halted', NEW t \in Tasks, ~intact'[t]
                   PROVE  t = k'.current
        BY DEF OverflowCaught
      <4>1. t = k.current
        BY <2>3, <3>2 DEF OverflowCaught
      <4>2. k.current # NULL
        BY <4>1, ListAssumption
      <4> QED BY <2>3, <4>1, <4>2 DEF Request, br_hal_panic, br_hal_check_stack_overflow, CheckedTask
    <3> QED BY <2>1, <2>3, <3>1, <3>3
  <2>4. CASE Create
    <3>1. k'.current = k.current
      <4>1. PICK prio \in Priorities : BootCreate(prio) \/ \E t \in Tasks : CreateSlot(t, prio)
        BY <2>4 DEF Create
      <4>2. br_sched_ready(InitTcb(k, FirstFree(k), prio), FirstFree(k)).current = k.current
        BY SchedFrame, TaskFrame
      <4> QED BY <4>1, <4>2, TaskFrame DEF BootCreate, CreateSlot
    <3>2. /\ intact' = [intact EXCEPT ![FirstFree(k)] = TRUE]
          /\ UNCHANGED <<cpu, pendsv, halted>>
      BY <2>4 DEF Create
    <3> QED BY <2>1, <3>1, <3>2 DEF MainFirst, OverflowCaught
  <2>5. CASE DeleteTask
    <3>1. k'.current = k.current
      BY <2>5, TaskFrame DEF DeleteTask, Delete
    <3> QED BY <2>1, <2>5, <3>1 DEF DeleteTask, MainFirst, OverflowCaught
  <2>6. CASE Overflow
    <3>1. cpu \in Tasks /\ k' = k /\ UNCHANGED <<cpu, pendsv, halted>>
      BY <2>6, PendSVAssumption DEF Overflow, vars
    <3>2. k.current = cpu
      BY <2>6, <3>1, PendSVAssumption DEF Overflow, ThreadMode, MainFirst
    <3>3. intact' = [intact EXCEPT ![cpu] = FALSE]
      BY <2>6 DEF Overflow
    <3> QED BY <2>1, <3>1, <3>2, <3>3 DEF MainFirst, OverflowCaught
  <2>7. CASE SVC_Handler \/ PendSV_Handler
    <3>1. k.current # NULL
      BY <2>7 DEF SVC_Handler, PendSV_Handler, Starting, MainFirst
    <3>2. k' = k /\ UNCHANGED <<intact, halted>>
      BY <2>7 DEF SVC_Handler, PendSV_Handler, vars
    <3> QED BY <2>1, <3>1, <3>2 DEF MainFirst, OverflowCaught
  <2>8. CASE UNCHANGED allVars
    BY <2>1, <2>8 DEF allVars, portVars, vars, MainFirst, OverflowCaught
  <2> QED BY <2>3, <2>4, <2>5, <2>6, <2>7, <2>8 DEF PortNext, Call, Interrupt
<1> QED BY <1>1, <1>2, PTL DEF PortSpec

\* A task that ran over its stack is stopped before another task executes.
THEOREM OverflowStops == PortSpec => []OverflowCaught
<1>1. OverflowInv => OverflowCaught
  BY DEF OverflowInv
<1> QED BY <1>1, AlwaysStopped, PTL

-------------------------------------------------------------------------------
(***************************************************************************)
(* The contexts.  Unless a request has been overwritten, a pending switch  *)
(* goes from the task in the registers to the one the kernel has chosen,   *)
(* and every task that is in use, or whose slot br_task_create has chosen, *)
(* and is not in the registers is where its TCB says.                      *)
(***************************************************************************)
Contexts ==
    ~clobbered /\ ~halted =>
        /\ pendsv # NONE =>
              cpu = pendsv.old /\ pendsv.new = k.current /\ pendsv.old # pendsv.new
        /\ pendsv = NONE /\ cpu # MAIN => cpu = k.current
        /\ \A t \in Tasks : Present(t) /\ t # cpu => sp[t] = t

PortInv == PortTypeOK /\ MainFirst /\ Contexts

\* The kernel's part of a call of a task, or of an interrupt.
LEMMA CallRuns ==
    ASSUME Call \/ Interrupt
    PROVE  \/ CpuRuns /\ UNCHANGED target
           \/ \E t \in Tasks : \/ \E u \in Tasks : Suspend(t, u)
                               \/ \E u \in Tasks : ResumeCheck(t, u)
                               \/ ResumeReady(t)
                               \/ CreateReady(t)
<1>1. CASE Call
  BY <1>1 DEF Call, CpuRuns
<1>2. CASE Interrupt
  BY <1>2 DEF Interrupt, CpuRuns
<1> QED BY <1>1, <1>2

\* Only br_task_create puts a slot to use.
LEMMA NobodyElseAppears ==
    ASSUME TasksSound, TypeInv', Disciplined, Call \/ Interrupt
    PROVE  NobodyAppears
<1>1. CpuRuns => CpuNext
  BY DEF CpuRuns, CpuNext
<1> QED BY <1>1, CallRuns, CpuKeeps, SuspendKeeps, ResumeCheckKeeps, ReadyKeeps

LEMMA RequestKeeps ==
    ASSUME TasksSound, TasksSound', Disciplined, PortInv, MainFirst',
           Call \/ Interrupt
    PROVE  PortInv'
<1>1. /\ Request /\ UNCHANGED <<cpu, sp, intact>> /\ ~halted
      /\ ThreadMode \/ Interrupt
  BY DEF Call, Interrupt, ThreadMode
<1>2. k.current \in Tasks \cup {NULL} /\ k'.current \in Tasks \cup {NULL}
  BY DEF TasksSound, TypeInv, TypeOK, CpuTypeOK, Kernel
<1>3. k.current # NULL => k'.current # NULL
  <2>1. [Next]_vars
    BY KernelStep DEF PortNext
  <2> QED BY <2>1, StaysStarted DEF TasksSound, vars
<1>4. NobodyAppears
  BY NobodyElseAppears DEF TasksSound
<1>5. CASE k'.current = k.current \/ k.current = NULL
  <2>1. UNCHANGED <<pendsv, halted, clobbered>>
    BY <1>1, <1>5 DEF Request
  <2>2. k.current = NULL => cpu = MAIN /\ pendsv = NONE
    BY DEF PortInv, MainFirst
  <2> QED BY <1>1, <1>4, <1>5, <2>1, <2>2
          DEF PortInv, PortTypeOK, Contexts, NobodyAppears
<1>6. CASE k'.current # k.current /\ k.current # NULL /\ intact[k.current]
  <2>1. /\ pendsv' = [old |-> k.current, new |-> k'.current]
        /\ clobbered' = (clobbered \/ pendsv # NONE \/ cpu = MAIN)
        /\ UNCHANGED halted
    BY <1>1, <1>6 DEF Request, br_hal_check_stack_overflow, CheckedTask,
                      br_hal_context_switch
  <2>2. k.current \in Tasks /\ k'.current \in Tasks
    BY <1>2, <1>3, <1>6
  <2>3. /\ pendsv'.old = k.current /\ pendsv'.new = k'.current
        /\ pendsv' \in [old : Tasks, new : Tasks] /\ pendsv' # NONE
    BY <2>1, <2>2, PendSVAssumption
  <2>4. ~clobbered' => ~clobbered /\ pendsv = NONE /\ cpu # MAIN
    BY <2>1 DEF PortInv, PortTypeOK
  <2> QED BY <1>1, <1>4, <1>6, <2>1, <2>2, <2>3, <2>4
          DEF PortInv, PortTypeOK, Contexts, NobodyAppears
<1>7. CASE k'.current # k.current /\ k.current # NULL /\ ~intact[k.current]
  <2>1. halted' = TRUE /\ UNCHANGED <<pendsv, clobbered>>
    BY <1>1, <1>7 DEF Request, br_hal_check_stack_overflow, CheckedTask,
                      br_hal_panic
  <2> QED BY <1>1, <2>1 DEF PortInv, PortTypeOK, Contexts
<1> QED BY <1>5, <1>6, <1>7

LEMMA CreateKeeps ==
    ASSUME TasksSound, TasksSound', Disciplined, PortInv, MainFirst', Create
    PROVE  PortInv'
<1> DEFINE u == FirstFree(k)
<1>1. /\ sp' = [sp EXCEPT ![u] = u] /\ intact' = [intact EXCEPT ![u] = TRUE]
      /\ UNCHANGED <<cpu, pendsv, halted, clobbered>>
      /\ ThreadMode
  BY DEF Create
<1>2. /\ u \in Tasks /\ k'.current = k.current
      /\ \A x \in Tasks : Present(x)' => Present(x) \/ x = u
  <2>1. PICK prio \in Priorities :
          \/ BootCreate(prio) /\ UNCHANGED target
          \/ prio \in AppPriorities /\ \E t \in Tasks : CreateSlot(t, prio)
    BY DEF Create
  <2>2. CASE BootCreate(prio) /\ UNCHANGED target
    <3>1. /\ k' = br_sched_ready(InitTcb(k, u, prio), u) /\ FreeSlots(k) # {}
          /\ UNCHANGED pc
      BY <2>2 DEF BootCreate
    <3>2. u \in Tasks
      BY <3>1, FirstFreeFound
    <3>3. k'.state = [k.state EXCEPT ![u] = "READY"] /\ k'.current = k.current
      <4> HIDE DEF u
      <4> QED BY <3>1 DEF br_sched_ready, PutReady, InitTcb
    <3>4. k.state \in [Tasks -> States]
      BY DEF TasksSound, TypeInv, TypeOK, CpuTypeOK, Kernel
    <3>5. \A x \in Tasks : x # u => k'.state[x] = k.state[x]
      BY <3>3, <3>4
    <3> HIDE DEF u
    <3> QED BY <2>2, <3>1, <3>2, <3>3, <3>5 DEF Present
  <2>3. ASSUME NEW t \in Tasks, prio \in AppPriorities, CreateSlot(t, prio)
        PROVE  /\ u \in Tasks /\ k'.current = k.current
               /\ \A x \in Tasks : Present(x)' => Present(x) \/ x = u
    <3>1. \A x \in Tasks : Present(x)' => Present(x) \/ x = FirstFree(k)
      BY <2>3, CreateSlotKeeps DEF TasksSound
    <3> QED BY <2>3, <3>1, FirstFreeFound, TaskFrame DEF CreateSlot
  <2> QED BY <2>1, <2>2, <2>3
<1> HIDE DEF u
<1>3. \A x \in Tasks : x # u => sp'[x] = sp[x]
  BY <1>1 DEF PortInv, PortTypeOK
<1>4. sp'[u] = u
  BY <1>1, <1>2 DEF PortInv, PortTypeOK
<1> QED BY <1>1, <1>2, <1>3, <1>4 DEF PortInv, PortTypeOK, Contexts

LEMMA DeleteTaskKeeps ==
    ASSUME TasksSound, TasksSound', Disciplined, PortInv, MainFirst', DeleteTask
    PROVE  PortInv'
<1>1. PICK t \in Tasks, u \in Tasks : Delete(t, u) /\ sp' = [sp EXCEPT ![u] = NULL]
  BY DEF DeleteTask
<1>2. NobodyAppears /\ ~Present(u)' /\ k'.current = k.current
  BY <1>1, DeleteKeeps, TaskFrame DEF Delete, TasksSound
<1>3. UNCHANGED <<cpu, pendsv, intact, halted, clobbered>>
  BY DEF DeleteTask
<1>4. \A x \in Tasks : x # u => sp'[x] = sp[x]
  BY <1>1 DEF PortInv, PortTypeOK
<1> QED BY <1>1, <1>2, <1>3, <1>4 DEF PortInv, PortTypeOK, Contexts, NobodyAppears

\* The handlers give the registers to the task the kernel has chosen.
LEMMA SwitchKeeps ==
    ASSUME TasksSound, PortInv, MainFirst', SVC_Handler \/ PendSV_Handler
    PROVE  PortInv'
<1>1. k' = k /\ pc' = pc /\ target' = target /\ UNCHANGED <<intact, halted, clobbered>>
      /\ ~halted
  BY DEF SVC_Handler, PendSV_Handler, vars
<1>2. k.current # NULL => k.current \in Tasks /\ Present(k.current)
  BY DEF TasksSound, TypeInv, TypeOK, CpuTypeOK, Kernel, CpuSound, Sound,
         OneRunner, Present
<1>3. \A x \in Tasks : Present(x)' <=> Present(x)
  BY <1>1 DEF Present
<1>4. CASE SVC_Handler
  <2>1. /\ cpu = MAIN /\ k.current # NULL /\ ~clobbered /\ pendsv' = NONE
        /\ cpu' = sp[k.current] /\ sp' = [sp EXCEPT ![k.current] = NULL]
    BY <1>4 DEF SVC_Handler, Starting
  <2>2. sp[k.current] = k.current /\ k.current \in Tasks
    BY <1>1, <1>2, <2>1, PendSVAssumption DEF PortInv, Contexts
  <2>3. \A x \in Tasks : x # k.current => sp'[x] = sp[x]
    BY <2>1 DEF PortInv, PortTypeOK
  <2> QED BY <1>1, <1>3, <2>1, <2>2, <2>3, ListAssumption, PendSVAssumption
          DEF PortInv, PortTypeOK, Contexts
<1>5. CASE PendSV_Handler
  <2>1. /\ pendsv # NONE /\ pendsv' = NONE /\ cpu' = sp[pendsv.new]
        /\ sp' = [sp EXCEPT ![pendsv.old] = cpu, ![pendsv.new] = NULL]
    BY <1>5 DEF PendSV_Handler
  <2>2. pendsv.old \in Tasks /\ pendsv.new \in Tasks
    BY <2>1 DEF PortInv, PortTypeOK
  <2> DEFINE o == pendsv.old
             n == pendsv.new
  <2>3. ASSUME ~clobbered
        PROVE  /\ cpu = o /\ n = k.current /\ o # n
               /\ sp[n] = n /\ cpu' = n
    <3>1. cpu = o /\ n = k.current /\ o # n
      BY <1>1, <2>1, <2>3 DEF PortInv, Contexts
    <3>2. n # NULL
      BY <2>2, ListAssumption
    <3>3. sp[n] = n
      BY <1>1, <1>2, <2>3, <3>1, <3>2 DEF PortInv, Contexts
    <3> QED BY <2>1, <3>1, <3>3
  <2>4. PortTypeOK'
    <3>1. cpu' \in Tasks \cup {MAIN, NULL}
      BY <2>1, <2>2 DEF PortInv, PortTypeOK
    <3>2. cpu' = NULL => clobbered'
      BY <1>1, <2>2, <2>3, ListAssumption
    <3>3. sp' \in [Tasks -> Tasks \cup {MAIN, NULL}]
      BY <2>1, <2>2 DEF PortInv, PortTypeOK
    <3> QED BY <1>1, <2>1, <3>1, <3>2, <3>3 DEF PortInv, PortTypeOK
  <2>5. Contexts'
    <3> SUFFICES ASSUME ~clobbered
                 PROVE  /\ cpu' = k'.current
                        /\ \A x \in Tasks : Present(x) /\ x # cpu' => sp'[x] = x
      BY <1>1, <1>3, <2>1 DEF Contexts
    <3>1. sp'[o] = o
      BY <2>1, <2>2, <2>3 DEF PortInv, PortTypeOK
    <3>2. \A x \in Tasks : x # o /\ x # n => sp'[x] = sp[x]
      BY <2>1 DEF PortInv, PortTypeOK
    <3> QED BY <1>1, <2>3, <3>1, <3>2 DEF PortInv, Contexts
  <2> QED BY <2>4, <2>5 DEF PortInv
<1> QED BY <1>4, <1>5

LEMMA PortKept ==
    ASSUME TasksSound, TasksSound', Disciplined, PortInv, MainFirst',
           [PortNext]_allVars
    PROVE  PortInv'
<1>1. CASE Overflow
  <2>1. /\ UNCHANGED <<k, pc, target, cpu, sp, pendsv, halted, clobbered>>
        /\ intact' = [intact EXCEPT ![cpu] = FALSE]
    BY <1>1 DEF Overflow, vars
  <2> QED BY <2>1 DEF PortInv, PortTypeOK, Contexts, Present
<1>2. CASE UNCHANGED allVars
  BY <1>2 DEF allVars, portVars, vars, PortInv, PortTypeOK, Contexts, Present
<1> QED BY <1>1, <1>2, RequestKeeps, CreateKeeps, DeleteTaskKeeps, SwitchKeeps
        DEF PortNext

LEMMA AlwaysInPlace == ASSUME Disciplined PROVE PortSpec => []PortInv
<1>1. ASSUME PortInit PROVE PortInv
  <2>1. \A t \in Tasks : ~Present(t)
    BY <1>1 DEF PortInit, Init, CpuInit, InitialKernel, Present
  <2> QED BY <1>1, <2>1, PendSVAssumption
          DEF PortInit, PortInv, PortTypeOK, MainFirst, Contexts
<1>2. TasksSound /\ TasksSound' /\ OverflowInv' /\ PortInv /\ [PortNext]_allVars
        => PortInv'
  BY PortKept DEF OverflowInv
<1> QED BY <1>1, <1>2, AlwaysStopped, AlwaysSound, KernelBehaves, PTL
        DEF PortSpec

\* Every variable of the port always has a value of its type; only after a
\* request was overwritten is a context restored twice.
THEOREM PortTypeCorrect == ASSUME Disciplined PROVE PortSpec => []PortTypeOK
<1>1. PortInv => PortTypeOK
  BY DEF PortInv
<1> QED BY <1>1, AlwaysInPlace, PTL

\* Unless a request was overwritten no context is lost, doubled or swapped.
THEOREM ContextsInPlace == ASSUME Disciplined PROVE PortSpec => []ContextsIntact
<1>1. PortInv => ContextsIntact
  BY DEF PortInv, Contexts, ContextsIntact, Present
<1> QED BY <1>1, AlwaysInPlace, PTL

\* The scheduler has started and no switch is outstanding.
Settled ==
    /\ ~clobbered /\ ~halted
    /\ k.current # NULL /\ ~Starting /\ pendsv = NONE

\* Unless a request was overwritten SVC and PendSV give the registers to the task
\* that the kernel has chosen meanwhile, and leave the one they took them from
\* where its own TCB says; and when no switch is pending behind the first one it
\* is the running task that may execute: no switch is forgotten.
THEOREM SwitchDelivers ==
    ASSUME Disciplined
    PROVE  PortSpec =>
             /\ [][SVC_Handler \/ PendSV_Handler =>
                     \/ clobbered
                     \/ /\ cpu' = k.current
                        /\ \A t \in Tasks : cpu = t => sp'[t] = t]_allVars
             /\ [](Settled => ThreadMode)
<1>1. TasksSound /\ PortInv
        => [SVC_Handler \/ PendSV_Handler =>
              \/ clobbered
              \/ cpu' = k.current /\ \A t \in Tasks : cpu = t => sp'[t] = t]_allVars
  <2> SUFFICES ASSUME TasksSound, PortInv, SVC_Handler \/ PendSV_Handler, ~clobbered
               PROVE  cpu' = k.current /\ \A t \in Tasks : cpu = t => sp'[t] = t
    OBVIOUS
  <2>1. ~halted
    BY DEF SVC_Handler, PendSV_Handler
  <2>2. k.current # NULL => k.current \in Tasks /\ Present(k.current)
    BY DEF TasksSound, TypeInv, TypeOK, CpuTypeOK, Kernel, CpuSound, Sound,
           OneRunner, Present
  <2>3. CASE SVC_Handler
    <3>1. cpu = MAIN /\ k.current # NULL /\ cpu' = sp[k.current]
      BY <2>3 DEF SVC_Handler, Starting
    <3>2. k.current \in Tasks /\ sp[k.current] = k.current
      BY <2>1, <2>2, <3>1, PendSVAssumption DEF PortInv, Contexts
    <3> QED BY <3>1, <3>2, PendSVAssumption
  <2>4. CASE PendSV_Handler
    <3>1. /\ pendsv # NONE /\ cpu' = sp[pendsv.new]
          /\ sp' = [sp EXCEPT ![pendsv.old] = cpu, ![pendsv.new] = NULL]
      BY <2>4 DEF PendSV_Handler
    <3>2. /\ pendsv.old \in Tasks /\ pendsv.new \in Tasks /\ cpu = pendsv.old
          /\ pendsv.new = k.current /\ pendsv.old # pendsv.new
      BY <2>1, <3>1 DEF PortInv, PortTypeOK, Contexts
    <3>3. sp[k.current] = k.current
      BY <2>1, <2>2, <3>2, ListAssumption DEF PortInv, Contexts
    <3>4. sp'[cpu] = cpu
      BY <3>1, <3>2 DEF PortInv, PortTypeOK
    <3> QED BY <3>1, <3>2, <3>3, <3>4
  <2> QED BY <2>3, <2>4
<1>2. ASSUME PortInv, Settled PROVE ThreadMode
  <2>1. cpu = k.current
    BY <1>2 DEF PortInv, Contexts, Starting, Settled
  <2> QED BY <1>2, <2>1 DEF ThreadMode, Settled
<1>3. PortInv => (Settled => ThreadMode)
  BY <1>2
<1> QED BY <1>1, <1>3, AlwaysInPlace, AlwaysSound, KernelBehaves, PTL

\* What BrTasksProofs shows of every behavior of BrTasks holds on the Cortex-M:
\* the lists, their order, the one RUNNING task and the deadlines.
THEOREM PortKernelSound ==
    ASSUME Disciplined
    PROVE  PortSpec => [](/\ ListsMatchStates /\ NoEndlessWalk /\ OneRunning
                          /\ QueuedAtPriority /\ AlarmCoversSleepers
                          /\ NoOversleep)
BY KernelBehaves, ListsIntact, WalksEnd, CurrentRuns, UnreadyFindsTask,
   AlarmInTime, NobodyOversleeps, PTL

-------------------------------------------------------------------------------
(***************************************************************************)
(* The host port.  A slot is never given back, so that the application     *)
(* must not have more stacks than CONFIG_MAX_TASKS: with one more,         *)
(* br_task_create makes a task that has no context.                        *)
(***************************************************************************)
EnoughSlots == IsFiniteSet(Stacks) /\ Cardinality(Stacks) <= Cardinality(Tasks)

\* The context of main() is in an allocated slot.
MainIn(s) == slotKey[s] # NULL /\ owner[s] = NULL

\* Once main() has left its own stack the slot of the current task executes; a
\* context left behind has the mask that its position asks for; two tasks never
\* share a slot, nor two slots a stack; and a slot holds the context of its task
\* or, at most one of them, that of main(), saved by a handler.
OwnContexts ==
    /\ HostTypeOK /\ MaskExact
    /\ k.current = NULL => exec = NULL /\ pos[NULL] = "app"
    /\ exec # NULL => exec = slotOf[k.current]
    /\ \A t \in Tasks : Present(t) => slotOf[t] # NULL
    /\ \A t \in Tasks : slotOf[t] # NULL =>
          slotKey[slotOf[t]] # NULL /\ owner[slotOf[t]] \in {t, NULL}
    /\ \A t, u \in Tasks : slotOf[t] = slotOf[u] => t = u \/ slotOf[t] = NULL
    /\ \A s, r \in Slots : slotKey[s] = slotKey[r] => s = r \/ slotKey[s] = NULL
    /\ \A s \in Slots : s # exec => (ucMask[s] <=> pos[s] # "app")
    /\ isr # "none" => k.current # NULL /\ pos[exec] = "app"
    /\ \A s \in Slots : MainIn(s) => exec # NULL /\ ucMask[s]
    /\ \A s, r \in Slots : MainIn(s) /\ MainIn(r) => s = r

HostInv == TasksSound /\ OwnContexts

LEMMA LeastFound ==
    ASSUME NEW S \in SUBSET Nat, S # {}
    PROVE  Least(S) \in S
<1>1. \E m \in S : \A n \in S : m <= n
  BY LeastNumber
<1> QED BY <1>1 DEF Least

\* A stack that no task uses gets a slot that no task uses: its own, or a free
\* one, of which there is one because there are as many slots as stacks.
LEMMA SlotFound ==
    ASSUME OwnContexts, EnoughSlots, NEW stack \in FreeStacks,
           NEW s, s = alloc_slot(stack)
    PROVE  /\ s \in Slots
           /\ \A u \in Tasks : slotOf[u] # s
           /\ \A r \in Slots : slotKey[r] = stack => r = s
           /\ stack \in Stacks /\ stack # NULL
<1> DEFINE own  == {r \in Slots : slotKey[r] = stack}
           free == {r \in Slots : slotKey[r] = NULL}
<1>1. /\ stack \in Stacks /\ stack # NULL
      /\ \A u \in Tasks : slotOf[u] # NULL => slotKey[slotOf[u]] # stack
  BY HostAssumption DEF FreeStacks, StacksInUse
<1>2. own \in SUBSET Nat /\ free \in SUBSET Nat
  BY KernelAssumption DEF Slots
<1>3. own # {} \/ free # {}
  <2> SUFFICES ASSUME own = {}, free = {} PROVE FALSE
    OBVIOUS
  <2> DEFINE rest == Stacks \ {stack}
  <2>1. slotKey \in [Slots -> rest]
    BY DEF OwnContexts, HostTypeOK
  <2>2. IsFiniteSet(rest) /\ Cardinality(rest) = Cardinality(Stacks) - 1
    BY <1>1, FS_RemoveElement DEF EnoughSlots
  <2>3. IsFiniteSet(Slots) /\ Cardinality(Stacks) <= Cardinality(Slots)
    BY ListAssumption DEF Slots, EnoughSlots
  <2>4. Cardinality(Slots) \in Nat /\ Cardinality(Stacks) \in Nat
    BY <2>3, FS_CardinalityType DEF EnoughSlots
  <2>5. Cardinality(rest) < Cardinality(Slots)
    BY <2>2, <2>3, <2>4
  <2> HIDE DEF rest
  <2>6. \E x, y \in Slots : x # y /\ slotKey[x] = slotKey[y]
    BY <2>1, <2>2, <2>3, <2>5, FS_PigeonHole
  <2>7. \A x \in Slots : slotKey[x] # NULL
    OBVIOUS
  <2> QED BY <2>6, <2>7 DEF OwnContexts
<1>4. s = IF own # {} THEN Least(own) ELSE IF free # {} THEN Least(free) ELSE NULL
  BY DEF alloc_slot
<1>5. CASE own # {}
  <2>1. s \in own
    BY <1>2, <1>4, <1>5, LeastFound
  <2> QED BY <1>1, <2>1, ListAssumption DEF OwnContexts, Slots
<1>6. CASE own = {} /\ free # {}
  <2>1. s \in free
    BY <1>2, <1>4, <1>6, LeastFound
  <2>2. s \in Tasks
    BY <2>1 DEF Slots
  <2> QED BY <1>1, <1>6, <2>1, <2>2, ListAssumption DEF OwnContexts, Slots
<1> QED BY <1>3, <1>5, <1>6

\* The current task has a slot, and it is the one that executes when main() does
\* not.
LEMMA Executing ==
    ASSUME HostInv
    PROVE  /\ k.current \in Tasks \cup {NULL} /\ NULL \notin Slots
           /\ k.current # NULL => slotOf[k.current] \in Slots
           /\ exec # NULL => k.current # NULL /\ exec = slotOf[k.current]
           /\ pos[exec] # "app" \/ isr # "none" => k.current # NULL
<1>1. k.current \in Tasks \cup {NULL} /\ NULL \notin Slots
  BY ListAssumption
     DEF HostInv, TasksSound, TypeInv, TypeOK, CpuTypeOK, Kernel, Slots
<1>2. k.current # NULL => Present(k.current)
  BY DEF HostInv, TasksSound, CpuSound, Sound, OneRunner, Present
<1>3. k.current # NULL => slotOf[k.current] \in Slots
  BY <1>1, <1>2 DEF HostInv, OwnContexts, HostTypeOK
<1> QED BY <1>1, <1>3 DEF HostInv, OwnContexts

\* The code that executes in a slot is that of the current task, or main().
LEMMA TaskExecutes ==
    ASSUME HostInv, InTask
    PROVE  k.current \in Tasks /\ exec # NULL /\ isr = "none"
BY Executing DEF InTask, Executes

-------------------------------------------------------------------------------
\* A step that leaves the contexts alone, and the current task.
LEMMA QuietKeeps ==
    ASSUME HostInv, UNCHANGED hostVars, k'.current = k.current, isr' = isr,
           NobodyAppears
    PROVE  OwnContexts'
BY DEF HostInv, OwnContexts, hostVars, HostTypeOK, MaskExact, NobodyAppears, MainIn

\* A step that may switch: the context left behind asks for the mask that is
\* saved with it, the one resumed gets the mask its position asks for.
LEMMA SwapKeeps ==
    ASSUME HostInv, TasksSound', NobodyAppears, k.current # NULL,
           k'.current # NULL,
           NEW there \in Positions, NEW stays \in Positions,
           SwapContext(there, stays), there # "app",
           mask <=> stays # "app", isr' = "none",
           UNCHANGED <<slotOf, slotKey, inIsr>>, fresh' \in BOOLEAN
    PROVE  OwnContexts'
<1> DEFINE old == slotOf[k.current]
<1>1. k.current \in Tasks /\ old \in Slots /\ old # NULL /\ exec \in {old, NULL}
  BY Executing
<1>2. k'.current \in Tasks
  BY DEF TasksSound, TypeInv, TypeOK, CpuTypeOK, Kernel
<1>3. HostTypeOK /\ exec \in Slots \cup {NULL}
  BY DEF HostInv, OwnContexts, HostTypeOK
<1>4. CASE k'.current = k.current
  <2>1. /\ pos' = [pos EXCEPT ![exec] = stays]
        /\ UNCHANGED <<owner, ucMask, exec, mask>>
    BY <1>4 DEF SwapContext
  <2>2. /\ pos' \in [Slots \cup {NULL} -> Positions]
        /\ \A s \in Slots \cup {NULL} : pos'[s] = IF s = exec THEN stays ELSE pos[s]
    BY <1>3, <2>1 DEF HostTypeOK
  <2>3. HostTypeOK' /\ MaskExact'
    BY <1>3, <2>1, <2>2 DEF HostTypeOK, MaskExact
  <2> QED BY <1>1, <1>4, <2>1, <2>2, <2>3
          DEF HostInv, OwnContexts, NobodyAppears, MainIn
<1>5. CASE k'.current # k.current
  <2>1. /\ pos' = [pos EXCEPT ![old] = there]
        /\ owner' = [owner EXCEPT ![old] = Executes]
        /\ ucMask' = [ucMask EXCEPT ![old] = TRUE]
        /\ exec' = slotOf[k'.current]
        /\ mask' = ucMask[exec']
    BY <1>5 DEF SwapContext
  <2>2. Present(k'.current)
    <3>1. \A x \in Tasks : k'.current = x => Present(x)'
      BY DEF TasksSound, CpuSound, Sound, OneRunner, Present
    <3> QED BY <1>2, <3>1 DEF NobodyAppears
  <2>3. exec' \in Slots /\ exec' # NULL /\ exec' # old /\ exec' # exec
    BY <1>1, <1>2, <1>3, <1>5, <2>1, <2>2 DEF HostInv, OwnContexts, HostTypeOK
  <2> HIDE DEF old
  <2>4. /\ \A s \in Slots : pos'[s] = IF s = old THEN there ELSE pos[s]
        /\ \A s \in Slots : ucMask'[s] = IF s = old THEN TRUE ELSE ucMask[s]
        /\ pos' \in [Slots \cup {NULL} -> Positions]
        /\ ucMask' \in [Slots -> BOOLEAN]
    BY <1>1, <1>3, <2>1 DEF HostTypeOK
  <2>5. mask' \in BOOLEAN /\ (mask' <=> pos'[exec'] # "app")
    BY <1>3, <2>1, <2>3, <2>4 DEF HostInv, OwnContexts, HostTypeOK
  <2>6. ASSUME NEW s \in Slots, s # exec' PROVE ucMask'[s] <=> pos'[s] # "app"
    <3>1. CASE s = old
      BY <2>4, <3>1
    <3>2. CASE s # old
      <4>1. s # exec
        BY <1>1, <3>2, Executing
      <4>2. ucMask[s] <=> pos[s] # "app"
        BY <4>1 DEF HostInv, OwnContexts
      <4>3. ucMask'[s] = ucMask[s] /\ pos'[s] = pos[s]
        BY <2>4, <3>2
      <4> QED BY <4>2, <4>3
    <3> QED BY <3>1, <3>2
  <2>7. /\ owner' \in [Slots -> Tasks \cup {NULL}]
        /\ \A s \in Slots : s # old => owner'[s] = owner[s]
        /\ owner'[old] = IF exec = NULL THEN NULL ELSE owner[old]
    BY <1>1, <1>3, <2>1 DEF HostTypeOK, Executes
  <2>8. HostTypeOK' /\ MaskExact'
    BY <1>3, <2>3, <2>4, <2>5, <2>7 DEF HostTypeOK, MaskExact
  <2>9. \A s \in Slots : MainIn(s)' => ucMask'[s] /\ (exec = NULL => s = old)
    BY <2>4, <2>7 DEF HostInv, OwnContexts, MainIn
  <2>10. \A s, r \in Slots : MainIn(s)' /\ MainIn(r)' => s = r
    <3>1. CASE exec = NULL
      BY <2>9, <3>1
    <3>2. CASE exec # NULL
      <4>1. \A s \in Slots : owner'[s] = owner[s]
        BY <2>7, <3>2
      <4> QED BY <4>1 DEF HostInv, OwnContexts, MainIn
    <3> QED BY <3>1, <3>2
  <2>11. \A t \in Tasks : slotOf'[t] # NULL =>
            slotKey'[slotOf'[t]] # NULL /\ owner'[slotOf'[t]] \in {t, NULL}
    <3>1. ASSUME NEW t \in Tasks, slotOf[t] # NULL
          PROVE  slotKey[slotOf[t]] # NULL /\ owner[slotOf[t]] \in {t, NULL}
                 /\ slotOf[t] \in Slots
      BY <1>3, <3>1 DEF HostInv, OwnContexts, HostTypeOK
    <3> QED BY <2>7, <3>1
  <2> QED BY <2>1, <2>3, <2>6, <2>8, <2>9, <2>10, <2>11
          DEF HostInv, OwnContexts, NobodyAppears
<1> QED BY <1>4, <1>5

\* A step of the handler, or of irq_restore, that goes on to the task's code.
LEMMA BackInTask ==
    ASSUME HostInv, pos[exec] # "app",
           pos' = [pos EXCEPT ![exec] = "app"], mask' = FALSE,
           UNCHANGED <<vars, slotOf, slotKey, owner, ucMask, exec, fresh>>,
           inIsr' \in BOOLEAN
    PROVE  OwnContexts'
<1>1. exec \in Slots \cup {NULL} /\ HostTypeOK /\ isr = "none" /\ k.current # NULL
  <2>1. isr = "none"
    BY DEF HostInv, OwnContexts
  <2> QED BY <2>1, Executing DEF HostInv, OwnContexts, HostTypeOK
<1>2. /\ pos' \in [Slots \cup {NULL} -> Positions]
      /\ \A s \in Slots \cup {NULL} : pos'[s] = IF s = exec THEN "app" ELSE pos[s]
  BY <1>1 DEF HostTypeOK, Positions
<1>3. HostTypeOK' /\ MaskExact'
  BY <1>1, <1>2 DEF HostTypeOK, MaskExact, vars
<1>4. \A t \in Tasks : Present(t)' => Present(t)
  BY DEF vars, Present
<1> QED BY <1>1, <1>2, <1>3, <1>4 DEF HostInv, OwnContexts, vars, MainIn

\* br_hal_stack_init for the slot that br_task_create has chosen.
LEMMA StackInitKeeps ==
    ASSUME HostInv, EnoughSlots, FirstFree(k) \in Tasks,
           k.state[FirstFree(k)] = "INACTIVE",
           NEW stack \in FreeStacks, StackInit(FirstFree(k), stack),
           k'.current = k.current, isr' = isr, isr = "none",
           \A x \in Tasks : Present(x)' => Present(x) \/ x = FirstFree(k),
           UNCHANGED <<exec, mask, inIsr, fresh>>
    PROVE  OwnContexts'
<1> DEFINE u == FirstFree(k)
           s == alloc_slot(stack)
<1>1. /\ s \in Slots
      /\ \A t \in Tasks : slotOf[t] # s
      /\ \A r \in Slots : slotKey[r] = stack => r = s
      /\ stack \in Stacks /\ stack # NULL
  BY SlotFound DEF HostInv
<1>2. s # NULL
  BY <1>1, ListAssumption DEF Slots
<1>3. /\ slotOf' = [slotOf EXCEPT ![u] = s]
      /\ slotKey' = [slotKey EXCEPT ![s] = stack]
      /\ owner' = [owner EXCEPT ![s] = u]
      /\ pos' = [pos EXCEPT ![s] = "app"]
      /\ ucMask' = [ucMask EXCEPT ![s] = FALSE]
  BY <1>2 DEF StackInit
<1>4. u \in Tasks /\ u # k.current
  <2>1. k.current # NULL => k.state[k.current] # "INACTIVE"
    BY DEF HostInv, TasksSound, CpuSound, Sound, OneRunner
  <2> QED BY <2>1, ListAssumption
<1> HIDE DEF u, s
<1>5. HostTypeOK /\ exec \in Slots \cup {NULL}
  BY DEF HostInv, OwnContexts, HostTypeOK
<1>6. /\ \A t \in Tasks : slotOf'[t] = IF t = u THEN s ELSE slotOf[t]
      /\ \A r \in Slots : slotKey'[r] = IF r = s THEN stack ELSE slotKey[r]
      /\ \A r \in Slots : owner'[r] = IF r = s THEN u ELSE owner[r]
      /\ \A r \in Slots \cup {NULL} : pos'[r] = IF r = s THEN "app" ELSE pos[r]
      /\ \A r \in Slots : ucMask'[r] = IF r = s THEN FALSE ELSE ucMask[r]
  BY <1>3, <1>5 DEF HostTypeOK
<1>7. /\ slotOf' \in [Tasks -> Slots \cup {NULL}]
      /\ slotKey' \in [Slots -> Stacks \cup {NULL}]
      /\ owner' \in [Slots -> Tasks \cup {NULL}]
      /\ pos' \in [Slots \cup {NULL} -> Positions]
      /\ ucMask' \in [Slots -> BOOLEAN]
  BY <1>1, <1>3, <1>4, <1>5 DEF HostTypeOK, Positions
<1>8. exec # s /\ (exec # NULL => exec = slotOf'[k.current])
  <2>1. CASE exec = NULL
    BY <1>2, <2>1
  <2>2. CASE exec # NULL
    <3>1. k.current \in Tasks /\ exec = slotOf[k.current]
      BY <2>2, Executing
    <3> QED BY <1>1, <1>4, <1>6, <3>1
  <2> QED BY <2>1, <2>2
<1>9. HostTypeOK' /\ MaskExact'
  BY <1>5, <1>6, <1>7, <1>8 DEF HostInv, OwnContexts, HostTypeOK, MaskExact
<1>10. \A t \in Tasks : Present(t)' => slotOf'[t] # NULL
  BY <1>2, <1>6 DEF HostInv, OwnContexts, u
<1>11. \A t \in Tasks : slotOf'[t] # NULL =>
          slotKey'[slotOf'[t]] # NULL /\ owner'[slotOf'[t]] \in {t, NULL}
  <2> SUFFICES ASSUME NEW t \in Tasks, slotOf'[t] # NULL
               PROVE  slotKey'[slotOf'[t]] # NULL /\ owner'[slotOf'[t]] \in {t, NULL}
    OBVIOUS
  <2>1. CASE t = u
    BY <1>1, <1>6, <2>1
  <2>2. CASE t # u
    <3>1. slotOf'[t] = slotOf[t] /\ slotOf[t] \in Slots /\ slotOf[t] # s
      BY <1>1, <1>5, <1>6, <2>2 DEF HostTypeOK
    <3>2. slotKey[slotOf[t]] # NULL /\ owner[slotOf[t]] \in {t, NULL}
      BY <3>1 DEF HostInv, OwnContexts
    <3> QED BY <1>6, <3>1, <3>2
  <2> QED BY <2>1, <2>2
<1>12. \A t, x \in Tasks : slotOf'[t] = slotOf'[x] => t = x \/ slotOf'[t] = NULL
  BY <1>1, <1>6 DEF HostInv, OwnContexts
<1>13. \A r, q \in Slots : slotKey'[r] = slotKey'[q] => r = q \/ slotKey'[r] = NULL
  BY <1>1, <1>6 DEF HostInv, OwnContexts
<1>14. ASSUME NEW r \in Slots, r # exec PROVE ucMask'[r] <=> pos'[r] # "app"
  <2>1. CASE r = s
    BY <1>6, <2>1
  <2>2. CASE r # s
    <3>1. ucMask[r] <=> pos[r] # "app"
      BY <1>14 DEF HostInv, OwnContexts
    <3>2. ucMask'[r] = ucMask[r] /\ pos'[r] = pos[r]
      BY <1>6, <2>2
    <3> QED BY <3>1, <3>2
  <2> QED BY <2>1, <2>2
<1>15. k.current = NULL => exec = NULL /\ pos'[NULL] = "app"
  BY <1>2, <1>6 DEF HostInv, OwnContexts
<1>16. \A r \in Slots : MainIn(r)' => MainIn(r) /\ r # s
  BY <1>4, <1>6, ListAssumption DEF MainIn
<1>17. /\ \A r \in Slots : MainIn(r)' => exec # NULL /\ ucMask'[r]
       /\ \A r, q \in Slots : MainIn(r)' /\ MainIn(q)' => r = q
  BY <1>6, <1>16 DEF HostInv, OwnContexts
<1> QED BY <1>8, <1>9, <1>10, <1>11, <1>12, <1>13, <1>14, <1>15, <1>17
        DEF OwnContexts

-------------------------------------------------------------------------------
(***************************************************************************)
(* The kernel's part of the two steps of sigalrm_handler that are not      *)
(* steps of BrTasks: br_sched_tick comes behind the alarm, not before it.  *)
(***************************************************************************)
\* One tick later nobody has slept too long, unless the alarm is due.
LEMMA ElapsedTimed ==
    ASSUME NEW kk \in Kernel, NEW ob, Timed(kk, ob),
           NEW k2, k2 = Elapse(kk), Asleep(k2, ob) = Asleep(kk, ob),
           ~AlarmDue(k2)
    PROVE  Timed(k2, ob)
<1> SUFFICES ASSUME NEW x \in Asleep(kk, ob)
             PROVE  /\ k2.wake[x] > 0 /\ k2.alarm # NULL
                    /\ k2.alarm <= k2.wake[x]
  BY DEF Timed
<1>1. x \in Tasks
  BY DEF Asleep
<1>2. /\ kk.wake[x] \in 0 .. MaxTicks /\ kk.wake[x] > 0
      /\ kk.alarm \in 0 .. MaxTicks /\ kk.alarm <= kk.wake[x] /\ kk.alarm # NULL
  BY <1>1 DEF Kernel, Timed
<1>3. k2.wake[x] = Decrement(kk.wake[x]) /\ k2.alarm = Decrement(kk.alarm)
  BY <1>1, <1>2 DEF Elapse, Kernel
<1>4. /\ Decrement(kk.wake[x]) \in 0 .. MaxTicks
      /\ Decrement(kk.alarm) \in 0 .. MaxTicks
      /\ Decrement(kk.alarm) <= Decrement(kk.wake[x])
  BY <1>2, KernelAssumption DEF Decrement
<1>5. k2.alarm # NULL /\ k2.alarm # 0
  BY <1>3, <1>4, KernelAssumption DEF AlarmDue
<1> HIDE DEF Decrement
<1> QED BY <1>3, <1>4, <1>5, KernelAssumption

\* A step of the kernel that readies, suspends and creates nobody keeps the
\* calls in progress.
LEMMA OutKept ==
    ASSUME TasksSound, KeepsOut(k, k'), UNCHANGED <<pc, target>>,
           k.current # NULL => k'.current # NULL
    PROVE  CallsInProgress' /\ NobodyAppears
<1>1. CallsInProgress'
  <2> SUFFICES ASSUME NEW t \in Tasks, pc[t] # "app"
               PROVE  /\ t \in Managers
                      /\ k'.current # NULL /\ target[t] # k'.current
                      /\ pc[t] = "resume" => k'.state[target[t]] = "SUSPENDED"
                      /\ pc[t] = "create" => k'.state[target[t]] = "INACTIVE"
    BY DEF CallsInProgress
  <2>1. /\ t \in Managers /\ k.current # NULL /\ target[t] # k.current
        /\ target[t] \in Tasks /\ pc[t] \in {"app", "resume", "create"}
        /\ pc[t] = "resume" => k.state[target[t]] = "SUSPENDED"
        /\ pc[t] = "create" => k.state[target[t]] = "INACTIVE"
    BY DEF TasksSound, CallsInProgress, TypeInv, TypeOK, TargetChosen
  <2> QED BY <2>1 DEF KeepsOut
<1>2. NobodyAppears
  <2>1. \A u \in Tasks : k.state[u] = "INACTIVE" => u # k.current
    <3>1. k.current = NULL \/ k.state[k.current] # "INACTIVE"
      BY DEF TasksSound, CpuSound, Sound, OneRunner
    <3> QED BY <3>1, ListAssumption
  <2> QED BY <2>1 DEF NobodyAppears, Present, KeepsOut
<1> QED BY <1>1, <1>2

LEMMA SignalSound ==
    ASSUME HostInv, Disciplined, sigalrm_handler
    PROVE  TasksSound' /\ NobodyAppears /\ k'.current = k.current
<1> DEFINE k0 == Elapse(k)
<1>1. /\ k \in Kernel /\ Sound(k, obj) /\ isr = "none" /\ TasksSound
  <2>1. isr = "none"
    BY DEF sigalrm_handler, InMain, InTask
  <2> QED BY <2>1 DEF HostInv, TasksSound, TypeInv, TypeOK, CpuTypeOK, CpuSound
<1>2. /\ k.current # NULL /\ k.state[k.current] = "BLOCKED"
         /\ obj[k.current] = NULL
      => k.wake[k.current] > 1
  <2> SUFFICES ASSUME k.current # NULL, k.state[k.current] = "BLOCKED",
                      obj[k.current] = NULL
               PROVE  k.wake[k.current] > 1
    OBVIOUS
  <2>1. ~(k.wake[k.current] <= 1)
    BY DEF sigalrm_handler, TickWakesCurrent, Disciplined, Careful
  <2>2. k.current \in Tasks
    BY <1>1 DEF Kernel
  <2>3. k.wake[k.current] \in 0 .. MaxTicks
    BY <1>1, <2>2 DEF Kernel
  <2> QED BY <2>1, <2>3, KernelAssumption
<1>3. k0 = Elapse(k) /\ k0 \in Kernel
  BY <1>1, ElapseType
<1>4. /\ UNCHANGED <<pc, obj, resched, target>>
      /\ \/ k' = k0 /\ isr' = isr /\ (AlarmDue(k0) => k.current = NULL)
         \/ /\ k' = [k0 EXCEPT !.alarm = NULL] /\ isr' = "alarm"
            /\ k.current # NULL
  BY DEF sigalrm_handler
<1>5. k.current = NULL => k0.alarm = NULL
  BY <1>1 DEF Elapse, TasksSound, TypeInv, BootQuiet, Booting
<1> HIDE DEF k0
<1>6. /\ Sound(k0, obj) /\ k0.state = k.state /\ k0.current = k.current
      /\ KeepsOrder(k, obj, k0, obj) /\ KeepsOut(k, k0)
  BY <1>1, <1>2, <1>3, ElapseSound
<1>7. /\ Sound(k', obj) /\ k'.state = k0.state /\ k'.current = k0.current
      /\ KeepsOrder(k0, obj, k', obj) /\ KeepsOut(k0, k') /\ k' \in Kernel
  <2>1. CASE k' = [k0 EXCEPT !.alarm = NULL]
    <3>1. [k0 EXCEPT !.alarm = NULL] \in Kernel
      BY <1>3, AlarmType
    <3>2. /\ Sound(k', obj) /\ k'.state = k0.state /\ k'.current = k0.current
          /\ KeepsOrder(k0, obj, k', obj) /\ KeepsOut(k0, k')
      BY <1>6, <2>1, AlarmSound
    <3> QED BY <2>1, <3>1, <3>2
  <2>2. CASE k' = k0
    BY <1>3, <1>6, <2>2 DEF KeepsOrder, OrderKept, KeepsOut
  <2> QED BY <1>4, <2>1, <2>2
<1>8. KeepsOrder(k, obj, k', obj) /\ KeepsOut(k, k')
  BY <1>6, <1>7, KeepsTransitive
<1>9. OnTime'
  <2> SUFFICES ASSUME isr' = "none" PROVE Timed(k', obj)
    BY <1>4 DEF OnTime
  <2>1. k' = k0 /\ ~AlarmDue(k0)
    BY <1>4, <1>5 DEF AlarmDue
  <2>2. Timed(k, obj)
    BY <1>1 DEF TasksSound, OnTime
  <2>3. Asleep(k0, obj) = Asleep(k, obj)
    BY <1>6 DEF Asleep
  <2> QED BY <1>1, <1>3, <2>1, <2>2, <2>3, ElapsedTimed
<1>10. CallsInProgress' /\ NobodyAppears
  BY <1>1, <1>4, <1>6, <1>7, <1>8, OutKept
<1>11. TypeInv'
  BY <1>1, <1>4, <1>5, <1>6, <1>7
     DEF TasksSound, TypeInv, TypeOK, CpuTypeOK, BootQuiet, Booting, TargetChosen
<1>12. CpuSound'
  BY <1>1, <1>4, <1>6, <1>7 DEF TasksSound, CpuSound, WindowCloses
<1>13. InOrder'
  BY <1>1, <1>4, <1>8, OrderStep DEF TasksSound
<1> QED BY <1>1, <1>4, <1>6, <1>7, <1>9, <1>10, <1>11, <1>12, <1>13 DEF TasksSound

LEMMA HandlerTickSound ==
    ASSUME HostInv, Disciplined, HandlerTick
    PROVE  TasksSound' /\ NobodyAppears /\ k'.current # NULL
<1>1. /\ k \in Kernel /\ Sound(k, obj) /\ isr = "none" /\ TasksSound
      /\ UNCHANGED <<pc, obj, resched, isr, target>>
      /\ k' = k \/ k' = br_sched_tick(k)
  BY DEF HandlerTick, TickOfHost, HostInv, TasksSound, TypeInv, TypeOK,
         CpuTypeOK, CpuSound
<1>2. k.current \in Tasks
  BY Executing DEF HandlerTick
<1>3. CASE k' = k
  <2>1. KeepsOut(k, k')
    BY <1>2, <1>3 DEF KeepsOut
  <2>2. CallsInProgress' /\ NobodyAppears
    BY <1>1, <1>3, <2>1, OutKept
  <2> QED BY <1>1, <1>2, <1>3, <2>2, ListAssumption
          DEF TasksSound, TypeInv, TypeOK, CpuTypeOK, BootQuiet, Booting,
              TargetChosen, CpuSound, InOrder, OnTime
<1>4. CASE k' = br_sched_tick(k)
  <2>1. /\ k' \in Kernel /\ Sound(k', obj)
        /\ \/ k'.current = k.current /\ k'.state = k.state
           \/ k'.current \in Tasks /\ k'.state[k'.current] = "RUNNING"
        /\ KeepsOrder(k, obj, k', obj) /\ KeepsTime(k, obj, k', obj)
        /\ KeepsOut(k, k')
    BY <1>1, <1>4, TickSound
  <2>2. k'.current # NULL
    BY <1>2, <2>1, ListAssumption
  <2>3. CallsInProgress' /\ NobodyAppears
    BY <1>1, <2>1, <2>2, OutKept
  <2>4. TypeInv'
    BY <1>1, <2>1, <2>2
       DEF TasksSound, TypeInv, TypeOK, CpuTypeOK, BootQuiet, Booting, TargetChosen
  <2>5. CpuSound'
    BY <1>1, <2>1 DEF TasksSound, CpuSound, WindowCloses
  <2>6. InOrder' /\ OnTime'
    BY <1>1, <2>1, OrderStep, TimedKept DEF TasksSound, OnTime
  <2> QED BY <1>1, <2>2, <2>3, <2>4, <2>5, <2>6 DEF TasksSound
<1> QED BY <1>1, <1>3, <1>4

-------------------------------------------------------------------------------
\* The other steps are steps of BrTasks.
LEMMA HostStep ==
    ASSUME HostNext
    PROVE  Next \/ sigalrm_handler \/ HandlerTick \/ UNCHANGED vars
<1>1. CASE CreateAtBoot
  BY <1>1 DEF CreateAtBoot, Next, CpuNext
<1>2. CASE HostCreate
  BY <1>2 DEF HostCreate, Next, TasksNext
<1>3. CASE StartKernel \/ StartFirst
  BY <1>3 DEF StartKernel, StartFirst, Next, CpuNext
<1>4. CASE HostDelete
  BY <1>4 DEF HostDelete, Next, TasksNext
<1>5. CASE HostCall
  <2>1. ASSUME NEW t \in Tasks, UNCHANGED target,
               \/ Yield(t)
               \/ \E ticks \in 1 .. MaxTicks : Sleep(t, ticks)
               \/ br_sched_lock(t)
               \/ br_sched_unlock(t)
        PROVE  Next
    BY <2>1 DEF Next, CpuNext
  <2>2. ASSUME NEW t \in Tasks,
               \/ \E u \in Tasks : Suspend(t, u)
               \/ \E u \in Tasks : ResumeCheck(t, u)
               \/ ResumeReady(t)
               \/ CreateReady(t)
        PROVE  Next
    BY <2>2 DEF Next, TasksNext
  <2> QED BY <1>5, <2>1, <2>2 DEF HostCall
<1>6. CASE CallReschedule
  BY <1>6 DEF CallReschedule, Next, CpuNext
<1>7. CASE AlarmLoop \/ AlarmReschedule
  BY <1>7 DEF AlarmLoop, AlarmReschedule, Next, CpuNext
<1>8. CASE IrqRestore \/ HandlerReturn
  BY <1>8 DEF IrqRestore, HandlerReturn
<1> QED BY <1>1, <1>2, <1>3, <1>4, <1>5, <1>6, <1>7, <1>8 DEF HostNext

LEMMA HostTasksSound ==
    ASSUME HostInv, Disciplined, HostNext
    PROVE  TasksSound'
BY HostStep, NextSound, SignalSound, HandlerTickSound DEF HostInv

\* The calls of a task and the steps of the alarm handler.
LEMMA CpuAppears ==
    ASSUME HostInv, Disciplined, TasksSound', CpuRuns, UNCHANGED target
    PROVE  NobodyAppears
<1>1. CpuNext
  BY DEF CpuRuns, CpuNext
<1> QED BY <1>1, CpuKeeps DEF HostInv, TasksSound

LEMMA CallKeeps ==
    ASSUME HostInv, Disciplined, TasksSound', HostCall
    PROVE  OwnContexts'
<1>1. UNCHANGED hostVars
  BY DEF HostCall
<1>2. PICK t \in Tasks :
        \/ /\ \/ Yield(t)
              \/ \E ticks \in 1 .. MaxTicks : Sleep(t, ticks)
              \/ br_sched_lock(t)
              \/ br_sched_unlock(t)
           /\ UNCHANGED target
        \/ \E u \in Tasks : Suspend(t, u)
        \/ \E u \in Tasks : ResumeCheck(t, u)
        \/ ResumeReady(t)
        \/ CreateReady(t)
  BY DEF HostCall
<1>3. TypeInv' /\ TasksSound
  BY DEF HostInv, TasksSound
<1>4. CASE Yield(t) /\ UNCHANGED target
  <2>1. k' = k /\ isr' = isr /\ CpuRuns
    BY <1>4 DEF Yield, CpuRuns
  <2> QED BY <1>1, <1>4, <2>1, CpuAppears, QuietKeeps
<1>5. CASE (\E ticks \in 1 .. MaxTicks : Sleep(t, ticks)) /\ UNCHANGED target
  <2>1. CpuRuns /\ isr' = isr
    BY <1>5 DEF CpuRuns, Sleep
  <2>2. k'.current = k.current
    BY <1>5, TimeFrame DEF Sleep
  <2> QED BY <1>1, <1>5, <2>1, <2>2, CpuAppears, QuietKeeps
<1>6. CASE (br_sched_lock(t) \/ br_sched_unlock(t)) /\ UNCHANGED target
  <2>1. \A n : [k EXCEPT !.lock = n].current = k.current
    OBVIOUS
  <2>2. k'.current = k.current /\ isr' = isr /\ CpuRuns
    BY <1>6, <2>1 DEF br_sched_lock, br_sched_unlock, CpuRuns
  <2> QED BY <1>1, <1>6, <2>2, CpuAppears, QuietKeeps
<1>7. ASSUME NEW u \in Tasks, Suspend(t, u) PROVE OwnContexts'
  <2>1. k'.current = k.current /\ isr' = isr
    BY <1>7, TaskFrame DEF Suspend
  <2> QED BY <1>1, <1>3, <1>7, <2>1, SuspendKeeps, QuietKeeps
<1>8. ASSUME NEW u \in Tasks, ResumeCheck(t, u) PROVE OwnContexts'
  <2>1. k'.current = k.current /\ isr' = isr
    BY <1>8 DEF ResumeCheck
  <2> QED BY <1>1, <1>3, <1>8, <2>1, ResumeCheckKeeps, QuietKeeps
<1>9. CASE ResumeReady(t) \/ CreateReady(t)
  <2>1. k'.current = k.current /\ isr' = isr
    BY <1>9, SchedFrame DEF ResumeReady, CreateReady
  <2> QED BY <1>1, <1>3, <1>9, <2>1, ReadyKeeps, QuietKeeps
<1> QED BY <1>2, <1>4, <1>5, <1>6, <1>7, <1>8, <1>9

LEMMA CreatingKeeps ==
    ASSUME HostInv, Disciplined, EnoughSlots, TasksSound',
           CreateAtBoot \/ HostCreate
    PROVE  OwnContexts'
<1> DEFINE u == FirstFree(k)
<1>1. TypeInv' /\ TasksSound
  BY DEF HostInv, TasksSound
<1>2. ASSUME FreeSlots(k) # {}
      PROVE  u \in Tasks /\ k.state[u] = "INACTIVE"
  BY <1>2, FirstFreeFound DEF FreeSlots
<1>3. CASE CreateAtBoot
  <2>1. PICK prio \in Priorities : BootCreate(prio)
    BY <1>3 DEF CreateAtBoot
  <2>2. /\ k' = br_sched_ready(InitTcb(k, u, prio), u)
        /\ UNCHANGED <<pc, target, isr, exec, mask, inIsr, fresh>>
        /\ FreeSlots(k) # {} /\ k.current = NULL
    BY <1>3, <2>1 DEF CreateAtBoot, BootCreate, Booting
  <2>3. k'.current = k.current /\ isr = "none"
    <3>1. k'.current = k.current
      BY <2>2, SchedFrame, TaskFrame
    <3> QED BY <1>1, <2>2, <3>1 DEF TasksSound, TypeInv, BootQuiet, Booting
  <2>4. \A x \in Tasks : Present(x)' => Present(x) \/ x = u
    <3>1. \A x \in Tasks : x # u => k'.state[x] = k.state[x]
      <4>1. \A k1 : br_sched_ready(k1, u).state = [k1.state EXCEPT ![u] = "READY"]
        BY DEF br_sched_ready, PutReady
      <4>2. InitTcb(k, u, prio).state = k.state
        BY DEF InitTcb
      <4>3. k'.state = [k.state EXCEPT ![u] = "READY"]
        BY <2>2, <4>1, <4>2
      <4>4. k.state \in [Tasks -> States]
        BY <1>1 DEF TasksSound, TypeInv, TypeOK, CpuTypeOK, Kernel
      <4> HIDE DEF u
      <4> QED BY <4>3, <4>4
    <3> QED BY <2>2, <3>1 DEF Present
  <2>5. PICK stack \in FreeStacks : StackInit(u, stack)
    <3>1. FreeStacks \in SUBSET Nat /\ FreeStacks # {}
      BY <1>3, HostAssumption DEF CreateAtBoot, FreeStacks
    <3> QED BY <1>3, <3>1, LeastFound DEF CreateAtBoot
  <2> QED BY <1>2, <2>2, <2>3, <2>4, <2>5, StackInitKeeps
<1>4. CASE HostCreate
  <2>1. PICK t \in Tasks, prio \in AppPriorities : CreateSlot(t, prio)
    BY <1>4 DEF HostCreate
  <2>2. /\ \A x \in Tasks : Present(x)' => Present(x) \/ x = u
        /\ FreeSlots(k) # {} /\ isr' = isr
    BY <1>1, <2>1, CreateSlotKeeps DEF CreateSlot
  <2>3. k'.current = k.current /\ isr = "none"
    BY <1>4, <2>1, TaskFrame DEF CreateSlot, HostCreate, InTask
  <2>4. PICK stack \in FreeStacks : StackInit(u, stack)
    BY <1>4 DEF HostCreate
  <2>5. UNCHANGED <<exec, mask, inIsr, fresh>>
    BY <1>4 DEF HostCreate
  <2> QED BY <1>2, <2>2, <2>3, <2>4, <2>5, StackInitKeeps
<1> QED BY <1>3, <1>4

\* br_kernel_start sets current_task; main() goes on.
LEMMA StartKernelKeeps ==
    ASSUME HostInv, Disciplined, TasksSound', StartKernel
    PROVE  OwnContexts'
<1>1. /\ k.current = NULL /\ isr' = isr /\ UNCHANGED <<target, hostVars>>
      /\ CpuRuns
  BY DEF StartKernel, Start, Booting, CpuRuns
<1>2. exec = NULL /\ isr = "none"
  BY <1>1 DEF HostInv, OwnContexts
<1>3. NobodyAppears
  BY <1>1, CpuAppears
<1>4. k'.current \in Tasks
  <2>1. NextTask(k) \in Tasks /\ pick_next(k) \in Kernel
    BY PickType DEF StartKernel, Start, HostInv, TasksSound, TypeInv, TypeOK, CpuTypeOK
  <2> QED BY <2>1 DEF StartKernel, Start, br_sched_start, Dispatch, Kernel
<1>5. k'.current # NULL
  BY <1>4, ListAssumption
<1> QED BY <1>1, <1>2, <1>3, <1>5
        DEF HostInv, OwnContexts, hostVars, HostTypeOK, MaskExact, NobodyAppears,
            MainIn

\* setcontext enters the context of the current task, or leads main() back into
\* its handler.
LEMMA StartFirstKeeps ==
    ASSUME HostInv, StartFirst
    PROVE  OwnContexts'
<1>1. /\ k.current # NULL /\ Executes = NULL /\ pos[exec] = "app" /\ isr = "none"
      /\ UNCHANGED <<vars, slotOf, slotKey, owner, ucMask, inIsr, fresh>>
      /\ exec' = slotOf[k.current] /\ mask' = ucMask[exec']
  BY DEF StartFirst, InMain
<1>2. exec' \in Slots /\ exec' # NULL /\ HostTypeOK
  BY <1>1, Executing DEF HostInv, OwnContexts
<1>3. \A t \in Tasks : Present(t)' => Present(t)
  BY <1>1 DEF vars, Present
<1>4. CASE exec = NULL
  <2>1. UNCHANGED pos
    BY <1>4 DEF StartFirst
  <2>2. mask' <=> pos'[exec'] # "app"
    BY <1>1, <1>2, <1>4, <2>1 DEF HostInv, OwnContexts
  <2>3. HostTypeOK' /\ MaskExact'
    BY <1>1, <1>2, <2>1, <2>2 DEF HostTypeOK, MaskExact, vars
  <2>4. \A s \in Slots : ~MainIn(s)
    BY <1>4 DEF HostInv, OwnContexts
  <2>5. \A s \in Slots : ucMask'[s] <=> pos'[s] # "app"
    <3>1. \A s \in Slots : ucMask[s] <=> pos[s] # "app"
      BY <1>2, <1>4, Executing DEF HostInv, OwnContexts
    <3> QED BY <1>1, <2>1, <3>1
  <2> QED BY <1>1, <1>2, <1>3, <2>3, <2>4, <2>5
          DEF HostInv, OwnContexts, vars, MainIn
<1>5. CASE exec # NULL
  <2>1. PICK again \in {"alarm", "tick"} : pos' = [pos EXCEPT ![exec] = again]
    BY <1>5 DEF StartFirst
  <2>2. exec' = exec /\ MainIn(exec)
    <3>1. exec = slotOf[k.current] /\ k.current \in Tasks
      BY <1>5, Executing
    <3> QED BY <1>1, <1>5, <3>1 DEF HostInv, OwnContexts, MainIn, Executes
  <2>3. mask' = TRUE
    BY <1>1, <1>2, <2>2 DEF HostInv, OwnContexts, HostTypeOK
  <2>4. /\ pos' \in [Slots \cup {NULL} -> Positions]
        /\ \A s \in Slots : s # exec => pos'[s] = pos[s]
        /\ pos'[exec] # "app"
    BY <1>2, <2>1, <2>2 DEF HostTypeOK, Positions
  <2>5. HostTypeOK' /\ MaskExact'
    BY <1>1, <1>2, <2>2, <2>3, <2>4 DEF HostTypeOK, MaskExact, vars
  <2> QED BY <1>1, <1>2, <1>3, <2>2, <2>4, <2>5
          DEF HostInv, OwnContexts, vars, MainIn
<1> QED BY <1>4, <1>5

LEMMA RemovalKeeps ==
    ASSUME HostInv, Disciplined, TasksSound', HostDelete
    PROVE  OwnContexts'
<1>1. PICK t \in Tasks, u \in Tasks :
        Delete(t, u) /\ slotOf' = [slotOf EXCEPT ![u] = NULL]
  BY DEF HostDelete
<1>2. /\ UNCHANGED <<slotKey, owner, pos, ucMask, exec, mask, inIsr, fresh>>
      /\ isr' = isr
  BY <1>1 DEF HostDelete, Delete
<1>3. k'.current = k.current /\ u # k.current
  BY <1>1, TaskFrame DEF Delete
<1>4. NobodyAppears /\ ~Present(u)'
  BY <1>1, DeleteKeeps DEF HostInv, TasksSound
<1>5. HostTypeOK /\ \A x \in Tasks : slotOf'[x] = IF x = u THEN NULL ELSE slotOf[x]
  BY <1>1 DEF HostInv, OwnContexts, HostTypeOK
<1>6. HostTypeOK' /\ MaskExact'
  BY <1>1, <1>2, <1>5 DEF HostInv, OwnContexts, HostTypeOK, MaskExact
<1>7. k.current \in Tasks \cup {NULL} /\ (exec # NULL => k.current # NULL)
  BY Executing
<1> QED BY <1>2, <1>3, <1>4, <1>5, <1>6, <1>7
        DEF HostInv, OwnContexts, NobodyAppears, MainIn

LEMMA SwapsKeep ==
    ASSUME HostInv, Disciplined, TasksSound', CallReschedule \/ AlarmReschedule
    PROVE  OwnContexts'
<1>1. k.current \in Tasks /\ k.current # NULL
  BY Executing, TaskExecutes, ListAssumption
     DEF CallReschedule, AlarmReschedule, AlarmDone
<1>2. k'.current # NULL /\ NobodyAppears
  <2>1. CpuRuns /\ UNCHANGED target
    BY DEF CallReschedule, AlarmReschedule, CpuRuns
  <2>2. CpuNext
    BY <2>1 DEF CpuRuns, CpuNext
  <2> QED BY <1>1, <2>1, <2>2, CpuAppears, CpuStaysStarted
          DEF HostInv, TasksSound, TypeInv, TypeOK, CpuTypeOK
<1>3. UNCHANGED <<slotOf, slotKey, inIsr>> /\ fresh' \in BOOLEAN
  BY DEF CallReschedule, AlarmReschedule, HostInv, OwnContexts, HostTypeOK
<1>4. MaskExact
  BY DEF HostInv, OwnContexts
<1>5. CASE CallReschedule
  <2>1. /\ SwapContext("call", "app") /\ ~mask /\ isr' = "none"
    BY <1>4, <1>5 DEF CallReschedule, InTask, Reschedule, MaskExact
  <2> QED BY <1>1, <1>2, <1>3, <2>1, SwapKeeps DEF Positions
<1>6. CASE AlarmReschedule
  <2>1. /\ SwapContext("alarm", "alarm") /\ mask /\ isr' = "none"
    BY <1>1, <1>4, <1>6 DEF AlarmReschedule, AlarmDone, MaskExact
  <2> QED BY <1>1, <1>2, <1>3, <2>1, SwapKeeps DEF Positions
<1> QED BY <1>5, <1>6

LEMMA HandlerKeeps ==
    ASSUME HostInv, Disciplined, TasksSound',
           sigalrm_handler \/ AlarmLoop \/ HandlerTick
    PROVE  OwnContexts'
<1>1. CASE sigalrm_handler
  <2>1. NobodyAppears /\ k'.current = k.current
    BY <1>1, SignalSound
  <2>2. UNCHANGED <<slotOf, slotKey, owner, ucMask, exec>> /\ fresh' \in BOOLEAN
    BY <1>1 DEF sigalrm_handler
  <2>3. HostTypeOK /\ MaskExact
    BY DEF HostInv, OwnContexts
  <2>4. CASE k.current = NULL
    <3>1. UNCHANGED <<isr, pos, mask, inIsr>>
      BY <1>1, <2>4 DEF sigalrm_handler
    <3>2. HostTypeOK' /\ MaskExact'
      BY <2>2, <2>3, <3>1 DEF HostTypeOK, MaskExact
    <3> QED BY <2>1, <2>2, <3>1, <3>2
            DEF HostInv, OwnContexts, NobodyAppears, MainIn
  <2>5. CASE k.current # NULL
    <3>1. /\ mask' = TRUE /\ inIsr' = TRUE /\ pos[exec] = "app" /\ isr = "none"
          /\ \/ isr' = "alarm" /\ UNCHANGED pos
             \/ isr' = isr /\ pos' = [pos EXCEPT ![exec] = "alarm"]
      BY <1>1, <2>5 DEF sigalrm_handler, InTask, InMain
    <3>2. exec \in Slots \cup {NULL} /\ pos \in [Slots \cup {NULL} -> Positions]
      BY <2>3 DEF HostTypeOK
    <3>3. /\ pos' \in [Slots \cup {NULL} -> Positions]
          /\ \A s \in Slots : s # exec => pos'[s] = pos[s]
          /\ pos'[exec] # "app" \/ isr' # "none"
          /\ isr' # "none" => pos'[exec] = "app"
      BY <3>1, <3>2 DEF Positions
    <3>4. HostTypeOK' /\ MaskExact'
      BY <2>2, <2>3, <3>1, <3>3 DEF HostTypeOK, MaskExact
    <3> QED BY <2>1, <2>2, <2>5, <3>1, <3>3, <3>4
            DEF HostInv, OwnContexts, NobodyAppears, MainIn
  <2> QED BY <2>4, <2>5
<1>2. CASE AlarmLoop
  <2>1. k'.current = k.current /\ isr' = isr /\ CpuRuns /\ UNCHANGED <<target, hostVars>>
    BY <1>2, TimeFrame DEF AlarmLoop, AlarmWake, CpuRuns
  <2> QED BY <2>1, CpuAppears, QuietKeeps
<1>3. CASE HandlerTick
  <2>1. NobodyAppears /\ k'.current # NULL
    BY <1>3, HandlerTickSound
  <2>2. /\ pos[exec] = "alarm" /\ isr' = "none" /\ fresh' \in BOOLEAN
        /\ SwapContext("tick", "tick") /\ UNCHANGED <<slotOf, slotKey, inIsr>>
        /\ k.current # NULL
    BY <1>3, Executing DEF HandlerTick
  <2>3. mask <=> TRUE
    BY <2>2 DEF HostInv, OwnContexts, MaskExact
  <2> QED BY <2>1, <2>2, <2>3, SwapKeeps DEF Positions
<1> QED BY <1>1, <1>2, <1>3

LEMMA BackKeeps ==
    ASSUME HostInv, IrqRestore \/ HandlerReturn
    PROVE  OwnContexts'
<1>1. /\ pos[exec] # "app"
      /\ pos' = [pos EXCEPT ![exec] = "app"] /\ mask' = FALSE
      /\ UNCHANGED <<vars, slotOf, slotKey, owner, ucMask, exec, fresh>>
      /\ inIsr' \in BOOLEAN
  BY DEF IrqRestore, HandlerReturn, HostInv, OwnContexts, HostTypeOK
<1> QED BY <1>1, BackInTask

LEMMA HostAlways ==
    ASSUME Disciplined, EnoughSlots
    PROVE  HostSpec => []HostInv
<1>1. ASSUME HostInit PROVE HostInv
  <2>1. Init /\ TasksSound
    BY <1>1, InitSound DEF HostInit
  <2>2. \A t \in Tasks : ~Present(t)
    BY <2>1 DEF Init, CpuInit, InitialKernel, Present
  <2>3. k.current = NULL /\ isr = "none"
    BY <2>1 DEF Init, CpuInit, InitialKernel
  <2>4. HostTypeOK /\ MaskExact
    <3>1. HostTypeOK
      BY <1>1 DEF HostInit, HostTypeOK, Positions
    <3>2. pos[exec] = "app" /\ mask = FALSE
      BY <1>1 DEF HostInit
    <3> QED BY <2>3, <3>1, <3>2 DEF MaskExact
  <2> QED BY <1>1, <2>1, <2>2, <2>3, <2>4 DEF HostInit, HostInv, OwnContexts, MainIn
<1>2. ASSUME HostInv, [HostNext]_hostAll PROVE HostInv'
  <2>1. CASE HostNext
    <3>1. TasksSound'
      BY <1>2, <2>1, HostTasksSound
    <3>2. OwnContexts'
      BY <1>2, <2>1, <3>1, CallKeeps, CreatingKeeps, StartKernelKeeps,
         StartFirstKeeps, RemovalKeeps, SwapsKeep, HandlerKeeps, BackKeeps DEF HostNext
    <3> QED BY <3>1, <3>2 DEF HostInv
  <2>2. CASE UNCHANGED hostAll
    <3>1. UNCHANGED vars /\ UNCHANGED hostVars
      BY <2>2 DEF hostAll
    <3>2. TasksSound'
      BY <1>2, <3>1, NextSound DEF HostInv
    <3>3. k'.current = k.current /\ isr' = isr /\ NobodyAppears
      BY <3>1 DEF vars, NobodyAppears, Present
    <3> QED BY <1>2, <3>1, <3>2, <3>3, QuietKeeps DEF HostInv
  <2> QED BY <1>2, <2>1, <2>2
<1> QED BY <1>1, <1>2, PTL DEF HostSpec

\* The slots, the positions and the masks of the host port always have values of
\* their types: a context that is resumed exists, and so does its saved mask.
THEOREM HostTypeCorrect ==
    ASSUME Disciplined, EnoughSlots
    PROVE  HostSpec => []HostTypeOK
<1>1. HostInv => HostTypeOK
  BY DEF HostInv, OwnContexts
<1> QED BY <1>1, HostAlways, PTL

\* The signal mask: the code of a task never executes with SIGALRM blocked, nor
\* the rest of a handler or of a reschedule with SIGALRM unblocked, although
\* swapcontext is called in the middle of the handler.
THEOREM MaskIsExact ==
    ASSUME Disciplined, EnoughSlots
    PROVE  HostSpec => []MaskExact
<1>1. HostInv => MaskExact
  BY DEF HostInv, OwnContexts
<1> QED BY <1>1, HostAlways, PTL

\* The context that executes is that of the running task, and no two tasks share
\* one: br_hal_stack_init finds a slot that nobody else uses, the one of the stack
\* if it has been used before.  A slot holds the context of its task, but for one
\* over which a handler has saved main() before the first task was entered.
THEOREM SlotsMatchTasks ==
    ASSUME Disciplined, EnoughSlots
    PROVE  HostSpec => []ContextsMatchTasks
<1>1. ASSUME HostInv PROVE ContextsMatchTasks
  <2> DEFINE InUse == {t \in Tasks : k.state[t] # "INACTIVE"}
             Lost  == {t \in InUse : owner[slotOf[t]] # t}
  <2>1. \A t \in InUse : slotOf[t] # NULL /\ slotOf[t] \in Slots
    BY <1>1 DEF HostInv, OwnContexts, HostTypeOK, Present
  <2>2. \A t \in Lost : MainIn(slotOf[t]) /\ slotOf[t] \in Slots
    BY <1>1, <2>1 DEF HostInv, OwnContexts, MainIn
  <2>3. \A t \in Lost : owner[slotOf[t]] = NULL /\ exec # NULL
    BY <1>1, <2>2 DEF HostInv, OwnContexts, MainIn
  <2>4. \A t, u \in Lost : t = u
    BY <1>1, <2>1, <2>2 DEF HostInv, OwnContexts
  <2>5. /\ exec # NULL => exec = slotOf[k.current]
        /\ \A t, u \in Tasks : slotOf[t] = slotOf[u] => t = u \/ slotOf[t] = NULL
    BY <1>1 DEF HostInv, OwnContexts
  <2> QED BY <2>1, <2>3, <2>4, <2>5 DEF ContextsMatchTasks
<1> QED BY <1>1, HostAlways, PTL

\* The lists hold exactly the tasks whose state says so on the host as well,
\* where the alarm comes before the round-robin tick.
THEOREM HostListsIntact ==
    ASSUME Disciplined, EnoughSlots
    PROVE  HostSpec => []ListsMatchStates
<1>1. HostInv => ListsMatchStates
  BY SoundMeans DEF HostInv, TasksSound, TypeInv, TypeOK
<1> QED BY <1>1, HostAlways, PTL
===============================================================================
