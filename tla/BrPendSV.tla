------------------------------ MODULE BrPendSV ------------------------------
(***************************************************************************)
(* The Cortex-M context switch (arch/arm-cortex-m/br_hal_context.c) under  *)
(* the task system of BrTasks.  br_hal_context_switch only records which   *)
(* stack pointers to exchange and pends PendSV; the registers change hands *)
(* later, in PendSV_Handler.  BrTasks lets k.current execute at once: here *)
(* a task executes only when the registers really hold its context, and    *)
(* the properties say that this is the same task.                          *)
(*                                                                         *)
(* The code never writes the exception priorities, so PendSV and SysTick   *)
(* have the same one: neither preempts the other, and PendSV, which has    *)
(* the lower exception number, is taken first when both are pending.       *)
(***************************************************************************)
EXTENDS BrTasks

CONSTANTS MAIN,     \* the context of main(), on the main stack
          NONE,     \* no PendSV is pending
          Fragile   \* the tasks that may run over the end of their stack

ASSUME PendSVAssumption ==
    /\ Fragile \subseteq Tasks
    /\ MAIN \notin Tasks \cup {NULL}
    /\ NONE \notin [old : Tasks, new : Tasks]

VARIABLES
    cpu,       \* whose context the registers and the process stack hold;
               \*   NULL: one that had been restored before
    sp,        \* per TCB: whose context the saved stack pointer leads to
    pendsv,    \* what PendSV will exchange: br_hal_old_sp_ptr, .._new_sp_ptr
    intact,    \* per task: the canary at the end of its stack is intact
    halted,    \* br_hal_panic has stopped the processor
    clobbered  \* history: a request came before another one, or before the
               \*   first task, had its context in the registers

portVars == <<cpu, sp, pendsv, intact, halted, clobbered>>
allVars  == <<vars, portVars>>

PortInit ==
    /\ Init
    /\ cpu = MAIN
    /\ sp = [t \in Tasks |-> NULL]
    /\ pendsv = NONE
    /\ intact = [t \in Tasks |-> TRUE]
    /\ halted = FALSE
    /\ clobbered = FALSE

\* main() has called br_sched_start and SVC has not been taken yet.
Starting == cpu = MAIN /\ k.current # NULL

\* Mistakes: PendSV has the lowest priority, and the canary that is looked at
\* is that of the incoming task.
ThreadMode_LowestPendSV ==
    ~halted /\ ~clobbered /\ (k.current = NULL \/ cpu = k.current \/ pendsv # NONE)
CheckedTask_Incoming == k'.current

\* The processor is in thread mode, in main() or in the task the kernel takes
\* for the running one.  Nothing is modelled past a lost context.
ThreadMode ==
    ~halted /\ ~clobbered /\ pendsv = NONE /\ (k.current = NULL \/ cpu = k.current)

CheckedTask == k.current

br_hal_check_stack_overflow == intact[CheckedTask]

br_hal_panic == halted' = TRUE /\ UNCHANGED <<pendsv, clobbered>>

\* PendSV is pended; a request that is already there is overwritten.
br_hal_context_switch ==
    /\ pendsv' = [old |-> k.current, new |-> k'.current]
    /\ clobbered' = (clobbered \/ pendsv # NONE \/ cpu = MAIN)
    /\ UNCHANGED halted

\* What br_sched_reschedule does for the port when a kernel step changes
\* current_task.  After a panic the kernel's memory is not looked at again.
Request ==
    IF k'.current = k.current \/ k.current = NULL
    THEN UNCHANGED <<pendsv, halted, clobbered>>
    ELSE IF br_hal_check_stack_overflow
         THEN br_hal_context_switch
         ELSE br_hal_panic

\* br_task_create: br_hal_stack_init and the canary.
Create ==
    /\ ThreadMode
    /\ LET u == FirstFree(k)
       IN  /\ \E prio \in Priorities :
                \/ BootCreate(prio) /\ UNCHANGED target
                \/ prio \in AppPriorities /\ \E t \in Tasks : CreateSlot(t, prio)
           /\ sp' = [sp EXCEPT ![u] = u]
           /\ intact' = [intact EXCEPT ![u] = TRUE]
    /\ UNCHANGED <<cpu, pendsv, halted, clobbered>>

DeleteTask ==
    /\ ThreadMode
    /\ \E t, u \in Tasks : Delete(t, u) /\ sp' = [sp EXCEPT ![u] = NULL]
    /\ UNCHANGED <<cpu, pendsv, intact, halted, clobbered>>

\* The other calls of a task, and main()'s call of br_kernel_start.
Call ==
    /\ ThreadMode
    /\ \/ Start /\ UNCHANGED target
       \/ \E t \in Tasks :
            \/ /\ \/ Reschedule(t)
                  \/ Yield(t)
                  \/ \E ticks \in 1 .. MaxTicks : Sleep(t, ticks)
                  \/ br_sched_lock(t)
                  \/ br_sched_unlock(t)
               /\ UNCHANGED target
            \/ \E u \in Tasks : Suspend(t, u)
            \/ \E u \in Tasks : ResumeCheck(t, u)
            \/ ResumeReady(t)
            \/ CreateReady(t)
    /\ Request
    /\ UNCHANGED <<cpu, sp, intact>>

\* The timer interrupt; it may also come between br_sched_start and SVC.
Interrupt ==
    /\ \/ (ThreadMode \/ (Starting /\ ~clobbered /\ ~halted)) /\ SysTick_Handler
       \/ ~halted /\ (AlarmWake \/ AlarmDone)
    /\ Request
    /\ UNCHANGED <<target, cpu, sp, intact>>

\* The code of the running task writes past the end of its stack.  (That the
\* frames PendSV_Handler pushes, after the check, do so is left out.)
Overflow ==
    /\ ThreadMode /\ isr = "none"
    /\ cpu \in Fragile /\ intact[cpu]
    /\ intact' = [intact EXCEPT ![cpu] = FALSE]
    /\ UNCHANGED <<vars, cpu, sp, pendsv, halted, clobbered>>

SVC_Handler ==
    /\ Starting /\ ~clobbered /\ ~halted /\ isr = "none" /\ pendsv = NONE
    /\ cpu' = sp[k.current]
    /\ sp' = [sp EXCEPT ![k.current] = NULL]
    /\ UNCHANGED <<vars, pendsv, intact, halted, clobbered>>

\* Mistake: the pointer to the new stack pointer is used for both.
PendSV_Handler_SavesInNew ==
    /\ isr = "none" /\ ~halted /\ pendsv # NONE
    /\ cpu' = sp[pendsv.new]
    /\ sp' = [sp EXCEPT ![pendsv.new] = cpu]
    /\ pendsv' = NONE
    /\ UNCHANGED <<vars, intact, halted, clobbered>>

\* A restored context is no longer in memory: its frame has been popped.
PendSV_Handler ==
    /\ isr = "none" /\ ~halted /\ pendsv # NONE
    /\ cpu' = sp[pendsv.new]
    /\ sp' = [sp EXCEPT ![pendsv.old] = cpu, ![pendsv.new] = NULL]
    /\ pendsv' = NONE
    /\ UNCHANGED <<vars, intact, halted, clobbered>>

PortNext ==
    \/ Create
    \/ DeleteTask
    \/ Call
    \/ Interrupt
    \/ Overflow
    \/ SVC_Handler
    \/ PendSV_Handler

PortSpec == PortInit /\ [][PortNext]_allVars

-------------------------------------------------------------------------------

PortTypeOK ==
    /\ cpu \in Tasks \cup {MAIN, NULL}
    /\ cpu = NULL => clobbered
    /\ sp \in [Tasks -> Tasks \cup {MAIN, NULL}]
    /\ pendsv \in {NONE} \cup [old : Tasks, new : Tasks]
    /\ intact \in [Tasks -> BOOLEAN]
    /\ halted \in BOOLEAN /\ clobbered \in BOOLEAN

\* Unless a request was overwritten, the registers hold the context of the
\* task that is to execute or that PendSV is about to save, and every other
\* task is found where its own TCB says: no context is lost, doubled or swapped.
ContextsIntact ==
    ~clobbered /\ ~halted =>
        /\ cpu = MAIN \/ cpu = IF pendsv = NONE THEN k.current ELSE pendsv.old
        /\ \A t \in Tasks :
              k.state[t] # "INACTIVE" /\ t # cpu => sp[t] = t

\* A request is overwritten in two situations only: SysTick ends a time slice
\* and wakes a sleeper in the same interrupt, or it ends the slice of the first
\* task before SVC has been taken.
OnlyTwoRaces ==
    [][clobbered' # clobbered =>
         \/ isr = "alarm" /\ pendsv # NONE
         \/ Starting]_allVars

\* A task that ran over its stack is stopped, with the whole system, before
\* another task executes on the damaged memory.
OverflowCaught ==
    ~halted => \A t \in Tasks : ~intact[t] => t = k.current
===============================================================================
