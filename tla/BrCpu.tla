-------------------------------- MODULE BrCpu --------------------------------
(***************************************************************************)
(* One processor running the kernel: boot, the task that executes, the     *)
(* window between br_hal_irq_restore and br_sched_reschedule, the system   *)
(* timer interrupt, and the calls every application uses (yield, sleep,    *)
(* scheduler lock).  BrTasks, BrSem and the other system modules extend    *)
(* it with their own calls.                                                *)
(*                                                                         *)
(* A critical section (IRQs disabled) is one action.  Interrupts may be    *)
(* taken between any two actions.  The timer interrupt runs to completion  *)
(* before any task executes again, in the order of SysTick_Handler of      *)
(* arch/arm-cortex-m/br_hal_timer.c.  The context switch is ideal: the     *)
(* task that executes is k.current.                                        *)
(***************************************************************************)
EXTENDS BrKernel

CONSTANTS
    AppPriorities,    \* the priorities main() may give to its tasks
    WakeInWindow,     \* may an interrupt wake the running task after it
                      \*   blocked itself and before it calls reschedule?
    BlockWhileLocked  \* may a task block while it holds the scheduler lock?

ASSUME CpuAssumption ==
    /\ AppPriorities \subseteq Priorities
    /\ WakeInWindow \in BOOLEAN
    /\ BlockWhileLocked \in BOOLEAN

VARIABLES
    k,        \* the kernel's memory
    pc,       \* per task: the call in progress, "app" between calls
    obj,      \* per task: the wait queue of the call in progress, or NULL
    resched,  \* per task: a call of br_sched_reschedule is the next step
    isr       \* "alarm" while br_time_alarm_handler runs, else "none"

cpuVars == <<k, pc, obj, resched, isr>>

CpuInit ==
    /\ k = InitialKernel
    /\ pc = [t \in Tasks |-> "app"]
    /\ obj = [t \in Tasks |-> NULL]
    /\ resched = [t \in Tasks |-> FALSE]
    /\ isr = "none"

-------------------------------------------------------------------------------
(* Boot: main() creates tasks with the scheduler stopped.  The slot search *)
(* of br_task_create gives the idle task the first slot.                   *)

Booting == k.current = NULL

BootCreate(prio) ==
    /\ Booting
    /\ FreeSlots(k) # {}
    /\ LET t == FirstFree(k)
       IN  /\ prio \in IF t = Idle THEN {NumPriorities - 1} ELSE AppPriorities
           /\ k' = br_sched_ready(InitTcb(k, t, prio), t)
    /\ UNCHANGED <<pc, obj, resched, isr>>

\* br_kernel_start, once br_kernel_init has created the idle task.
Start ==
    /\ Booting
    /\ ReadyLevels(k) # {}
    /\ k' = br_sched_start(k)
    /\ UNCHANGED <<pc, obj, resched, isr>>

-------------------------------------------------------------------------------
(* The running task. *)

Running(t) == k.current = t /\ isr = "none" /\ ~k.hung

\* t is the running task and may call the kernel; idle_entry never does.
InApp(t) == Running(t) /\ t # Idle /\ ~resched[t] /\ pc[t] = "app"

MayBlock == k.lock > 0 => BlockWhileLocked

Reschedule(t) ==
    /\ Running(t)
    /\ resched[t]
    /\ k' = br_sched_reschedule(k)
    /\ resched' = [resched EXCEPT ![t] = FALSE]
    /\ UNCHANGED <<pc, obj, isr>>

\* br_task_yield, and br_sleep_us(0).
Yield(t) ==
    /\ InApp(t)
    /\ resched' = [resched EXCEPT ![t] = TRUE]
    /\ UNCHANGED <<k, pc, obj, isr>>

Sleep(t, ticks) ==
    /\ InApp(t)
    /\ MayBlock
    /\ k' = SleepSection(k, t, ticks)
    /\ resched' = [resched EXCEPT ![t] = TRUE]
    /\ UNCHANGED <<pc, obj, isr>>

br_sched_lock(t) ==
    /\ InApp(t)
    /\ k.lock < MaxLock
    /\ k' = [k EXCEPT !.lock = @ + 1]
    /\ UNCHANGED <<pc, obj, resched, isr>>

\* Mistake: an unlock that is not balanced by a lock is counted.
br_sched_unlock_NoFloor(t) ==
    /\ InApp(t)
    /\ MaxLock > 0
    /\ k' = [k EXCEPT !.lock = @ - 1]
    /\ resched' = [resched EXCEPT ![t] = k.lock <= 1]
    /\ UNCHANGED <<pc, obj, isr>>

br_sched_unlock(t) ==
    /\ InApp(t)
    /\ MaxLock > 0
    /\ k' = [k EXCEPT !.lock = Decrement(@)]
    /\ resched' = [resched EXCEPT ![t] = k.lock <= 1]
    /\ UNCHANGED <<pc, obj, isr>>

-------------------------------------------------------------------------------
(* Interrupts. *)

\* The running task has blocked itself and waits on the sleep list for a
\* time that is up at the next tick (obj: a timed wait, else a sleep).
TickWakesCurrent ==
    LET c == k.current
    IN  /\ c # NULL
        /\ k.state[c] = "BLOCKED"
        /\ k.wake[c] <= 1
        /\ obj[c] # NULL => k.wake[c] = 1

SysTick_Handler ==
    /\ isr = "none" /\ ~k.hung
    /\ TickWakesCurrent => WakeInWindow
    /\ LET k1 == br_sched_tick(Elapse(k))
       IN  IF AlarmDue(k1)
           THEN k' = [k1 EXCEPT !.alarm = NULL] /\ isr' = "alarm"
           ELSE k' = k1 /\ isr' = "none"
    /\ UNCHANGED <<pc, obj, resched>>

\* One iteration of the loop of br_time_alarm_handler.
AlarmWake ==
    /\ isr = "alarm" /\ ~k.hung
    /\ Expired(k)
    /\ k' = WakeExpired(k)
    /\ UNCHANGED <<pc, obj, resched, isr>>

\* Mistake: the alarm is not programmed for the tasks that still sleep.
AlarmDone_Silent ==
    /\ isr = "alarm" /\ ~k.hung
    /\ ~Expired(k)
    /\ k' = br_sched_reschedule(k)
    /\ isr' = "none"
    /\ UNCHANGED <<pc, obj, resched>>

AlarmDone ==
    /\ isr = "alarm" /\ ~k.hung
    /\ ~Expired(k)
    /\ k' = br_sched_reschedule(reprogram_alarm(k))
    /\ isr' = "none"
    /\ UNCHANGED <<pc, obj, resched>>

CpuNext ==
    \/ \E prio \in Priorities : BootCreate(prio)
    \/ Start
    \/ \E t \in Tasks : \/ Reschedule(t)
                        \/ Yield(t)
                        \/ \E ticks \in 1 .. MaxTicks : Sleep(t, ticks)
                        \/ br_sched_lock(t)
                        \/ br_sched_unlock(t)
    \/ SysTick_Handler
    \/ AlarmWake
    \/ AlarmDone

(***************************************************************************)
(* Fairness: the processor executes (a pending call of reschedule and the  *)
(* steps of the alarm handler are taken) and the system timer ticks.       *)
(* Nothing obliges an application to call the kernel.                      *)
(***************************************************************************)
CpuFairness ==
    /\ WF_cpuVars(\E t \in Tasks : Reschedule(t))
    /\ WF_cpuVars(SysTick_Handler)
    /\ WF_cpuVars(AlarmWake \/ AlarmDone)

-------------------------------------------------------------------------------
(* What the kernel's memory promises. *)

\* Every component has values of its type.
CpuTypeOK ==
    /\ k \in Kernel
    /\ obj \in [Tasks -> WaitQueues \cup {NULL}]
    /\ resched \in [Tasks -> BOOLEAN]
    /\ isr \in {"none", "alarm"}

ReadyTasks == {t \in Tasks : k.state[t] = "READY"}
Sleepers   == {t \in Tasks : k.state[t] = "BLOCKED" /\ obj[t] = NULL}
Waiters(q) == {t \in Tasks : k.state[t] = "BLOCKED" /\ obj[t] = q}

\* No link cell and no head targets a task another one targets: no task is on
\* two lists, none is twice on one, no list joins another or loops.
SingleLink ==
    /\ \A x, y \in Tasks : k.next[x] = k.next[y] => x = y \/ k.next[x] = NULL
    /\ \A p, r \in Priorities :
          k.ready[p] = k.ready[r] => p = r \/ k.ready[p] = NULL
    /\ \A q, r \in WaitQueues : k.wq[q] = k.wq[r] => q = r \/ k.wq[q] = NULL
    /\ \A p \in Priorities : k.ready[p] = NULL \/ k.ready[p] # k.sleep_list
    /\ \A p \in Priorities, q \in WaitQueues :
          k.ready[p] = NULL \/ k.ready[p] # k.wq[q]
    /\ \A q \in WaitQueues : k.wq[q] = NULL \/ k.wq[q] # k.sleep_list
    /\ \A x \in Tasks :
          \/ k.next[x] = NULL
          \/ /\ k.next[x] # k.sleep_list
             /\ \A p \in Priorities : k.next[x] # k.ready[p]
             /\ \A q \in WaitQueues : k.next[x] # k.wq[q]

\* The lists hold exactly the tasks whose state says so: nobody who is READY,
\* asleep or waiting is lost, nobody else is found.
ListsMatchStates ==
    /\ SingleLink
    /\ ReadyTasks = UNION {Visited(k.ready[p], k.next, {}) : p \in Priorities}
    /\ Sleepers = Visited(k.sleep_list, k.next, {})
    /\ \A q \in WaitQueues : Waiters(q) = Visited(k.wq[q], k.next, {})

\* No loop over a list ever runs for good inside a critical section.
NoEndlessWalk == ~k.hung

\* Outside the window after a blocking section the task that executes is
\* RUNNING, and no other task ever is.
OneRunning ==
    \A t \in Tasks :
        /\ k.state[t] = "RUNNING" => t = k.current
        /\ Running(t) /\ ~resched[t] => k.state[t] = "RUNNING"

\* The alarm never fires later than the first deadline on the sleep list,
\* and that is the earliest deadline of all sleepers.
AlarmCoversSleepers ==
    isr = "none" =>
        \A t \in Visited(k.sleep_list, k.next, {}) :
            /\ k.alarm # NULL
            /\ k.alarm <= k.wake[k.sleep_list]
            /\ k.wake[k.sleep_list] <= k.wake[t]
===============================================================================
