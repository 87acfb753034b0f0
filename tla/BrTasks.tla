------------------------------- MODULE BrTasks -------------------------------
(***************************************************************************)
(* Task management (kernel/br_task.c) on top of the scheduler and the      *)
(* sleep list: tasks suspend, resume, create and delete each other while   *)
(* they sleep, yield and are preempted.                                    *)
(***************************************************************************)
EXTENDS BrCpu

CONSTANTS
    Managers,        \* the tasks that call br_task_* on other tasks
    Victims,         \* the tasks those calls name
    SuspendBlocked   \* may a call suspend a task that is BLOCKED?

ASSUME TasksAssumption ==
    /\ Managers \subseteq Tasks
    /\ Victims \subseteq Tasks
    /\ SuspendBlocked \in BOOLEAN

VARIABLE target      \* per task: the slot its resume or create has chosen

vars == <<k, pc, obj, resched, isr, target>>

Init == CpuInit /\ target = [t \in Tasks |-> NULL]

\* br_task_suspend; br_sched_current is the caller when it is compared.
Suspend(t, u) ==
    /\ InApp(t)
    /\ u # t => t \in Managers /\ u \in Victims
    /\ u = t => MayBlock
    /\ k.state[u] # "INACTIVE"
    /\ k.state[u] = "BLOCKED" => SuspendBlocked
    /\ k' = SuspendSection(k, u)
    /\ resched' = [resched EXCEPT ![t] = u = t]
    /\ UNCHANGED <<pc, obj, isr, target>>

\* br_task_resume tests the state with interrupts enabled ...
ResumeCheck(t, u) ==
    /\ InApp(t)
    /\ t \in Managers /\ u \in Victims
    /\ k.state[u] = "SUSPENDED"
    /\ pc' = [pc EXCEPT ![t] = "resume"]
    /\ target' = [target EXCEPT ![t] = u]
    /\ UNCHANGED <<k, obj, resched, isr>>

\* ... and readies the task in a critical section of br_sched_ready.
ResumeReady(t) ==
    /\ Running(t)
    /\ pc[t] = "resume"
    /\ k' = br_sched_ready(k, target[t])
    /\ pc' = [pc EXCEPT ![t] = "app"]
    /\ resched' = [resched EXCEPT ![t] = TRUE]
    /\ target' = [target EXCEPT ![t] = NULL]
    /\ UNCHANGED <<obj, isr>>

\* br_task_create by a running task: the slot is chosen and filled in one
\* critical section, the new task starts at its entry point ...
CreateSlot(t, prio) ==
    /\ InApp(t)
    /\ t \in Managers
    /\ FreeSlots(k) # {}
    /\ LET u == FirstFree(k)
       IN  /\ k' = InitTcb(k, u, prio)
           /\ pc' = [pc EXCEPT ![t] = "create", ![u] = "app"]
           /\ obj' = [obj EXCEPT ![u] = NULL]
           /\ resched' = [resched EXCEPT ![u] = FALSE]
           /\ target' = [target EXCEPT ![t] = u, ![u] = NULL]
    /\ UNCHANGED isr

\* ... and br_sched_ready runs in another; the caller is not preempted.
CreateReady(t) ==
    /\ Running(t)
    /\ pc[t] = "create"
    /\ k' = br_sched_ready(k, target[t])
    /\ pc' = [pc EXCEPT ![t] = "app"]
    /\ target' = [target EXCEPT ![t] = NULL]
    /\ UNCHANGED <<obj, resched, isr>>

Delete(t, u) ==
    /\ InApp(t)
    /\ t \in Managers /\ u \in Victims
    /\ k.state[u] # "INACTIVE"
    /\ u # k.current
    /\ k' = DeleteSection(k, u)
    /\ UNCHANGED <<pc, obj, resched, isr, target>>

TasksNext ==
    \E t \in Tasks :
        \/ \E u \in Tasks : Suspend(t, u)
        \/ \E u \in Tasks : ResumeCheck(t, u)
        \/ ResumeReady(t)
        \/ \E prio \in AppPriorities : CreateSlot(t, prio)
        \/ CreateReady(t)
        \/ \E u \in Tasks : Delete(t, u)

Next == (CpuNext /\ UNCHANGED target) \/ TasksNext

Spec == Init /\ [][Next]_vars

\* A call in progress goes on whenever its task executes.
FairSpec ==
    /\ Spec
    /\ CpuFairness
    /\ WF_vars(\E t \in Tasks : ResumeReady(t) \/ CreateReady(t))

-------------------------------------------------------------------------------

TypeOK ==
    /\ CpuTypeOK
    /\ pc \in [Tasks -> {"app", "resume", "create"}]
    /\ target \in [Tasks -> Tasks \cup {NULL}]

\* A READY task waits in the queue of its own priority, where
\* br_sched_unready will look for it.
QueuedAtPriority ==
    \A p \in Priorities : \A t \in Visited(k.ready[p], k.next, {}) :
        k.priority[t] = p

\* When the timer interrupt is over no sleeper is left behind whose time is
\* up, however many deadlines fell together.
NoOversleep == isr = "none" => \A t \in Sleepers : k.wake[t] > 0

\* A task that went to sleep wakes up, unless it is deleted or suspended.
SleepEnds == \A t \in Tasks : t \in Sleepers ~> t \notin Sleepers

\* Round robin: a READY task does not wait for good for the tasks of its own
\* priority, unless the scheduler is locked.
WaitsForPeer(t) ==
    /\ k.state[t] = "READY"
    /\ k.current # NULL /\ k.lock = 0
    /\ k.priority[k.current] = k.priority[t]
RoundRobinTurn == \A t \in Tasks : WaitsForPeer(t) ~> ~WaitsForPeer(t)

\* Preemption by priority: a running task that has not called reschedule itself
\* loses the processor only to a task of its own or of a higher priority.
NotPreemptedByLower ==
    [][k.current # NULL /\ k'.current # k.current
       /\ k.state[k.current] = "RUNNING" /\ ~resched[k.current] =>
          k.priority[k'.current] <= k.priority[k.current]]_vars
===============================================================================
