-------------------------------- MODULE BrSem --------------------------------
(***************************************************************************)
(* Counting semaphores (kernel/br_ipc.c) used by the tasks and by          *)
(* interrupt handlers of the application, on top of the scheduler and the  *)
(* sleep list.                                                             *)
(***************************************************************************)
EXTENDS BrCpu

CONSTANTS
    Sems,          \* the semaphores; each names its own wait queue
    InitialCount,  \* br_sem_init(&sem, InitialCount, MaxCount)
    MaxCount,
    Timeouts,      \* the timeouts of blocking takes: ticks, NULL = infinite
    IsrSems        \* the semaphores an interrupt handler gives and takes

ASSUME SemAssumption ==
    /\ Sems \subseteq WaitQueues
    /\ NULL \notin WaitQueues
    /\ MaxCount \in Nat \ {0} /\ InitialCount \in 0 .. MaxCount
    /\ Timeouts \subseteq (1 .. MaxTicks) \cup {NULL}
    /\ IsrSems \subseteq Sems

VARIABLES
    count,  \* sem->count
    units   \* history: InitialCount + gives that returned BR_OK
            \*          - takes that returned BR_OK

vars == <<k, pc, obj, resched, isr, count, units>>

Init ==
    /\ CpuInit
    /\ count = [s \in Sems |-> InitialCount]
    /\ units = [s \in Sems |-> InitialCount]

-------------------------------------------------------------------------------
(* br_sem_take *)

Took(s) == units' = [units EXCEPT ![s] = @ - 1]
Gave(s) == units' = [units EXCEPT ![s] = @ + 1]

\* Mistake: an off-by-one in the test for a free unit.
TakeFree_OffByOne(t, s) ==
    /\ InApp(t)
    /\ count[s] >= 0
    /\ count' = [count EXCEPT ![s] = @ - 1]
    /\ Took(s)
    /\ UNCHANGED <<k, pc, obj, resched, isr>>

\* A unit is free.  With none, timeout 0 returns at once and changes nothing.
TakeFree(t, s) ==
    /\ InApp(t)
    /\ count[s] > 0
    /\ count' = [count EXCEPT ![s] = @ - 1]
    /\ Took(s)
    /\ UNCHANGED <<k, pc, obj, resched, isr>>

TakeBlock(t, s, timeout) ==
    /\ InApp(t)
    /\ MayBlock
    /\ ~(count[s] > 0)
    /\ k' = block_on_wq(k, s, t, timeout)
    /\ pc' = [pc EXCEPT ![t] = "take"]
    /\ obj' = [obj EXCEPT ![t] = s]
    /\ resched' = [resched EXCEPT ![t] = TRUE]
    /\ UNCHANGED <<isr, count, units>>

\* Back from br_sched_reschedule.  With interrupts enabled the caller looks at
\* wait_result; after a timeout it leaves the queue in a critical section of its
\* own, and a give in between finds it there.
TakeReturn(t) ==
    /\ Running(t)
    /\ pc[t] \in {"take", "expired"} /\ ~resched[t]
    /\ IF pc[t] = "take" /\ k.result[t] = "TIMEOUT"
       THEN pc' = [pc EXCEPT ![t] = "expired"] /\ UNCHANGED <<k, obj, units>>
       ELSE /\ pc' = [pc EXCEPT ![t] = "app"]
            /\ obj' = [obj EXCEPT ![t] = NULL]
            /\ IF pc[t] = "expired"
               THEN k' = wq_remove(k, obj[t], t) /\ UNCHANGED units
               ELSE UNCHANGED k /\ Took(obj[t])
    /\ UNCHANGED <<resched, isr, count>>

-------------------------------------------------------------------------------
(* br_sem_give.  At MaxCount it returns BR_ERR_OVERFLOW, nothing changes.  *)

WakeFirst(s) == wake_waiter(wq_pop(k, s), k.wq[s])

\* Mistake: the unit goes to the waiter and to the count.
GiveWake_Twice(t, s) ==
    /\ InApp(t)
    /\ k.wq[s] # NULL
    /\ k' = WakeFirst(s)
    /\ resched' = [resched EXCEPT ![t] = TRUE]
    /\ count' = [count EXCEPT ![s] = @ + 1]
    /\ Gave(s)
    /\ UNCHANGED <<pc, obj, isr>>

GiveWake(t, s) ==
    /\ InApp(t)
    /\ k.wq[s] # NULL
    /\ k' = WakeFirst(s)
    /\ resched' = [resched EXCEPT ![t] = TRUE]
    /\ Gave(s)
    /\ UNCHANGED <<pc, obj, isr, count>>

\* Mistakes: no test against the maximum; no look at the waiters.
AddUnit_Unbounded(s) ==
    /\ k.wq[s] = NULL
    /\ count' = [count EXCEPT ![s] = @ + 1]
    /\ Gave(s)
AddUnit_IgnoresWaiters(s) ==
    /\ count[s] < MaxCount
    /\ count' = [count EXCEPT ![s] = @ + 1]
    /\ Gave(s)

AddUnit(s) ==
    /\ k.wq[s] = NULL
    /\ count[s] < MaxCount
    /\ count' = [count EXCEPT ![s] = @ + 1]
    /\ Gave(s)

GiveCount(t, s) ==
    /\ InApp(t)
    /\ AddUnit(s)
    /\ UNCHANGED <<k, pc, obj, resched, isr>>

-------------------------------------------------------------------------------
(* The same calls from an interrupt handler, which runs to completion.  A  *)
(* take that finds no unit returns BR_ERR_TIMEOUT or BR_ERR_ISR.           *)

InIsr(s) == isr = "none" /\ ~k.hung /\ ~Booting /\ s \in IsrSems

IsrGiveWake(s) ==
    /\ InIsr(s)
    /\ k.wq[s] # NULL
    /\ k.wq[s] = k.current => WakeInWindow
    /\ k' = br_sched_reschedule(WakeFirst(s))
    /\ Gave(s)
    /\ UNCHANGED <<pc, obj, resched, isr, count>>

IsrGiveCount(s) ==
    /\ InIsr(s)
    /\ AddUnit(s)
    /\ UNCHANGED <<k, pc, obj, resched, isr>>

IsrTake(s) ==
    /\ InIsr(s)
    /\ count[s] > 0
    /\ count' = [count EXCEPT ![s] = @ - 1]
    /\ Took(s)
    /\ UNCHANGED <<k, pc, obj, resched, isr>>

SemNext ==
    \E s \in Sems :
        \/ \E t \in Tasks :
              \/ TakeFree(t, s)
              \/ \E timeout \in Timeouts : TakeBlock(t, s, timeout)
              \/ GiveWake(t, s)
              \/ GiveCount(t, s)
        \/ IsrGiveWake(s)
        \/ IsrGiveCount(s)
        \/ IsrTake(s)

Next ==
    \/ CpuNext /\ UNCHANGED <<count, units>>
    \/ SemNext
    \/ \E t \in Tasks : TakeReturn(t)

Spec == Init /\ [][Next]_vars

\* A take whose task executes goes on.
FairSpec ==
    /\ Spec
    /\ CpuFairness
    /\ WF_vars(\E t \in Tasks : TakeReturn(t))

-------------------------------------------------------------------------------

TypeOK ==
    /\ CpuTypeOK
    /\ pc \in [Tasks -> {"app", "take", "expired"}]
    /\ count \in [Sems -> 0 .. MaxCount]
    /\ units \in [Sems -> Int]

\* The tasks that a give has woken and whose take has not returned yet.
Granted(s) ==
    {t \in Tasks : pc[t] = "take" /\ obj[t] = s /\ k.state[t] # "BLOCKED"}

\* Units are conserved: what was given and not yet taken is in the count or
\* on its way to a woken waiter.  No take succeeds without a unit of its own.
UnitsConserved ==
    \A s \in Sems : units[s] = count[s] + Cardinality(Granted(s))

\* No lost wake-up: while a unit is free nobody waits for it.
NoWaiterWhileFree == \A s \in Sems : count[s] > 0 => k.wq[s] = NULL

\* A give wakes a waiter of the highest priority; among equals the queue
\* keeps its order.
HighestWaiterFirst ==
    [][\A s \in Sems, t \in Tasks :
          t \in Waiters(s) /\ k'.state[t] # "BLOCKED" =>
              \A u \in Waiters(s) : k.priority[t] <= k.priority[u]]_vars

\* No take returns BR_OK without a unit that was given.
TakeNeedsUnit == \A s \in Sems : units[s] >= 0

\* A task that waits does not wait for good; with finite timeouts only, the
\* timeout sees to that.
TimedTakeEnds ==
    \A t \in Tasks : (\E s \in Sems : t \in Waiters(s)) ~>
                      (\A s \in Sems : t \notin Waiters(s))

\* The semaphores as their users see them.
Abstract == INSTANCE AbstractSem WITH
    waiting <- [s \in Sems |->
                   {t \in Tasks : pc[t] \in {"take", "expired"} /\ obj[t] = s}]
ImplementsSem == Abstract!Spec
===============================================================================
