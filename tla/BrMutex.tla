------------------------------- MODULE BrMutex -------------------------------
(***************************************************************************)
(* Mutexes with priority inheritance (kernel/br_ipc.c) on top of the       *)
(* scheduler and the sleep list.  Interrupt handlers get BR_ERR_ISR from   *)
(* both calls and change nothing.                                          *)
(***************************************************************************)
EXTENDS BrCpu

CONSTANTS
    Mutexes,   \* the mutexes; each names its own wait queue
    Timeouts,  \* the timeouts of blocking locks: ticks, NULL = infinite
    Nesting    \* may a task that holds a mutex lock another one?

ASSUME MutexAssumption ==
    /\ Mutexes \subseteq WaitQueues
    /\ NULL \notin WaitQueues
    /\ Timeouts \subseteq (1 .. MaxTicks) \cup {NULL}
    /\ Nesting \in BOOLEAN

VARIABLES
    mtx,   \* the mutex objects
    held,  \* history: per task, the mutexes whose lock returned BR_OK and
           \*          that the task has not unlocked since
    base   \* history: per task, the priority it was created with

ipcVars == <<mtx, held, base>>
vars == <<k, pc, obj, resched, isr, mtx, held, base>>

Mutex == [locked : BOOLEAN, owner : Tasks \cup {NULL},
          owner_orig_prio : Priorities]

\* br_mutex_init
Unlocked == [locked |-> FALSE, owner |-> NULL, owner_orig_prio |-> 0]

Init ==
    /\ CpuInit
    /\ mtx = [m \in Mutexes |-> Unlocked]
    /\ held = [t \in Tasks |-> {}]
    /\ base = [t \in Tasks |-> 0]

-------------------------------------------------------------------------------
(* br_mutex_lock *)

MayLock(t) == InApp(t) /\ (held[t] # {} => Nesting)

LockedBy(t) ==
    [locked |-> TRUE, owner |-> t, owner_orig_prio |-> k.priority[t]]

\* Mistake: no test whether the mutex is free.
LockFree_NoTest(t, m) ==
    /\ MayLock(t)
    /\ mtx' = [mtx EXCEPT ![m] = LockedBy(t)]
    /\ held' = [held EXCEPT ![t] = @ \cup {m}]
    /\ UNCHANGED <<k, pc, obj, resched, isr, base>>

LockFree(t, m) ==
    /\ MayLock(t)
    /\ ~mtx[m].locked
    /\ mtx' = [mtx EXCEPT ![m] = LockedBy(t)]
    /\ held' = [held EXCEPT ![t] = @ \cup {m}]
    /\ UNCHANGED <<k, pc, obj, resched, isr, base>>

\* Mistake: no inheritance.
Inherit_Never(t, m) == k

\* The owner inherits a higher priority; it stays where it is queued.
Inherit(t, m) ==
    LET o == mtx[m].owner
    IN  IF k.priority[t] < k.priority[o]
        THEN [k EXCEPT !.priority[o] = k.priority[t]]
        ELSE k

\* With timeout 0 a locked mutex changes nothing: BR_ERR_TIMEOUT.
LockBlock(t, m, timeout) ==
    /\ MayLock(t)
    /\ MayBlock
    /\ mtx[m].locked
    /\ k' = block_on_wq(Inherit(t, m), m, t, timeout)
    /\ pc' = [pc EXCEPT ![t] = "lock"]
    /\ obj' = [obj EXCEPT ![t] = m]
    /\ resched' = [resched EXCEPT ![t] = TRUE]
    /\ UNCHANGED <<isr, mtx, held, base>>

\* Back from br_sched_reschedule.  With interrupts enabled the caller looks at
\* wait_result: on BR_OK the unlocking task has already made it the owner, after
\* a timeout it leaves the queue in a critical section of its own, and an unlock
\* in between finds it there.
LockReturn(t) ==
    /\ Running(t)
    /\ pc[t] \in {"lock", "expired"} /\ ~resched[t]
    /\ IF pc[t] = "lock" /\ k.result[t] = "TIMEOUT"
       THEN pc' = [pc EXCEPT ![t] = "expired"] /\ UNCHANGED <<k, obj, held>>
       ELSE /\ pc' = [pc EXCEPT ![t] = "app"]
            /\ obj' = [obj EXCEPT ![t] = NULL]
            /\ IF pc[t] = "expired"
               THEN k' = wq_remove(k, obj[t], t) /\ UNCHANGED held
               ELSE held' = [held EXCEPT ![t] = @ \cup {obj[t]}] /\ UNCHANGED k
    /\ UNCHANGED <<resched, isr, mtx, base>>

-------------------------------------------------------------------------------
(* br_mutex_unlock.  From a task that is not the owner: BR_ERR_INVALID.    *)

\* Mistake: the inherited priority is kept.
RestorePriority_Never(t, m) == k

RestorePriority(t, m) == [k EXCEPT !.priority[t] = mtx[m].owner_orig_prio]

\* Mistake: the mutex is released instead of being handed over.
UnlockWake_Releases(t, m) ==
    /\ InApp(t)
    /\ mtx[m].owner = t
    /\ k.wq[m] # NULL
    /\ mtx' = [mtx EXCEPT ![m].locked = FALSE, ![m].owner = NULL]
    /\ k' = wake_waiter(wq_pop(RestorePriority(t, m), m), k.wq[m])
    /\ held' = [held EXCEPT ![t] = @ \ {m}]
    /\ resched' = [resched EXCEPT ![t] = TRUE]
    /\ UNCHANGED <<pc, obj, isr, base>>

UnlockWake(t, m) ==
    /\ InApp(t)
    /\ mtx[m].owner = t
    /\ k.wq[m] # NULL
    /\ LET w  == k.wq[m]
           k1 == RestorePriority(t, m)
       IN  /\ mtx' = [mtx EXCEPT ![m].owner = w,
                                 ![m].owner_orig_prio = k1.priority[w]]
           /\ k' = wake_waiter(wq_pop(k1, m), w)
    /\ held' = [held EXCEPT ![t] = @ \ {m}]
    /\ resched' = [resched EXCEPT ![t] = TRUE]
    /\ UNCHANGED <<pc, obj, isr, base>>

\* Mistake: any task may unlock.
UnlockFree_Anyone(t, m) ==
    /\ InApp(t)
    /\ mtx[m].locked
    /\ k.wq[m] = NULL
    /\ k' = RestorePriority(t, m)
    /\ mtx' = [mtx EXCEPT ![m].locked = FALSE, ![m].owner = NULL]
    /\ held' = [held EXCEPT ![t] = @ \ {m}]
    /\ UNCHANGED <<pc, obj, resched, isr, base>>

UnlockFree(t, m) ==
    /\ InApp(t)
    /\ mtx[m].owner = t
    /\ k.wq[m] = NULL
    /\ k' = RestorePriority(t, m)
    /\ mtx' = [mtx EXCEPT ![m].locked = FALSE, ![m].owner = NULL]
    /\ held' = [held EXCEPT ![t] = @ \ {m}]
    /\ UNCHANGED <<pc, obj, resched, isr, base>>

MutexNext ==
    \E t \in Tasks :
        \/ \E m \in Mutexes :
              \/ LockFree(t, m)
              \/ \E timeout \in Timeouts : LockBlock(t, m, timeout)
              \/ UnlockWake(t, m)
              \/ UnlockFree(t, m)
        \/ LockReturn(t)

\* While main() creates tasks the priorities are the created ones.
Next ==
    \/ /\ CpuNext
       /\ base' = IF Booting THEN k'.priority ELSE base
       /\ UNCHANGED <<mtx, held>>
    \/ MutexNext

Spec == Init /\ [][Next]_vars

-------------------------------------------------------------------------------

TypeOK ==
    /\ CpuTypeOK
    /\ pc \in [Tasks -> {"app", "lock", "expired"}]
    /\ mtx \in [Mutexes -> Mutex]
    /\ held \in [Tasks -> SUBSET Mutexes]
    /\ base \in [Tasks -> Priorities]

\* A mutex that a task holds is locked, by that task and by no other.
MutualExclusion ==
    \A m \in Mutexes, t \in Tasks :
        m \in held[t] =>
            /\ mtx[m].locked /\ mtx[m].owner = t
            /\ \A u \in Tasks \ {t} : m \notin held[u]

\* An unlocked mutex has no waiter, and a locked one belongs to a task that
\* has it or is about to return from lock with it: it is never orphaned.
NeverOrphaned ==
    \A m \in Mutexes :
        IF mtx[m].locked
        THEN LET o == mtx[m].owner
             IN  \/ m \in held[o]
                 \/ pc[o] = "lock" /\ obj[o] = m /\ k.state[o] # "BLOCKED"
        ELSE mtx[m].owner = NULL /\ k.wq[m] = NULL

\* Inheritance: nobody waits for an owner of a lower priority than its own.
OwnerInherits ==
    \A m \in Mutexes : \A t \in Waiters(m) :
        k.priority[mtx[m].owner] <= k.priority[t]

\* The boost is temporary: who owns no mutex has the priority it was given.
BoostIsTemporary ==
    \A t \in Tasks :
        (\A m \in Mutexes : mtx[m].owner # t) => k.priority[t] = base[t]

\* No priority inversion: while a task waits for a mutex whose owner is
\* READY, the processor goes to no task whose priority lies between that of
\* the waiter and the one the owner was created with.
NoInversion ==
    [][\A m \in Mutexes : \A w \in Waiters(m) :
          k.state[mtx[m].owner] = "READY" /\ k'.current # k.current =>
              \/ k.priority[k'.current] <= k.priority[w]
              \/ k.priority[k'.current] >= base[mtx[m].owner]]_vars

\* The mutexes as their users see them.
Abstract == INSTANCE AbstractLock WITH
    holder <- [m \in Mutexes |-> IF \E t \in Tasks : m \in held[t]
                                 THEN CHOOSE t \in Tasks : m \in held[t]
                                 ELSE NULL],
    waiting <- [m \in Mutexes |->
                   {t \in Tasks : pc[t] \in {"lock", "expired"} /\ obj[t] = m}]
ImplementsLock == Abstract!Spec
===============================================================================
