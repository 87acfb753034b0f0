------------------------------- MODULE BrKernel -------------------------------
(***************************************************************************)
(* The kernel's memory and the functions that run inside a critical        *)
(* section: kernel/br_sched.c, kernel/br_time.c, the TCB handling of       *)
(* kernel/br_task.c and the wait-queue helpers of kernel/br_ipc.c.         *)
(*                                                                         *)
(* The memory is one record k.  Every C function is an operator from a     *)
(* record to a record, so that an action of the system modules applies the *)
(* whole composition a handler performs.                                   *)
(*                                                                         *)
(* Time is relative: wake[t] is the number of timer ticks left until       *)
(* tcb->wake_time (0: expired or unused) and alarm the ticks left until    *)
(* the hardware alarm (NULL: no alarm pending).                            *)
(***************************************************************************)
EXTENDS BrList, Integers

CONSTANTS NumPriorities,  \* CONFIG_NUM_PRIORITIES
          RrTimeSlice,    \* CONFIG_RR_TIME_SLICE_US, in timer ticks
          MaxTicks,       \* bound: the longest finite sleep or timeout
          MaxLock,        \* bound: the nesting of br_sched_lock
          WaitQueues      \* the wait-queue heads of all IPC objects

ASSUME KernelAssumption ==
    /\ Tasks \subseteq Nat /\ 0 \in Tasks
    /\ NumPriorities \in Nat \ {0}
    /\ RrTimeSlice \in Nat \ {0}
    /\ MaxTicks \in Nat
    /\ MaxLock \in Nat
    /\ NULL \notin 0 .. MaxTicks

Priorities == 0 .. NumPriorities - 1

States == {"INACTIVE", "READY", "RUNNING", "BLOCKED", "SUSPENDED"}

\* The idle task gets the first slot of tcb_pool.
Idle == 0

Kernel ==
    [next       : Links,
     state      : [Tasks -> States],
     priority   : [Tasks -> Priorities],
     wake       : [Tasks -> 0 .. MaxTicks],
     rr         : [Tasks -> 0 .. RrTimeSlice],
     result     : [Tasks -> {"OK", "TIMEOUT"}],
     ready      : [Priorities -> Tasks \cup {NULL}],
     sleep_list : Tasks \cup {NULL},
     wq         : [WaitQueues -> Tasks \cup {NULL}],
     current    : Tasks \cup {NULL},
     lock       : 0 .. MaxLock,
     alarm      : (0 .. MaxTicks) \cup {NULL},
     hung       : BOOLEAN]

\* The memory after br_kernel_init has cleared the pool, the timer and the
\* scheduler, before the first br_task_create; IPC objects are initialised.
InitialKernel ==
    [next       |-> [t \in Tasks |-> NULL],
     state      |-> [t \in Tasks |-> "INACTIVE"],
     priority   |-> [t \in Tasks |-> 0],
     wake       |-> [t \in Tasks |-> 0],
     rr         |-> [t \in Tasks |-> 0],
     result     |-> [t \in Tasks |-> "OK"],
     ready      |-> [p \in Priorities |-> NULL],
     sleep_list |-> NULL,
     wq         |-> [q \in WaitQueues |-> NULL],
     current    |-> NULL,
     lock       |-> 0,
     alarm      |-> NULL,
     hung       |-> FALSE]

\* Write back a list operation on a ready queue, the sleep list, a wait queue.
PutReady(k, p, l) ==
    [k EXCEPT !.next = l.next, !.ready[p] = l.head, !.hung = @ \/ ~l.halts]
PutSleep(k, l) ==
    [k EXCEPT !.next = l.next, !.sleep_list = l.head, !.hung = @ \/ ~l.halts]
PutWait(k, q, l) ==
    [k EXCEPT !.next = l.next, !.wq[q] = l.head, !.hung = @ \/ ~l.halts]

-------------------------------------------------------------------------------
(* kernel/br_sched.c *)

\* Tail insertion into the ready queue of the task's current priority.
br_sched_ready(k, t) ==
    LET p  == k.priority[t]
        k1 == [k EXCEPT !.state[t] = "READY", !.next[t] = NULL]
    IN  PutReady(k1, p, Insert(ListOf(k1.ready[p], k1.next), t, {}))

\* Removal; it searches only the queue of the task's current priority.
br_sched_unready(k, t) ==
    LET p == k.priority[t]
    IN  PutReady(k, p, Unlink(ListOf(k.ready[p], k.next), t))

ReadyLevels(k) == {p \in Priorities : k.ready[p] # NULL}

TopLevel(k) == CHOOSE p \in ReadyLevels(k) : \A r \in ReadyLevels(k) : p <= r

\* The task pick_next returns when some queue is not empty, and the memory
\* it leaves.
NextTask(k) == k.ready[TopLevel(k)]
pick_next(k) ==
    PutReady(k, TopLevel(k), Pop(ListOf(NextTask(k), k.next)))

\* Mistakes: the outgoing task is not queued; it is queued even if it blocked.
Preempt_Forgets(k, prev) == k
Preempt_Always(k, prev)  == br_sched_ready(k, prev)

\* The outgoing task is queued again only when it is still RUNNING.
Preempt(k, prev) ==
    IF k.state[prev] = "RUNNING"
    THEN br_sched_ready([k EXCEPT !.rr[prev] = 0], prev)
    ELSE k

Dispatch(k, t) ==
    [k EXCEPT !.state[t] = "RUNNING", !.rr[t] = RrTimeSlice, !.current = t]

br_sched_reschedule(k) ==
    IF k.lock > 0 \/ ReadyLevels(k) = {}
    THEN k
    ELSE LET n == NextTask(k)
         IN  IF n = k.current
             THEN br_sched_ready(pick_next(k), n)
             ELSE Dispatch(Preempt(pick_next(k), k.current), n)

br_sched_start(k) == Dispatch(pick_next(k), NextTask(k))

\* Mistakes: a slice that is over is renewed and nobody else gets a turn; the
\* counter is only compared for equality and left at zero.
br_sched_tick_Renews(k) ==
    IF k.current = NULL THEN k ELSE [k EXCEPT !.rr[k.current] = RrTimeSlice]
br_sched_tick_Wraps(k) ==
    IF k.current = NULL
    THEN k
    ELSE IF k.rr[k.current] # 1
         THEN [k EXCEPT !.rr[k.current] = @ - 1]
         ELSE [k EXCEPT !.rr[k.current] = 0]

\* Round robin, one tick having elapsed.
br_sched_tick(k) ==
    IF k.current = NULL
    THEN k
    ELSE LET c  == k.current
             k1 == [k EXCEPT !.rr[c] = 0]
         IN  IF k.rr[c] > 1
             THEN [k EXCEPT !.rr[c] = @ - 1]
             ELSE IF k.ready[k.priority[c]] # NULL
                  THEN br_sched_reschedule(k1)
                  ELSE [k EXCEPT !.rr[c] = RrTimeSlice]

-------------------------------------------------------------------------------
(* kernel/br_time.c *)

\* Mistake: new sleepers go to the tail.
br_time_sleep_list_insert_Tail(k, t) ==
    PutSleep(k, Insert(ListOf(k.sleep_list, k.next), t, {}))

\* Insertion behind every task that wakes no later.
br_time_sleep_list_insert(k, t) ==
    LET later == {x \in Tasks : k.wake[x] > k.wake[t]}
    IN  PutSleep(k, Insert(ListOf(k.sleep_list, k.next), t, later))

br_time_sleep_list_remove(k, t) ==
    PutSleep(k, Unlink(ListOf(k.sleep_list, k.next), t))

reprogram_alarm(k) ==
    [k EXCEPT !.alarm = IF k.sleep_list = NULL THEN NULL
                        ELSE k.wake[k.sleep_list]]

\* Mistake: the alarm keeps the deadline it had.
SleepSection_KeepsAlarm(k, t, ticks) ==
    br_time_sleep_list_insert(
        [k EXCEPT !.state[t] = "BLOCKED", !.wake[t] = ticks], t)

\* br_sleep_us(us > 0) up to its br_hal_irq_restore.
SleepSection(k, t, ticks) ==
    reprogram_alarm(
        br_time_sleep_list_insert(
            [k EXCEPT !.state[t] = "BLOCKED", !.wake[t] = ticks], t))

\* The loop of br_time_alarm_handler: its condition and one iteration.
Expired(k) == k.sleep_list # NULL /\ k.wake[k.sleep_list] = 0

WakeExpired(k) ==
    LET t  == k.sleep_list
        k1 == PutSleep(k, Pop(ListOf(t, k.next)))
    IN  br_sched_ready([k1 EXCEPT !.wake[t] = 0, !.result[t] = "TIMEOUT"], t)

\* One tick of time passes.
Decrement(n) == IF n > 0 THEN n - 1 ELSE 0
Elapse(k) ==
    [k EXCEPT !.wake  = [t \in Tasks |-> Decrement(k.wake[t])],
              !.alarm = IF k.alarm = NULL THEN NULL ELSE Decrement(k.alarm)]

AlarmDue(k) == k.alarm # NULL /\ k.alarm = 0

-------------------------------------------------------------------------------
(* kernel/br_task.c *)

FreeSlots(k) == {t \in Tasks : k.state[t] = "INACTIVE"}
FirstFree(k) == CHOOSE t \in FreeSlots(k) : \A u \in FreeSlots(k) : t <= u

\* The critical section of br_task_create.  The slot stays INACTIVE.
InitTcb(k, t, prio) ==
    [k EXCEPT !.priority[t] = prio, !.wake[t] = 0, !.rr[t] = 0,
              !.next[t] = NULL]

SuspendSection(k, t) ==
    LET k1 == IF k.state[t] = "READY" THEN br_sched_unready(k, t) ELSE k
    IN  [k1 EXCEPT !.state[t] = "SUSPENDED"]

\* Mistakes: a READY task stays in its queue; a sleeping one on the sleep list.
DeleteSection_KeepsQueued(k, t) ==
    LET k1 == IF k.state[t] = "BLOCKED" THEN br_time_sleep_list_remove(k, t)
                                        ELSE k
    IN  [k1 EXCEPT !.state[t] = "INACTIVE", !.next[t] = NULL]
DeleteSection_KeepsAsleep(k, t) ==
    LET k1 == IF k.state[t] = "READY" THEN br_sched_unready(k, t) ELSE k
    IN  [k1 EXCEPT !.state[t] = "INACTIVE", !.next[t] = NULL]

DeleteSection(k, t) ==
    LET k1 == CASE k.state[t] = "READY"   -> br_sched_unready(k, t)
                [] k.state[t] = "BLOCKED" -> br_time_sleep_list_remove(k, t)
                [] OTHER                  -> k
    IN  [k1 EXCEPT !.state[t] = "INACTIVE", !.next[t] = NULL]

-------------------------------------------------------------------------------
(* kernel/br_ipc.c: the wait queues.  INFINITE is the timeout NULL. *)

\* Mistake: first come, first served.
wq_insert_Fifo(k, q, t) ==
    LET k1 == [k EXCEPT !.next[t] = NULL]
    IN  PutWait(k1, q, Insert(ListOf(k1.wq[q], k1.next), t, {}))

\* Insertion behind every waiter of the same or a higher priority.
wq_insert(k, q, t) ==
    LET k1    == [k EXCEPT !.next[t] = NULL]
        lower == {x \in Tasks : k.priority[x] > k.priority[t]}
    IN  PutWait(k1, q, Insert(ListOf(k1.wq[q], k1.next), t, lower))

\* Mistake: the first waiter is read but stays queued.
wq_pop_Peeks(k, q) == k

wq_pop(k, q) == PutWait(k, q, Pop(ListOf(k.wq[q], k.next)))

wq_remove(k, q, t) == PutWait(k, q, Unlink(ListOf(k.wq[q], k.next), t))

\* A finite timeout puts the task on the sleep list as well; the alarm is
\* not reprogrammed.
block_on_wq(k, q, t, timeout) ==
    LET k1 == wq_insert([k EXCEPT !.state[t] = "BLOCKED", !.result[t] = "OK"],
                        q, t)
    IN  IF timeout = NULL
        THEN k1
        ELSE br_time_sleep_list_insert([k1 EXCEPT !.wake[t] = timeout], t)

\* Mistake: the waiter is taken off its lists and not made ready.
wake_waiter_Drops(k, t) ==
    [br_time_sleep_list_remove([k EXCEPT !.result[t] = "OK"], t)
        EXCEPT !.wake[t] = 0]

wake_waiter(k, t) ==
    LET k1 == br_time_sleep_list_remove([k EXCEPT !.result[t] = "OK"], t)
    IN  br_sched_ready([k1 EXCEPT !.wake[t] = 0], t)
===============================================================================
