----------------------------- MODULE BrCpuProofs -----------------------------
(***************************************************************************)
(* What the functions of BrKernel preserve, for every number of tasks,     *)
(* priorities and wait queues: the types of the kernel's memory, and the   *)
(* integrity of its lists, which share one link per task.  Then what the   *)
(* steps of BrCpu preserve: boot, the running task's calls of the          *)
(* scheduler and the interrupts.  BrTasksProofs, BrSemProofs,              *)
(* BrMutexProofs and BrMqueueProofs add the calls of their modules.        *)
(***************************************************************************)
EXTENDS BrCpu, BrListProofs

-------------------------------------------------------------------------------
(* Types. *)

\* The result of a list operation can be written back into a ready queue,
LEMMA PutReadyType ==
    ASSUME NEW kk \in Kernel, NEW p \in Priorities, NEW l \in List
    PROVE  PutReady(kk, p, l) \in Kernel
BY DEF PutReady, Kernel, List

\* the sleep list
LEMMA PutSleepType ==
    ASSUME NEW kk \in Kernel, NEW l \in List
    PROVE  PutSleep(kk, l) \in Kernel
BY DEF PutSleep, Kernel, List

\* or a wait queue.
LEMMA PutWaitType ==
    ASSUME NEW kk \in Kernel, NEW q \in WaitQueues, NEW l \in List
    PROVE  PutWait(kk, q, l) \in Kernel
BY DEF PutWait, Kernel, List

\* Every list of a well-typed kernel is well typed.
LEMMA KernelLists ==
    ASSUME NEW kk \in Kernel
    PROVE  /\ \A p \in Priorities : ListOf(kk.ready[p], kk.next) \in List
           /\ ListOf(kk.sleep_list, kk.next) \in List
           /\ \A q \in WaitQueues : ListOf(kk.wq[q], kk.next) \in List
           /\ \A t \in Tasks : ListOf(t, kk.next) \in List
BY ListOfType DEF Kernel

\* Queueing a task keeps the types ...
LEMMA ReadyType ==
    ASSUME NEW kk \in Kernel, NEW t \in Tasks
    PROVE  br_sched_ready(kk, t) \in Kernel
<1> DEFINE k1 == [kk EXCEPT !.state[t] = "READY", !.next[t] = NULL]
           p  == kk.priority[t]
<1>1. k1 \in Kernel /\ p \in Priorities
  BY DEF Kernel, States, Links
<1>2. Insert(ListOf(k1.ready[p], k1.next), t, {}) \in List
  BY <1>1, KernelLists, InsertType
<1> QED BY <1>1, <1>2, PutReadyType DEF br_sched_ready

\* ... and so does taking one out of the queues.
LEMMA UnreadyType ==
    ASSUME NEW kk \in Kernel, NEW t \in Tasks
    PROVE  br_sched_unready(kk, t) \in Kernel
<1>1. kk.priority[t] \in Priorities
  BY DEF Kernel
<1>2. Unlink(ListOf(kk.ready[kk.priority[t]], kk.next), t) \in List
  BY <1>1, KernelLists, UnlinkType
<1> QED BY <1>1, <1>2, PutReadyType DEF br_sched_unready

\* The scan of pick_next finds the best queue that is not empty.
LEMMA TopLevelFound ==
    ASSUME NEW kk, ReadyLevels(kk) # {}
    PROVE  /\ TopLevel(kk) \in Priorities
           /\ kk.ready[TopLevel(kk)] # NULL
           /\ \A p \in Priorities : kk.ready[p] # NULL => TopLevel(kk) <= p
<1>1. ReadyLevels(kk) \in SUBSET Nat
  BY KernelAssumption DEF ReadyLevels, Priorities
<1>2. \E p \in ReadyLevels(kk) : \A r \in ReadyLevels(kk) : p <= r
  BY <1>1, LeastNumber
<1> QED BY <1>2 DEF TopLevel, ReadyLevels

\* The slot search of br_task_create finds a free slot when there is one.
LEMMA FirstFreeFound ==
    ASSUME NEW kk, FreeSlots(kk) # {}
    PROVE  FirstFree(kk) \in Tasks /\ kk.state[FirstFree(kk)] = "INACTIVE"
<1>1. FreeSlots(kk) \in SUBSET Nat
  BY KernelAssumption DEF FreeSlots
<1>2. \E t \in FreeSlots(kk) : \A u \in FreeSlots(kk) : t <= u
  BY <1>1, LeastNumber
<1> QED BY <1>2 DEF FirstFree, FreeSlots

\* Taking the next task off the ready queues.
LEMMA PickType ==
    ASSUME NEW kk \in Kernel, ReadyLevels(kk) # {}
    PROVE  pick_next(kk) \in Kernel /\ NextTask(kk) \in Tasks
<1>1. TopLevel(kk) \in Priorities /\ NextTask(kk) # NULL
  BY TopLevelFound DEF NextTask
<1>2. NextTask(kk) \in Tasks
  BY <1>1 DEF NextTask, Kernel
<1>3. ListOf(NextTask(kk), kk.next) \in List /\ ListOf(NextTask(kk), kk.next).head # NULL
  BY <1>1, <1>2, KernelLists DEF ListOf
<1>4. Pop(ListOf(NextTask(kk), kk.next)) \in List
  BY <1>3, PopType
<1> QED BY <1>1, <1>2, <1>4, PutReadyType DEF pick_next

\* The incoming task becomes the running one.
LEMMA DispatchType ==
    ASSUME NEW kk \in Kernel, NEW t \in Tasks
    PROVE  Dispatch(kk, t) \in Kernel
<1>1. RrTimeSlice \in 0 .. RrTimeSlice
  BY KernelAssumption
<1>2. [kk EXCEPT !.state[t] = "RUNNING", !.rr[t] = RrTimeSlice] \in Kernel
  BY <1>1 DEF Kernel, States
<1>3. [kk EXCEPT !.state[t] = "RUNNING", !.rr[t] = RrTimeSlice, !.current = t] \in Kernel
  BY <1>1 DEF Kernel, States
<1> QED BY <1>3 DEF Dispatch

\* A reschedule keeps the types and leaves a task running, ...
LEMMA RescheduleType ==
    ASSUME NEW kk \in Kernel, kk.current \in Tasks
    PROVE  br_sched_reschedule(kk) \in Kernel /\ br_sched_reschedule(kk).current \in Tasks
<1> DEFINE n  == NextTask(kk)
           k1 == pick_next(kk)
           k2 == Preempt(k1, kk.current)
<1>1. CASE kk.lock > 0 \/ ReadyLevels(kk) = {}
  BY <1>1 DEF br_sched_reschedule
<1>2. CASE ~(kk.lock > 0 \/ ReadyLevels(kk) = {})
  <2>1. k1 \in Kernel /\ n \in Tasks
    BY <1>2, PickType
  <2>2. br_sched_ready(k1, n) \in Kernel
    BY <2>1, ReadyType
  <2>3. [k1 EXCEPT !.rr[kk.current] = 0] \in Kernel
    <3>1. 0 \in 0 .. RrTimeSlice
      BY KernelAssumption
    <3> QED BY <2>1, <3>1 DEF Kernel
  <2>4. k2 \in Kernel
    BY <2>1, <2>3, ReadyType DEF Preempt
  <2>5. Dispatch(k2, n) \in Kernel /\ Dispatch(k2, n).current = n
    BY <2>1, <2>4, DispatchType DEF Dispatch, Kernel
  <2>6. br_sched_ready(k1, n).current = kk.current
    BY DEF br_sched_ready, PutReady, pick_next
  <2> QED BY <1>2, <2>1, <2>2, <2>5, <2>6 DEF br_sched_reschedule
<1> QED BY <1>1, <1>2

\* ... as the start of the scheduler ...
LEMMA StartType ==
    ASSUME NEW kk \in Kernel, ReadyLevels(kk) # {}
    PROVE  br_sched_start(kk) \in Kernel
BY PickType, DispatchType DEF br_sched_start

\* ... and a round-robin tick do.
LEMMA TickType ==
    ASSUME NEW kk \in Kernel
    PROVE  /\ br_sched_tick(kk) \in Kernel
           /\ br_sched_tick(kk).current = NULL => kk.current = NULL
           /\ kk.current = NULL => br_sched_tick(kk) = kk
<1> DEFINE c  == kk.current
           k1 == [kk EXCEPT !.rr[c] = 0]
<1>1. CASE c = NULL
  BY <1>1 DEF br_sched_tick
<1>2. CASE c # NULL
  <2>1. c \in Tasks
    BY <1>2 DEF Kernel
  <2>2. k1 \in Kernel /\ k1.current \in Tasks
    BY <2>1, KernelAssumption DEF Kernel
  <2>3. br_sched_reschedule(k1) \in Kernel /\ br_sched_reschedule(k1).current \in Tasks
    BY <2>2, RescheduleType
  <2>4. [kk EXCEPT !.rr[c] = RrTimeSlice] \in Kernel
    BY <2>1, KernelAssumption DEF Kernel
  <2>5. kk.rr[c] > 1 => [kk EXCEPT !.rr[c] = @ - 1] \in Kernel
    BY <2>1, KernelAssumption DEF Kernel
  <2>6. [kk EXCEPT !.rr[c] = RrTimeSlice].current = c /\ [kk EXCEPT !.rr[c] = @ - 1].current = c
    OBVIOUS
  <2> QED BY <1>2, <2>3, <2>4, <2>5, <2>6, ListAssumption DEF br_sched_tick
<1> QED BY <1>1, <1>2

\* The sleep list: insertion and removal,
LEMMA SleepListType ==
    ASSUME NEW kk \in Kernel, NEW t \in Tasks
    PROVE  /\ br_time_sleep_list_insert(kk, t) \in Kernel
           /\ br_time_sleep_list_remove(kk, t) \in Kernel
<1>1. ListOf(kk.sleep_list, kk.next) \in List
  BY KernelLists
<1>2. \A Stop : Insert(ListOf(kk.sleep_list, kk.next), t, Stop) \in List
  BY <1>1, InsertType
<1>3. Unlink(ListOf(kk.sleep_list, kk.next), t) \in List
  BY <1>1, UnlinkType
<1> QED BY <1>2, <1>3, PutSleepType
        DEF br_time_sleep_list_insert, br_time_sleep_list_remove

\* programming the alarm,
LEMMA AlarmType ==
    ASSUME NEW kk \in Kernel
    PROVE  /\ reprogram_alarm(kk) \in Kernel
           /\ [kk EXCEPT !.alarm = NULL] \in Kernel
BY DEF reprogram_alarm, Kernel

\* going to sleep,
LEMMA SleepSectionType ==
    ASSUME NEW kk \in Kernel, NEW t \in Tasks, NEW ticks \in 0 .. MaxTicks
    PROVE  SleepSection(kk, t, ticks) \in Kernel
<1>1. [kk EXCEPT !.state[t] = "BLOCKED", !.wake[t] = ticks] \in Kernel
  BY DEF Kernel, States
<1> QED BY <1>1, SleepListType, AlarmType DEF SleepSection

\* waking up
LEMMA WakeExpiredType ==
    ASSUME NEW kk \in Kernel, kk.sleep_list # NULL
    PROVE  WakeExpired(kk) \in Kernel
<1> DEFINE t  == kk.sleep_list
           k1 == PutSleep(kk, Pop(ListOf(t, kk.next)))
<1>1. t \in Tasks
  BY DEF Kernel
<1>2. Pop(ListOf(t, kk.next)) \in List
  BY <1>1, KernelLists, PopType DEF ListOf
<1>3. k1 \in Kernel
  BY <1>2, PutSleepType
<1>4. [k1 EXCEPT !.wake[t] = 0, !.result[t] = "TIMEOUT"] \in Kernel
  <2>1. 0 \in 0 .. MaxTicks
    BY KernelAssumption
  <2> HIDE DEF k1
  <2> QED BY <1>1, <1>3, <2>1 DEF Kernel
<1> QED BY <1>1, <1>4, ReadyType DEF WakeExpired

\* and the passing of time.
LEMMA ElapseType ==
    ASSUME NEW kk \in Kernel
    PROVE  Elapse(kk) \in Kernel
<1>1. \A n \in 0 .. MaxTicks : Decrement(n) \in 0 .. MaxTicks
  BY KernelAssumption DEF Decrement
<1>2. [t \in Tasks |-> Decrement(kk.wake[t])] \in [Tasks -> 0 .. MaxTicks]
  BY <1>1 DEF Kernel
<1>3. (IF kk.alarm = NULL THEN NULL ELSE Decrement(kk.alarm)) \in (0 .. MaxTicks) \cup {NULL}
  BY <1>1 DEF Kernel
<1> HIDE DEF Decrement
<1> QED BY <1>2, <1>3 DEF Elapse, Kernel

\* The scheduler lock counts within its bounds.
LEMMA LockType ==
    ASSUME NEW kk \in Kernel
    PROVE  /\ kk.lock < MaxLock => [kk EXCEPT !.lock = @ + 1] \in Kernel
           /\ [kk EXCEPT !.lock = Decrement(@)] \in Kernel
<1>1. kk.lock < MaxLock => kk.lock + 1 \in 0 .. MaxLock
  BY KernelAssumption DEF Kernel
<1>2. Decrement(kk.lock) \in 0 .. MaxLock
  BY KernelAssumption DEF Kernel, Decrement
<1> HIDE DEF Decrement
<1> QED BY <1>1, <1>2 DEF Kernel

\* The critical sections of task management keep the types ...
LEMMA TaskSectionsType ==
    ASSUME NEW kk \in Kernel, NEW t \in Tasks
    PROVE  /\ \A prio \in Priorities : InitTcb(kk, t, prio) \in Kernel
           /\ SuspendSection(kk, t) \in Kernel
           /\ DeleteSection(kk, t) \in Kernel
<1>1. br_sched_unready(kk, t) \in Kernel /\ br_time_sleep_list_remove(kk, t) \in Kernel
  BY UnreadyType, SleepListType
<1>2. ASSUME NEW prio \in Priorities PROVE InitTcb(kk, t, prio) \in Kernel
  <2>1. 0 \in 0 .. MaxTicks /\ 0 \in 0 .. RrTimeSlice
    BY KernelAssumption
  <2> QED BY <2>1 DEF InitTcb, Kernel, Links
<1>3. ASSUME NEW k1 \in Kernel
      PROVE  /\ [k1 EXCEPT !.state[t] = "SUSPENDED"] \in Kernel
             /\ [k1 EXCEPT !.state[t] = "INACTIVE", !.next[t] = NULL] \in Kernel
  BY DEF Kernel, States, Links
<1>4. SuspendSection(kk, t) \in Kernel
  BY <1>1, <1>3 DEF SuspendSection
<1>5. DeleteSection(kk, t) \in Kernel
  <2> DEFINE k1 == CASE kk.state[t] = "READY"   -> br_sched_unready(kk, t)
                     [] kk.state[t] = "BLOCKED" -> br_time_sleep_list_remove(kk, t)
                     [] OTHER                   -> kk
  <2>1. k1 \in Kernel
    BY <1>1
  <2> HIDE DEF k1
  <2>2. [k1 EXCEPT !.state[t] = "INACTIVE", !.next[t] = NULL] \in Kernel
    BY <1>3, <2>1
  <2> QED BY <2>2 DEF DeleteSection, k1
<1> QED BY <1>2, <1>4, <1>5

\* ... and so do the wait-queue helpers.
LEMMA WaitQueueType ==
    ASSUME NEW kk \in Kernel, NEW q \in WaitQueues, NEW t \in Tasks
    PROVE  /\ wq_insert(kk, q, t) \in Kernel
           /\ wq_remove(kk, q, t) \in Kernel
           /\ kk.wq[q] # NULL => wq_pop(kk, q) \in Kernel
           /\ wake_waiter(kk, t) \in Kernel
           /\ \A timeout \in (1 .. MaxTicks) \cup {NULL} :
                 block_on_wq(kk, q, t, timeout) \in Kernel
<1>1. ASSUME NEW k0 \in Kernel PROVE wq_insert(k0, q, t) \in Kernel
  <2>1. [k0 EXCEPT !.next[t] = NULL] \in Kernel
    BY DEF Kernel, Links
  <2>2. \A Stop : Insert(ListOf([k0 EXCEPT !.next[t] = NULL].wq[q],
                               [k0 EXCEPT !.next[t] = NULL].next), t, Stop) \in List
    BY <2>1, KernelLists, InsertType
  <2> QED BY <2>1, <2>2, PutWaitType DEF wq_insert
<1>2. wq_remove(kk, q, t) \in Kernel
  <2>1. Unlink(ListOf(kk.wq[q], kk.next), t) \in List
    BY KernelLists, UnlinkType
  <2> QED BY <2>1, PutWaitType DEF wq_remove
<1>3. ASSUME kk.wq[q] # NULL PROVE wq_pop(kk, q) \in Kernel
  <2>1. Pop(ListOf(kk.wq[q], kk.next)) \in List
    BY <1>3, KernelLists, PopType DEF ListOf
  <2> QED BY <2>1, PutWaitType DEF wq_pop
<1>4. wake_waiter(kk, t) \in Kernel
  <2>1. [kk EXCEPT !.result[t] = "OK"] \in Kernel
    BY DEF Kernel
  <2> DEFINE k1 == br_time_sleep_list_remove([kk EXCEPT !.result[t] = "OK"], t)
  <2>2. k1 \in Kernel
    BY <2>1, SleepListType
  <2>3. 0 \in 0 .. MaxTicks
    BY KernelAssumption
  <2> HIDE DEF k1
  <2>4. [k1 EXCEPT !.wake[t] = 0] \in Kernel
    BY <2>2, <2>3 DEF Kernel
  <2> QED BY <2>4, ReadyType DEF wake_waiter, k1
<1>5. ASSUME NEW timeout \in (1 .. MaxTicks) \cup {NULL}
      PROVE  block_on_wq(kk, q, t, timeout) \in Kernel
  <2>1. [kk EXCEPT !.state[t] = "BLOCKED", !.result[t] = "OK"] \in Kernel
    BY DEF Kernel, States
  <2> DEFINE k1 == wq_insert([kk EXCEPT !.state[t] = "BLOCKED", !.result[t] = "OK"], q, t)
  <2>2. k1 \in Kernel
    BY <1>1, <2>1
  <2> HIDE DEF k1
  <2>3. timeout # NULL => [k1 EXCEPT !.wake[t] = timeout] \in Kernel
    <3>1. timeout # NULL => timeout \in 0 .. MaxTicks
      OBVIOUS
    <3> QED BY <2>2, <3>1 DEF Kernel
  <2> QED BY <2>2, <2>3, SleepListType DEF block_on_wq, k1
<1> QED BY <1>1, <1>2, <1>3, <1>4, <1>5

-------------------------------------------------------------------------------
(* What the functions leave alone. *)

\* Neither the scheduler nor the time functions touch a wait queue or a
\* priority, and only a reschedule or the start changes the running task.
LEMMA SchedFrame ==
    ASSUME NEW kk, NEW t
    PROVE  /\ br_sched_ready(kk, t).wq = kk.wq
           /\ br_sched_ready(kk, t).priority = kk.priority
           /\ br_sched_ready(kk, t).current = kk.current
           /\ br_sched_unready(kk, t).wq = kk.wq
           /\ br_sched_unready(kk, t).priority = kk.priority
           /\ br_sched_unready(kk, t).current = kk.current
           /\ pick_next(kk).wq = kk.wq /\ pick_next(kk).priority = kk.priority
           /\ br_sched_reschedule(kk).wq = kk.wq
           /\ br_sched_reschedule(kk).priority = kk.priority
           /\ br_sched_start(kk).wq = kk.wq
           /\ br_sched_start(kk).priority = kk.priority
           /\ br_sched_tick(kk).wq = kk.wq
           /\ br_sched_tick(kk).priority = kk.priority
<1>1. ASSUME NEW k0, NEW u
      PROVE  /\ br_sched_ready(k0, u).wq = k0.wq
             /\ br_sched_ready(k0, u).priority = k0.priority
             /\ br_sched_ready(k0, u).current = k0.current
  BY DEF br_sched_ready, PutReady
<1>2. /\ br_sched_unready(kk, t).wq = kk.wq
      /\ br_sched_unready(kk, t).priority = kk.priority
      /\ br_sched_unready(kk, t).current = kk.current
  BY DEF br_sched_unready, PutReady
<1>3. ASSUME NEW k0
      PROVE  /\ pick_next(k0).wq = k0.wq
             /\ pick_next(k0).priority = k0.priority
  BY DEF pick_next, PutReady
<1>4. ASSUME NEW k0, NEW u
      PROVE  /\ Dispatch(k0, u).wq = k0.wq
             /\ Dispatch(k0, u).priority = k0.priority
  BY DEF Dispatch
<1>5. ASSUME NEW k0, NEW u
      PROVE  /\ Preempt(k0, u).wq = k0.wq
             /\ Preempt(k0, u).priority = k0.priority
  <2>1. /\ [k0 EXCEPT !.rr[u] = 0].wq = k0.wq
        /\ [k0 EXCEPT !.rr[u] = 0].priority = k0.priority
    OBVIOUS
  <2> QED BY <1>1, <2>1 DEF Preempt
<1>6. ASSUME NEW k0
      PROVE  /\ br_sched_reschedule(k0).wq = k0.wq
             /\ br_sched_reschedule(k0).priority = k0.priority
  BY <1>1, <1>3, <1>4, <1>5 DEF br_sched_reschedule
<1>7. br_sched_tick(kk).wq = kk.wq /\ br_sched_tick(kk).priority = kk.priority
  <2> DEFINE k1 == [kk EXCEPT !.rr[kk.current] = 0]
  <2>1. /\ br_sched_reschedule(k1).wq = kk.wq
        /\ br_sched_reschedule(k1).priority = kk.priority
    <3>1. k1.wq = kk.wq /\ k1.priority = kk.priority
      OBVIOUS
    <3> HIDE DEF k1
    <3> QED BY <1>6, <3>1
  <2>2. \A n : /\ [kk EXCEPT !.rr[kk.current] = n].wq = kk.wq
               /\ [kk EXCEPT !.rr[kk.current] = n].priority = kk.priority
    OBVIOUS
  <2> QED BY <2>1, <2>2 DEF br_sched_tick
<1> QED BY <1>1, <1>2, <1>3, <1>4, <1>6, <1>7 DEF br_sched_start

\* The same for sleeping, waking up and the passing of time.
LEMMA TimeFrame ==
    ASSUME NEW kk, NEW t, NEW n
    PROVE  /\ SleepSection(kk, t, n).wq = kk.wq
           /\ SleepSection(kk, t, n).priority = kk.priority
           /\ SleepSection(kk, t, n).current = kk.current
           /\ WakeExpired(kk).wq = kk.wq
           /\ WakeExpired(kk).priority = kk.priority
           /\ WakeExpired(kk).current = kk.current
           /\ reprogram_alarm(kk).wq = kk.wq
           /\ reprogram_alarm(kk).priority = kk.priority
           /\ reprogram_alarm(kk).current = kk.current
           /\ Elapse(kk).wq = kk.wq /\ Elapse(kk).priority = kk.priority
           /\ Elapse(kk).current = kk.current
<1>1. /\ SleepSection(kk, t, n).wq = kk.wq
      /\ SleepSection(kk, t, n).priority = kk.priority
      /\ SleepSection(kk, t, n).current = kk.current
  BY DEF SleepSection, reprogram_alarm, br_time_sleep_list_insert, PutSleep
<1>2. ASSUME NEW k0, NEW u
      PROVE  /\ br_sched_ready(k0, u).wq = k0.wq
             /\ br_sched_ready(k0, u).priority = k0.priority
             /\ br_sched_ready(k0, u).current = k0.current
  BY DEF br_sched_ready, PutReady
<1>3. /\ WakeExpired(kk).wq = kk.wq /\ WakeExpired(kk).priority = kk.priority
      /\ WakeExpired(kk).current = kk.current
  <2> DEFINE u  == kk.sleep_list
             k1 == PutSleep(kk, Pop(ListOf(u, kk.next)))
             k2 == [k1 EXCEPT !.wake[u] = 0, !.result[u] = "TIMEOUT"]
  <2>1. k1.wq = kk.wq /\ k1.priority = kk.priority /\ k1.current = kk.current
    BY DEF PutSleep
  <2> HIDE DEF k1
  <2>2. k2.wq = kk.wq /\ k2.priority = kk.priority /\ k2.current = kk.current
    BY <2>1
  <2>3. WakeExpired(kk) = br_sched_ready(k2, u)
    BY DEF WakeExpired, k1
  <2> HIDE DEF k2, u
  <2> QED BY <1>2, <2>2, <2>3
<1> QED BY <1>1, <1>3 DEF reprogram_alarm, Elapse

\* The same for suspending, deleting and creating a task.
LEMMA TaskFrame ==
    ASSUME NEW kk, NEW t, NEW prio
    PROVE  /\ InitTcb(kk, t, prio).wq = kk.wq
           /\ InitTcb(kk, t, prio).current = kk.current
           /\ SuspendSection(kk, t).wq = kk.wq
           /\ SuspendSection(kk, t).current = kk.current
           /\ DeleteSection(kk, t).wq = kk.wq
           /\ DeleteSection(kk, t).current = kk.current
<1> DEFINE ks == IF kk.state[t] = "READY" THEN br_sched_unready(kk, t) ELSE kk
           kd == CASE kk.state[t] = "READY"   -> br_sched_unready(kk, t)
                   [] kk.state[t] = "BLOCKED" -> br_time_sleep_list_remove(kk, t)
                   [] OTHER                   -> kk
<1>1. /\ br_time_sleep_list_remove(kk, t).wq = kk.wq
      /\ br_time_sleep_list_remove(kk, t).current = kk.current
  BY DEF br_time_sleep_list_remove, PutSleep
<1>2. ks.wq = kk.wq /\ ks.current = kk.current
  BY SchedFrame
<1>3. kd.wq = kk.wq /\ kd.current = kk.current
  BY <1>1, SchedFrame
<1>4. /\ SuspendSection(kk, t) = [ks EXCEPT !.state[t] = "SUSPENDED"]
      /\ DeleteSection(kk, t) = [kd EXCEPT !.state[t] = "INACTIVE", !.next[t] = NULL]
  BY DEF SuspendSection, DeleteSection
<1> HIDE DEF ks, kd
<1> QED BY <1>2, <1>3, <1>4 DEF InitTcb

\* A wait queue is changed by its own operations only, and by a search for a
\* task only if it is not empty.
LEMMA WaitFrame ==
    ASSUME NEW kk \in Kernel, NEW q \in WaitQueues, NEW t \in Tasks, NEW timeout
    PROVE  /\ block_on_wq(kk, q, t, timeout).current = kk.current
           /\ block_on_wq(kk, q, t, timeout).priority = kk.priority
           /\ \A r \in WaitQueues \ {q} :
                 block_on_wq(kk, q, t, timeout).wq[r] = kk.wq[r]
           /\ wq_pop(kk, q).current = kk.current
           /\ wq_pop(kk, q).priority = kk.priority
           /\ \A r \in WaitQueues \ {q} : wq_pop(kk, q).wq[r] = kk.wq[r]
           /\ wake_waiter(kk, t).current = kk.current
           /\ wake_waiter(kk, t).priority = kk.priority
           /\ wake_waiter(kk, t).wq = kk.wq
           /\ wq_remove(kk, q, t).current = kk.current
           /\ wq_remove(kk, q, t).priority = kk.priority
           /\ \A r \in WaitQueues : kk.wq[r] = NULL => wq_remove(kk, q, t).wq[r] = NULL
<1>1. /\ wq_pop(kk, q).current = kk.current
      /\ wq_pop(kk, q).priority = kk.priority
      /\ \A r \in WaitQueues \ {q} : wq_pop(kk, q).wq[r] = kk.wq[r]
  BY DEF wq_pop, PutWait, Kernel
<1>2. ASSUME NEW k0, NEW u
      PROVE  /\ br_sched_ready(k0, u).wq = k0.wq
             /\ br_sched_ready(k0, u).current = k0.current
             /\ br_sched_ready(k0, u).priority = k0.priority
  BY DEF br_sched_ready, PutReady
<1>3. /\ wake_waiter(kk, t).current = kk.current
      /\ wake_waiter(kk, t).priority = kk.priority
      /\ wake_waiter(kk, t).wq = kk.wq
  <2> DEFINE k1 == br_time_sleep_list_remove([kk EXCEPT !.result[t] = "OK"], t)
             k2 == [k1 EXCEPT !.wake[t] = 0]
  <2>1. k1.wq = kk.wq /\ k1.current = kk.current /\ k1.priority = kk.priority
    BY DEF br_time_sleep_list_remove, PutSleep
  <2>2. wake_waiter(kk, t) = br_sched_ready(k2, t)
    BY DEF wake_waiter
  <2> HIDE DEF k1
  <2>3. k2.wq = kk.wq /\ k2.current = kk.current /\ k2.priority = kk.priority
    BY <2>1
  <2> HIDE DEF k2
  <2> QED BY <1>2, <2>2, <2>3
<1>4. /\ wq_remove(kk, q, t).current = kk.current
      /\ wq_remove(kk, q, t).priority = kk.priority
      /\ \A r \in WaitQueues : kk.wq[r] = NULL => wq_remove(kk, q, t).wq[r] = NULL
  <2> DEFINE l0 == ListOf(kk.wq[q], kk.next)
  <2>1. kk.wq[q] = NULL => Unlink(l0, t) = l0
    <3>1. kk.wq[q] = NULL => StopCells(l0, {t}) = {NULL}
      BY DEF StopCells, ListOf, Ends
    <3>2. (CHOOSE x \in {NULL} : TRUE) = NULL
      OBVIOUS
    <3>3. kk.wq[q] = NULL => Deref(l0, NULL) # t
      BY ListAssumption DEF Deref, ListOf
    <3> QED BY <3>1, <3>2, <3>3 DEF Unlink
  <2>2. kk.wq[q] = NULL => Unlink(l0, t).head = NULL
    BY <2>1 DEF ListOf
  <2> QED BY <2>2 DEF wq_remove, PutWait, Kernel
<1>5. /\ block_on_wq(kk, q, t, timeout).current = kk.current
      /\ block_on_wq(kk, q, t, timeout).priority = kk.priority
      /\ \A r \in WaitQueues \ {q} :
            block_on_wq(kk, q, t, timeout).wq[r] = kk.wq[r]
  <2>1. ASSUME NEW k0 \in Kernel
        PROVE  /\ wq_insert(k0, q, t).current = k0.current
               /\ wq_insert(k0, q, t).priority = k0.priority
               /\ \A r \in WaitQueues \ {q} : wq_insert(k0, q, t).wq[r] = k0.wq[r]
    BY DEF wq_insert, PutWait, Kernel
  <2>2. ASSUME NEW k0
        PROVE  /\ br_time_sleep_list_insert(k0, t).wq = k0.wq
               /\ br_time_sleep_list_insert(k0, t).current = k0.current
               /\ br_time_sleep_list_insert(k0, t).priority = k0.priority
    BY DEF br_time_sleep_list_insert, PutSleep
  <2>3. [kk EXCEPT !.state[t] = "BLOCKED", !.result[t] = "OK"] \in Kernel
    BY DEF Kernel, States
  <2> DEFINE k0 == [kk EXCEPT !.state[t] = "BLOCKED", !.result[t] = "OK"]
             k1 == wq_insert(k0, q, t)
             k2 == [k1 EXCEPT !.wake[t] = timeout]
  <2>4. k0.wq = kk.wq /\ k0.current = kk.current /\ k0.priority = kk.priority
    OBVIOUS
  <2>5. block_on_wq(kk, q, t, timeout) =
           IF timeout = NULL THEN k1 ELSE br_time_sleep_list_insert(k2, t)
    BY DEF block_on_wq
  <2> HIDE DEF k0
  <2>6. /\ k1.current = kk.current /\ k1.priority = kk.priority
        /\ \A r \in WaitQueues \ {q} : k1.wq[r] = kk.wq[r]
    BY <2>1, <2>3, <2>4 DEF k0
  <2> HIDE DEF k1
  <2>7. k2.wq = k1.wq /\ k2.current = k1.current /\ k2.priority = k1.priority
    OBVIOUS
  <2> HIDE DEF k2
  <2> QED BY <2>2, <2>5, <2>6, <2>7
<1> QED BY <1>1, <1>3, <1>4, <1>5

\* What the calls of the system modules need to know of block_on_wq,
LEMMA BlockStep ==
    ASSUME NEW kk \in Kernel, NEW q \in WaitQueues, NEW t \in Tasks,
           NEW timeout \in (1 .. MaxTicks) \cup {NULL},
           NEW k2, k2 = block_on_wq(kk, q, t, timeout)
    PROVE  /\ k2 \in Kernel
           /\ k2.current = kk.current
           /\ k2.priority = kk.priority
           /\ \A r \in WaitQueues \ {q} : k2.wq[r] = kk.wq[r]
<1>1. k2 \in Kernel
  BY WaitQueueType
<1>2. /\ k2.current = kk.current
      /\ k2.priority = kk.priority
      /\ \A r \in WaitQueues \ {q} : k2.wq[r] = kk.wq[r]
  BY WaitFrame
<1> QED BY <1>1, <1>2

\* of wq_remove
LEMMA RemoveStep ==
    ASSUME NEW kk \in Kernel, NEW q \in WaitQueues, NEW t \in Tasks,
           NEW k2, k2 = wq_remove(kk, q, t)
    PROVE  /\ k2 \in Kernel
           /\ k2.current = kk.current
           /\ k2.priority = kk.priority
           /\ \A r \in WaitQueues : kk.wq[r] = NULL => k2.wq[r] = NULL
<1>1. k2 \in Kernel
  BY WaitQueueType
<1>2. /\ k2.current = kk.current /\ k2.priority = kk.priority
      /\ \A r \in WaitQueues : kk.wq[r] = NULL => k2.wq[r] = NULL
  BY WaitFrame
<1> QED BY <1>1, <1>2

\* and of waking the first waiter of a queue.
LEMMA WakeStep ==
    ASSUME NEW kk \in Kernel, NEW q \in WaitQueues, kk.wq[q] # NULL,
           NEW k2, k2 = wake_waiter(wq_pop(kk, q), kk.wq[q])
    PROVE  /\ kk.wq[q] \in Tasks
           /\ k2 \in Kernel
           /\ k2.current = kk.current
           /\ k2.priority = kk.priority
           /\ \A r \in WaitQueues \ {q} : k2.wq[r] = kk.wq[r]
<1> DEFINE w  == kk.wq[q]
           k1 == wq_pop(kk, q)
<1>1. w \in Tasks
  BY DEF Kernel
<1>2. k1 \in Kernel
  BY <1>1, WaitQueueType
<1>3. /\ k1.current = kk.current
      /\ k1.priority = kk.priority
      /\ \A r \in WaitQueues \ {q} : k1.wq[r] = kk.wq[r]
  BY <1>1, WaitFrame
<1> HIDE DEF k1, w
<1>4. wake_waiter(k1, w) \in Kernel
  <2>1. PICK r \in WaitQueues : TRUE
    OBVIOUS
  <2> QED BY <1>1, <1>2, <2>1, WaitQueueType
<1>5. /\ wake_waiter(k1, w).current = k1.current
      /\ wake_waiter(k1, w).priority = k1.priority
      /\ wake_waiter(k1, w).wq = k1.wq
  BY <1>1, <1>2, WaitFrame
<1>6. k2 = wake_waiter(k1, w)
  BY DEF k1, w
<1> QED BY <1>1, <1>3, <1>4, <1>5, <1>6 DEF w

-------------------------------------------------------------------------------
(***************************************************************************)
(* Lists.  Listed(kk, R, A, W): the ready queues hold the tasks of R, the  *)
(* sleep list those of A and every wait queue q those of W[q]; all of them *)
(* are well formed, no task is on two, and a task on none links to none.   *)
(***************************************************************************)
Apart(R, A, W) ==
    /\ R \cap A = {}
    /\ \A q \in WaitQueues : W[q] \cap (R \cup A) = {}
    /\ \A q, r \in WaitQueues : q # r => W[q] \cap W[r] = {}

Members(R, A, W) ==
    R \in SUBSET Tasks /\ A \in SUBSET Tasks /\ W \in [WaitQueues -> SUBSET Tasks]

\* The tasks on no list: those an operation has taken off one and not yet
\* put on another, and those whose state belongs to no list.
Loose(t, R, A, W) ==
    t \in Tasks /\ t \notin R /\ t \notin A /\ \A q \in WaitQueues : t \notin W[q]

Listed(kk, R, A, W) ==
    /\ Members(R, A, W) /\ Apart(R, A, W)
    /\ Queue(Priorities, kk.ready, kk.next, R)
    /\ Queue({NULL}, One(kk.sleep_list), kk.next, A)
    /\ \A q \in WaitQueues : Queue({NULL}, One(kk.wq[q]), kk.next, W[q])
    /\ \A x \in Tasks : Loose(x, R, A, W) => kk.next[x] = NULL

\* The wait queues after t has joined or left queue q.
Joined(W, q, t) == [W EXCEPT ![q] = @ \cup {t}]
Left(W, q, t)   == [W EXCEPT ![q] = @ \ {t}]

\* The part of the memory that moving a task between lists leaves alone.
SameRest(kk, k2) ==
    /\ k2.hung = kk.hung /\ k2.current = kk.current /\ k2.lock = kk.lock
    /\ k2.wake = kk.wake /\ k2.result = kk.result
    /\ k2.priority = kk.priority /\ k2.alarm = kk.alarm

PushedReady(kk, R, A, W, p, t, Stop, k2) ==
    /\ p \in Priorities
    /\ Listed(kk, R, A, W) /\ Loose(t, R, A, W)
    /\ LET l == Insert(ListOf(kk.ready[p], kk.next), t, Stop)
       IN  k2 = PutReady(kk, p, l)

\* Insertion into a ready queue,
LEMMA PushReady ==
    ASSUME NEW kk \in Kernel, NEW R, NEW A, NEW W, NEW t, NEW p, NEW Stop, NEW k2,
           PushedReady(kk, R, A, W, p, t, Stop, k2)
    PROVE  /\ Listed(k2, R \cup {t}, A, W)
           /\ SameRest(kk, k2) /\ k2.state = kk.state /\ k2.wq = kk.wq
<1> DEFINE l == Insert(ListOf(kk.ready[p], kk.next), t, Stop)
<1>0. /\ p \in Priorities
      /\ Listed(kk, R, A, W) /\ Loose(t, R, A, W)
      /\ l = Insert(ListOf(kk.ready[p], kk.next), t, Stop)
      /\ k2 = PutReady(kk, p, l)
  BY DEF PushedReady
<1> USE <1>0
<1> HIDE DEF l
<1> DEFINE I  == Priorities
           h  == kk.ready
           hh == [h EXCEPT ![p] = l.head]
           ny == l.next
           Mem == R
           M2 == Mem \cup {t}
<1>1. Inserted(I, h, kk.next, Mem, p, Stop, t, l, hh, ny, M2)
  BY DEF Inserted, Kernel, Listed, Members, Loose, One
<1>2. /\ k2.next = ny /\ k2.ready = [kk.ready EXCEPT ![p] = l.head]
      /\ k2.sleep_list = kk.sleep_list /\ k2.wq = kk.wq
  BY DEF PutReady, Kernel
<1>9. k2.ready = hh
  BY <1>2
<1> HIDE DEF I, hh, ny, M2, h, Mem
<1>3. /\ l.halts /\ Queue(I, hh, ny, M2) /\ SameOutside(M2, kk.next, ny)
  BY <1>1, InsertQueue
<1>4. k2 = [kk EXCEPT !.next = k2.next, !.ready = k2.ready]
  BY <1>2, <1>3 DEF Kernel, PutReady
<1>5. Queue(Priorities, k2.ready, k2.next, R \cup {t})
  BY <1>2, <1>3, <1>9 DEF I, Mem, M2
<1>6. Queue({NULL}, One(k2.sleep_list), k2.next, A)
  <2>1. \A x \in A : k2.next[x] = kk.next[x]
    BY <1>2, <1>3 DEF I, Mem, M2, SameOutside, Listed, Members, Apart, Loose
  <2>2. Queue({NULL}, One(k2.sleep_list), kk.next, A)
    BY <1>2 DEF Listed
  <2> QED BY <2>1, <2>2, QueueFrame
<1>7. ASSUME NEW q \in WaitQueues
      PROVE  Queue({NULL}, One(k2.wq[q]), k2.next, W[q])
  <2>1. \A x \in W[q] : k2.next[x] = kk.next[x]
    BY <1>2, <1>3 DEF I, Mem, M2, SameOutside, Listed, Members, Apart, Loose
  <2>2. Queue({NULL}, One(k2.wq[q]), kk.next, W[q])
    BY <1>2 DEF Listed
  <2> QED BY <2>1, <2>2, QueueFrame
<1>8. /\ Members(R \cup {t}, A, W)
      /\ Apart(R \cup {t}, A, W)
  BY DEF Members, Apart, Listed, Loose
<1>11. ASSUME NEW x \in Tasks, Loose(x, R \cup {t}, A, W)
       PROVE  k2.next[x] = NULL
  <2>1. Loose(x, R, A, W) /\ x \notin M2
    BY <1>11 DEF Loose, M2, Mem
  <2>2. k2.next[x] = kk.next[x]
    BY <1>2, <1>3, <2>1 DEF SameOutside
  <2> QED BY <2>1, <2>2 DEF Listed
<1>13. SameRest(kk, k2) /\ k2.state = kk.state /\ k2.wq = kk.wq
  <2> DEFINE m == k2.next
             r == k2.ready
  <2>1. k2 = [kk EXCEPT !.next = m, !.ready = r]
    BY <1>4
  <2> HIDE DEF m, r
  <2> QED BY <2>1 DEF SameRest
<1> QED BY <1>11, <1>13,  <1>5, <1>6, <1>7, <1>8 DEF Mem, Listed

PushedSleep(kk, R, A, W, t, Stop, k2) ==
    /\ Listed(kk, R, A, W) /\ Loose(t, R, A, W)
    /\ LET l == Insert(ListOf(kk.sleep_list, kk.next), t, Stop)
       IN  k2 = PutSleep(kk, l)

\* the sleep list
LEMMA PushSleep ==
    ASSUME NEW kk \in Kernel, NEW R, NEW A, NEW W, NEW t, NEW Stop, NEW k2,
           PushedSleep(kk, R, A, W, t, Stop, k2)
    PROVE  /\ Listed(k2, R, A \cup {t}, W)
           /\ SameRest(kk, k2) /\ k2.state = kk.state /\ k2.wq = kk.wq
<1> DEFINE l == Insert(ListOf(kk.sleep_list, kk.next), t, Stop)
<1>0. /\ Listed(kk, R, A, W) /\ Loose(t, R, A, W)
      /\ l = Insert(ListOf(kk.sleep_list, kk.next), t, Stop)
      /\ k2 = PutSleep(kk, l)
  BY DEF PushedSleep
<1> USE <1>0
<1> HIDE DEF l
<1> DEFINE I  == {NULL}
           h  == One(kk.sleep_list)
           hh == [h EXCEPT ![NULL] = l.head]
           ny == l.next
           Mem == A
           M2 == Mem \cup {t}
<1>1. Inserted(I, h, kk.next, Mem, NULL, Stop, t, l, hh, ny, M2)
  BY DEF Inserted, Kernel, Listed, Members, Loose, One
<1>2. /\ k2.next = ny /\ k2.sleep_list = l.head
      /\ k2.ready = kk.ready /\ k2.wq = kk.wq
  BY DEF PutSleep, Kernel
<1>9. One(k2.sleep_list) = hh
  BY <1>2 DEF One
<1> HIDE DEF I, hh, ny, M2, h, Mem
<1>3. /\ l.halts /\ Queue(I, hh, ny, M2) /\ SameOutside(M2, kk.next, ny)
  BY <1>1, InsertQueue
<1>4. k2 = [kk EXCEPT !.next = k2.next, !.sleep_list = k2.sleep_list]
  BY <1>2, <1>3 DEF Kernel, PutSleep
<1>5. Queue(Priorities, k2.ready, k2.next, R)
  <2>1. \A x \in R : k2.next[x] = kk.next[x]
    BY <1>2, <1>3 DEF I, Mem, M2, SameOutside, Listed, Members, Apart, Loose
  <2>2. Queue(Priorities, k2.ready, kk.next, R)
    BY <1>2 DEF Listed
  <2> QED BY <2>1, <2>2, QueueFrame
<1>6. Queue({NULL}, One(k2.sleep_list), k2.next, A \cup {t})
  BY <1>2, <1>3, <1>9 DEF I, Mem, M2
<1>7. ASSUME NEW q \in WaitQueues
      PROVE  Queue({NULL}, One(k2.wq[q]), k2.next, W[q])
  <2>1. \A x \in W[q] : k2.next[x] = kk.next[x]
    BY <1>2, <1>3 DEF I, Mem, M2, SameOutside, Listed, Members, Apart, Loose
  <2>2. Queue({NULL}, One(k2.wq[q]), kk.next, W[q])
    BY <1>2 DEF Listed
  <2> QED BY <2>1, <2>2, QueueFrame
<1>8. /\ Members(R, A \cup {t}, W)
      /\ Apart(R, A \cup {t}, W)
  BY DEF Members, Apart, Listed, Loose
<1>11. ASSUME NEW x \in Tasks, Loose(x, R, A \cup {t}, W)
       PROVE  k2.next[x] = NULL
  <2>1. Loose(x, R, A, W) /\ x \notin M2
    BY <1>11 DEF Loose, M2, Mem
  <2>2. k2.next[x] = kk.next[x]
    BY <1>2, <1>3, <2>1 DEF SameOutside
  <2> QED BY <2>1, <2>2 DEF Listed
<1>13. SameRest(kk, k2) /\ k2.state = kk.state /\ k2.wq = kk.wq
  <2> DEFINE m == k2.next
             r == k2.sleep_list
  <2>1. k2 = [kk EXCEPT !.next = m, !.sleep_list = r]
    BY <1>4
  <2> HIDE DEF m, r
  <2> QED BY <2>1 DEF SameRest
<1> QED BY <1>11, <1>13,  <1>5, <1>6, <1>7, <1>8 DEF Mem, Listed

PushedWait(kk, R, A, W, q, t, Stop, k2) ==
    /\ q \in WaitQueues
    /\ Listed(kk, R, A, W) /\ Loose(t, R, A, W)
    /\ LET l == Insert(ListOf(kk.wq[q], kk.next), t, Stop)
       IN  k2 = PutWait(kk, q, l)

\* and a wait queue keeps all lists well formed and never runs for good.
LEMMA PushWait ==
    ASSUME NEW kk \in Kernel, NEW R, NEW A, NEW W, NEW t, NEW q, NEW Stop, NEW k2,
           PushedWait(kk, R, A, W, q, t, Stop, k2)
    PROVE  /\ Listed(k2, R, A, Joined(W, q, t))
           /\ SameRest(kk, k2) /\ k2.state = kk.state
<1> DEFINE l == Insert(ListOf(kk.wq[q], kk.next), t, Stop)
<1>0. /\ q \in WaitQueues
      /\ Listed(kk, R, A, W) /\ Loose(t, R, A, W)
      /\ l = Insert(ListOf(kk.wq[q], kk.next), t, Stop)
      /\ k2 = PutWait(kk, q, l)
  BY DEF PushedWait
<1> USE <1>0
<1> HIDE DEF l
<1> DEFINE I  == {NULL}
           h  == One(kk.wq[q])
           hh == [h EXCEPT ![NULL] = l.head]
           ny == l.next
           Mem == W[q]
           M2 == Mem \cup {t}
<1>1. Inserted(I, h, kk.next, Mem, NULL, Stop, t, l, hh, ny, M2)
  BY DEF Inserted, Kernel, Listed, Members, Loose, One
<1>2. /\ k2.next = ny /\ k2.wq = [kk.wq EXCEPT ![q] = l.head]
      /\ k2.ready = kk.ready /\ k2.sleep_list = kk.sleep_list
  BY DEF PutWait, Kernel
<1>9. One(k2.wq[q]) = hh
  BY <1>2 DEF One, Kernel
<1> HIDE DEF I, hh, ny, M2, h, Mem
<1>3. /\ l.halts /\ Queue(I, hh, ny, M2) /\ SameOutside(M2, kk.next, ny)
  BY <1>1, InsertQueue
<1>4. k2 = [kk EXCEPT !.next = k2.next, !.wq = k2.wq]
  BY <1>2, <1>3 DEF Kernel, PutWait
<1>5. Queue(Priorities, k2.ready, k2.next, R)
  <2>1. \A x \in R : k2.next[x] = kk.next[x]
    BY <1>2, <1>3 DEF I, Mem, M2, SameOutside, Listed, Members, Apart, Loose
  <2>2. Queue(Priorities, k2.ready, kk.next, R)
    BY <1>2 DEF Listed
  <2> QED BY <2>1, <2>2, QueueFrame
<1>6. Queue({NULL}, One(k2.sleep_list), k2.next, A)
  <2>1. \A x \in A : k2.next[x] = kk.next[x]
    BY <1>2, <1>3 DEF I, Mem, M2, SameOutside, Listed, Members, Apart, Loose
  <2>2. Queue({NULL}, One(k2.sleep_list), kk.next, A)
    BY <1>2 DEF Listed
  <2> QED BY <2>1, <2>2, QueueFrame
<1> DEFINE V == Joined(W, q, t)
<1>10. \A r \in WaitQueues : V[r] = IF r = q THEN W[q] \cup {t} ELSE W[r]
  BY DEF Listed, Members, Joined
<1>7. ASSUME NEW r \in WaitQueues
      PROVE  Queue({NULL}, One(k2.wq[r]), k2.next, V[r])
  <2>1. CASE r = q
    BY <1>2, <1>3, <1>9, <1>10, <2>1 DEF I, Mem, M2
  <2>2. CASE r # q
    <3>1. \A x \in W[r] : k2.next[x] = kk.next[x]
      BY <2>2, <1>2, <1>3 DEF I, Mem, M2, SameOutside, Listed, Members, Apart, Loose
    <3>2. k2.wq[r] = kk.wq[r] /\ V[r] = W[r]
      BY <1>2, <1>10, <2>2 DEF Kernel
    <3>3. Queue({NULL}, One(k2.wq[r]), kk.next, W[r])
      BY <3>2 DEF Listed
    <3>4. Queue({NULL}, One(k2.wq[r]), k2.next, W[r])
      BY <3>1, <3>3, QueueFrame
    <3> QED BY <3>2, <3>4
  <2> QED BY <2>1, <2>2
<1>8. Members(R, A, V) /\ Apart(R, A, V)
  <2>1. V \in [WaitQueues -> SUBSET Tasks]
    BY DEF Listed, Members, Loose, Joined
  <2> HIDE DEF V
  <2> QED BY <1>10, <2>1 DEF Members, Apart, Listed, Loose
<1>11. ASSUME NEW x \in Tasks, Loose(x, R, A, V)
       PROVE  k2.next[x] = NULL
  <2>1. Loose(x, R, A, W) /\ x \notin M2
    BY <1>11, <1>10 DEF Loose, M2, Mem
  <2>2. k2.next[x] = kk.next[x]
    BY <1>2, <1>3, <2>1 DEF SameOutside
  <2> QED BY <2>1, <2>2 DEF Listed
<1>13. SameRest(kk, k2) /\ k2.state = kk.state
  <2> DEFINE m == k2.next
             r == k2.wq
  <2>1. k2 = [kk EXCEPT !.next = m, !.wq = r]
    BY <1>4
  <2> HIDE DEF m, r
  <2> QED BY <2>1 DEF SameRest
<1> QED BY <1>11, <1>13,  <1>5, <1>6, <1>7, <1>8 DEF Mem, Listed

PoppedReady(kk, R, A, W, p, t, k2) ==
    /\ p \in Priorities
    /\ Listed(kk, R, A, W) /\ t = kk.ready[p] /\ t # NULL
    /\ LET l == Pop(ListOf(t, kk.next))
       IN  k2 = PutReady(kk, p, l)

\* So does the removal of the first task of a ready queue,
LEMMA PopReady ==
    ASSUME NEW kk \in Kernel, NEW R, NEW A, NEW W, NEW t, NEW p, NEW k2,
           PoppedReady(kk, R, A, W, p, t, k2)
    PROVE  /\ t \in R
           /\ Listed(k2, R \ {t}, A, W)
           /\ SameRest(kk, k2) /\ k2.state = kk.state /\ k2.wq = kk.wq
<1> DEFINE l == Pop(ListOf(t, kk.next))
<1>0. /\ p \in Priorities
      /\ Listed(kk, R, A, W) /\ t = kk.ready[p] /\ t # NULL
      /\ l = Pop(ListOf(t, kk.next))
      /\ k2 = PutReady(kk, p, l)
  BY DEF PoppedReady
<1> USE <1>0
<1> HIDE DEF l
<1> DEFINE I  == Priorities
           h  == kk.ready
           hh == [h EXCEPT ![p] = l.head]
           ny == l.next
           Mem == R
           M2 == Mem \ {t}
<1>1. Popped(I, h, kk.next, Mem, p, t, l, hh, ny, M2)
  BY DEF Popped, Kernel, Listed, Members, One
<1>2. /\ k2.next = ny /\ k2.ready = [kk.ready EXCEPT ![p] = l.head]
      /\ k2.sleep_list = kk.sleep_list /\ k2.wq = kk.wq
  BY DEF PutReady, Kernel
<1>9. k2.ready = hh
  BY <1>2
<1> HIDE DEF I, hh, ny, M2, h, Mem
<1>3. /\ l.halts /\ Queue(I, hh, ny, M2) /\ SameOutside({t}, kk.next, ny)
      /\ t \in Mem /\ ny[t] = NULL
  BY <1>1, PopQueue
<1>4. k2 = [kk EXCEPT !.next = k2.next, !.ready = k2.ready]
  BY <1>2, <1>3 DEF Kernel, PutReady
<1>5. Queue(Priorities, k2.ready, k2.next, R \ {t})
  BY <1>2, <1>3, <1>9 DEF I, Mem, M2
<1>6. Queue({NULL}, One(k2.sleep_list), k2.next, A)
  <2>1. \A x \in A : k2.next[x] = kk.next[x]
    BY <1>2, <1>3 DEF I, Mem, M2, SameOutside, Listed, Members, Apart
  <2>2. Queue({NULL}, One(k2.sleep_list), kk.next, A)
    BY <1>2 DEF Listed
  <2> QED BY <2>1, <2>2, QueueFrame
<1>7. ASSUME NEW q \in WaitQueues
      PROVE  Queue({NULL}, One(k2.wq[q]), k2.next, W[q])
  <2>1. \A x \in W[q] : k2.next[x] = kk.next[x]
    BY <1>2, <1>3 DEF I, Mem, M2, SameOutside, Listed, Members, Apart
  <2>2. Queue({NULL}, One(k2.wq[q]), kk.next, W[q])
    BY <1>2 DEF Listed
  <2> QED BY <2>1, <2>2, QueueFrame
<1>8. /\ Members(R \ {t}, A, W)
      /\ Apart(R \ {t}, A, W)
  BY DEF Members, Apart, Listed
<1>12. k2.next[t] = NULL
  BY <1>2, <1>3 DEF ny
<1>11. ASSUME NEW x \in Tasks, Loose(x, R \ {t}, A, W)
       PROVE  k2.next[x] = NULL
  <2>1. CASE x = t
    BY <1>12, <2>1
  <2>2. CASE x # t
    <3>1. Loose(x, R, A, W)
      BY <1>11, <2>2 DEF Loose
    <3>2. k2.next[x] = kk.next[x]
      BY <1>2, <1>3, <2>2 DEF SameOutside
    <3> QED BY <3>1, <3>2 DEF Listed
  <2> QED BY <2>1, <2>2
<1>13. SameRest(kk, k2) /\ k2.state = kk.state /\ k2.wq = kk.wq
  <2> DEFINE m == k2.next
             r == k2.ready
  <2>1. k2 = [kk EXCEPT !.next = m, !.ready = r]
    BY <1>4
  <2> HIDE DEF m, r
  <2> QED BY <2>1 DEF SameRest
<1> QED BY <1>11, <1>13, <1>3,  <1>5, <1>6, <1>7, <1>8 DEF Mem, Listed

PoppedSleep(kk, R, A, W, t, k2) ==
    /\ Listed(kk, R, A, W) /\ t = kk.sleep_list /\ t # NULL
    /\ LET l == Pop(ListOf(t, kk.next))
       IN  k2 = PutSleep(kk, l)

\* of the sleep list
LEMMA PopSleep ==
    ASSUME NEW kk \in Kernel, NEW R, NEW A, NEW W, NEW t, NEW k2,
           PoppedSleep(kk, R, A, W, t, k2)
    PROVE  /\ t \in A
           /\ Listed(k2, R, A \ {t}, W)
           /\ SameRest(kk, k2) /\ k2.state = kk.state /\ k2.wq = kk.wq
<1> DEFINE l == Pop(ListOf(t, kk.next))
<1>0. /\ Listed(kk, R, A, W) /\ t = kk.sleep_list /\ t # NULL
      /\ l = Pop(ListOf(t, kk.next))
      /\ k2 = PutSleep(kk, l)
  BY DEF PoppedSleep
<1> USE <1>0
<1> HIDE DEF l
<1> DEFINE I  == {NULL}
           h  == One(kk.sleep_list)
           hh == [h EXCEPT ![NULL] = l.head]
           ny == l.next
           Mem == A
           M2 == Mem \ {t}
<1>1. Popped(I, h, kk.next, Mem, NULL, t, l, hh, ny, M2)
  BY DEF Popped, Kernel, Listed, Members, One
<1>2. /\ k2.next = ny /\ k2.sleep_list = l.head
      /\ k2.ready = kk.ready /\ k2.wq = kk.wq
  BY DEF PutSleep, Kernel
<1>9. One(k2.sleep_list) = hh
  BY <1>2 DEF One
<1> HIDE DEF I, hh, ny, M2, h, Mem
<1>3. /\ l.halts /\ Queue(I, hh, ny, M2) /\ SameOutside({t}, kk.next, ny)
      /\ t \in Mem /\ ny[t] = NULL
  BY <1>1, PopQueue
<1>4. k2 = [kk EXCEPT !.next = k2.next, !.sleep_list = k2.sleep_list]
  BY <1>2, <1>3 DEF Kernel, PutSleep
<1>5. Queue(Priorities, k2.ready, k2.next, R)
  <2>1. \A x \in R : k2.next[x] = kk.next[x]
    BY <1>2, <1>3 DEF I, Mem, M2, SameOutside, Listed, Members, Apart
  <2>2. Queue(Priorities, k2.ready, kk.next, R)
    BY <1>2 DEF Listed
  <2> QED BY <2>1, <2>2, QueueFrame
<1>6. Queue({NULL}, One(k2.sleep_list), k2.next, A \ {t})
  BY <1>2, <1>3, <1>9 DEF I, Mem, M2
<1>7. ASSUME NEW q \in WaitQueues
      PROVE  Queue({NULL}, One(k2.wq[q]), k2.next, W[q])
  <2>1. \A x \in W[q] : k2.next[x] = kk.next[x]
    BY <1>2, <1>3 DEF I, Mem, M2, SameOutside, Listed, Members, Apart
  <2>2. Queue({NULL}, One(k2.wq[q]), kk.next, W[q])
    BY <1>2 DEF Listed
  <2> QED BY <2>1, <2>2, QueueFrame
<1>8. /\ Members(R, A \ {t}, W)
      /\ Apart(R, A \ {t}, W)
  BY DEF Members, Apart, Listed
<1>12. k2.next[t] = NULL
  BY <1>2, <1>3 DEF ny
<1>11. ASSUME NEW x \in Tasks, Loose(x, R, A \ {t}, W)
       PROVE  k2.next[x] = NULL
  <2>1. CASE x = t
    BY <1>12, <2>1
  <2>2. CASE x # t
    <3>1. Loose(x, R, A, W)
      BY <1>11, <2>2 DEF Loose
    <3>2. k2.next[x] = kk.next[x]
      BY <1>2, <1>3, <2>2 DEF SameOutside
    <3> QED BY <3>1, <3>2 DEF Listed
  <2> QED BY <2>1, <2>2
<1>13. SameRest(kk, k2) /\ k2.state = kk.state /\ k2.wq = kk.wq
  <2> DEFINE m == k2.next
             r == k2.sleep_list
  <2>1. k2 = [kk EXCEPT !.next = m, !.sleep_list = r]
    BY <1>4
  <2> HIDE DEF m, r
  <2> QED BY <2>1 DEF SameRest
<1> QED BY <1>11, <1>13, <1>3,  <1>5, <1>6, <1>7, <1>8 DEF Mem, Listed

PoppedWait(kk, R, A, W, q, t, k2) ==
    /\ q \in WaitQueues
    /\ Listed(kk, R, A, W) /\ t = kk.wq[q] /\ t # NULL
    /\ LET l == Pop(ListOf(t, kk.next))
       IN  k2 = PutWait(kk, q, l)

\* and of a wait queue.
LEMMA PopWait ==
    ASSUME NEW kk \in Kernel, NEW R, NEW A, NEW W, NEW t, NEW q, NEW k2,
           PoppedWait(kk, R, A, W, q, t, k2)
    PROVE  /\ t \in W[q]
           /\ Listed(k2, R, A, Left(W, q, t))
           /\ SameRest(kk, k2) /\ k2.state = kk.state
<1> DEFINE l == Pop(ListOf(t, kk.next))
<1>0. /\ q \in WaitQueues
      /\ Listed(kk, R, A, W) /\ t = kk.wq[q] /\ t # NULL
      /\ l = Pop(ListOf(t, kk.next))
      /\ k2 = PutWait(kk, q, l)
  BY DEF PoppedWait
<1> USE <1>0
<1> HIDE DEF l
<1> DEFINE I  == {NULL}
           h  == One(kk.wq[q])
           hh == [h EXCEPT ![NULL] = l.head]
           ny == l.next
           Mem == W[q]
           M2 == Mem \ {t}
<1>1. Popped(I, h, kk.next, Mem, NULL, t, l, hh, ny, M2)
  BY DEF Popped, Kernel, Listed, Members, One
<1>2. /\ k2.next = ny /\ k2.wq = [kk.wq EXCEPT ![q] = l.head]
      /\ k2.ready = kk.ready /\ k2.sleep_list = kk.sleep_list
  BY DEF PutWait, Kernel
<1>9. One(k2.wq[q]) = hh
  BY <1>2 DEF One, Kernel
<1> HIDE DEF I, hh, ny, M2, h, Mem
<1>3. /\ l.halts /\ Queue(I, hh, ny, M2) /\ SameOutside({t}, kk.next, ny)
      /\ t \in Mem /\ ny[t] = NULL
  BY <1>1, PopQueue
<1>4. k2 = [kk EXCEPT !.next = k2.next, !.wq = k2.wq]
  BY <1>2, <1>3 DEF Kernel, PutWait
<1>5. Queue(Priorities, k2.ready, k2.next, R)
  <2>1. \A x \in R : k2.next[x] = kk.next[x]
    BY <1>2, <1>3 DEF I, Mem, M2, SameOutside, Listed, Members, Apart
  <2>2. Queue(Priorities, k2.ready, kk.next, R)
    BY <1>2 DEF Listed
  <2> QED BY <2>1, <2>2, QueueFrame
<1>6. Queue({NULL}, One(k2.sleep_list), k2.next, A)
  <2>1. \A x \in A : k2.next[x] = kk.next[x]
    BY <1>2, <1>3 DEF I, Mem, M2, SameOutside, Listed, Members, Apart
  <2>2. Queue({NULL}, One(k2.sleep_list), kk.next, A)
    BY <1>2 DEF Listed
  <2> QED BY <2>1, <2>2, QueueFrame
<1> DEFINE V == Left(W, q, t)
<1>10. \A r \in WaitQueues : V[r] = IF r = q THEN W[q] \ {t} ELSE W[r]
  BY DEF Listed, Members, Left
<1>7. ASSUME NEW r \in WaitQueues
      PROVE  Queue({NULL}, One(k2.wq[r]), k2.next, V[r])
  <2>1. CASE r = q
    BY <1>2, <1>3, <1>9, <1>10, <2>1 DEF I, Mem, M2
  <2>2. CASE r # q
    <3>1. \A x \in W[r] : k2.next[x] = kk.next[x]
      BY <2>2, <1>2, <1>3 DEF I, Mem, M2, SameOutside, Listed, Members, Apart
    <3>2. k2.wq[r] = kk.wq[r] /\ V[r] = W[r]
      BY <1>2, <1>10, <2>2 DEF Kernel
    <3>3. Queue({NULL}, One(k2.wq[r]), kk.next, W[r])
      BY <3>2 DEF Listed
    <3>4. Queue({NULL}, One(k2.wq[r]), k2.next, W[r])
      BY <3>1, <3>3, QueueFrame
    <3> QED BY <3>2, <3>4
  <2> QED BY <2>1, <2>2
<1>8. Members(R, A, V) /\ Apart(R, A, V)
  <2>1. V \in [WaitQueues -> SUBSET Tasks]
    BY DEF Listed, Members, Left
  <2> HIDE DEF V
  <2> QED BY <1>10, <2>1 DEF Members, Apart, Listed
<1>12. k2.next[t] = NULL
  BY <1>2, <1>3 DEF ny
<1>11. ASSUME NEW x \in Tasks, Loose(x, R, A, V)
       PROVE  k2.next[x] = NULL
  <2>1. CASE x = t
    BY <1>12, <2>1
  <2>2. CASE x # t
    <3>1. Loose(x, R, A, W)
      BY <1>11, <2>2, <1>10 DEF Loose
    <3>2. k2.next[x] = kk.next[x]
      BY <1>2, <1>3, <2>2 DEF SameOutside
    <3> QED BY <3>1, <3>2 DEF Listed
  <2> QED BY <2>1, <2>2
<1>13. SameRest(kk, k2) /\ k2.state = kk.state
  <2> DEFINE m == k2.next
             r == k2.wq
  <2>1. k2 = [kk EXCEPT !.next = m, !.wq = r]
    BY <1>4
  <2> HIDE DEF m, r
  <2> QED BY <2>1 DEF SameRest
<1> QED BY <1>11, <1>13, <1>3,  <1>5, <1>6, <1>7, <1>8 DEF Mem, Listed

-------------------------------------------------------------------------------
(* What the kernel's functions do to its lists. *)

SameLists(kk, k2) ==
    /\ k2.next = kk.next /\ k2.ready = kk.ready
    /\ k2.sleep_list = kk.sleep_list /\ k2.wq = kk.wq

\* Only heads and links matter.
LEMMA ListedFrame ==
    ASSUME NEW kk, NEW k2, NEW R, NEW A, NEW W, Listed(kk, R, A, W),
           SameLists(kk, k2)
    PROVE  Listed(k2, R, A, W)
BY DEF Listed, SameLists

\* br_sched_ready moves a task that is on no list into the ready queues.
LEMMA ReadyLists ==
    ASSUME NEW kk \in Kernel, NEW R, NEW A, NEW W, Listed(kk, R, A, W),
           NEW t, Loose(t, R, A, W), NEW k2, k2 = br_sched_ready(kk, t)
    PROVE  /\ k2 \in Kernel
           /\ Listed(k2, R \cup {t}, A, W)
           /\ SameRest(kk, k2) /\ k2.wq = kk.wq
           /\ k2.state = [kk.state EXCEPT ![t] = "READY"]
<1> DEFINE k1 == [kk EXCEPT !.state[t] = "READY", !.next[t] = NULL]
           p  == kk.priority[t]
<1>1. t \in Tasks /\ kk.next[t] = NULL
  BY DEF Loose, Listed
<1>2. k1 \in Kernel /\ p \in Priorities
  BY <1>1 DEF Kernel, States, Links
<1>3. SameLists(kk, k1)
  BY <1>1 DEF Kernel, Links, SameLists
<1>4. Listed(k1, R, A, W)
  BY <1>3, ListedFrame
<1>5. PushedReady(k1, R, A, W, p, t, {}, k2)
  BY <1>2, <1>4 DEF PushedReady, br_sched_ready
<1>6. /\ k1.state = [kk.state EXCEPT ![t] = "READY"]
      /\ SameRest(kk, k1) /\ k1.wq = kk.wq
  BY <1>2 DEF Kernel, SameRest
<1>7. k2 \in Kernel
  BY <1>1, ReadyType
<1> HIDE DEF k1, p
<1>8. /\ Listed(k2, R \cup {t}, A, W)
      /\ SameRest(k1, k2) /\ k2.state = k1.state /\ k2.wq = k1.wq
  BY <1>2, <1>5, PushReady
<1> QED BY <1>6, <1>7, <1>8 DEF SameRest

\* Some queue has a head when some task is READY.
LEMMA ReadyFound ==
    ASSUME NEW kk, NEW R, NEW A, NEW W, Listed(kk, R, A, W), R # {}
    PROVE  ReadyLevels(kk) # {}
<1> SUFFICES ASSUME \A p \in Priorities : kk.ready[p] = NULL PROVE FALSE
  BY DEF ReadyLevels
<1>1. \A p \in Priorities : Within({}, kk.ready[p])
  BY DEF Within
<1>2. Queue(Priorities, kk.ready, kk.next, R)
  BY DEF Listed
<1>3. {} \in SUBSET R /\ \A x \in {} : Within({}, kk.next[x])
  OBVIOUS
<1>4. {} = R
  BY <1>1, <1>2, <1>3 DEF Queue
<1> QED BY <1>4

\* pick_next takes one of the READY tasks off its queue.
LEMMA PickLists ==
    ASSUME NEW kk \in Kernel, NEW R, NEW A, NEW W, Listed(kk, R, A, W),
           ReadyLevels(kk) # {},
           NEW n, n = NextTask(kk), NEW k2, k2 = pick_next(kk)
    PROVE  /\ k2 \in Kernel /\ n \in R
           /\ Listed(k2, R \ {n}, A, W)
           /\ SameRest(kk, k2) /\ k2.state = kk.state /\ k2.wq = kk.wq
<1> DEFINE p == TopLevel(kk)
<1>1. p \in Priorities /\ n = kk.ready[p] /\ n # NULL
  BY TopLevelFound DEF NextTask
<1>2. PoppedReady(kk, R, A, W, p, n, k2)
  BY <1>1 DEF PoppedReady, pick_next
<1>3. k2 \in Kernel
  BY PickType
<1> HIDE DEF p
<1> QED BY <1>2, <1>3, PopReady

\* The sleep list: insertion,
LEMMA SleepLists ==
    ASSUME NEW kk \in Kernel, NEW R, NEW A, NEW W, Listed(kk, R, A, W),
           NEW t, Loose(t, R, A, W),
           NEW k2, k2 = br_time_sleep_list_insert(kk, t)
    PROVE  /\ k2 \in Kernel
           /\ Listed(k2, R, A \cup {t}, W)
           /\ SameRest(kk, k2) /\ k2.state = kk.state /\ k2.wq = kk.wq
<1> DEFINE later == {x \in Tasks : kk.wake[x] > kk.wake[t]}
<1>1. PushedSleep(kk, R, A, W, t, later, k2)
  BY DEF PushedSleep, br_time_sleep_list_insert
<1>2. k2 \in Kernel
  BY SleepListType DEF Loose
<1> HIDE DEF later
<1> QED BY <1>1, <1>2, PushSleep

\* removal of the first sleeper,
LEMMA FirstSleeper ==
    ASSUME NEW kk \in Kernel, NEW R, NEW A, NEW W, Listed(kk, R, A, W),
           NEW t, NEW k2, PoppedSleep(kk, R, A, W, t, k2)
    PROVE  /\ k2 \in Kernel /\ t \in A
           /\ Listed(k2, R, A \ {t}, W)
           /\ SameRest(kk, k2) /\ k2.state = kk.state /\ k2.wq = kk.wq
<1>1. t \in Tasks
  BY DEF Kernel, PoppedSleep
<1>2. Pop(ListOf(t, kk.next)) \in List
  BY <1>1, KernelLists, PopType DEF ListOf, PoppedSleep
<1>3. k2 \in Kernel
  BY <1>2, PutSleepType DEF PoppedSleep
<1> QED BY <1>3, PopSleep

\* and the search for a task that does not sleep, which changes nothing.
LEMMA SleepAbsent ==
    ASSUME NEW kk \in Kernel, NEW R, NEW A, NEW W, Listed(kk, R, A, W),
           NEW t \in Tasks, t \notin A
    PROVE  br_time_sleep_list_remove(kk, t) = kk
<1> DEFINE h == One(kk.sleep_list)
<1>1. Queue({NULL}, h, kk.next, A) /\ A \in SUBSET Tasks /\ kk.next \in Links
  BY DEF Listed, Members, Kernel
<1>2. h[NULL] = kk.sleep_list
  BY DEF One
<1> HIDE DEF h
<1>3. Unlink(ListOf(h[NULL], kk.next), t) = ListOf(h[NULL], kk.next)
  BY <1>1, UnlinkAbsent
<1>4. br_time_sleep_list_remove(kk, t) = PutSleep(kk, ListOf(kk.sleep_list, kk.next))
  BY <1>2, <1>3 DEF br_time_sleep_list_remove
<1>5. PutSleep(kk, ListOf(kk.sleep_list, kk.next))
        = [kk EXCEPT !.next = kk.next, !.sleep_list = kk.sleep_list,
                     !.hung = kk.hung]
  BY DEF PutSleep, ListOf, Kernel
<1> QED BY <1>4, <1>5 DEF Kernel

\* Wait queues: insertion
LEMMA WaitLists ==
    ASSUME NEW kk \in Kernel, NEW R, NEW A, NEW W, Listed(kk, R, A, W),
           NEW t, Loose(t, R, A, W), NEW q \in WaitQueues,
           NEW k2, k2 = wq_insert(kk, q, t)
    PROVE  /\ k2 \in Kernel
           /\ Listed(k2, R, A, Joined(W, q, t))
           /\ SameRest(kk, k2) /\ k2.state = kk.state
<1> DEFINE k1 == [kk EXCEPT !.next[t] = NULL]
           lower == {x \in Tasks : k1.priority[x] > k1.priority[t]}
<1>1. t \in Tasks /\ kk.next[t] = NULL
  BY DEF Loose, Listed
<1>2. k1 = kk
  BY <1>1 DEF Kernel, Links
<1>3. k2 = PutWait(k1, q, Insert(ListOf(k1.wq[q], k1.next), t, lower))
  BY DEF wq_insert
<1>4. k2 \in Kernel
  BY <1>1, WaitQueueType
<1> HIDE DEF k1, lower
<1>5. PushedWait(kk, R, A, W, q, t, lower, k2)
  BY <1>2, <1>3 DEF PushedWait
<1>6. /\ Listed(k2, R, A, Joined(W, q, t))
      /\ SameRest(kk, k2) /\ k2.state = kk.state
  BY <1>5, PushWait
<1> QED BY <1>4, <1>6

\* and removal of the first waiter.
LEMMA FirstWaiter ==
    ASSUME NEW kk \in Kernel, NEW R, NEW A, NEW W, Listed(kk, R, A, W),
           NEW q \in WaitQueues, NEW t, t = kk.wq[q], t # NULL,
           NEW k2, k2 = wq_pop(kk, q)
    PROVE  /\ k2 \in Kernel /\ t \in W[q]
           /\ Listed(k2, R, A, Left(W, q, t))
           /\ SameRest(kk, k2) /\ k2.state = kk.state
<1>1. PoppedWait(kk, R, A, W, q, t, k2)
  BY DEF PoppedWait, wq_pop
<1>2. k2 \in Kernel
  <2>1. t \in Tasks
    BY DEF Kernel
  <2> QED BY <2>1, WaitQueueType
<1>3. /\ t \in W[q] /\ Listed(k2, R, A, Left(W, q, t))
      /\ SameRest(kk, k2) /\ k2.state = kk.state
  BY <1>1, PopWait
<1> QED BY <1>2, <1>3

-------------------------------------------------------------------------------
(***************************************************************************)
(* The order of the lists: a READY task is queued at the level of its      *)
(* priority, sleepers come by their wake time, waiters by their priority.  *)
(***************************************************************************)
Levels(kk, R) == Leveled(Priorities, kk.ready, kk.next, R, kk.priority)
ByWake(kk, A) == Sorted(A, kk.next, kk.wake)
ByPriority(kk, W) ==
    \A q \in WaitQueues : Sorted(W[q], kk.next, kk.priority)

\* Of the links, only those of S change; of the heads, only the ready
\* queues', the sleep list's or one wait queue's.
OnlyReady(S, kk, k2) ==
    /\ SameOutside(S, kk.next, k2.next)
    /\ k2.sleep_list = kk.sleep_list /\ k2.wq = kk.wq
OnlySleep(S, kk, k2) ==
    /\ SameOutside(S, kk.next, k2.next)
    /\ k2.ready = kk.ready /\ k2.wq = kk.wq
OnlyWait(S, kk, k2) ==
    /\ SameOutside(S, kk.next, k2.next)
    /\ k2.ready = kk.ready /\ k2.sleep_list = kk.sleep_list

\* Insertion into a ready queue,
LEMMA PushReadyOrder ==
    ASSUME NEW kk \in Kernel, NEW R, NEW A, NEW W, NEW t, NEW p, NEW k2,
           PushedReady(kk, R, A, W, p, t, {}, k2)
    PROVE  /\ OnlyReady(R \cup {t}, kk, k2)
           /\ kk.priority[t] = p /\ Levels(kk, R) => Levels(k2, R \cup {t})
<1> DEFINE l == Insert(ListOf(kk.ready[p], kk.next), t, {})
           hh == [kk.ready EXCEPT ![p] = l.head]
           M2 == R \cup {t}
<1>1. Inserted(Priorities, kk.ready, kk.next, R, p, {}, t, l, hh, l.next, M2)
  BY DEF PushedReady, Inserted, Kernel, Listed, Members, Loose
<1>2. /\ k2.next = l.next /\ k2.ready = hh /\ k2.priority = kk.priority
      /\ k2.sleep_list = kk.sleep_list /\ k2.wq = kk.wq
  BY DEF PushedReady, PutReady, Kernel
<1> HIDE DEF l, hh, M2
<1>3. SameOutside(M2, kk.next, l.next)
  BY <1>1, InsertQueue
<1>4. kk.priority[t] = p /\ Levels(kk, R)
      => Leveled(Priorities, hh, l.next, M2, kk.priority)
  BY <1>1, InsertLeveled DEF Levels
<1> QED BY <1>2, <1>3, <1>4 DEF OnlyReady, Levels, M2

\* removal of the first task of one
LEMMA PopReadyOrder ==
    ASSUME NEW kk \in Kernel, NEW R, NEW A, NEW W, NEW t, NEW p, NEW k2,
           PoppedReady(kk, R, A, W, p, t, k2)
    PROVE  /\ OnlyReady({t}, kk, k2)
           /\ Levels(kk, R) => Levels(k2, R \ {t})
<1> DEFINE l == Pop(ListOf(t, kk.next))
           hh == [kk.ready EXCEPT ![p] = l.head]
           M2 == R \ {t}
<1>1. Popped(Priorities, kk.ready, kk.next, R, p, t, l, hh, l.next, M2)
  BY DEF PoppedReady, Popped, Kernel, Listed, Members
<1>2. /\ k2.next = l.next /\ k2.ready = hh /\ k2.priority = kk.priority
      /\ k2.sleep_list = kk.sleep_list /\ k2.wq = kk.wq
  BY DEF PoppedReady, PutReady, Kernel
<1> HIDE DEF l, hh, M2
<1>3. SameOutside({t}, kk.next, l.next)
  BY <1>1, PopQueue
<1>4. Levels(kk, R) => Leveled(Priorities, hh, l.next, M2, kk.priority)
  BY <1>1, PopLeveled DEF Levels
<1> QED BY <1>2, <1>3, <1>4 DEF OnlyReady, Levels, M2

\* The wake times and the priorities are numbers.
LEMMA Ranks ==
    ASSUME NEW kk \in Kernel
    PROVE  kk.wake \in [Tasks -> Nat] /\ kk.priority \in [Tasks -> Nat]
<1>1. (0 .. MaxTicks) \subseteq Nat /\ Priorities \subseteq Nat
  BY KernelAssumption DEF Priorities
<1> QED BY <1>1 DEF Kernel

\* Insertion into the sleep list behind every task that wakes no later,
LEMMA PushSleepOrder ==
    ASSUME NEW kk \in Kernel, NEW R, NEW A, NEW W, NEW t, NEW k2, NEW later,
           later = {x \in Tasks : kk.wake[x] > kk.wake[t]},
           PushedSleep(kk, R, A, W, t, later, k2)
    PROVE  /\ OnlySleep(A \cup {t}, kk, k2)
           /\ ByWake(kk, A) => ByWake(k2, A \cup {t})
<1> DEFINE l == Insert(ListOf(kk.sleep_list, kk.next), t, later)
           h  == One(kk.sleep_list)
           hh == [h EXCEPT ![NULL] = l.head]
           M2 == A \cup {t}
<1>1. Inserted({NULL}, h, kk.next, A, NULL, later, t, l, hh, l.next, M2)
  BY DEF PushedSleep, Inserted, Kernel, Listed, Members, Loose, One
<1>2. /\ k2.next = l.next /\ k2.wake = kk.wake
      /\ k2.ready = kk.ready /\ k2.wq = kk.wq
  BY DEF PushedSleep, PutSleep, Kernel
<1> HIDE DEF l, h, hh, M2
<1>3. SameOutside(M2, kk.next, l.next)
  BY <1>1, InsertQueue
<1>4. ByWake(kk, A) => Sorted(M2, l.next, kk.wake)
  <2>1. kk.wake \in [Tasks -> Nat]
    BY Ranks
  <2> QED BY <1>1, <2>1, InsertSorted DEF ByWake
<1> QED BY <1>2, <1>3, <1>4 DEF OnlySleep, ByWake, M2

\* and removal of the first sleeper.
LEMMA PopSleepOrder ==
    ASSUME NEW kk \in Kernel, NEW R, NEW A, NEW W, NEW t, NEW k2,
           PoppedSleep(kk, R, A, W, t, k2)
    PROVE  /\ OnlySleep({t}, kk, k2)
           /\ ByWake(kk, A) => ByWake(k2, A \ {t})
<1> DEFINE l == Pop(ListOf(t, kk.next))
           h  == One(kk.sleep_list)
           hh == [h EXCEPT ![NULL] = l.head]
           M2 == A \ {t}
<1>1. Popped({NULL}, h, kk.next, A, NULL, t, l, hh, l.next, M2)
  BY DEF PoppedSleep, Popped, Kernel, Listed, Members, One
<1>2. /\ k2.next = l.next /\ k2.wake = kk.wake
      /\ k2.ready = kk.ready /\ k2.wq = kk.wq
  BY DEF PoppedSleep, PutSleep, Kernel
<1> HIDE DEF l, h, hh, M2
<1>3. SameOutside({t}, kk.next, l.next)
  BY <1>1, PopQueue
<1>4. ByWake(kk, A) => Sorted(M2, l.next, kk.wake)
  BY <1>1, PopSorted DEF ByWake
<1> QED BY <1>2, <1>3, <1>4 DEF OnlySleep, ByWake, M2

\* Insertion into a wait queue behind every waiter of the same or a higher
\* priority,
LEMMA PushWaitOrder ==
    ASSUME NEW kk \in Kernel, NEW R, NEW A, NEW W, NEW t, NEW q, NEW k2, NEW lower,
           lower = {x \in Tasks : kk.priority[x] > kk.priority[t]},
           PushedWait(kk, R, A, W, q, t, lower, k2)
    PROVE  /\ OnlyWait(W[q] \cup {t}, kk, k2)
           /\ ByPriority(kk, W) => Sorted(W[q] \cup {t}, k2.next, k2.priority)
<1> DEFINE l == Insert(ListOf(kk.wq[q], kk.next), t, lower)
           h  == One(kk.wq[q])
           hh == [h EXCEPT ![NULL] = l.head]
           M2 == W[q] \cup {t}
<1>1. Inserted({NULL}, h, kk.next, W[q], NULL, lower, t, l, hh, l.next, M2)
  BY DEF PushedWait, Inserted, Kernel, Listed, Members, Loose, One
<1>2. /\ k2.next = l.next /\ k2.priority = kk.priority
      /\ k2.ready = kk.ready /\ k2.sleep_list = kk.sleep_list
  BY DEF PushedWait, PutWait, Kernel
<1>5. q \in WaitQueues
  BY DEF PushedWait
<1> HIDE DEF l, h, hh, M2
<1>3. SameOutside(M2, kk.next, l.next)
  BY <1>1, InsertQueue
<1>4. ByPriority(kk, W) => Sorted(M2, l.next, kk.priority)
  <2>1. kk.priority \in [Tasks -> Nat]
    BY Ranks
  <2>2. ByPriority(kk, W) => Sorted(W[q], kk.next, kk.priority)
    BY <1>5 DEF ByPriority
  <2> QED BY <1>1, <2>1, <2>2, InsertSorted
<1> QED BY <1>2, <1>3, <1>4 DEF OnlyWait, M2

\* and removal of the first waiter.
LEMMA PopWaitOrder ==
    ASSUME NEW kk \in Kernel, NEW R, NEW A, NEW W, NEW t, NEW q, NEW k2,
           PoppedWait(kk, R, A, W, q, t, k2)
    PROVE  /\ OnlyWait({t}, kk, k2)
           /\ ByPriority(kk, W) => Sorted(W[q] \ {t}, k2.next, k2.priority)
<1> DEFINE l == Pop(ListOf(t, kk.next))
           h  == One(kk.wq[q])
           hh == [h EXCEPT ![NULL] = l.head]
           M2 == W[q] \ {t}
<1>1. Popped({NULL}, h, kk.next, W[q], NULL, t, l, hh, l.next, M2)
  BY DEF PoppedWait, Popped, Kernel, Listed, Members, One
<1>2. /\ k2.next = l.next /\ k2.priority = kk.priority
      /\ k2.ready = kk.ready /\ k2.sleep_list = kk.sleep_list
  BY DEF PoppedWait, PutWait, Kernel
<1>5. q \in WaitQueues
  BY DEF PoppedWait
<1> HIDE DEF l, h, hh, M2
<1>3. SameOutside({t}, kk.next, l.next)
  BY <1>1, PopQueue
<1>4. ByPriority(kk, W) => Sorted(M2, l.next, kk.priority)
  <2>2. ByPriority(kk, W) => Sorted(W[q], kk.next, kk.priority)
    BY <1>5 DEF ByPriority
  <2> QED BY <1>1, <2>2, PopSorted
<1> QED BY <1>2, <1>3, <1>4 DEF OnlyWait, M2

\* What was in order before is in order after.
OrderKept(kk, R, A, W, k2, R2, A2, W2) ==
    /\ Levels(kk, R) => Levels(k2, R2)
    /\ ByWake(kk, A) => ByWake(k2, A2)
    /\ ByPriority(kk, W) => ByPriority(k2, W2)

\* The order depends on the priorities of the READY and of the waiting tasks
\* and on the wake times of the sleeping ones.
SameRanks(kk, R, A, W, k2) ==
    /\ \A x \in R : k2.priority[x] = kk.priority[x]
    /\ \A x \in A : k2.wake[x] = kk.wake[x]
    /\ \A q \in WaitQueues : \A x \in W[q] : k2.priority[x] = kk.priority[x]

LEMMA OrderSame ==
    ASSUME NEW kk, NEW k2, NEW R, NEW A, NEW W, Listed(kk, R, A, W),
           SameLists(kk, k2), SameRanks(kk, R, A, W, k2)
    PROVE  OrderKept(kk, R, A, W, k2, R, A, W)
<1>1. \A I, h, nx, M : Queue(I, h, nx, M) =>
         /\ \A x \in M : nx[x] = NULL \/ nx[x] \in M
         /\ \A i \in I : h[i] = NULL \/ h[i] \in M
  BY DEF Queue, Within
<1>2. Levels(kk, R) => Levels(k2, R)
  <2>1. Queue(Priorities, kk.ready, kk.next, R)
    BY DEF Listed
  <2> QED BY <1>1, <2>1 DEF Levels, Leveled, SameLists, SameRanks
<1>3. ByWake(kk, A) => ByWake(k2, A)
  <2>1. Queue({NULL}, One(kk.sleep_list), kk.next, A)
    BY DEF Listed
  <2> QED BY <1>1, <2>1 DEF ByWake, Sorted, SameLists, SameRanks
<1>4. ASSUME NEW q \in WaitQueues
      PROVE  Sorted(W[q], kk.next, kk.priority) => Sorted(W[q], k2.next, k2.priority)
  <2>1. Queue({NULL}, One(kk.wq[q]), kk.next, W[q])
    BY DEF Listed
  <2> QED BY <1>1, <2>1 DEF Sorted, SameLists, SameRanks
<1>5. ByPriority(kk, W) => ByPriority(k2, W)
  BY <1>4 DEF ByPriority
<1> QED BY <1>2, <1>3, <1>5 DEF OrderKept

\* Lists whose links do not change stay in order.
LEMMA OrderFrame ==
    ASSUME NEW kk, NEW k2, NEW R, NEW A, NEW W, Members(R, A, W), NEW S,
           SameOutside(S, kk.next, k2.next)
    PROVE  /\ /\ S \cap R = {} /\ k2.ready = kk.ready /\ k2.priority = kk.priority
              => (Levels(kk, R) => Levels(k2, R))
           /\ /\ S \cap A = {} /\ k2.wake = kk.wake
              => (ByWake(kk, A) => ByWake(k2, A))
           /\ \A q \in WaitQueues :
                 /\ S \cap W[q] = {} /\ k2.priority = kk.priority
                 => (Sorted(W[q], kk.next, kk.priority)
                       => Sorted(W[q], k2.next, k2.priority))
<1>1. ASSUME NEW M \in SUBSET Tasks, S \cap M = {}
      PROVE  \A x \in M : k2.next[x] = kk.next[x]
  BY <1>1 DEF SameOutside
<1>2. R \in SUBSET Tasks /\ A \in SUBSET Tasks
      /\ \A q \in WaitQueues : W[q] \in SUBSET Tasks
  BY DEF Members
<1>3. S \cap R = {} /\ k2.ready = kk.ready /\ k2.priority = kk.priority
        => (Levels(kk, R) => Levels(k2, R))
  BY <1>1, <1>2 DEF Levels, Leveled
<1>4. S \cap A = {} /\ k2.wake = kk.wake => (ByWake(kk, A) => ByWake(k2, A))
  BY <1>1, <1>2 DEF ByWake, Sorted
<1>5. ASSUME NEW q \in WaitQueues, S \cap W[q] = {}, k2.priority = kk.priority
      PROVE  Sorted(W[q], kk.next, kk.priority) => Sorted(W[q], k2.next, k2.priority)
  BY <1>1, <1>2, <1>5 DEF Sorted
<1> QED BY <1>3, <1>4, <1>5

\* br_sched_ready keeps the order,
LEMMA ReadyOrder ==
    ASSUME NEW kk \in Kernel, NEW R, NEW A, NEW W, Listed(kk, R, A, W),
           NEW t, Loose(t, R, A, W), NEW k2, k2 = br_sched_ready(kk, t)
    PROVE  OrderKept(kk, R, A, W, k2, R \cup {t}, A, W)
<1> DEFINE k1 == [kk EXCEPT !.state[t] = "READY", !.next[t] = NULL]
           p  == kk.priority[t]
<1>1. t \in Tasks /\ kk.next[t] = NULL
  BY DEF Loose, Listed
<1>2. k1 \in Kernel /\ p \in Priorities
  BY <1>1 DEF Kernel, States, Links
<1>3. SameLists(kk, k1)
  BY <1>1 DEF Kernel, Links, SameLists
<1>4. Listed(k1, R, A, W)
  BY <1>3, ListedFrame
<1>5. PushedReady(k1, R, A, W, p, t, {}, k2)
  BY <1>2, <1>4 DEF PushedReady, br_sched_ready
<1>6. k1.priority = kk.priority /\ k1.wake = kk.wake
  OBVIOUS
<1>7. p = k1.priority[t]
  OBVIOUS
<1> HIDE DEF k1, p
<1>8. /\ OnlyReady(R \cup {t}, k1, k2)
      /\ Levels(k1, R) => Levels(k2, R \cup {t})
  BY <1>2, <1>5, <1>7, PushReadyOrder
<1>9. SameRest(k1, k2)
  BY <1>2, <1>5, PushReady
<1>10. /\ Members(R, A, W) /\ (R \cup {t}) \cap A = {}
       /\ \A q \in WaitQueues : (R \cup {t}) \cap W[q] = {}
  BY DEF Listed, Apart, Loose
<1>11. SameOutside(R \cup {t}, kk.next, k2.next)
  BY <1>3, <1>8 DEF OnlyReady, SameLists
<1>12. Levels(kk, R) => Levels(k2, R \cup {t})
  BY <1>3, <1>6, <1>8 DEF Levels, SameLists
<1>13. ByWake(kk, A) => ByWake(k2, A)
  BY <1>6, <1>9, <1>10, <1>11, OrderFrame DEF SameRest
<1>14. ByPriority(kk, W) => ByPriority(k2, W)
  BY <1>6, <1>9, <1>10, <1>11, OrderFrame DEF SameRest, ByPriority
<1> QED BY <1>12, <1>13, <1>14 DEF OrderKept

\* and so do pick_next,
LEMMA PickOrder ==
    ASSUME NEW kk \in Kernel, NEW R, NEW A, NEW W, Listed(kk, R, A, W),
           ReadyLevels(kk) # {},
           NEW n, n = NextTask(kk), NEW k2, k2 = pick_next(kk)
    PROVE  OrderKept(kk, R, A, W, k2, R \ {n}, A, W)
<1> DEFINE p == TopLevel(kk)
<1>1. p \in Priorities /\ n = kk.ready[p] /\ n # NULL
  BY TopLevelFound DEF NextTask
<1>2. PoppedReady(kk, R, A, W, p, n, k2)
  BY <1>1 DEF PoppedReady, pick_next
<1> HIDE DEF p
<1>3. OnlyReady({n}, kk, k2) /\ (Levels(kk, R) => Levels(k2, R \ {n}))
  BY <1>2, PopReadyOrder
<1>4. SameRest(kk, k2) /\ n \in R
  BY <1>2, PopReady
<1>5. Members(R, A, W) /\ {n} \cap A = {} /\ \A q \in WaitQueues : {n} \cap W[q] = {}
  BY <1>4 DEF Listed, Apart
<1>6. SameOutside({n}, kk.next, k2.next) /\ k2.wake = kk.wake /\ k2.priority = kk.priority
  BY <1>3, <1>4 DEF OnlyReady, SameRest
<1>7. ByWake(kk, A) => ByWake(k2, A)
  BY <1>5, <1>6, OrderFrame
<1>8. ByPriority(kk, W) => ByPriority(k2, W)
  BY <1>5, <1>6, OrderFrame DEF ByPriority
<1> QED BY <1>3, <1>7, <1>8 DEF OrderKept

\* going to sleep
LEMMA SleepOrder ==
    ASSUME NEW kk \in Kernel, NEW R, NEW A, NEW W, Listed(kk, R, A, W),
           NEW t, Loose(t, R, A, W),
           NEW k2, k2 = br_time_sleep_list_insert(kk, t)
    PROVE  OrderKept(kk, R, A, W, k2, R, A \cup {t}, W)
<1> DEFINE later == {x \in Tasks : kk.wake[x] > kk.wake[t]}
<1>1. PushedSleep(kk, R, A, W, t, later, k2)
  BY DEF PushedSleep, br_time_sleep_list_insert
<1>2. later = {x \in Tasks : kk.wake[x] > kk.wake[t]}
  OBVIOUS
<1> HIDE DEF later
<1>3. OnlySleep(A \cup {t}, kk, k2) /\ (ByWake(kk, A) => ByWake(k2, A \cup {t}))
  BY <1>1, <1>2, PushSleepOrder
<1>4. SameRest(kk, k2)
  BY <1>1, PushSleep
<1>5. /\ Members(R, A, W) /\ (A \cup {t}) \cap R = {}
      /\ \A q \in WaitQueues : (A \cup {t}) \cap W[q] = {}
  BY DEF Listed, Apart, Loose
<1>6. /\ SameOutside(A \cup {t}, kk.next, k2.next)
      /\ k2.ready = kk.ready /\ k2.priority = kk.priority
  BY <1>3, <1>4 DEF OnlySleep, SameRest
<1>7. Levels(kk, R) => Levels(k2, R)
  BY <1>5, <1>6, OrderFrame
<1>8. ByPriority(kk, W) => ByPriority(k2, W)
  BY <1>5, <1>6, OrderFrame DEF ByPriority
<1> QED BY <1>3, <1>7, <1>8 DEF OrderKept

\* and waking up,
LEMMA FirstSleeperOrder ==
    ASSUME NEW kk \in Kernel, NEW R, NEW A, NEW W, NEW t, NEW k2,
           PoppedSleep(kk, R, A, W, t, k2)
    PROVE  OrderKept(kk, R, A, W, k2, R, A \ {t}, W)
<1>1. OnlySleep({t}, kk, k2) /\ (ByWake(kk, A) => ByWake(k2, A \ {t}))
  BY PopSleepOrder
<1>2. SameRest(kk, k2) /\ t \in A /\ Listed(kk, R, A, W)
  <2>1. SameRest(kk, k2) /\ t \in A
    BY PopSleep
  <2> QED BY <2>1 DEF PoppedSleep
<1>3. Members(R, A, W) /\ {t} \cap R = {} /\ \A q \in WaitQueues : {t} \cap W[q] = {}
  BY <1>2 DEF Listed, Apart
<1>4. /\ SameOutside({t}, kk.next, k2.next)
      /\ k2.ready = kk.ready /\ k2.priority = kk.priority
  BY <1>1, <1>2 DEF OnlySleep, SameRest
<1>5. Levels(kk, R) => Levels(k2, R)
  BY <1>3, <1>4, OrderFrame
<1>6. ByPriority(kk, W) => ByPriority(k2, W)
  BY <1>3, <1>4, OrderFrame DEF ByPriority
<1> QED BY <1>1, <1>5, <1>6 DEF OrderKept

\* joining a wait queue
LEMMA WaitOrder ==
    ASSUME NEW kk \in Kernel, NEW R, NEW A, NEW W, Listed(kk, R, A, W),
           NEW t, Loose(t, R, A, W), NEW q \in WaitQueues,
           NEW k2, k2 = wq_insert(kk, q, t)
    PROVE  OrderKept(kk, R, A, W, k2, R, A, Joined(W, q, t))
<1> DEFINE lower == {x \in Tasks : kk.priority[x] > kk.priority[t]}
<1>1. t \in Tasks /\ kk.next[t] = NULL
  BY DEF Loose, Listed
<1>2. [kk EXCEPT !.next[t] = NULL] = kk
  BY <1>1 DEF Kernel, Links
<1>3. PushedWait(kk, R, A, W, q, t, lower, k2)
  BY <1>2 DEF PushedWait, wq_insert
<1>4. lower = {x \in Tasks : kk.priority[x] > kk.priority[t]}
  OBVIOUS
<1> HIDE DEF lower
<1>5. /\ OnlyWait(W[q] \cup {t}, kk, k2)
      /\ ByPriority(kk, W) => Sorted(W[q] \cup {t}, k2.next, k2.priority)
  BY <1>3, <1>4, PushWaitOrder
<1>6. SameRest(kk, k2)
  BY <1>3, PushWait
<1>7. /\ Members(R, A, W) /\ (W[q] \cup {t}) \cap R = {}
      /\ (W[q] \cup {t}) \cap A = {}
      /\ \A r \in WaitQueues : r # q => (W[q] \cup {t}) \cap W[r] = {}
  BY DEF Listed, Apart, Loose
<1>8. /\ SameOutside(W[q] \cup {t}, kk.next, k2.next)
      /\ k2.ready = kk.ready /\ k2.priority = kk.priority /\ k2.wake = kk.wake
  BY <1>5, <1>6 DEF OnlyWait, SameRest
<1>9. Levels(kk, R) => Levels(k2, R)
  BY <1>7, <1>8, OrderFrame
<1>10. ByWake(kk, A) => ByWake(k2, A)
  BY <1>7, <1>8, OrderFrame
<1>11. ByPriority(kk, W) => ByPriority(k2, Joined(W, q, t))
  <2> SUFFICES ASSUME ByPriority(kk, W), NEW r \in WaitQueues
               PROVE  Sorted(Joined(W, q, t)[r], k2.next, k2.priority)
    BY DEF ByPriority
  <2>1. CASE r = q
    <3>1. Joined(W, q, t)[r] = W[q] \cup {t}
      BY <1>7, <2>1 DEF Members, Joined
    <3> QED BY <1>5, <3>1
  <2>2. CASE r # q
    <3>1. Joined(W, q, t)[r] = W[r]
      BY <1>7, <2>2 DEF Members, Joined
    <3> DEFINE S == W[q] \cup {t}
    <3>2. Members(R, A, W) /\ S \cap W[r] = {} /\ SameOutside(S, kk.next, k2.next)
      BY <1>7, <1>8, <2>2
    <3>3. Sorted(W[r], kk.next, kk.priority)
      BY DEF ByPriority
    <3> HIDE DEF S
    <3>4. Sorted(W[r], k2.next, k2.priority)
      <4>1. k2.priority = kk.priority
        BY <1>8
      <4> QED BY <3>2, <3>3, <4>1, OrderFrame
    <3> QED BY <3>1, <3>4
  <2> QED BY <2>1, <2>2
<1> QED BY <1>9, <1>10, <1>11 DEF OrderKept

\* and being taken off it.
LEMMA FirstWaiterOrder ==
    ASSUME NEW kk \in Kernel, NEW R, NEW A, NEW W, Listed(kk, R, A, W),
           NEW q \in WaitQueues, NEW t, t = kk.wq[q], t # NULL,
           NEW k2, k2 = wq_pop(kk, q)
    PROVE  OrderKept(kk, R, A, W, k2, R, A, Left(W, q, t))
<1>1. PoppedWait(kk, R, A, W, q, t, k2)
  BY DEF PoppedWait, wq_pop
<1>2. /\ OnlyWait({t}, kk, k2)
      /\ ByPriority(kk, W) => Sorted(W[q] \ {t}, k2.next, k2.priority)
  BY <1>1, PopWaitOrder
<1>3. SameRest(kk, k2) /\ t \in W[q]
  BY <1>1, PopWait
<1>4. /\ Members(R, A, W) /\ {t} \cap R = {} /\ {t} \cap A = {}
      /\ \A r \in WaitQueues : r # q => {t} \cap W[r] = {}
  BY <1>3 DEF Listed, Apart
<1>5. /\ SameOutside({t}, kk.next, k2.next)
      /\ k2.ready = kk.ready /\ k2.priority = kk.priority /\ k2.wake = kk.wake
  BY <1>2, <1>3 DEF OnlyWait, SameRest
<1>6. Levels(kk, R) => Levels(k2, R)
  BY <1>4, <1>5, OrderFrame
<1>7. ByWake(kk, A) => ByWake(k2, A)
  BY <1>4, <1>5, OrderFrame
<1>8. ByPriority(kk, W) => ByPriority(k2, Left(W, q, t))
  <2> SUFFICES ASSUME ByPriority(kk, W), NEW r \in WaitQueues
               PROVE  Sorted(Left(W, q, t)[r], k2.next, k2.priority)
    BY DEF ByPriority
  <2>1. CASE r = q
    <3>1. Left(W, q, t)[r] = W[q] \ {t}
      BY <1>4, <2>1 DEF Members, Left
    <3> QED BY <1>2, <3>1
  <2>2. CASE r # q
    <3>1. Left(W, q, t)[r] = W[r]
      BY <1>4, <2>2 DEF Members, Left
    <3>2. Sorted(W[r], kk.next, kk.priority) /\ {t} \cap W[r] = {}
      BY <1>4, <2>2 DEF ByPriority
    <3>3. Sorted(W[r], k2.next, k2.priority)
      BY <1>4, <1>5, <3>2, OrderFrame
    <3> QED BY <3>1, <3>3
  <2> QED BY <2>1, <2>2
<1> QED BY <1>6, <1>7, <1>8 DEF OrderKept

(***************************************************************************)
(* Removal from the middle of a list.  br_sched_unready searches only the  *)
(* queue of the task's priority: it finds the task because the queues are  *)
(* in order.                                                               *)
(***************************************************************************)
LEMMA UnreadyLists ==
    ASSUME NEW kk \in Kernel, NEW R, NEW A, NEW W, Listed(kk, R, A, W),
           Levels(kk, R), NEW t \in R, NEW k2, k2 = br_sched_unready(kk, t)
    PROVE  /\ k2 \in Kernel /\ Listed(k2, R \ {t}, A, W)
           /\ SameRest(kk, k2) /\ k2.state = kk.state /\ k2.wq = kk.wq
           /\ OrderKept(kk, R, A, W, k2, R \ {t}, A, W)
<1> DEFINE p  == kk.priority[t]
           l  == Unlink(ListOf(kk.ready[p], kk.next), t)
           hh == [kk.ready EXCEPT ![p] = l.head]
           M2 == R \ {t}
<1>0. R \in SUBSET Tasks /\ t \in Tasks /\ Queue(Priorities, kk.ready, kk.next, R)
  BY DEF Listed, Members
<1>1. p \in Priorities /\ t \in Visited(kk.ready[p], kk.next, {})
  <2> DEFINE nx == kk.next
             h  == kk.ready
             lv == kk.priority
  <2>1. /\ nx \in Links /\ Queue(Priorities, h, nx, R)
        /\ Leveled(Priorities, h, nx, R, lv) /\ R \in SUBSET Tasks
    BY <1>0 DEF Kernel, Levels
  <2> HIDE DEF nx, h, lv
  <2>2. \A x \in R : \E i \in Priorities : lv[x] = i /\ x \in Visited(h[i], nx, {})
    BY <2>1, LevelWalk
  <2>3. \E i \in Priorities : lv[t] = i /\ t \in Visited(h[i], nx, {})
    BY <2>2
  <2> QED BY <2>3 DEF nx, h, lv
<1>2. Unlinked(Priorities, kk.ready, kk.next, R, p, t, l, hh, l.next, M2)
  BY <1>0, <1>1 DEF Unlinked, Kernel
<1>3. k2 = PutReady(kk, p, l)
  BY DEF br_sched_unready
<1>4. k2 \in Kernel
  BY <1>0, UnreadyType
<1> HIDE DEF p, l, hh
<1>5. /\ k2.next = l.next /\ k2.ready = hh /\ k2.state = kk.state
      /\ k2.sleep_list = kk.sleep_list /\ k2.wq = kk.wq
      /\ k2.wake = kk.wake /\ k2.priority = kk.priority
  BY <1>3 DEF PutReady, Kernel, hh
<1> HIDE DEF M2
<1>6. /\ l.halts /\ l.next[t] = NULL /\ Queue(Priorities, hh, l.next, M2)
      /\ SameOutside(R, kk.next, l.next)
  BY <1>2, UnlinkQueue
<1>7. Leveled(Priorities, hh, l.next, M2, kk.priority)
  BY <1>2, UnlinkLeveled DEF Levels
<1>8. SameRest(kk, k2)
  <2> DEFINE m == k2.next
             r == k2.ready
  <2>1. k2 = [kk EXCEPT !.next = m, !.ready = r]
    BY <1>3, <1>5, <1>6 DEF Kernel, PutReady, hh
  <2> HIDE DEF m, r
  <2> QED BY <2>1 DEF SameRest
<1>9. /\ Members(R, A, W) /\ R \cap A = {}
      /\ \A q \in WaitQueues : R \cap W[q] = {}
      /\ Members(M2, A, W) /\ Apart(M2, A, W)
  BY DEF Listed, Apart, Members, M2
<1>10. Queue({NULL}, One(k2.sleep_list), k2.next, A)
  <2>1. \A x \in A : k2.next[x] = kk.next[x]
    BY <1>5, <1>6, <1>9 DEF SameOutside, Members
  <2>2. Queue({NULL}, One(k2.sleep_list), kk.next, A)
    BY <1>5 DEF Listed
  <2> QED BY <2>1, <2>2, QueueFrame
<1>11. ASSUME NEW q \in WaitQueues
       PROVE  Queue({NULL}, One(k2.wq[q]), k2.next, W[q])
  <2>1. \A x \in W[q] : k2.next[x] = kk.next[x]
    BY <1>5, <1>6, <1>9 DEF SameOutside, Members
  <2>2. Queue({NULL}, One(k2.wq[q]), kk.next, W[q])
    BY <1>5 DEF Listed
  <2> QED BY <2>1, <2>2, QueueFrame
<1>12. ASSUME NEW x \in Tasks, Loose(x, M2, A, W)
       PROVE  k2.next[x] = NULL
  <2>1. CASE x = t
    BY <1>5, <1>6, <2>1
  <2>2. CASE x # t
    <3>1. Loose(x, R, A, W)
      BY <1>12, <2>2 DEF Loose, M2
    <3>2. k2.next[x] = kk.next[x]
      BY <1>5, <1>6, <3>1 DEF SameOutside, Loose
    <3> QED BY <3>1, <3>2 DEF Listed
  <2> QED BY <2>1, <2>2
<1>13. Listed(k2, M2, A, W)
  BY <1>5, <1>6, <1>9, <1>10, <1>11, <1>12 DEF Listed
<1>14. OrderKept(kk, R, A, W, k2, M2, A, W)
  <2>1. Levels(k2, M2)
    BY <1>5, <1>7 DEF Levels
  <2>2. SameOutside(R, kk.next, k2.next)
    BY <1>5, <1>6
  <2>3. ByWake(kk, A) => ByWake(k2, A)
    BY <1>5, <1>9, <2>2, OrderFrame
  <2>4. ByPriority(kk, W) => ByPriority(k2, W)
    BY <1>5, <1>9, <2>2, OrderFrame DEF ByPriority
  <2> QED BY <2>1, <2>3, <2>4 DEF OrderKept
<1> QED BY <1>4, <1>5, <1>8, <1>13, <1>14 DEF M2

\* br_time_sleep_list_remove finds every task that sleeps.
LEMMA UnsleepLists ==
    ASSUME NEW kk \in Kernel, NEW R, NEW A, NEW W, Listed(kk, R, A, W),
           NEW t \in A, NEW k2, k2 = br_time_sleep_list_remove(kk, t)
    PROVE  /\ k2 \in Kernel /\ Listed(k2, R, A \ {t}, W)
           /\ SameRest(kk, k2) /\ k2.state = kk.state /\ k2.wq = kk.wq
           /\ OrderKept(kk, R, A, W, k2, R, A \ {t}, W)
<1> DEFINE h  == One(kk.sleep_list)
           l  == Unlink(ListOf(kk.sleep_list, kk.next), t)
           hh == [h EXCEPT ![NULL] = l.head]
           M2 == A \ {t}
<1>0. /\ A \in SUBSET Tasks /\ t \in Tasks /\ kk.next \in Links
      /\ Queue({NULL}, h, kk.next, A)
      /\ h[NULL] = kk.sleep_list /\ h \in [{NULL} -> Tasks \cup {NULL}]
  BY DEF Listed, Members, One, Kernel
<1>1. t \in Visited(h[NULL], kk.next, {})
  <2> HIDE DEF h
  <2>1. \A x : x \in A <=> \E i \in {NULL} : x \in Visited(h[i], kk.next, {})
    BY <1>0, VisitedQueue
  <2> QED BY <2>1
<1>2. Unlinked({NULL}, h, kk.next, A, NULL, t, l, hh, l.next, M2)
  BY <1>0, <1>1 DEF Unlinked
<1>3. k2 = PutSleep(kk, l)
  BY DEF br_time_sleep_list_remove
<1>4. k2 \in Kernel
  BY <1>0, SleepListType
<1>15. One(k2.sleep_list) = hh
  BY <1>3 DEF One, PutSleep, Kernel
<1> HIDE DEF h, l, hh
<1>5. /\ k2.next = l.next /\ k2.state = kk.state
      /\ k2.ready = kk.ready /\ k2.wq = kk.wq
      /\ k2.wake = kk.wake /\ k2.priority = kk.priority
  BY <1>3 DEF PutSleep, Kernel
<1> HIDE DEF M2
<1>6. /\ l.halts /\ l.next[t] = NULL /\ Queue({NULL}, hh, l.next, M2)
      /\ SameOutside(A, kk.next, l.next)
  BY <1>2, UnlinkQueue
<1>7. ByWake(kk, A) => Sorted(M2, l.next, kk.wake)
  <2>1. kk.wake \in [Tasks -> Nat]
    BY Ranks
  <2> QED BY <1>2, <2>1, UnlinkSorted DEF ByWake
<1>8. SameRest(kk, k2)
  <2> DEFINE m == k2.next
             r == k2.sleep_list
  <2>1. k2 = [kk EXCEPT !.next = m, !.sleep_list = r]
    BY <1>3, <1>6 DEF Kernel, PutSleep
  <2> HIDE DEF m, r
  <2> QED BY <2>1 DEF SameRest
<1>9. /\ Members(R, A, W) /\ R \cap A = {} /\ A \cap R = {}
      /\ \A q \in WaitQueues : A \cap W[q] = {}
      /\ Members(R, M2, W) /\ Apart(R, M2, W)
  BY DEF Listed, Apart, Members, M2
<1>10. Queue(Priorities, k2.ready, k2.next, R)
  <2>1. \A x \in R : k2.next[x] = kk.next[x]
    BY <1>5, <1>6, <1>9 DEF SameOutside, Members
  <2>2. Queue(Priorities, k2.ready, kk.next, R)
    BY <1>5 DEF Listed
  <2> QED BY <2>1, <2>2, QueueFrame
<1>11. ASSUME NEW q \in WaitQueues
       PROVE  Queue({NULL}, One(k2.wq[q]), k2.next, W[q])
  <2>1. \A x \in W[q] : k2.next[x] = kk.next[x]
    BY <1>5, <1>6, <1>9 DEF SameOutside, Members
  <2>2. Queue({NULL}, One(k2.wq[q]), kk.next, W[q])
    BY <1>5 DEF Listed
  <2> QED BY <2>1, <2>2, QueueFrame
<1>12. ASSUME NEW x \in Tasks, Loose(x, R, M2, W)
       PROVE  k2.next[x] = NULL
  <2>1. CASE x = t
    BY <1>5, <1>6, <2>1
  <2>2. CASE x # t
    <3>1. Loose(x, R, A, W)
      BY <1>12, <2>2 DEF Loose, M2
    <3>2. k2.next[x] = kk.next[x]
      BY <1>5, <1>6, <3>1 DEF SameOutside, Loose
    <3> QED BY <3>1, <3>2 DEF Listed
  <2> QED BY <2>1, <2>2
<1>13. Listed(k2, R, M2, W)
  BY <1>5, <1>6, <1>9, <1>10, <1>11, <1>12, <1>15 DEF Listed
<1>14. OrderKept(kk, R, A, W, k2, R, M2, W)
  <2>1. ByWake(kk, A) => ByWake(k2, M2)
    BY <1>5, <1>7 DEF ByWake
  <2>2. SameOutside(A, kk.next, k2.next)
    BY <1>5, <1>6
  <2>3. Levels(kk, R) => Levels(k2, R)
    BY <1>5, <1>9, <2>2, OrderFrame
  <2>4. ByPriority(kk, W) => ByPriority(k2, W)
    BY <1>5, <1>9, <2>2, OrderFrame DEF ByPriority
  <2> QED BY <2>1, <2>3, <2>4 DEF OrderKept
<1> QED BY <1>4, <1>5, <1>8, <1>13, <1>14 DEF M2

-------------------------------------------------------------------------------
(* The steps of BrCpu. *)

\* No alarm is programmed before a task runs: the alarm handler, which calls
\* br_sched_reschedule, finds a running task.
BootQuiet == Booting => isr = "none" /\ k.alarm = NULL

CpuTypes == CpuTypeOK /\ BootQuiet

\* Type correctness holds when the kernel is initialised.
LEMMA CpuInitTypes ==
    ASSUME CpuInit
    PROVE  CpuTypes
<1>1. InitialKernel \in Kernel
  BY KernelAssumption DEF InitialKernel, Kernel, Links, States, Priorities
<1> QED BY <1>1 DEF CpuInit, CpuTypes, CpuTypeOK, BootQuiet, InitialKernel

\* Every step keeps the types.
LEMMA CpuNextTypes ==
    ASSUME CpuTypes, CpuNext
    PROVE  CpuTypes'
<1> USE DEF CpuTypes, CpuTypeOK, BootQuiet, Booting
<1>1. ASSUME NEW prio \in Priorities, BootCreate(prio)
      PROVE  CpuTypes'
  <2> DEFINE t  == FirstFree(k)
             k1 == InitTcb(k, t, prio)
  <2>1. t \in Tasks /\ k' = br_sched_ready(k1, t) /\ Booting
    BY <1>1, FirstFreeFound DEF BootCreate
  <2>2. k1 \in Kernel
    BY <2>1, TaskSectionsType
  <2>3. k1.current = k.current /\ k1.alarm = k.alarm
    BY DEF InitTcb
  <2> HIDE DEF k1, t
  <2>4. k' \in Kernel /\ k'.current = NULL /\ k'.alarm = NULL
    <3>1. br_sched_ready(k1, t).alarm = k1.alarm
      BY DEF br_sched_ready, PutReady
    <3> QED BY <2>1, <2>2, <2>3, <3>1, ReadyType, SchedFrame
  <2> QED BY <1>1, <2>4 DEF BootCreate
<1>2. CASE Start
  <2>1. k' \in Kernel
    BY <1>2, StartType DEF Start
  <2>2. k'.current # NULL
    <3>1. NextTask(k) \in Tasks /\ pick_next(k) \in Kernel
      BY <1>2, PickType DEF Start
    <3>2. br_sched_start(k).current = NextTask(k)
      BY <3>1 DEF br_sched_start, Dispatch, Kernel
    <3> QED BY <1>2, <3>1, <3>2, ListAssumption DEF Start
  <2> QED BY <1>2, <2>1, <2>2 DEF Start
<1>3. ASSUME NEW t \in Tasks, Reschedule(t)
      PROVE  CpuTypes'
  <2>1. k.current \in Tasks
    BY <1>3 DEF Reschedule, Running
  <2>2. k' \in Kernel /\ k'.current \in Tasks
    BY <1>3, <2>1, RescheduleType DEF Reschedule
  <2> QED BY <1>3, <2>2, ListAssumption DEF Reschedule
<1>4. ASSUME NEW t \in Tasks, Yield(t)
      PROVE  CpuTypes'
  BY <1>4 DEF Yield
<1>5. ASSUME NEW t \in Tasks, NEW ticks \in 1 .. MaxTicks, Sleep(t, ticks)
      PROVE  CpuTypes'
  <2>1. k' \in Kernel
    BY <1>5, SleepSectionType DEF Sleep
  <2>2. k.current # NULL /\ k'.current = k.current
    BY <1>5, TimeFrame, ListAssumption DEF Sleep, InApp, Running
  <2> QED BY <1>5, <2>1, <2>2 DEF Sleep
<1>6. ASSUME NEW t \in Tasks, br_sched_lock(t)
      PROVE  CpuTypes'
  <2>1. k' \in Kernel
    BY <1>6, LockType DEF br_sched_lock
  <2>2. k'.current = k.current /\ k'.alarm = k.alarm
    BY <1>6 DEF br_sched_lock
  <2> QED BY <1>6, <2>1, <2>2 DEF br_sched_lock
<1>7. ASSUME NEW t \in Tasks, br_sched_unlock(t)
      PROVE  CpuTypes'
  <2>1. k' \in Kernel
    BY <1>7, LockType DEF br_sched_unlock
  <2>2. k'.current = k.current /\ k'.alarm = k.alarm
    BY <1>7 DEF br_sched_unlock
  <2>3. resched' \in [Tasks -> BOOLEAN]
    BY <1>7 DEF br_sched_unlock
  <2> QED BY <1>7, <2>1, <2>2, <2>3 DEF br_sched_unlock
<1>8. CASE SysTick_Handler
  <2> DEFINE k0 == Elapse(k)
             k1 == br_sched_tick(k0)
  <2>1. k0 \in Kernel /\ k0.current = k.current
    BY ElapseType, TimeFrame
  <2>2. k.current = NULL => k0.alarm = NULL
    BY DEF Elapse
  <2> HIDE DEF k0
  <2>3. /\ k1 \in Kernel
        /\ k1.current = NULL => k.current = NULL
        /\ k.current = NULL => k1 = k0
    BY <2>1, TickType
  <2>4. IF AlarmDue(k1)
        THEN k' = [k1 EXCEPT !.alarm = NULL] /\ isr' = "alarm"
        ELSE k' = k1 /\ isr' = "none"
    BY <1>8 DEF SysTick_Handler, k0
  <2> HIDE DEF k1
  <2>5. k' \in Kernel /\ k'.current = k1.current
    <3> DEFINE k2 == [k1 EXCEPT !.alarm = NULL]
    <3>1. k2 \in Kernel /\ k2.current = k1.current
      BY <2>3, AlarmType
    <3>2. k' = k2 \/ k' = k1
      BY <2>4
    <3> HIDE DEF k2
    <3> QED BY <2>3, <3>1, <3>2
  <2>6. BootQuiet'
    BY <2>2, <2>3, <2>4, <2>5 DEF AlarmDue
  <2> QED BY <1>8, <2>4, <2>5, <2>6 DEF SysTick_Handler
<1>9. CASE AlarmWake
  <2>1. k' \in Kernel
    BY <1>9, WakeExpiredType DEF AlarmWake, Expired
  <2>2. k.current # NULL /\ k'.current = k.current
    BY <1>9, TimeFrame DEF AlarmWake
  <2> QED BY <1>9, <2>1, <2>2 DEF AlarmWake
<1>10. CASE AlarmDone
  <2> DEFINE k1 == reprogram_alarm(k)
  <2>1. k1 \in Kernel /\ k1.current = k.current /\ k1.current \in Tasks
    <3>1. k.current # NULL
      BY <1>10 DEF AlarmDone
    <3>2. k.current \in Tasks
      BY <3>1 DEF Kernel
    <3> QED BY <3>2, AlarmType, TimeFrame
  <2>2. k' = br_sched_reschedule(k1)
    BY <1>10 DEF AlarmDone
  <2> HIDE DEF k1
  <2>3. k' \in Kernel /\ k'.current \in Tasks
    BY <2>1, <2>2, RescheduleType
  <2> QED BY <1>10, <2>3, ListAssumption DEF AlarmDone
<1> QED BY <1>1, <1>2, <1>3, <1>4, <1>5, <1>6, <1>7, <1>8, <1>9, <1>10 DEF CpuNext

\* Once a task runs, some task always does.
LEMMA CpuStaysStarted ==
    ASSUME k \in Kernel, k.current \in Tasks, CpuNext
    PROVE  k'.current # NULL
<1>1. CASE \E prio \in Priorities : BootCreate(prio)
  BY <1>1, ListAssumption DEF BootCreate, Booting
<1>2. CASE Start
  BY <1>2, ListAssumption DEF Start, Booting
<1>3. CASE \E t \in Tasks : Reschedule(t)
  BY <1>3, RescheduleType, ListAssumption DEF Reschedule
<1>4. CASE \E t \in Tasks : Yield(t) \/ br_sched_lock(t) \/ br_sched_unlock(t)
  <2>1. \A n : [k EXCEPT !.lock = n].current = k.current
    OBVIOUS
  <2>2. k' = k \/ \E n : k' = [k EXCEPT !.lock = n]
    BY <1>4 DEF Yield, br_sched_lock, br_sched_unlock
  <2> QED BY <2>1, <2>2, ListAssumption
<1>5. CASE \E t \in Tasks, ticks \in 1 .. MaxTicks : Sleep(t, ticks)
  BY <1>5, TimeFrame, ListAssumption DEF Sleep
<1>6. CASE SysTick_Handler
  <2> DEFINE k1 == br_sched_tick(Elapse(k))
  <2>1. Elapse(k) \in Kernel /\ Elapse(k).current = k.current
    BY ElapseType, TimeFrame
  <2>2. k1.current # NULL
    BY <2>1, TickType, ListAssumption
  <2>3. k' = [k1 EXCEPT !.alarm = NULL] \/ k' = k1
    BY <1>6 DEF SysTick_Handler
  <2>4. [k1 EXCEPT !.alarm = NULL].current = k1.current
    BY <2>1, TickType, AlarmType
  <2> HIDE DEF k1
  <2> QED BY <2>2, <2>3, <2>4
<1>7. CASE AlarmWake
  BY <1>7, TimeFrame, ListAssumption DEF AlarmWake
<1>8. CASE AlarmDone
  <2>1. reprogram_alarm(k) \in Kernel /\ reprogram_alarm(k).current = k.current
    BY AlarmType, TimeFrame
  <2> QED BY <1>8, <2>1, RescheduleType, ListAssumption DEF AlarmDone
<1> QED BY <1>1, <1>2, <1>3, <1>4, <1>5, <1>6, <1>7, <1>8 DEF CpuNext

\* No step of BrCpu touches a wait queue or the record of who waits for what,
\* and none but the creation of a task by main() a priority.
LEMMA CpuNextFrame ==
    ASSUME CpuNext
    PROVE  /\ k'.wq = k.wq /\ pc' = pc /\ obj' = obj
           /\ Booting \/ k'.priority = k.priority
<1>1. ASSUME NEW prio \in Priorities, BootCreate(prio)
      PROVE  k'.wq = k.wq /\ pc' = pc /\ obj' = obj
  <2>1. InitTcb(k, FirstFree(k), prio).wq = k.wq
    BY DEF InitTcb
  <2> QED BY <1>1, <2>1, SchedFrame DEF BootCreate
<1>2. CASE Start
  BY <1>2, SchedFrame DEF Start
<1>3. ASSUME NEW t \in Tasks, Reschedule(t)
      PROVE  k'.wq = k.wq /\ k'.priority = k.priority /\ pc' = pc /\ obj' = obj
  BY <1>3, SchedFrame DEF Reschedule
<1>4. ASSUME NEW t \in Tasks, \/ Yield(t)
                              \/ br_sched_lock(t)
                              \/ br_sched_unlock(t)
      PROVE  k'.wq = k.wq /\ k'.priority = k.priority /\ pc' = pc /\ obj' = obj
  <2>1. \A n : /\ [k EXCEPT !.lock = n].wq = k.wq
               /\ [k EXCEPT !.lock = n].priority = k.priority
    OBVIOUS
  <2>2. CASE Yield(t)
    BY <2>2 DEF Yield
  <2>3. CASE br_sched_lock(t)
    BY <2>1, <2>3 DEF br_sched_lock
  <2>4. CASE br_sched_unlock(t)
    BY <2>1, <2>4 DEF br_sched_unlock
  <2> QED BY <1>4, <2>2, <2>3, <2>4
<1>5. ASSUME NEW t \in Tasks, NEW ticks \in 1 .. MaxTicks, Sleep(t, ticks)
      PROVE  k'.wq = k.wq /\ k'.priority = k.priority /\ pc' = pc /\ obj' = obj
  BY <1>5, TimeFrame DEF Sleep
<1>6. CASE SysTick_Handler
  <2> DEFINE k1 == br_sched_tick(Elapse(k))
  <2>1. k1.wq = k.wq /\ k1.priority = k.priority
    BY SchedFrame, TimeFrame
  <2>2. k' = [k1 EXCEPT !.alarm = NULL] \/ k' = k1
    BY <1>6 DEF SysTick_Handler
  <2>3. UNCHANGED <<pc, obj>>
    BY <1>6 DEF SysTick_Handler
  <2>4. /\ [k1 EXCEPT !.alarm = NULL].wq = k1.wq
        /\ [k1 EXCEPT !.alarm = NULL].priority = k1.priority
    OBVIOUS
  <2> HIDE DEF k1
  <2> QED BY <2>1, <2>2, <2>3, <2>4
<1>7. CASE AlarmWake
  BY <1>7, TimeFrame DEF AlarmWake
<1>8. CASE AlarmDone
  BY <1>8, SchedFrame, TimeFrame DEF AlarmDone
<1>9. ASSUME NEW prio \in Priorities, BootCreate(prio) PROVE Booting
  BY <1>9 DEF BootCreate
<1> QED BY <1>1, <1>2, <1>3, <1>4, <1>5, <1>6, <1>7, <1>8, <1>9 DEF CpuNext

-------------------------------------------------------------------------------
(***************************************************************************)
(* The kernel's memory is sound when the lists hold exactly the tasks that *)
(* are READY, asleep or waiting (ob: what each task waits for), no loop    *)
(* has run for good, nobody but the current task is RUNNING, the idle task *)
(* is always there to run, and a task that has just blocked or suspended   *)
(* itself can be replaced (lock) and is not about to be woken (wake).      *)
(***************************************************************************)
ReadySet(kk) == {t \in Tasks : kk.state[t] = "READY"}
Asleep(kk, ob) == {t \in Tasks : kk.state[t] = "BLOCKED" /\ ob[t] = NULL}
Waiting(kk, ob) ==
    [q \in WaitQueues |-> {t \in Tasks : kk.state[t] = "BLOCKED" /\ ob[t] = q}]

OneRunner(kk) ==
    /\ \A t \in Tasks : kk.state[t] = "RUNNING" => t = kk.current
    /\ kk.current # NULL => kk.state[kk.current] \in {"RUNNING", "BLOCKED", "SUSPENDED"}

IdleRuns(kk) ==
    \A t \in Tasks :
        kk.state[t] # "INACTIVE" => kk.state[Idle] \in {"READY", "RUNNING"}

BlockedRunner(kk, ob) ==
    kk.current # NULL /\ kk.state[kk.current] # "RUNNING" =>
        /\ kk.lock = 0
        /\ kk.state[kk.current] = "BLOCKED" /\ ob[kk.current] = NULL =>
              kk.wake[kk.current] > 0

NoTimeout(kk, ob) == \A t \in Tasks : ob[t] # NULL => kk.result[t] = "OK"

Sound(kk, ob) ==
    /\ ~kk.hung
    /\ Listed(kk, ReadySet(kk), Asleep(kk, ob), Waiting(kk, ob))
    /\ OneRunner(kk) /\ IdleRuns(kk)
    /\ NoTimeout(kk, ob) /\ BlockedRunner(kk, ob)

\* The same tasks are BLOCKED.
SameBlocked(kk, k2) ==
    \A t \in Tasks : k2.state[t] = "BLOCKED" <=> kk.state[t] = "BLOCKED"

\* Who sleeps and who waits depends on that alone.
LEMMA SameWaiting ==
    ASSUME NEW kk, NEW k2, NEW ob, SameBlocked(kk, k2)
    PROVE  Asleep(k2, ob) = Asleep(kk, ob) /\ Waiting(k2, ob) = Waiting(kk, ob)
<1>1. Asleep(k2, ob) = Asleep(kk, ob)
  BY DEF Asleep, SameBlocked
<1>2. ASSUME NEW q \in WaitQueues
      PROVE  {t \in Tasks : k2.state[t] = "BLOCKED" /\ ob[t] = q}
               = {t \in Tasks : kk.state[t] = "BLOCKED" /\ ob[t] = q}
  BY DEF SameBlocked
<1> QED BY <1>1, <1>2 DEF Waiting

\* A task in none of the three sets is on no list.
LEMMA LooseTask ==
    ASSUME NEW kk, NEW ob, NEW t \in Tasks,
           kk.state[t] \notin {"READY", "BLOCKED"}
    PROVE  Loose(t, ReadySet(kk), Asleep(kk, ob), Waiting(kk, ob))
BY DEF Loose, ReadySet, Asleep, Waiting

\* Only some parts of the memory matter.
SameTasks(kk, k2) ==
    /\ k2.state = kk.state /\ k2.current = kk.current
    /\ k2.hung = kk.hung /\ k2.result = kk.result

LEMMA SoundFrame ==
    ASSUME NEW kk, NEW k2, NEW ob, Sound(kk, ob),
           SameLists(kk, k2), SameTasks(kk, k2), BlockedRunner(k2, ob)
    PROVE  Sound(k2, ob)
<1>1. ReadySet(k2) = ReadySet(kk) /\ SameBlocked(kk, k2)
  BY DEF SameTasks, ReadySet, SameBlocked
<1>2. Asleep(k2, ob) = Asleep(kk, ob) /\ Waiting(k2, ob) = Waiting(kk, ob)
  BY <1>1, SameWaiting
<1>3. Listed(kk, ReadySet(kk), Asleep(kk, ob), Waiting(kk, ob))
  BY DEF Sound
<1>4. Listed(k2, ReadySet(kk), Asleep(kk, ob), Waiting(kk, ob))
  BY <1>3, ListedFrame
<1>5. OneRunner(k2) /\ IdleRuns(k2) /\ NoTimeout(k2, ob) /\ ~k2.hung
  BY DEF Sound, SameTasks, OneRunner, IdleRuns, NoTimeout
<1> QED BY <1>1, <1>2, <1>4, <1>5 DEF Sound

\* The order of the lists is kept; nobody falls asleep and no deadline
\* changes, nor does the alarm; who is SUSPENDED or INACTIVE is left alone, and
\* nobody else becomes INACTIVE.
KeepsOrder(kk, ob, k2, o2) ==
    OrderKept(kk, ReadySet(kk), Asleep(kk, ob), Waiting(kk, ob),
              k2, ReadySet(k2), Asleep(k2, o2), Waiting(k2, o2))

KeepsTime(kk, ob, k2, o2) ==
    /\ k2.alarm = kk.alarm
    /\ \A x \in Asleep(k2, o2) : x \in Asleep(kk, ob) /\ k2.wake[x] = kk.wake[x]

KeepsOut(kk, k2) ==
    \A u \in Tasks :
        /\ kk.state[u] \in {"SUSPENDED", "INACTIVE"} /\ u # kk.current =>
              k2.state[u] = kk.state[u] /\ u # k2.current
        /\ k2.state[u] = "INACTIVE" => kk.state[u] = "INACTIVE"

LEMMA KeepsTransitive ==
    ASSUME NEW kk, NEW k1, NEW k2, NEW o0, NEW o1, NEW o2
    PROVE  /\ KeepsOrder(kk, o0, k1, o1) /\ KeepsOrder(k1, o1, k2, o2)
                => KeepsOrder(kk, o0, k2, o2)
           /\ KeepsTime(kk, o0, k1, o1) /\ KeepsTime(k1, o1, k2, o2)
                => KeepsTime(kk, o0, k2, o2)
           /\ KeepsOut(kk, k1) /\ KeepsOut(k1, k2) => KeepsOut(kk, k2)
<1>1. KeepsOrder(kk, o0, k1, o1) /\ KeepsOrder(k1, o1, k2, o2)
        => KeepsOrder(kk, o0, k2, o2)
  BY DEF KeepsOrder, OrderKept
<1>2. KeepsTime(kk, o0, k1, o1) /\ KeepsTime(k1, o1, k2, o2)
        => KeepsTime(kk, o0, k2, o2)
  BY DEF KeepsTime
<1>3. KeepsOut(kk, k1) /\ KeepsOut(k1, k2) => KeepsOut(kk, k2)
  BY DEF KeepsOut
<1> QED BY <1>1, <1>2, <1>3

\* They depend on the states and the ranks of the tasks.
SameOrder(kk, k2) ==
    /\ SameLists(kk, k2) /\ SameTasks(kk, k2)
    /\ k2.priority = kk.priority /\ k2.wake = kk.wake

LEMMA KeepsFrame ==
    ASSUME NEW kk, NEW k2, NEW ob, Sound(kk, ob), SameOrder(kk, k2)
    PROVE  /\ KeepsOrder(kk, ob, k2, ob) /\ KeepsOut(kk, k2)
           /\ k2.alarm = kk.alarm => KeepsTime(kk, ob, k2, ob)
<1>1. ReadySet(k2) = ReadySet(kk) /\ SameBlocked(kk, k2)
  BY DEF SameOrder, SameTasks, ReadySet, SameBlocked
<1>2. Asleep(k2, ob) = Asleep(kk, ob) /\ Waiting(k2, ob) = Waiting(kk, ob)
  BY <1>1, SameWaiting
<1>3. SameRanks(kk, ReadySet(kk), Asleep(kk, ob), Waiting(kk, ob), k2)
  BY DEF SameRanks, SameOrder
<1>4. KeepsOrder(kk, ob, k2, ob)
  BY <1>1, <1>2, <1>3, OrderSame DEF KeepsOrder, Sound, SameOrder
<1>5. KeepsOut(kk, k2) /\ (k2.alarm = kk.alarm => KeepsTime(kk, ob, k2, ob))
  BY <1>2 DEF KeepsOut, KeepsTime, SameOrder, SameTasks
<1> QED BY <1>4, <1>5

\* Time slices and the alarm do not matter.
LEMMA SliceSound ==
    ASSUME NEW kk, NEW ob, Sound(kk, ob), NEW c, NEW n,
           NEW k2, k2 = [kk EXCEPT !.rr[c] = n]
    PROVE  /\ Sound(k2, ob) /\ k2.state = kk.state /\ k2.current = kk.current
           /\ KeepsOrder(kk, ob, k2, ob) /\ KeepsTime(kk, ob, k2, ob)
           /\ KeepsOut(kk, k2)
<1>1. SameOrder(kk, k2) /\ k2.alarm = kk.alarm
  BY DEF SameOrder, SameLists, SameTasks
<1>2. k2.lock = kk.lock /\ k2.wake = kk.wake
  OBVIOUS
<1>3. BlockedRunner(k2, ob)
  BY <1>1, <1>2 DEF Sound, BlockedRunner, SameOrder, SameTasks
<1> QED BY <1>1, <1>3, SoundFrame, KeepsFrame DEF SameOrder, SameTasks

\* Neither does the alarm.
LEMMA AlarmSound ==
    ASSUME NEW kk, NEW ob, Sound(kk, ob), NEW n,
           NEW k2, k2 = [kk EXCEPT !.alarm = n]
    PROVE  /\ Sound(k2, ob) /\ k2.state = kk.state /\ k2.current = kk.current
           /\ KeepsOrder(kk, ob, k2, ob) /\ KeepsOut(kk, k2)
<1>1. SameOrder(kk, k2)
  BY DEF SameOrder, SameLists, SameTasks
<1>2. k2.lock = kk.lock /\ k2.wake = kk.wake
  OBVIOUS
<1>3. BlockedRunner(k2, ob)
  BY <1>1, <1>2 DEF Sound, BlockedRunner, SameOrder, SameTasks
<1> QED BY <1>1, <1>3, SoundFrame, KeepsFrame DEF SameOrder, SameTasks

\* Time passes without harm unless it wakes the running task in its window.
LEMMA ElapseSound ==
    ASSUME NEW kk \in Kernel, NEW ob, Sound(kk, ob),
           kk.current # NULL /\ kk.state[kk.current] = "BLOCKED"
             /\ ob[kk.current] = NULL => kk.wake[kk.current] > 1,
           NEW k2, k2 = Elapse(kk)
    PROVE  /\ Sound(k2, ob) /\ k2.state = kk.state /\ k2.current = kk.current
           /\ KeepsOrder(kk, ob, k2, ob) /\ KeepsOut(kk, k2)
<1>1. SameLists(kk, k2) /\ SameTasks(kk, k2)
  BY DEF SameLists, SameTasks, Elapse
<1>2. k2.lock = kk.lock /\ k2.wake = [t \in Tasks |-> Decrement(kk.wake[t])]
  BY DEF Elapse, Kernel
<1>3. \A n \in 0 .. MaxTicks : n > 1 => Decrement(n) > 0
  BY KernelAssumption DEF Decrement
<1>4. BlockedRunner(k2, ob)
  <2> SUFFICES ASSUME kk.current # NULL, kk.state[kk.current] # "RUNNING"
               PROVE  /\ k2.lock = 0
                      /\ kk.state[kk.current] = "BLOCKED" /\ ob[kk.current] = NULL =>
                            k2.wake[kk.current] > 0
    BY <1>1 DEF BlockedRunner, SameTasks
  <2>1. kk.current \in Tasks /\ kk.wake[kk.current] \in 0 .. MaxTicks
    BY DEF Kernel
  <2>2. k2.wake[kk.current] = Decrement(kk.wake[kk.current])
    BY <1>2, <2>1
  <2> HIDE DEF Decrement
  <2> QED BY <1>2, <1>3, <2>1, <2>2 DEF Sound, BlockedRunner
<1> DEFINE R == ReadySet(kk)
           A == Asleep(kk, ob)
           W == Waiting(kk, ob)
<1>5. k2.priority = kk.priority
  BY DEF Elapse
<1>6. Levels(kk, R) => Levels(k2, R)
  BY <1>1, <1>5 DEF Levels, SameLists
<1>7. ByPriority(kk, W) => ByPriority(k2, W)
  BY <1>1, <1>5 DEF ByPriority, SameLists
<1>8. ByWake(kk, A) => ByWake(k2, A)
  <2>1. \A m, n \in 0 .. MaxTicks : m <= n => Decrement(m) <= Decrement(n)
    BY KernelAssumption DEF Decrement
  <2>2. kk.wake \in [Tasks -> 0 .. MaxTicks] /\ kk.next \in [Tasks -> Tasks \cup {NULL}]
    BY DEF Kernel, Links
  <2>3. A \subseteq Tasks
    BY DEF Asleep
  <2> HIDE DEF A, Decrement
  <2>4. ASSUME ByWake(kk, A), NEW x \in A, k2.next[x] # NULL
        PROVE  k2.wake[x] <= k2.wake[k2.next[x]]
    <3>1. k2.next = kk.next /\ kk.next[x] \in Tasks /\ x \in Tasks
      BY <1>1, <2>2, <2>3, <2>4 DEF SameLists
    <3>2. kk.wake[x] <= kk.wake[kk.next[x]]
      BY <2>4, <3>1 DEF ByWake, Sorted
    <3> QED BY <1>2, <2>1, <2>2, <3>1, <3>2
  <2> QED BY <2>4 DEF ByWake, Sorted
<1>9. ReadySet(k2) = R /\ Asleep(k2, ob) = A /\ Waiting(k2, ob) = W
  BY <1>1 DEF SameTasks, ReadySet, Asleep, Waiting
<1>10. KeepsOrder(kk, ob, k2, ob)
  BY <1>6, <1>7, <1>8, <1>9 DEF KeepsOrder, OrderKept
<1> HIDE DEF R, A, W
<1> QED BY <1>1, <1>4, <1>10, SoundFrame DEF SameTasks, KeepsOut

\* Dispatch changes no list.
LEMMA DispatchLists ==
    ASSUME NEW kk \in Kernel, NEW R, NEW A, NEW W, Listed(kk, R, A, W),
           NEW n \in Tasks, NEW k2, k2 = Dispatch(kk, n)
    PROVE  /\ k2 \in Kernel /\ Listed(k2, R, A, W)
           /\ k2.state = [kk.state EXCEPT ![n] = "RUNNING"] /\ k2.current = n
           /\ k2.hung = kk.hung /\ k2.lock = kk.lock
           /\ k2.wake = kk.wake /\ k2.result = kk.result /\ k2.alarm = kk.alarm
           /\ OrderKept(kk, R, A, W, k2, R, A, W)
<1>1. k2 \in Kernel
  BY DispatchType
<1>2. SameLists(kk, k2)
  BY DEF Dispatch, SameLists
<1>3. Listed(k2, R, A, W)
  BY <1>2, ListedFrame
<1>4. SameRanks(kk, R, A, W, k2)
  BY DEF Dispatch, SameRanks
<1>5. OrderKept(kk, R, A, W, k2, R, A, W)
  BY <1>2, <1>4, OrderSame
<1> QED BY <1>1, <1>3, <1>5 DEF Dispatch, Kernel

\* The outgoing task is queued if it is RUNNING.
LEMMA PreemptLists ==
    ASSUME NEW kk \in Kernel, NEW R, NEW A, NEW W, Listed(kk, R, A, W),
           NEW c, Loose(c, R, A, W) \/ kk.state[c] # "RUNNING",
           NEW k2, k2 = Preempt(kk, c), c \in Tasks
    PROVE  /\ k2 \in Kernel /\ SameRest(kk, k2)
           /\ IF kk.state[c] = "RUNNING"
              THEN /\ Listed(k2, R \cup {c}, A, W)
                   /\ OrderKept(kk, R, A, W, k2, R \cup {c}, A, W)
                   /\ k2.state = [kk.state EXCEPT ![c] = "READY"]
              ELSE /\ Listed(k2, R, A, W) /\ OrderKept(kk, R, A, W, k2, R, A, W)
                   /\ k2.state = kk.state
<1> DEFINE k1 == [kk EXCEPT !.rr[c] = 0]
<1>1. CASE kk.state[c] # "RUNNING"
  BY <1>1 DEF Preempt, SameRest, OrderKept
<1>2. CASE kk.state[c] = "RUNNING"
  <2>1. k1 \in Kernel /\ SameLists(kk, k1) /\ SameRest(kk, k1) /\ k1.state = kk.state
    BY KernelAssumption DEF Kernel, SameLists, SameRest
  <2>2. k2 = br_sched_ready(k1, c)
    BY <1>2 DEF Preempt
  <2> HIDE DEF k1
  <2>3. Listed(k1, R, A, W)
    BY <2>1, ListedFrame
  <2>4. /\ k2 \in Kernel /\ Listed(k2, R \cup {c}, A, W) /\ SameRest(k1, k2)
        /\ k2.state = [k1.state EXCEPT ![c] = "READY"]
    BY <1>2, <2>1, <2>2, <2>3, ReadyLists
  <2>5. SameRanks(kk, R, A, W, k1)
    BY <2>1 DEF SameRest, SameRanks
  <2>6. /\ OrderKept(kk, R, A, W, k1, R, A, W)
        /\ OrderKept(k1, R, A, W, k2, R \cup {c}, A, W)
    BY <1>2, <2>1, <2>2, <2>3, <2>5, OrderSame, ReadyOrder
  <2>7. OrderKept(kk, R, A, W, k2, R \cup {c}, A, W)
    BY <2>6 DEF OrderKept
  <2> QED BY <1>2, <2>1, <2>4, <2>7 DEF SameRest
<1> QED BY <1>1, <1>2

\* The idle task is a task.
LEMMA IdleTask == Idle \in Tasks
BY KernelAssumption DEF Idle

(***************************************************************************)
(* A reschedule keeps the memory sound, and the task that executes then is *)
(* RUNNING: a task that blocked itself does find a successor.              *)
(***************************************************************************)
LEMMA RescheduleSound ==
    ASSUME NEW kk \in Kernel, NEW ob, Sound(kk, ob), kk.current \in Tasks,
           NEW k2, k2 = br_sched_reschedule(kk)
    PROVE  /\ k2 \in Kernel /\ Sound(k2, ob) /\ SameBlocked(kk, k2)
           /\ k2.current \in Tasks /\ k2.state[k2.current] = "RUNNING"
           /\ KeepsOrder(kk, ob, k2, ob) /\ KeepsTime(kk, ob, k2, ob)
           /\ KeepsOut(kk, k2)
<1> DEFINE R == ReadySet(kk)
           A == Asleep(kk, ob)
           W == Waiting(kk, ob)
           c == kk.current
           n == NextTask(kk)
           k1 == pick_next(kk)
           k4 == Preempt(k1, c)
<1>0. /\ Listed(kk, R, A, W) /\ c \in Tasks /\ c # NULL
      /\ kk.state[c] \in {"RUNNING", "BLOCKED", "SUSPENDED"}
  BY ListAssumption DEF Sound, OneRunner
<1>1. CASE kk.lock > 0 \/ ReadyLevels(kk) = {}
  <2>1. k2 = kk
    BY <1>1 DEF br_sched_reschedule
  <2>2. kk.state[c] = "RUNNING"
    <3> SUFFICES ASSUME kk.state[c] # "RUNNING" PROVE FALSE
      OBVIOUS
    <3>1. kk.lock = 0
      BY <1>0 DEF Sound, BlockedRunner
    <3>2. Idle \in R
      <4>1. kk.state[Idle] \in {"READY", "RUNNING"}
        BY <1>0 DEF Sound, IdleRuns
      <4>2. kk.state[Idle] = "RUNNING" => Idle = c
        BY IdleTask DEF Sound, OneRunner
      <4> QED BY <4>1, <4>2, IdleTask DEF ReadySet
    <3> HIDE DEF R, A, W
    <3>3. ReadyLevels(kk) # {}
      BY <1>0, <3>2, ReadyFound
    <3> QED BY <1>1, <3>1, <3>3
  <2>3. KeepsOrder(kk, ob, k2, ob) /\ KeepsTime(kk, ob, k2, ob) /\ KeepsOut(kk, k2)
    BY <2>1 DEF KeepsOrder, OrderKept, KeepsTime, KeepsOut
  <2> QED BY <1>0, <2>1, <2>2, <2>3 DEF SameBlocked
<1>2. CASE ~(kk.lock > 0 \/ ReadyLevels(kk) = {})
  <2>1. n = NextTask(kk) /\ k1 = pick_next(kk) /\ k4 = Preempt(k1, c)
    OBVIOUS
  <2> HIDE DEF n, k1, k4
  <2>2. /\ k1 \in Kernel /\ n \in R /\ Listed(k1, R \ {n}, A, W)
        /\ SameRest(kk, k1) /\ k1.state = kk.state
        /\ OrderKept(kk, R, A, W, k1, R \ {n}, A, W)
    <3> HIDE DEF R, A, W, c
    <3> QED BY <1>0, <1>2, <2>1, PickLists, PickOrder
  <2>3. n \in Tasks /\ n # c /\ kk.state[n] = "READY" /\ n # NULL
    BY <1>0, <2>2, ListAssumption DEF ReadySet
  <2>4. k2 = Dispatch(k4, n)
    BY <1>2, <2>1, <2>3 DEF br_sched_reschedule
  <2> DEFINE Q == IF kk.state[c] = "RUNNING" THEN (R \ {n}) \cup {c} ELSE R \ {n}
  <2>5. Loose(c, R \ {n}, A, W) \/ k1.state[c] # "RUNNING"
    BY <1>0, <2>2 DEF Loose, ReadySet, Asleep, Waiting
  <2>6. /\ k4 \in Kernel /\ Listed(k4, Q, A, W) /\ SameRest(k1, k4)
        /\ k4.state = IF kk.state[c] = "RUNNING"
                      THEN [kk.state EXCEPT ![c] = "READY"] ELSE kk.state
        /\ OrderKept(k1, R \ {n}, A, W, k4, Q, A, W)
    <3> DEFINE P == R \ {n}
    <3>1. Listed(k1, P, A, W) /\ (Loose(c, P, A, W) \/ k1.state[c] # "RUNNING")
      BY <2>2, <2>5
    <3> HIDE DEF P, A, W, c
    <3>2. /\ k4 \in Kernel /\ SameRest(k1, k4)
          /\ IF k1.state[c] = "RUNNING"
             THEN /\ Listed(k4, P \cup {c}, A, W)
                  /\ OrderKept(k1, P, A, W, k4, P \cup {c}, A, W)
                  /\ k4.state = [k1.state EXCEPT ![c] = "READY"]
             ELSE /\ Listed(k4, P, A, W) /\ OrderKept(k1, P, A, W, k4, P, A, W)
                  /\ k4.state = k1.state
      BY <1>0, <2>1, <2>2, <3>1, PreemptLists
    <3> QED BY <2>2, <3>2 DEF P
  <2>7. /\ k2 \in Kernel /\ Listed(k2, Q, A, W)
        /\ k2.state = [k4.state EXCEPT ![n] = "RUNNING"] /\ k2.current = n
        /\ k2.hung = k4.hung /\ k2.result = k4.result
        /\ k2.wake = k4.wake /\ k2.alarm = k4.alarm
        /\ OrderKept(k4, Q, A, W, k2, Q, A, W)
    <3> HIDE DEF Q, A, W
    <3> QED BY <2>3, <2>4, <2>6, DispatchLists
  <2>8. \A t \in Tasks : k2.state[t] = IF t = n THEN "RUNNING"
                                       ELSE IF t = c /\ kk.state[c] = "RUNNING"
                                       THEN "READY" ELSE kk.state[t]
    BY <1>0, <2>3, <2>6, <2>7 DEF Kernel
  <2>9. ReadySet(k2) = Q
    BY <1>0, <2>3, <2>8 DEF ReadySet
  <2>10. SameBlocked(kk, k2)
    BY <1>0, <2>3, <2>8 DEF SameBlocked
  <2>11. Asleep(k2, ob) = A /\ Waiting(k2, ob) = W
    BY <2>10, SameWaiting
  <2>12. ~k2.hung /\ k2.result = kk.result
    BY <2>2, <2>6, <2>7 DEF Sound, SameRest
  <2>13. OneRunner(k2) /\ k2.state[k2.current] = "RUNNING"
    BY <1>0, <2>3, <2>7, <2>8 DEF Sound, OneRunner
  <2>14. IdleRuns(k2)
    BY <1>0, <2>3, <2>8, IdleTask DEF Sound, IdleRuns
  <2>15. NoTimeout(k2, ob) /\ BlockedRunner(k2, ob)
    BY <2>12, <2>13 DEF Sound, NoTimeout, BlockedRunner
  <2>16. Sound(k2, ob)
    BY <2>7, <2>9, <2>11, <2>12, <2>13, <2>14, <2>15 DEF Sound
  <2>17. KeepsOrder(kk, ob, k2, ob)
    <3>1. OrderKept(kk, R, A, W, k2, Q, A, W)
      <4> DEFINE P == R \ {n}
      <4>1. /\ OrderKept(kk, R, A, W, k1, P, A, W) /\ OrderKept(k1, P, A, W, k4, Q, A, W)
            /\ OrderKept(k4, Q, A, W, k2, Q, A, W)
        BY <2>2, <2>6, <2>7
      <4> HIDE DEF P, Q, R, A, W
      <4> QED BY <4>1 DEF OrderKept
    <3> QED BY <2>9, <2>11, <3>1 DEF KeepsOrder
  <2>18. KeepsTime(kk, ob, k2, ob)
    BY <2>2, <2>6, <2>7, <2>11 DEF KeepsTime, SameRest
  <2>19. KeepsOut(kk, k2)
    BY <2>3, <2>7, <2>8 DEF KeepsOut
  <2> QED BY <2>3, <2>7, <2>10, <2>13, <2>16, <2>17, <2>18, <2>19
<1> QED BY <1>1, <1>2

\* Whoever waits on a queue still does, and nobody else.
SameWaiters(kk, k2, ob) ==
    \A u \in Tasks :
        ob[u] # NULL => (k2.state[u] = "BLOCKED" <=> kk.state[u] = "BLOCKED")

\* A round-robin tick keeps it sound; if it switches, to a RUNNING task.
LEMMA TickSound ==
    ASSUME NEW kk \in Kernel, NEW ob, Sound(kk, ob),
           NEW k2, k2 = br_sched_tick(kk)
    PROVE  /\ k2 \in Kernel /\ Sound(k2, ob) /\ SameBlocked(kk, k2)
           /\ \/ k2.current = kk.current /\ k2.state = kk.state
              \/ k2.current \in Tasks /\ k2.state[k2.current] = "RUNNING"
           /\ KeepsOrder(kk, ob, k2, ob) /\ KeepsTime(kk, ob, k2, ob)
           /\ KeepsOut(kk, k2)
<1>0. k2 \in Kernel
  BY TickType
<1>1. CASE kk.current = NULL
  BY <1>0, <1>1 DEF br_sched_tick, SameBlocked, KeepsOrder, OrderKept,
                    KeepsTime, KeepsOut
<1>2. CASE kk.current # NULL
  <2> DEFINE c  == kk.current
             k1 == [kk EXCEPT !.rr[c] = 0]
  <2>1. c \in Tasks
    BY <1>2 DEF Kernel
  <2>2. k1 \in Kernel
    BY <2>1, KernelAssumption DEF Kernel
  <2>3. /\ Sound(k1, ob) /\ k1.state = kk.state /\ k1.current = c
        /\ KeepsOrder(kk, ob, k1, ob) /\ KeepsTime(kk, ob, k1, ob)
        /\ KeepsOut(kk, k1)
    BY SliceSound
  <2>4. CASE k2 = br_sched_reschedule(k1)
    <3> HIDE DEF k1, c
    <3>1. /\ Sound(k2, ob) /\ SameBlocked(k1, k2)
          /\ k2.current \in Tasks /\ k2.state[k2.current] = "RUNNING"
          /\ KeepsOrder(k1, ob, k2, ob) /\ KeepsTime(k1, ob, k2, ob)
          /\ KeepsOut(k1, k2)
      BY <2>1, <2>2, <2>3, <2>4, RescheduleSound
    <3>2. /\ KeepsOrder(kk, ob, k2, ob) /\ KeepsTime(kk, ob, k2, ob)
          /\ KeepsOut(kk, k2)
      BY <2>3, <3>1, KeepsTransitive
    <3> QED BY <1>0, <2>3, <3>1, <3>2 DEF SameBlocked
  <2>5. ASSUME NEW n, k2 = [kk EXCEPT !.rr[c] = n]
        PROVE  /\ Sound(k2, ob) /\ k2.state = kk.state /\ k2.current = kk.current
               /\ KeepsOrder(kk, ob, k2, ob) /\ KeepsTime(kk, ob, k2, ob)
               /\ KeepsOut(kk, k2)
    <3> HIDE DEF c
    <3> QED BY <2>5, SliceSound
  <2>6. \/ k2 = br_sched_reschedule(k1)
        \/ \E n : k2 = [kk EXCEPT !.rr[c] = n]
    BY <1>2 DEF br_sched_tick
  <2> HIDE DEF k1
  <2> QED BY <1>0, <2>4, <2>5, <2>6 DEF SameBlocked
<1> QED BY <1>1, <1>2

\* The running task t blocks itself, waiting for x.
Blocks(kk, k2, ob, o2, t, x) ==
    /\ t \in Tasks /\ kk.state \in [Tasks -> States] /\ kk.state[t] = "RUNNING"
    /\ ob \in [Tasks -> WaitQueues \cup {NULL}]
    /\ o2 = [ob EXCEPT ![t] = x]
    /\ k2.state = [kk.state EXCEPT ![t] = "BLOCKED"]
    /\ NULL \notin WaitQueues

\* What that does to the sets.
LEMMA NewlyBlocked ==
    ASSUME NEW kk, NEW k2, NEW ob, NEW o2, NEW t, NEW x,
           Blocks(kk, k2, ob, o2, t, x)
    PROVE  /\ ReadySet(k2) = ReadySet(kk)
           /\ x = NULL => /\ Asleep(k2, o2) = Asleep(kk, ob) \cup {t}
                          /\ Waiting(k2, o2) = Waiting(kk, ob)
           /\ x \in WaitQueues =>
                /\ Asleep(k2, o2) = Asleep(kk, ob)
                /\ Waiting(k2, o2) = Joined(Waiting(kk, ob), x, t)
<1>1. /\ \A u \in Tasks : k2.state[u] = IF u = t THEN "BLOCKED" ELSE kk.state[u]
      /\ \A u \in Tasks : o2[u] = IF u = t THEN x ELSE ob[u]
      /\ t \in Tasks /\ kk.state[t] = "RUNNING" /\ NULL \notin WaitQueues
  BY DEF Blocks
<1>2. ReadySet(k2) = ReadySet(kk)
  BY <1>1 DEF ReadySet
<1>3. /\ x = NULL => Asleep(k2, o2) = Asleep(kk, ob) \cup {t}
      /\ x \in WaitQueues => Asleep(k2, o2) = Asleep(kk, ob)
  BY <1>1 DEF Asleep
<1>4. \A q \in WaitQueues :
         {u \in Tasks : k2.state[u] = "BLOCKED" /\ o2[u] = q}
           = IF q = x
             THEN {u \in Tasks : kk.state[u] = "BLOCKED" /\ ob[u] = q} \cup {t}
             ELSE {u \in Tasks : kk.state[u] = "BLOCKED" /\ ob[u] = q}
  BY <1>1
<1>5. \A q \in WaitQueues : Waiting(k2, o2)[q] =
         IF q = x THEN Waiting(kk, ob)[q] \cup {t} ELSE Waiting(kk, ob)[q]
  BY <1>4 DEF Waiting
<1>6. /\ Waiting(k2, o2) = [q \in WaitQueues |-> Waiting(k2, o2)[q]]
      /\ Waiting(kk, ob) = [q \in WaitQueues |-> Waiting(kk, ob)[q]]
  BY DEF Waiting
<1> DEFINE V == Waiting(k2, o2)
           W == Waiting(kk, ob)
<1>7. x = NULL => V = W
  <2> SUFFICES ASSUME x = NULL PROVE V = W
    OBVIOUS
  <2>1. \A q \in WaitQueues : V[q] = W[q]
    BY <1>1, <1>5
  <2> HIDE DEF V, W
  <2>2. [q \in WaitQueues |-> V[q]] = [q \in WaitQueues |-> W[q]]
    BY <2>1
  <2> QED BY <1>6, <2>2 DEF V, W
<1>8. x \in WaitQueues => V = Joined(W, x, t)
  <2> SUFFICES ASSUME x \in WaitQueues PROVE V = Joined(W, x, t)
    OBVIOUS
  <2>1. \A q \in WaitQueues : V[q] = IF q = x THEN W[q] \cup {t} ELSE W[q]
    BY <1>5
  <2>2. V = [q \in WaitQueues |-> V[q]] /\ W = [q \in WaitQueues |-> W[q]]
    BY <1>6
  <2> HIDE DEF V, W
  <2>3. Joined(W, x, t)
          = [q \in WaitQueues |-> IF q = x THEN W[q] \cup {t} ELSE W[q]]
    BY <2>2 DEF Joined
  <2>4. [q \in WaitQueues |-> V[q]]
          = [q \in WaitQueues |-> IF q = x THEN W[q] \cup {t} ELSE W[q]]
    BY <2>1
  <2> QED BY <2>2, <2>3, <2>4
<1> HIDE DEF V, W
<1> QED BY <1>2, <1>3, <1>7, <1>8 DEF V, W

\* br_sleep_us by the running task keeps the memory sound ...
LEMMA SleepSound ==
    ASSUME NEW kk \in Kernel, NEW ob, Sound(kk, ob),
           ob \in [Tasks -> WaitQueues \cup {NULL}], NULL \notin WaitQueues,
           NEW t \in Tasks, t = kk.current, kk.state[t] = "RUNNING",
           t # Idle, ob[t] = NULL, kk.lock = 0,
           NEW ticks \in 1 .. MaxTicks, NEW k2, k2 = SleepSection(kk, t, ticks)
    PROVE  /\ Sound(k2, ob) /\ k2.current = t /\ SameWaiters(kk, k2, ob)
           /\ KeepsOrder(kk, ob, k2, ob) /\ KeepsOut(kk, k2)
           /\ Asleep(k2, ob) = Asleep(kk, ob) \cup {t}
           /\ k2.wake = [kk.wake EXCEPT ![t] = ticks]
<1> DEFINE R  == ReadySet(kk)
           A  == Asleep(kk, ob)
           W  == Waiting(kk, ob)
           k1 == [kk EXCEPT !.state[t] = "BLOCKED", !.wake[t] = ticks]
           k3 == br_time_sleep_list_insert(k1, t)
<1>1. k1 \in Kernel
  <2>1. ticks \in 0 .. MaxTicks
    BY KernelAssumption
  <2> QED BY <2>1 DEF Kernel, States
<1>2. SameLists(kk, k1)
  BY DEF SameLists
<1>3. Listed(k1, R, A, W) /\ Loose(t, R, A, W)
  BY <1>2, ListedFrame, LooseTask DEF Sound
<1>4. /\ k1.state = [kk.state EXCEPT ![t] = "BLOCKED"] /\ k1.lock = 0
      /\ k1.current = t /\ k1.hung = kk.hung /\ k1.result = kk.result
      /\ k1.wake = [kk.wake EXCEPT ![t] = ticks] /\ k1.priority = kk.priority
  <2>1. k1.state = [kk.state EXCEPT ![t] = "BLOCKED"]
    BY DEF Kernel
  <2>2. k1.lock = kk.lock /\ k1.current = kk.current
    BY DEF Kernel
  <2>3. k1.hung = kk.hung /\ k1.result = kk.result
    BY DEF Kernel
  <2>4. k1.priority = kk.priority
    BY DEF Kernel
  <2>5. k1.wake = [kk.wake EXCEPT ![t] = ticks]
    BY DEF Kernel
  <2> QED BY <2>1, <2>2, <2>3, <2>4, <2>5
<1>5. k3 = br_time_sleep_list_insert(k1, t)
  OBVIOUS
<1>6. \E n : k2 = [k3 EXCEPT !.alarm = n]
  BY DEF SleepSection, reprogram_alarm
<1>16. k1.wake[t] = ticks
  BY <1>4 DEF Kernel
<1>17. SameRanks(kk, R, A, W, k1)
  BY <1>3, <1>4 DEF SameRanks, Loose, Listed, Members, Kernel
<1> HIDE DEF k1, k3, R, A, W
<1>7. /\ k3 \in Kernel /\ Listed(k3, R, A \cup {t}, W)
      /\ SameRest(k1, k3) /\ k3.state = k1.state
  BY <1>1, <1>3, <1>5, SleepLists
<1>8. [ob EXCEPT ![t] = NULL] = ob
  OBVIOUS
<1>9. ReadySet(k3) = R /\ Asleep(k3, ob) = A \cup {t} /\ Waiting(k3, ob) = W
  <2>1. Blocks(kk, k3, ob, ob, t, NULL)
    BY <1>4, <1>7, <1>8 DEF Blocks, Kernel
  <2> QED BY <2>1, NewlyBlocked DEF R, A, W
<1>10. \A u \in Tasks : k3.state[u] = IF u = t THEN "BLOCKED" ELSE kk.state[u]
  BY <1>4, <1>7 DEF Kernel
<1>11. OneRunner(k3) /\ IdleRuns(k3)
  BY <1>4, <1>7, <1>10, IdleTask DEF Sound, OneRunner, IdleRuns, SameRest
<1>12. NoTimeout(k3, ob) /\ ~k3.hung /\ BlockedRunner(k3, ob)
  BY <1>4, <1>7, <1>16 DEF Sound, NoTimeout, BlockedRunner, SameRest
<1>13. Sound(k3, ob) /\ k3.current = t
  BY <1>4, <1>7, <1>9, <1>11, <1>12 DEF Sound, SameRest
<1>14. SameWaiters(kk, k3, ob)
  BY <1>10 DEF SameWaiters
<1>15. /\ Sound(k2, ob) /\ k2.state = k3.state /\ k2.current = k3.current
       /\ KeepsOrder(k3, ob, k2, ob)
  BY <1>6, <1>13, AlarmSound
<1>18. KeepsOrder(kk, ob, k2, ob)
  <2>1. Listed(kk, R, A, W)
    BY DEF Sound, R, A, W
  <2>2. OrderKept(kk, R, A, W, k1, R, A, W)
    BY <1>2, <1>17, <2>1, OrderSame
  <2>3. OrderKept(k1, R, A, W, k3, R, A \cup {t}, W)
    BY <1>1, <1>3, <1>5, SleepOrder
  <2>4. OrderKept(kk, R, A, W, k3, R, A \cup {t}, W)
    BY <2>2, <2>3 DEF OrderKept
  <2>5. KeepsOrder(kk, ob, k3, ob)
    BY <1>9, <2>4 DEF KeepsOrder, R, A, W
  <2> QED BY <1>15, <2>5, KeepsTransitive
<1>19. KeepsOut(kk, k2)
  BY <1>10, <1>13, <1>15 DEF KeepsOut
<1>20. Asleep(k2, ob) = A \cup {t} /\ k2.wake = k3.wake
  BY <1>6, <1>9, <1>15 DEF Asleep
<1> QED BY <1>4, <1>7, <1>13, <1>14, <1>15, <1>18, <1>19, <1>20
        DEF SameWaiters, SameRest, A

\* ... and so does a blocking IPC call without a timeout.
BlocksOn(kk, k2, ob, o2, t, q) ==
    /\ kk \in Kernel /\ Sound(kk, ob) /\ t \in Tasks /\ q \in WaitQueues
    /\ ob \in [Tasks -> WaitQueues \cup {NULL}] /\ NULL \notin WaitQueues
    /\ t = kk.current /\ kk.state[t] = "RUNNING" /\ t # Idle /\ kk.lock = 0
    /\ k2 = block_on_wq(kk, q, t, NULL) /\ o2 = [ob EXCEPT ![t] = q]

LEMMA BlockSound ==
    ASSUME NEW kk, NEW k2, NEW ob, NEW o2, NEW t, NEW q,
           BlocksOn(kk, k2, ob, o2, t, q)
    PROVE  /\ Sound(k2, o2) /\ k2.current = t
           /\ KeepsOrder(kk, ob, k2, o2) /\ KeepsTime(kk, ob, k2, o2)
<1>0. /\ kk \in Kernel /\ Sound(kk, ob) /\ t \in Tasks /\ q \in WaitQueues
      /\ ob \in [Tasks -> WaitQueues \cup {NULL}] /\ NULL \notin WaitQueues
      /\ t = kk.current /\ kk.state[t] = "RUNNING" /\ t # Idle /\ kk.lock = 0
      /\ k2 = block_on_wq(kk, q, t, NULL) /\ o2 = [ob EXCEPT ![t] = q]
  BY DEF BlocksOn
<1> DEFINE R  == ReadySet(kk)
           A  == Asleep(kk, ob)
           W  == Waiting(kk, ob)
           k1 == [kk EXCEPT !.state[t] = "BLOCKED", !.result[t] = "OK"]
<1>1. k1 \in Kernel
  BY <1>0 DEF Kernel, States
<1>2. SameLists(kk, k1)
  BY <1>0 DEF SameLists
<1>3. Listed(k1, R, A, W) /\ Loose(t, R, A, W)
  BY <1>0, <1>2, ListedFrame, LooseTask DEF Sound
<1>4. /\ k1.state = [kk.state EXCEPT ![t] = "BLOCKED"] /\ k1.lock = 0
      /\ k1.current = t /\ k1.hung = kk.hung
      /\ k1.result = [kk.result EXCEPT ![t] = "OK"]
      /\ k1.wake = kk.wake /\ k1.alarm = kk.alarm
  BY <1>0 DEF Kernel
<1>5. k2 = wq_insert(k1, q, t)
  BY <1>0 DEF block_on_wq
<1>12. SameRanks(kk, R, A, W, k1)
  BY DEF SameRanks
<1> HIDE DEF k1, R, A, W
<1>6. /\ k2 \in Kernel /\ Listed(k2, R, A, Joined(W, q, t))
      /\ SameRest(k1, k2) /\ k2.state = k1.state
  BY <1>0, <1>1, <1>3, <1>5, WaitLists
<1>7. /\ ReadySet(k2) = R /\ Asleep(k2, o2) = A
      /\ Waiting(k2, o2) = Joined(W, q, t)
  <2>1. Blocks(kk, k2, ob, o2, t, q)
    BY <1>0, <1>4, <1>6 DEF Blocks, Kernel
  <2> QED BY <1>0, <2>1, NewlyBlocked DEF R, A, W
<1>8. \A u \in Tasks : k2.state[u] = IF u = t THEN "BLOCKED" ELSE kk.state[u]
  BY <1>0, <1>4, <1>6 DEF Kernel
<1>9. OneRunner(k2) /\ IdleRuns(k2)
  BY <1>0, <1>4, <1>6, <1>8, IdleTask DEF Sound, OneRunner, IdleRuns, SameRest
<1>10. NoTimeout(k2, o2)
  BY <1>0, <1>4, <1>6 DEF Sound, NoTimeout, SameRest, Kernel
<1>11. ~k2.hung /\ BlockedRunner(k2, o2)
  BY <1>0, <1>4, <1>6 DEF Sound, BlockedRunner, SameRest
<1>13. KeepsOrder(kk, ob, k2, o2)
  <2>1. Listed(kk, R, A, W)
    BY <1>0 DEF Sound, R, A, W
  <2>2. OrderKept(kk, R, A, W, k1, R, A, W)
    BY <1>2, <1>12, <2>1, OrderSame
  <2>3. OrderKept(k1, R, A, W, k2, R, A, Joined(W, q, t))
    BY <1>0, <1>1, <1>3, <1>5, WaitOrder
  <2>4. OrderKept(kk, R, A, W, k2, R, A, Joined(W, q, t))
    BY <2>2, <2>3 DEF OrderKept
  <2> QED BY <1>7, <2>4 DEF KeepsOrder, R, A, W
<1>14. KeepsTime(kk, ob, k2, o2)
  BY <1>4, <1>6, <1>7 DEF KeepsTime, SameRest, A
<1> QED BY <1>0, <1>4, <1>6, <1>7, <1>9, <1>10, <1>11, <1>13, <1>14
        DEF Sound, SameRest

\* The sleeping or waiting task t is made READY.
Readies(kk, k2, ob, t) ==
    /\ t \in Tasks /\ kk.state \in [Tasks -> States] /\ kk.state[t] = "BLOCKED"
    /\ ob \in [Tasks -> WaitQueues \cup {NULL}] /\ NULL \notin WaitQueues
    /\ k2.state = [kk.state EXCEPT ![t] = "READY"]
    /\ k2.hung = kk.hung /\ k2.current = kk.current /\ k2.lock = kk.lock
    /\ kk.current \in Tasks \cup {NULL} /\ t # kk.current
    /\ \A u \in Tasks \ {t} : k2.wake[u] = kk.wake[u] /\ k2.result[u] = kk.result[u]
    /\ ob[t] # NULL => k2.result[t] = "OK"

\* It changes sets with the lists,
LEMMA NewlyReady ==
    ASSUME NEW kk, NEW k2, NEW ob, NEW t, Readies(kk, k2, ob, t)
    PROVE  /\ ReadySet(k2) = ReadySet(kk) \cup {t}
           /\ ob[t] = NULL => /\ Asleep(k2, ob) = Asleep(kk, ob) \ {t}
                              /\ Waiting(k2, ob) = Waiting(kk, ob)
           /\ ob[t] # NULL =>
                /\ Asleep(k2, ob) = Asleep(kk, ob)
                /\ Waiting(k2, ob) = Left(Waiting(kk, ob), ob[t], t)
<1>1. /\ \A u \in Tasks : k2.state[u] = IF u = t THEN "READY" ELSE kk.state[u]
      /\ t \in Tasks /\ kk.state[t] = "BLOCKED" /\ NULL \notin WaitQueues
      /\ ob[t] \in WaitQueues \cup {NULL}
  BY DEF Readies
<1>2. ReadySet(k2) = ReadySet(kk) \cup {t}
  BY <1>1 DEF ReadySet
<1>3. /\ ob[t] = NULL => Asleep(k2, ob) = Asleep(kk, ob) \ {t}
      /\ ob[t] # NULL => Asleep(k2, ob) = Asleep(kk, ob)
  BY <1>1 DEF Asleep
<1>4. \A q \in WaitQueues :
         {u \in Tasks : k2.state[u] = "BLOCKED" /\ ob[u] = q}
           = IF q = ob[t]
             THEN {u \in Tasks : kk.state[u] = "BLOCKED" /\ ob[u] = q} \ {t}
             ELSE {u \in Tasks : kk.state[u] = "BLOCKED" /\ ob[u] = q}
  BY <1>1
<1> DEFINE V == Waiting(k2, ob)
           W == Waiting(kk, ob)
           x == ob[t]
<1>5. \A q \in WaitQueues : V[q] = IF q = x THEN W[q] \ {t} ELSE W[q]
  BY <1>4 DEF Waiting
<1>6. V = [q \in WaitQueues |-> V[q]] /\ W = [q \in WaitQueues |-> W[q]]
  BY DEF Waiting
<1>7. x = NULL \/ x \in WaitQueues
  BY <1>1
<1> HIDE DEF V, W, x
<1>8. x = NULL => V = W
  <2> SUFFICES ASSUME x = NULL PROVE V = W
    OBVIOUS
  <2>1. \A q \in WaitQueues : V[q] = W[q]
    BY <1>1, <1>5
  <2>2. [q \in WaitQueues |-> V[q]] = [q \in WaitQueues |-> W[q]]
    BY <2>1
  <2> QED BY <1>6, <2>2
<1>9. x # NULL => V = Left(W, x, t)
  <2> SUFFICES ASSUME x \in WaitQueues PROVE V = Left(W, x, t)
    BY <1>7
  <2>1. Left(W, x, t) = [q \in WaitQueues |-> IF q = x THEN W[q] \ {t} ELSE W[q]]
    BY <1>6 DEF Left
  <2>2. [q \in WaitQueues |-> V[q]]
          = [q \in WaitQueues |-> IF q = x THEN W[q] \ {t} ELSE W[q]]
    BY <1>5
  <2> QED BY <1>6, <2>1, <2>2
<1> QED BY <1>2, <1>3, <1>8, <1>9 DEF V, W, x

\* and leaves the rest of the memory as sound as it was.
LEMMA ReadiedSound ==
    ASSUME NEW kk, NEW k2, NEW ob, NEW t, Readies(kk, k2, ob, t), Sound(kk, ob),
           Listed(k2, ReadySet(k2), Asleep(k2, ob), Waiting(k2, ob))
    PROVE  Sound(k2, ob)
<1>1. /\ \A u \in Tasks : k2.state[u] = IF u = t THEN "READY" ELSE kk.state[u]
      /\ t \in Tasks /\ kk.state[t] = "BLOCKED"
  BY DEF Readies
<1>2. OneRunner(k2) /\ IdleRuns(k2)
  <2>1. k2.current = kk.current /\ t # kk.current
    BY DEF Readies
  <2>2. kk.current # NULL => k2.state[k2.current] \in {"RUNNING", "BLOCKED", "SUSPENDED"}
    <3> SUFFICES ASSUME kk.current # NULL
                 PROVE  k2.state[k2.current] \in {"RUNNING", "BLOCKED", "SUSPENDED"}
      OBVIOUS
    <3>1. kk.state[kk.current] \in {"RUNNING", "BLOCKED", "SUSPENDED"}
      BY DEF Sound, OneRunner
    <3>2. k2.state[kk.current] = kk.state[kk.current]
      BY <2>1 DEF Readies
    <3> QED BY <2>1, <3>1, <3>2
  <2> QED BY <1>1, <2>1, <2>2, IdleTask DEF Sound, OneRunner, IdleRuns
<1>3. NoTimeout(k2, ob)
  BY <1>1 DEF Readies, Sound, NoTimeout
<1>4. ~k2.hung
  BY DEF Readies, Sound
<1>5. BlockedRunner(k2, ob)
  <2> SUFFICES ASSUME k2.current # NULL, k2.state[k2.current] # "RUNNING"
               PROVE  /\ k2.lock = 0
                      /\ k2.state[k2.current] = "BLOCKED" /\ ob[k2.current] = NULL =>
                            k2.wake[k2.current] > 0
    BY DEF BlockedRunner
  <2>1. k2.current = kk.current /\ k2.lock = kk.lock /\ t # kk.current
    BY DEF Readies
  <2>2. k2.state[kk.current] = kk.state[kk.current]
    BY <2>1 DEF Readies
  <2>3. /\ kk.lock = 0
        /\ kk.state[kk.current] = "BLOCKED" /\ ob[kk.current] = NULL =>
              kk.wake[kk.current] > 0
    BY <2>1, <2>2 DEF Sound, BlockedRunner
  <2>4. kk.current \in Tasks => k2.wake[kk.current] = kk.wake[kk.current]
    BY <2>1 DEF Readies
  <2>5. kk.current \in Tasks
    BY <2>1 DEF Readies
  <2> QED BY <2>1, <2>2, <2>3, <2>4, <2>5
<1> QED BY <1>2, <1>3, <1>4, <1>5 DEF Sound

\* One iteration of the alarm handler's loop keeps it sound.
LEMMA WakeExpiredSound ==
    ASSUME NEW kk \in Kernel, NEW ob, Sound(kk, ob), Expired(kk),
           ob \in [Tasks -> WaitQueues \cup {NULL}], NULL \notin WaitQueues,
           NEW k2, k2 = WakeExpired(kk)
    PROVE  /\ Sound(k2, ob) /\ k2.current = kk.current
           /\ kk.current # NULL => k2.state[kk.current] = kk.state[kk.current]
           /\ SameWaiters(kk, k2, ob)
           /\ KeepsOrder(kk, ob, k2, ob) /\ KeepsTime(kk, ob, k2, ob)
           /\ KeepsOut(kk, k2)
<1>0. PICK t : t = kk.sleep_list
  OBVIOUS
<1> DEFINE R  == ReadySet(kk)
           A  == Asleep(kk, ob)
           W  == Waiting(kk, ob)
           k1 == PutSleep(kk, Pop(ListOf(t, kk.next)))
           k3 == [k1 EXCEPT !.wake[t] = 0, !.result[t] = "TIMEOUT"]
<1>1. PoppedSleep(kk, R, A, W, t, k1)
  BY <1>0 DEF PoppedSleep, Sound, Expired
<1>2. k2 = br_sched_ready(k3, t)
  BY <1>0 DEF WakeExpired
<1>3. t # NULL /\ kk.wake[t] = 0
  BY <1>0 DEF Expired
<1> HIDE DEF k1, R, A, W
<1>4. /\ k1 \in Kernel /\ t \in A /\ Listed(k1, R, A \ {t}, W)
      /\ SameRest(kk, k1) /\ k1.state = kk.state
  BY <1>1, FirstSleeper DEF PoppedSleep
<1>5. t \in Tasks /\ kk.state[t] = "BLOCKED" /\ ob[t] = NULL
  BY <1>4 DEF A, Asleep
<1>6. k3 \in Kernel
  <2>1. 0 \in 0 .. MaxTicks
    BY KernelAssumption
  <2> QED BY <1>4, <1>5, <2>1 DEF Kernel
<1>7. /\ SameLists(k1, k3) /\ k3.state = k1.state /\ k3.hung = k1.hung
      /\ k3.current = k1.current /\ k3.lock = k1.lock
      /\ k3.priority = k1.priority /\ k3.alarm = k1.alarm
  BY DEF SameLists
<1>8. \A u \in Tasks \ {t} : k3.wake[u] = k1.wake[u] /\ k3.result[u] = k1.result[u]
  <2>1. k3.wake = [k1.wake EXCEPT ![t] = 0]
    BY <1>4 DEF Kernel
  <2>2. k3.result = [k1.result EXCEPT ![t] = "TIMEOUT"]
    BY <1>4 DEF Kernel
  <2>3. k1.wake \in [Tasks -> 0 .. MaxTicks]
    BY <1>4 DEF Kernel
  <2>4. k1.result \in [Tasks -> {"OK", "TIMEOUT"}]
    BY <1>4 DEF Kernel
  <2> HIDE DEF k3
  <2> QED BY <2>1, <2>2, <2>3, <2>4
<1> HIDE DEF k3
<1>9. Listed(k3, R, A \ {t}, W)
  BY <1>4, <1>7, ListedFrame
<1>10. Loose(t, R, A \ {t}, W)
  BY <1>5 DEF Loose, R, W, ReadySet, Waiting
<1>11. /\ Listed(k2, R \cup {t}, A \ {t}, W) /\ SameRest(k3, k2)
       /\ k2.state = [k3.state EXCEPT ![t] = "READY"]
  <2> DEFINE B == A \ {t}
  <2>1. Listed(k3, R, B, W) /\ Loose(t, R, B, W)
    BY <1>9, <1>10
  <2> HIDE DEF B
  <2>2. Listed(k2, R \cup {t}, B, W) /\ SameRest(k3, k2)
    BY <1>2, <1>6, <2>1, ReadyLists
  <2>3. k2.state = [k3.state EXCEPT ![t] = "READY"]
    BY <1>2, <1>6 DEF br_sched_ready, PutReady, Kernel
  <2> QED BY <2>2, <2>3 DEF B
<1>12. t # kk.current
  <2>1. kk.current = t => kk.wake[t] > 0
    BY <1>3, <1>5 DEF Sound, BlockedRunner
  <2> QED BY <1>3, <2>1
<1>13. Readies(kk, k2, ob, t)
  <2>1. kk.state \in [Tasks -> States] /\ kk.current \in Tasks \cup {NULL}
    BY DEF Kernel
  <2> QED BY <1>4, <1>5, <1>7, <1>8, <1>11, <1>12, <2>1 DEF Readies, SameRest
<1>14. ReadySet(k2) = R \cup {t} /\ Asleep(k2, ob) = A \ {t} /\ Waiting(k2, ob) = W
  BY <1>5, <1>13, NewlyReady DEF R, A, W
<1>15. Sound(k2, ob)
  BY <1>11, <1>13, <1>14, ReadiedSound
<1>16. SameWaiters(kk, k2, ob)
  BY <1>5, <1>13 DEF Readies, SameWaiters
<1>17. KeepsOrder(kk, ob, k2, ob)
  <2> DEFINE B == A \ {t}
             P == R \cup {t}
  <2>1. Listed(k1, R, B, W) /\ Listed(k3, R, B, W) /\ Loose(t, R, B, W)
    BY <1>4, <1>9, <1>10
  <2>2. SameRanks(k1, R, B, W, k3)
    BY <1>4, <1>7, <1>8 DEF SameRanks, A, Asleep
  <2>3. OrderKept(kk, R, A, W, k1, R, B, W)
    BY <1>1, FirstSleeperOrder
  <2> HIDE DEF B
  <2>4. OrderKept(k1, R, B, W, k3, R, B, W)
    BY <1>7, <2>1, <2>2, OrderSame
  <2>5. OrderKept(k3, R, B, W, k2, P, B, W)
    BY <1>2, <1>6, <2>1, ReadyOrder
  <2> HIDE DEF P
  <2>6. OrderKept(kk, R, A, W, k2, P, B, W)
    BY <2>3, <2>4, <2>5 DEF OrderKept
  <2> QED BY <1>14, <2>6 DEF KeepsOrder, R, A, W, B, P
<1>18. KeepsTime(kk, ob, k2, ob)
  <2>1. k2.alarm = kk.alarm
    BY <1>4, <1>7, <1>11 DEF SameRest
  <2>2. ASSUME NEW x \in A \ {t}
        PROVE  k2.wake[x] = kk.wake[x]
    BY <1>4, <1>8, <1>11 DEF SameRest, A, Asleep
  <2> QED BY <1>14, <2>1, <2>2 DEF KeepsTime, A
<1>19. KeepsOut(kk, k2)
  BY <1>5, <1>13 DEF Readies, KeepsOut
<1> QED BY <1>12, <1>13, <1>15, <1>16, <1>17, <1>18, <1>19 DEF Readies

\* So does waking the first waiter of a queue, who is not the running task.
LEMMA WakeSound ==
    ASSUME NEW kk \in Kernel, NEW ob, Sound(kk, ob),
           ob \in [Tasks -> WaitQueues \cup {NULL}], NULL \notin WaitQueues,
           NEW q \in WaitQueues, NEW t, t = kk.wq[q], t # NULL, t # kk.current,
           NEW k2, k2 = wake_waiter(wq_pop(kk, q), t)
    PROVE  /\ Sound(k2, ob) /\ k2.current = kk.current
           /\ t \in Tasks /\ ob[t] = q /\ kk.state[t] = "BLOCKED"
           /\ k2.state = [kk.state EXCEPT ![t] = "READY"]
           /\ KeepsOrder(kk, ob, k2, ob) /\ KeepsTime(kk, ob, k2, ob)
<1> DEFINE R  == ReadySet(kk)
           A  == Asleep(kk, ob)
           W  == Waiting(kk, ob)
           k1 == wq_pop(kk, q)
           k3 == [k1 EXCEPT !.result[t] = "OK"]
           k4 == br_time_sleep_list_remove(k3, t)
           k5 == [k4 EXCEPT !.wake[t] = 0]
<1>1. k2 = br_sched_ready(k5, t)
  BY DEF wake_waiter
<1>2. k1 = wq_pop(kk, q) /\ Listed(kk, R, A, W)
  BY DEF Sound
<1> HIDE DEF k1, R, A, W
<1>3. /\ k1 \in Kernel /\ t \in W[q] /\ Listed(k1, R, A, Left(W, q, t))
      /\ SameRest(kk, k1) /\ k1.state = kk.state
  BY <1>2, FirstWaiter
<1>4. t \in Tasks /\ kk.state[t] = "BLOCKED" /\ ob[t] = q
  BY <1>3 DEF W, Waiting
<1>5. k3 \in Kernel
  BY <1>3, <1>4 DEF Kernel
<1>6. /\ SameLists(k1, k3) /\ k3.state = k1.state /\ k3.hung = k1.hung
      /\ k3.current = k1.current /\ k3.lock = k1.lock /\ k3.wake = k1.wake
      /\ k3.priority = k1.priority /\ k3.alarm = k1.alarm
  BY DEF SameLists
<1>7. k3.result = [k1.result EXCEPT ![t] = "OK"]
  BY <1>3 DEF Kernel
<1>8. k4 = br_time_sleep_list_remove(k3, t)
  OBVIOUS
<1> HIDE DEF k3, k4
<1> DEFINE V == Left(W, q, t)
<1>9. Listed(k3, R, A, V)
  BY <1>3, <1>6, ListedFrame
<1>10. t \notin A
  BY <1>4 DEF A, Asleep
<1>11. Loose(t, R, A, V)
  <2>1. \A r \in WaitQueues : t \notin V[r]
    <3>1. \A r \in WaitQueues : V[r] = IF r = q THEN W[r] \ {t} ELSE W[r]
      BY DEF Left, W, Waiting
    <3>2. \A r \in WaitQueues : r # q => t \notin W[r]
      BY <1>4 DEF W, Waiting
    <3> QED BY <3>1, <3>2
  <2> QED BY <1>4, <1>10, <2>1 DEF Loose, R, ReadySet
<1> HIDE DEF V
<1>12. k4 = k3
  BY <1>4, <1>5, <1>8, <1>9, <1>10, SleepAbsent
<1>13. k5 \in Kernel
  <2>1. 0 \in 0 .. MaxTicks
    BY KernelAssumption
  <2> QED BY <1>4, <1>5, <1>12, <2>1 DEF Kernel
<1>14. /\ SameLists(k3, k5) /\ k5.state = k3.state /\ k5.hung = k3.hung
       /\ k5.current = k3.current /\ k5.lock = k3.lock /\ k5.result = k3.result
       /\ k5.priority = k3.priority /\ k5.alarm = k3.alarm
  BY <1>12 DEF SameLists
<1>15. k5.wake = [k3.wake EXCEPT ![t] = 0]
  BY <1>5, <1>12 DEF Kernel
<1> HIDE DEF k5
<1>16. Listed(k5, R, A, V)
  BY <1>9, <1>14, ListedFrame
<1>17. /\ Listed(k2, R \cup {t}, A, V) /\ SameRest(k5, k2)
       /\ k2.state = [k5.state EXCEPT ![t] = "READY"]
  BY <1>1, <1>11, <1>13, <1>16, ReadyLists
<1>18. Readies(kk, k2, ob, t)
  <2>1. kk.state \in [Tasks -> States] /\ kk.current \in Tasks \cup {NULL}
    BY DEF Kernel
  <2>2. kk.wake \in [Tasks -> 0 .. MaxTicks] /\ kk.result \in [Tasks -> {"OK", "TIMEOUT"}]
    BY DEF Kernel
  <2>3. k2.wake = [kk.wake EXCEPT ![t] = 0] /\ k2.result = [kk.result EXCEPT ![t] = "OK"]
    BY <1>3, <1>6, <1>7, <1>14, <1>15, <1>17 DEF SameRest
  <2>4. /\ \A u \in Tasks \ {t} : k2.wake[u] = kk.wake[u] /\ k2.result[u] = kk.result[u]
        /\ k2.result[t] = "OK"
    BY <1>4, <2>2, <2>3
  <2>5. /\ k2.state = [kk.state EXCEPT ![t] = "READY"]
        /\ k2.hung = kk.hung /\ k2.current = kk.current /\ k2.lock = kk.lock
    BY <1>3, <1>6, <1>14, <1>17 DEF SameRest
  <2> QED BY <1>4, <2>1, <2>4, <2>5 DEF Readies
<1>19. ob[t] # NULL
  BY <1>4
<1>20. ReadySet(k2) = R \cup {t} /\ Asleep(k2, ob) = A /\ Waiting(k2, ob) = V
  BY <1>4, <1>18, <1>19, NewlyReady DEF R, A, W, V
<1>21. Sound(k2, ob)
  BY <1>17, <1>18, <1>20, ReadiedSound
<1>22. \A x \in A : k5.wake[x] = kk.wake[x]
  <2>1. kk.wake \in [Tasks -> 0 .. MaxTicks] /\ k5.wake = [kk.wake EXCEPT ![t] = 0]
    BY <1>3, <1>6, <1>15 DEF Kernel, SameRest
  <2> QED BY <1>10, <2>1 DEF A, Asleep
<1>23. KeepsOrder(kk, ob, k2, ob)
  <2> DEFINE P == R \cup {t}
  <2>1. SameLists(k1, k5)
    BY <1>6, <1>14 DEF SameLists
  <2>2. SameRanks(k1, R, A, V, k5)
    BY <1>3, <1>6, <1>14, <1>22 DEF SameRanks, SameRest
  <2>3. OrderKept(kk, R, A, W, k1, R, A, V)
    BY <1>2, FirstWaiterOrder DEF V
  <2>4. Listed(k1, R, A, V)
    BY <1>3 DEF V
  <2>5. OrderKept(k1, R, A, V, k5, R, A, V)
    BY <2>1, <2>2, <2>4, OrderSame
  <2>6. OrderKept(k5, R, A, V, k2, P, A, V)
    BY <1>1, <1>11, <1>13, <1>16, ReadyOrder
  <2> HIDE DEF P
  <2>7. OrderKept(kk, R, A, W, k2, P, A, V)
    BY <2>3, <2>5, <2>6 DEF OrderKept
  <2> QED BY <1>20, <2>7 DEF KeepsOrder, R, A, W, P
<1>24. KeepsTime(kk, ob, k2, ob)
  <2>1. k2.alarm = kk.alarm /\ k2.wake = k5.wake
    BY <1>3, <1>6, <1>14, <1>17 DEF SameRest
  <2> QED BY <1>20, <1>22, <2>1 DEF KeepsTime, A
<1> QED BY <1>4, <1>18, <1>21, <1>23, <1>24 DEF Readies

\* A RUNNING task that returns from its call waits for nothing any more.
LEMMA ReturnSound ==
    ASSUME NEW kk \in Kernel, NEW ob, Sound(kk, ob),
           ob \in [Tasks -> WaitQueues \cup {NULL}],
           NEW t \in Tasks, kk.state[t] = "RUNNING",
           NEW o2, o2 = [ob EXCEPT ![t] = NULL]
    PROVE  /\ Sound(kk, o2)
           /\ KeepsOrder(kk, ob, kk, o2) /\ KeepsTime(kk, ob, kk, o2)
<1>1. \A u \in Tasks : o2[u] = IF u = t THEN NULL ELSE ob[u]
  OBVIOUS
<1>2. Asleep(kk, o2) = Asleep(kk, ob)
  BY <1>1 DEF Asleep
<1>3. ASSUME NEW q \in WaitQueues
      PROVE  {u \in Tasks : kk.state[u] = "BLOCKED" /\ o2[u] = q}
               = {u \in Tasks : kk.state[u] = "BLOCKED" /\ ob[u] = q}
  BY <1>1
<1>4. Waiting(kk, o2) = Waiting(kk, ob)
  BY <1>3 DEF Waiting
<1>5. NoTimeout(kk, o2)
  BY <1>1 DEF Sound, NoTimeout
<1>6. BlockedRunner(kk, o2)
  <2>1. kk.current \in Tasks \cup {NULL}
    BY DEF Kernel
  <2> QED BY <1>1, <2>1 DEF Sound, BlockedRunner
<1>7. KeepsOrder(kk, ob, kk, o2) /\ KeepsTime(kk, ob, kk, o2)
  BY <1>2, <1>4 DEF KeepsOrder, OrderKept, KeepsTime
<1> QED BY <1>2, <1>4, <1>5, <1>6, <1>7 DEF Sound

\* A change of a priority does not matter: a READY task stays queued, at the
\* old level.
LEMMA PrioritySound ==
    ASSUME NEW kk, NEW ob, Sound(kk, ob), NEW t, NEW p,
           NEW k2, k2 = [kk EXCEPT !.priority[t] = p]
    PROVE  /\ Sound(k2, ob) /\ k2.state = kk.state /\ k2.current = kk.current
           /\ k2.lock = kk.lock
<1>1. SameLists(kk, k2) /\ SameTasks(kk, k2)
  BY DEF SameLists, SameTasks
<1>2. k2.lock = kk.lock /\ k2.wake = kk.wake
  OBVIOUS
<1>3. BlockedRunner(k2, ob)
  BY <1>1, <1>2 DEF Sound, BlockedRunner, SameTasks
<1> QED BY <1>1, <1>2, <1>3, SoundFrame DEF SameTasks

\* The scheduler lock changes hands while the running task is RUNNING.
LEMMA LockSound ==
    ASSUME NEW kk, NEW ob, Sound(kk, ob), kk.state[kk.current] = "RUNNING",
           NEW n, NEW k2, k2 = [kk EXCEPT !.lock = n]
    PROVE  /\ Sound(k2, ob) /\ k2.state = kk.state /\ k2.current = kk.current
           /\ KeepsOrder(kk, ob, k2, ob) /\ KeepsTime(kk, ob, k2, ob)
           /\ KeepsOut(kk, k2)
<1>1. SameOrder(kk, k2) /\ k2.alarm = kk.alarm
  BY DEF SameOrder, SameLists, SameTasks
<1>2. BlockedRunner(k2, ob)
  BY <1>1 DEF BlockedRunner, SameOrder, SameTasks
<1> QED BY <1>1, <1>2, SoundFrame, KeepsFrame DEF SameOrder, SameTasks

\* Boot: the first task created is the idle task.
LEMMA IdleFirst ==
    ASSUME NEW kk \in Kernel, FreeSlots(kk) # {}, FirstFree(kk) # Idle
    PROVE  kk.state[Idle] # "INACTIVE"
<1>1. /\ FirstFree(kk) \in FreeSlots(kk)
      /\ \A u \in FreeSlots(kk) : FirstFree(kk) <= u
  <2>1. FreeSlots(kk) \subseteq Nat
    BY KernelAssumption DEF FreeSlots
  <2>2. \E t \in FreeSlots(kk) : \A u \in FreeSlots(kk) : t <= u
    BY <2>1, LeastNumber
  <2> QED BY <2>2 DEF FirstFree
<1>2. FirstFree(kk) \in Nat /\ FirstFree(kk) # 0
  BY <1>1, KernelAssumption DEF FreeSlots, Idle
<1>3. Idle \notin FreeSlots(kk)
  BY <1>1, <1>2 DEF Idle
<1> QED BY <1>3, IdleTask DEF FreeSlots

LEMMA CreateSound ==
    ASSUME NEW kk \in Kernel, NEW ob, Sound(kk, ob),
           kk.current = NULL, FreeSlots(kk) # {},
           NEW t, t = FirstFree(kk), NEW prio \in Priorities,
           NEW k2, k2 = br_sched_ready(InitTcb(kk, t, prio), t)
    PROVE  /\ Sound(k2, ob) /\ k2.current = NULL /\ SameBlocked(kk, k2)
           /\ KeepsOrder(kk, ob, k2, ob) /\ KeepsTime(kk, ob, k2, ob)
<1> DEFINE R  == ReadySet(kk)
           A  == Asleep(kk, ob)
           W  == Waiting(kk, ob)
           k1 == InitTcb(kk, t, prio)
<1>1. t \in Tasks /\ kk.state[t] = "INACTIVE"
  BY FirstFreeFound DEF FreeSlots
<1>2. Loose(t, R, A, W) /\ Listed(kk, R, A, W)
  BY <1>1, LooseTask DEF Sound
<1>3. k1 \in Kernel
  BY <1>1, TaskSectionsType
<1>4. SameLists(kk, k1)
  <2>1. kk.next[t] = NULL
    <3> HIDE DEF R, A, W
    <3> QED BY <1>1, <1>2 DEF Listed
  <2>2. kk.next = [kk.next EXCEPT ![t] = NULL]
    BY <1>1, <2>1 DEF Kernel, Links
  <2> QED BY <2>2 DEF SameLists, InitTcb
<1>5. /\ k1.state = kk.state /\ k1.current = kk.current /\ k1.hung = kk.hung
      /\ k1.result = kk.result /\ k1.alarm = kk.alarm
  BY DEF InitTcb
<1>6. k1 = InitTcb(kk, t, prio)
  OBVIOUS
<1>17. SameRanks(kk, R, A, W, k1)
  BY <1>1 DEF SameRanks, InitTcb, Kernel, ReadySet, Asleep, Waiting
<1> HIDE DEF k1, R, A, W
<1>7. Listed(k1, R, A, W)
  BY <1>2, <1>4, ListedFrame
<1>8. k2.state = [k1.state EXCEPT ![t] = "READY"]
  BY <1>3, <1>6 DEF br_sched_ready, PutReady, Kernel
<1>9. Listed(k2, R \cup {t}, A, W) /\ SameRest(k1, k2)
  BY <1>2, <1>3, <1>6, <1>7, ReadyLists
<1>10. \A u \in Tasks : k2.state[u] = IF u = t THEN "READY" ELSE kk.state[u]
  BY <1>1, <1>5, <1>8 DEF Kernel
<1>11. SameBlocked(kk, k2) /\ ReadySet(k2) = R \cup {t}
  BY <1>1, <1>10 DEF SameBlocked, ReadySet, R
<1>12. Asleep(k2, ob) = A /\ Waiting(k2, ob) = W
  BY <1>11, SameWaiting DEF A, W
<1>13. k2.current = NULL /\ ~k2.hung /\ k2.result = kk.result
  BY <1>5, <1>9 DEF SameRest, Sound
<1>14. OneRunner(k2)
  BY <1>10, <1>13 DEF Sound, OneRunner
<1>15. IdleRuns(k2)
  <2>1. t # Idle => kk.state[Idle] # "INACTIVE"
    BY IdleFirst
  <2>2. t # Idle => kk.state[Idle] \in {"READY", "RUNNING"}
    BY <2>1, IdleTask DEF Sound, IdleRuns
  <2>3. k2.state[Idle] \in {"READY", "RUNNING"}
    BY <1>10, <2>2, IdleTask
  <2> QED BY <2>3 DEF IdleRuns
<1>16. NoTimeout(k2, ob) /\ BlockedRunner(k2, ob)
  BY <1>13 DEF Sound, NoTimeout, BlockedRunner
<1>18. KeepsOrder(kk, ob, k2, ob)
  <2> DEFINE P == R \cup {t}
  <2>1. OrderKept(kk, R, A, W, k1, R, A, W)
    BY <1>2, <1>4, <1>17, OrderSame
  <2>2. OrderKept(k1, R, A, W, k2, P, A, W)
    BY <1>2, <1>3, <1>6, <1>7, ReadyOrder
  <2> HIDE DEF P
  <2>3. OrderKept(kk, R, A, W, k2, P, A, W)
    BY <2>1, <2>2 DEF OrderKept
  <2> QED BY <1>11, <1>12, <2>3 DEF KeepsOrder, R, A, W, P
<1>19. KeepsTime(kk, ob, k2, ob)
  BY <1>5, <1>9, <1>12, <1>17 DEF KeepsTime, SameRest, SameRanks, A
<1> QED BY <1>9, <1>11, <1>12, <1>13, <1>14, <1>15, <1>16, <1>18, <1>19 DEF Sound

\* br_sched_start dispatches the first task.
LEMMA StartSound ==
    ASSUME NEW kk \in Kernel, NEW ob, Sound(kk, ob),
           kk.current = NULL, ReadyLevels(kk) # {},
           NEW k2, k2 = br_sched_start(kk)
    PROVE  /\ Sound(k2, ob) /\ SameBlocked(kk, k2)
           /\ k2.state[k2.current] = "RUNNING"
           /\ KeepsOrder(kk, ob, k2, ob) /\ KeepsTime(kk, ob, k2, ob)
           /\ KeepsOut(kk, k2)
<1> DEFINE R  == ReadySet(kk)
           A  == Asleep(kk, ob)
           W  == Waiting(kk, ob)
           n  == NextTask(kk)
           k1 == pick_next(kk)
<1>1. n = NextTask(kk) /\ k1 = pick_next(kk) /\ k2 = Dispatch(k1, n)
  BY DEF br_sched_start
<1>2. Listed(kk, R, A, W)
  BY DEF Sound
<1> HIDE DEF n, k1, R, A, W
<1>3. /\ k1 \in Kernel /\ n \in R /\ Listed(k1, R \ {n}, A, W)
      /\ SameRest(kk, k1) /\ k1.state = kk.state
      /\ OrderKept(kk, R, A, W, k1, R \ {n}, A, W)
  BY <1>1, <1>2, PickLists, PickOrder
<1>4. n \in Tasks /\ kk.state[n] = "READY" /\ n # NULL
  BY <1>3, ListAssumption DEF R, ReadySet
<1> DEFINE P == R \ {n}
<1>5. Listed(k1, P, A, W) /\ OrderKept(kk, R, A, W, k1, P, A, W)
  BY <1>3
<1> HIDE DEF P
<1>6. /\ k2 \in Kernel /\ Listed(k2, P, A, W) /\ k2.current = n
      /\ k2.hung = k1.hung /\ k2.result = k1.result
      /\ k2.wake = k1.wake /\ k2.alarm = k1.alarm
      /\ OrderKept(k1, P, A, W, k2, P, A, W)
  <2>1. k1 \in Kernel /\ Listed(k1, P, A, W) /\ n \in Tasks /\ k2 = Dispatch(k1, n)
    BY <1>1, <1>3, <1>4, <1>5
  <2>2. /\ k2 \in Kernel /\ Listed(k2, P, A, W)
        /\ k2.state = [k1.state EXCEPT ![n] = "RUNNING"] /\ k2.current = n
        /\ k2.hung = k1.hung /\ k2.result = k1.result
        /\ k2.wake = k1.wake /\ k2.alarm = k1.alarm
        /\ OrderKept(k1, P, A, W, k2, P, A, W)
    BY <2>1, DispatchLists
  <2> QED BY <2>2
<1>7. k2.state = [kk.state EXCEPT ![n] = "RUNNING"]
  BY <1>1, <1>3 DEF Dispatch, Kernel
<1>8. \A u \in Tasks : k2.state[u] = IF u = n THEN "RUNNING" ELSE kk.state[u]
  BY <1>4, <1>7 DEF Kernel
<1>9. SameBlocked(kk, k2) /\ ReadySet(k2) = P
  BY <1>4, <1>8 DEF SameBlocked, ReadySet, R, P
<1>10. Asleep(k2, ob) = A /\ Waiting(k2, ob) = W
  BY <1>9, SameWaiting DEF A, W
<1>11. \A u \in Tasks : kk.state[u] # "RUNNING"
  BY ListAssumption DEF Sound, OneRunner
<1>12. OneRunner(k2) /\ k2.state[k2.current] = "RUNNING"
  BY <1>4, <1>6, <1>8, <1>11 DEF OneRunner
<1>13. IdleRuns(k2)
  BY <1>4, <1>8, IdleTask DEF Sound, IdleRuns
<1>14. ~k2.hung /\ NoTimeout(k2, ob) /\ BlockedRunner(k2, ob)
  BY <1>3, <1>6, <1>12 DEF Sound, NoTimeout, BlockedRunner, SameRest
<1>15. KeepsOrder(kk, ob, k2, ob)
  <2>1. OrderKept(kk, R, A, W, k2, P, A, W)
    BY <1>5, <1>6 DEF OrderKept
  <2> QED BY <1>9, <1>10, <2>1 DEF KeepsOrder, R, A, W
<1>16. KeepsTime(kk, ob, k2, ob)
  BY <1>3, <1>6, <1>10 DEF KeepsTime, SameRest, A
<1>17. KeepsOut(kk, k2)
  BY <1>4, <1>6, <1>8 DEF KeepsOut
<1> QED BY <1>6, <1>9, <1>10, <1>12, <1>13, <1>14, <1>15, <1>16, <1>17 DEF Sound

-------------------------------------------------------------------------------
(***************************************************************************)
(* The invariant of BrCpu: sound memory; a running task that has blocked   *)
(* itself is about to call reschedule; between calls a task waits for      *)
(* nothing.  It needs interrupts that do not wake a task in the window of  *)
(* its own blocking call, and tasks that do not block with the scheduler   *)
(* locked.                                                                 *)
(***************************************************************************)
Careful == ~WakeInWindow /\ ~BlockWhileLocked /\ NULL \notin WaitQueues

WindowCloses(kk, rs) ==
    kk.current # NULL /\ kk.state[kk.current] # "RUNNING" => rs[kk.current]

CpuSound ==
    /\ Sound(k, obj) /\ WindowCloses(k, resched)
    /\ \A t \in Tasks : pc[t] = "app" => obj[t] = NULL

\* Initially no task exists.
LEMMA EmptyQueue ==
    ASSUME NEW I, NEW h, NEW nx, \A i \in I : h[i] = NULL
    PROVE  Queue(I, h, nx, {})
BY DEF Queue, Within

LEMMA CpuInitSound ==
    ASSUME CpuInit, Careful
    PROVE  CpuSound
<1> DEFINE W == [q \in WaitQueues |-> {}]
<1>1. \A t \in Tasks : k.state[t] = "INACTIVE" /\ obj[t] = NULL /\ k.next[t] = NULL
  BY DEF CpuInit, InitialKernel
<1>2. ReadySet(k) = {} /\ Asleep(k, obj) = {} /\ Waiting(k, obj) = W
  BY <1>1 DEF ReadySet, Asleep, Waiting
<1>3. /\ \A p \in Priorities : k.ready[p] = NULL
      /\ k.sleep_list = NULL
      /\ \A q \in WaitQueues : k.wq[q] = NULL
  BY DEF CpuInit, InitialKernel
<1>4. /\ Queue(Priorities, k.ready, k.next, {})
      /\ Queue({NULL}, One(k.sleep_list), k.next, {})
      /\ \A q \in WaitQueues : Queue({NULL}, One(k.wq[q]), k.next, W[q])
  <2>1. One(k.sleep_list)[NULL] = NULL
    BY <1>3 DEF One
  <2>2. \A q \in WaitQueues : One(k.wq[q])[NULL] = NULL /\ W[q] = {}
    BY <1>3 DEF One
  <2> QED BY <1>3, <2>1, <2>2, EmptyQueue
<1>5. Listed(k, {}, {}, W)
  BY <1>1, <1>4 DEF Listed, Members, Apart
<1>6. k.current = NULL /\ ~k.hung
  BY DEF CpuInit, InitialKernel
<1>7. OneRunner(k) /\ IdleRuns(k) /\ NoTimeout(k, obj) /\ BlockedRunner(k, obj)
  BY <1>1, <1>6 DEF OneRunner, IdleRuns, NoTimeout, BlockedRunner
<1> QED BY <1>1, <1>2, <1>5, <1>6, <1>7 DEF CpuSound, Sound, WindowCloses

\* The running task between two calls is RUNNING.
LEMMA AppRuns ==
    ASSUME CpuTypeOK, CpuSound, NEW t \in Tasks, Running(t), ~resched[t]
    PROVE  k.current = t /\ k.state[t] = "RUNNING"
BY ListAssumption DEF Running, CpuSound, Sound, OneRunner, WindowCloses

\* Nobody sleeps past his time, and the alarm is not late for anybody.
Timed(kk, ob) ==
    \A x \in Asleep(kk, ob) :
        kk.wake[x] > 0 /\ kk.alarm # NULL /\ kk.alarm <= kk.wake[x]

LEMMA TimedKept ==
    ASSUME NEW kk, NEW ob, NEW k2, NEW o2, Timed(kk, ob), KeepsTime(kk, ob, k2, o2)
    PROVE  Timed(k2, o2)
BY DEF Timed, KeepsTime

\* A list that has a member has a first one.
LEMMA HeadThere ==
    ASSUME NEW h, NEW nx, NEW M, Queue({NULL}, One(h), nx, M), NEW x \in M
    PROVE  h # NULL
<1> SUFFICES ASSUME h = NULL PROVE FALSE
  OBVIOUS
<1>1. \A i \in {NULL} : Within({}, One(h)[i])
  BY DEF Within, One
<1>2. {} = M
  BY <1>1 DEF Queue
<1> QED BY <1>2

\* The alarm that reprogram_alarm sets is for the earliest deadline.
LEMMA Reprogrammed ==
    ASSUME NEW kk \in Kernel, NEW R, NEW A, NEW W, Listed(kk, R, A, W),
           ByWake(kk, A),
           kk.alarm = IF kk.sleep_list = NULL THEN NULL ELSE kk.wake[kk.sleep_list]
    PROVE  \A x \in A :
               kk.sleep_list # NULL /\ kk.alarm # NULL /\ kk.alarm <= kk.wake[x]
<1> SUFFICES ASSUME NEW x \in A
             PROVE  /\ kk.sleep_list # NULL /\ kk.alarm # NULL
                    /\ kk.alarm <= kk.wake[x]
  OBVIOUS
<1>1. Queue({NULL}, One(kk.sleep_list), kk.next, A) /\ A \in SUBSET Tasks
  BY DEF Listed, Members
<1>2. kk.sleep_list # NULL
  BY <1>1, HeadThere
<1>3. kk.sleep_list \in A /\ kk.wake[kk.sleep_list] <= kk.wake[x]
  <2>1. kk.wake \in [Tasks -> Nat]
    BY Ranks
  <2> QED BY <1>1, <1>2, <2>1, HeadLeast DEF ByWake
<1>4. kk.wake[kk.sleep_list] \in 0 .. MaxTicks
  BY <1>1, <1>3 DEF Kernel
<1> QED BY <1>2, <1>3, <1>4, KernelAssumption

\* What every step keeps of the order and of the time.
Keeps(kk, i1, k2, i2, ob) ==
    /\ KeepsOrder(kk, ob, k2, ob)
    /\ ByWake(kk, Asleep(kk, ob)) /\ (i1 = "none" => Timed(kk, ob))
         => (i2 = "none" => Timed(k2, ob))

LEMMA KeepsAll ==
    ASSUME NEW kk, NEW ob, NEW k2, NEW i, KeepsOrder(kk, ob, k2, ob),
           KeepsTime(kk, ob, k2, ob)
    PROVE  Keeps(kk, i, k2, i, ob)
BY TimedKept DEF Keeps

\* The steps other than main()'s calls of br_task_create.
CpuRuns ==
    \/ Start
    \/ \E t \in Tasks : \/ Reschedule(t)
                        \/ Yield(t)
                        \/ \E ticks \in 1 .. MaxTicks : Sleep(t, ticks)
                        \/ br_sched_lock(t)
                        \/ br_sched_unlock(t)
    \/ SysTick_Handler
    \/ AlarmWake
    \/ AlarmDone

\* Every step of BrCpu preserves the invariant, and wakes or blocks nobody
\* who waits on a queue.
LEMMA CpuNextSound ==
    ASSUME CpuTypes, CpuSound, CpuNext, Careful
    PROVE  /\ CpuSound' /\ SameWaiters(k, k', obj)
           /\ Keeps(k, isr, k', isr', obj)
           /\ CpuRuns => KeepsOut(k, k')
<1>0. /\ k \in Kernel /\ obj \in [Tasks -> WaitQueues \cup {NULL}]
      /\ resched \in [Tasks -> BOOLEAN] /\ NULL \notin WaitQueues
      /\ Sound(k, obj) /\ WindowCloses(k, resched)
  BY DEF CpuTypes, CpuTypeOK, CpuSound, Careful
<1> DEFINE CpuStep == /\ Sound(k', obj) /\ WindowCloses(k', resched')
                      /\ SameWaiters(k, k', obj)
                      /\ Keeps(k, isr, k', isr', obj)
<1> SUFFICES CpuStep /\ (CpuRuns => KeepsOut(k, k'))
  BY CpuNextFrame DEF CpuSound
<1>1. ASSUME NEW prio \in Priorities, BootCreate(prio)
      PROVE  CpuStep
  <2> DEFINE t == FirstFree(k)
  <2>1. /\ k.current = NULL /\ FreeSlots(k) # {}
        /\ k' = br_sched_ready(InitTcb(k, t, prio), t)
    BY <1>1 DEF BootCreate, Booting
  <2>2. t = FirstFree(k)
    OBVIOUS
  <2> HIDE DEF t
  <2>3. /\ Sound(k', obj) /\ k'.current = NULL /\ SameBlocked(k, k')
        /\ KeepsOrder(k, obj, k', obj) /\ KeepsTime(k, obj, k', obj)
    BY <1>0, <2>1, <2>2, CreateSound
  <2>4. isr' = isr
    BY <1>1 DEF BootCreate
  <2>5. Keeps(k, isr, k', isr', obj)
    BY <2>1, <2>3, <2>4, KeepsAll
  <2> QED BY <1>1, <2>3, <2>5 DEF WindowCloses, SameBlocked, SameWaiters
<1>2. ASSUME Start PROVE CpuStep /\ KeepsOut(k, k')
  <2>1. /\ Sound(k', obj) /\ SameBlocked(k, k')
        /\ k'.state[k'.current] = "RUNNING"
        /\ KeepsOrder(k, obj, k', obj) /\ KeepsTime(k, obj, k', obj)
        /\ KeepsOut(k, k')
    BY <1>0, <1>2, StartSound DEF Start, Booting
  <2>2. Keeps(k, isr, k', isr', obj)
    BY <1>2, <2>1, KeepsAll DEF Start, Booting
  <2> QED BY <2>1, <2>2 DEF WindowCloses, SameBlocked, SameWaiters
<1>3. ASSUME NEW t \in Tasks, Reschedule(t)
      PROVE  CpuStep /\ KeepsOut(k, k')
  <2>1. k' = br_sched_reschedule(k) /\ k.current \in Tasks
    BY <1>3 DEF Reschedule, Running
  <2>2. /\ Sound(k', obj) /\ SameBlocked(k, k')
        /\ k'.state[k'.current] = "RUNNING"
        /\ KeepsOrder(k, obj, k', obj) /\ KeepsTime(k, obj, k', obj)
        /\ KeepsOut(k, k')
    BY <1>0, <2>1, RescheduleSound
  <2>3. Keeps(k, isr, k', isr', obj)
    BY <1>3, <2>2, KeepsAll DEF Reschedule
  <2> QED BY <2>2, <2>3 DEF WindowCloses, SameBlocked, SameWaiters
<1>4. ASSUME NEW t \in Tasks, Yield(t)
      PROVE  CpuStep /\ KeepsOut(k, k')
  <2>1. Keeps(k, isr, k', isr', obj) /\ KeepsOut(k, k')
    BY <1>4 DEF Yield, InApp, Running, Keeps, KeepsOrder, OrderKept, KeepsOut
  <2> QED BY <1>0, <1>4, <2>1 DEF Yield, WindowCloses, InApp, Running, SameWaiters
<1>5. ASSUME NEW t \in Tasks, NEW ticks \in 1 .. MaxTicks, Sleep(t, ticks)
      PROVE  CpuStep /\ KeepsOut(k, k')
  <2>1. /\ Running(t) /\ ~resched[t] /\ pc[t] = "app" /\ t # Idle
        /\ k' = SleepSection(k, t, ticks)
        /\ resched' = [resched EXCEPT ![t] = TRUE]
    BY <1>5 DEF Sleep, InApp
  <2>2. k.current = t /\ k.state[t] = "RUNNING" /\ obj[t] = NULL
    BY <2>1, AppRuns DEF CpuTypes, CpuSound
  <2>3. k.lock = 0
    <3>1. k.lock \in 0 .. MaxLock
      BY <1>0 DEF Kernel
    <3>2. ~(k.lock > 0)
      BY <1>5 DEF Sleep, MayBlock, Careful
    <3> QED BY <3>1, <3>2, KernelAssumption
  <2>4. /\ Sound(k', obj) /\ k'.current = t /\ SameWaiters(k, k', obj)
        /\ KeepsOrder(k, obj, k', obj) /\ KeepsOut(k, k')
        /\ Asleep(k', obj) = Asleep(k, obj) \cup {t}
        /\ k'.wake = [k.wake EXCEPT ![t] = ticks]
    <3>1. PICK k2 : k2 = SleepSection(k, t, ticks) /\ k' = k2
      BY <2>1
    <3>2. k.state[t] = "RUNNING" /\ t = k.current
      BY <2>2
    <3> QED BY <1>0, <2>1, <2>2, <2>3, <3>1, <3>2, SleepSound
  <2>5. ByWake(k, Asleep(k, obj)) /\ Timed(k, obj) => Timed(k', obj)
    <3> SUFFICES ASSUME ByWake(k, Asleep(k, obj)), Timed(k, obj)
                 PROVE  Timed(k', obj)
      OBVIOUS
    <3>1. k'.alarm = IF k'.sleep_list = NULL THEN NULL ELSE k'.wake[k'.sleep_list]
      BY <2>1 DEF SleepSection, reprogram_alarm
    <3>2. k' \in Kernel
      BY <1>0, <2>1, SleepSectionType
    <3>3. ByWake(k', Asleep(k', obj))
      BY <2>4 DEF KeepsOrder, OrderKept
    <3>4. \A x \in Asleep(k', obj) : k'.alarm # NULL /\ k'.alarm <= k'.wake[x]
      BY <2>4, <3>1, <3>2, <3>3, Reprogrammed DEF Sound
    <3>5. k.wake \in [Tasks -> 0 .. MaxTicks] /\ ticks > 0
      BY <1>0 DEF Kernel
    <3>6. \A x \in Asleep(k', obj) : k'.wake[x] > 0
      BY <2>4, <3>5 DEF Timed, Asleep
    <3> QED BY <3>4, <3>6 DEF Timed
  <2>6. isr = "none" /\ isr' = isr
    BY <1>5 DEF Sleep, InApp, Running
  <2> QED BY <1>0, <2>1, <2>4, <2>5, <2>6 DEF WindowCloses, Keeps
<1>6. ASSUME NEW t \in Tasks, br_sched_lock(t) \/ br_sched_unlock(t)
      PROVE  CpuStep /\ KeepsOut(k, k')
  <2>1. Running(t) /\ ~resched[t]
    BY <1>6 DEF br_sched_lock, br_sched_unlock, InApp
  <2>2. k.current = t /\ k.state[t] = "RUNNING"
    BY <2>1, AppRuns DEF CpuTypes
  <2>3. PICK n : k' = [k EXCEPT !.lock = n]
    BY <1>6 DEF br_sched_lock, br_sched_unlock
  <2>4. /\ Sound(k', obj) /\ k'.state = k.state /\ k'.current = k.current
        /\ KeepsOrder(k, obj, k', obj) /\ KeepsTime(k, obj, k', obj)
        /\ KeepsOut(k, k')
    BY <1>0, <2>2, <2>3, LockSound
  <2>5. isr' = isr
    BY <1>6 DEF br_sched_lock, br_sched_unlock
  <2>6. Keeps(k, isr, k', isr', obj)
    BY <2>4, <2>5, KeepsAll
  <2> QED BY <2>2, <2>4, <2>6 DEF WindowCloses, SameWaiters
<1>7. ASSUME SysTick_Handler PROVE CpuStep /\ KeepsOut(k, k')
  <2> DEFINE k0 == Elapse(k)
             k1 == br_sched_tick(k0)
  <2>1. /\ k.current # NULL /\ k.state[k.current] = "BLOCKED"
           /\ obj[k.current] = NULL
        => k.wake[k.current] > 1
    <3> SUFFICES ASSUME k.current # NULL, k.state[k.current] = "BLOCKED",
                        obj[k.current] = NULL
                 PROVE  k.wake[k.current] > 1
      OBVIOUS
    <3>1. ~(k.wake[k.current] <= 1)
      BY <1>7 DEF SysTick_Handler, TickWakesCurrent, Careful
    <3>2. k.current \in Tasks
      BY <1>0 DEF Kernel
    <3>3. k.wake[k.current] \in 0 .. MaxTicks
      BY <1>0, <3>2 DEF Kernel
    <3> QED BY <3>1, <3>3, KernelAssumption
  <2>2. k0 = Elapse(k) /\ k0 \in Kernel
    BY <1>0, ElapseType
  <2>3. k1 = br_sched_tick(k0) /\ (k' = [k1 EXCEPT !.alarm = NULL] \/ k' = k1)
        /\ resched' = resched
    BY <1>7 DEF SysTick_Handler
  <2>8. isr = "none" /\ (isr' = "none" => ~AlarmDue(k1) /\ k' = k1)
    BY <1>7 DEF SysTick_Handler
  <2> HIDE DEF k0, k1
  <2>4. /\ Sound(k0, obj) /\ k0.state = k.state /\ k0.current = k.current
        /\ KeepsOrder(k, obj, k0, obj) /\ KeepsOut(k, k0)
    BY <1>0, <2>1, <2>2, ElapseSound
  <2>5. /\ Sound(k1, obj) /\ SameBlocked(k0, k1)
        /\ \/ k1.current = k0.current /\ k1.state = k0.state
           \/ k1.current \in Tasks /\ k1.state[k1.current] = "RUNNING"
        /\ KeepsOrder(k0, obj, k1, obj) /\ KeepsTime(k0, obj, k1, obj)
        /\ KeepsOut(k0, k1)
    BY <2>2, <2>3, <2>4, TickSound
  <2>6. /\ Sound(k', obj) /\ k'.state = k1.state /\ k'.current = k1.current
        /\ KeepsOrder(k1, obj, k', obj) /\ KeepsOut(k1, k')
    <3>1. CASE k' = [k1 EXCEPT !.alarm = NULL]
      BY <2>5, <3>1, AlarmSound
    <3>2. CASE k' = k1
      BY <2>5, <3>2 DEF KeepsOrder, OrderKept, KeepsOut
    <3> QED BY <2>3, <3>1, <3>2
  <2>7. SameWaiters(k, k', obj)
    BY <2>4, <2>5, <2>6 DEF SameBlocked, SameWaiters
  <2>9. KeepsOrder(k, obj, k', obj) /\ KeepsOut(k, k')
    BY <2>4, <2>5, <2>6, KeepsTransitive
  <2>10. ASSUME Timed(k, obj), isr' = "none"
         PROVE  Timed(k', obj)
    <3>1. /\ k' = k1 /\ k1.alarm = k0.alarm /\ ~AlarmDue(k1)
          /\ \A x \in Asleep(k1, obj) : x \in Asleep(k0, obj) /\ k1.wake[x] = k0.wake[x]
      BY <2>5, <2>8, <2>10 DEF KeepsTime
    <3> SUFFICES ASSUME NEW x \in Asleep(k1, obj)
                 PROVE  /\ k1.wake[x] > 0 /\ k1.alarm # NULL
                        /\ k1.alarm <= k1.wake[x]
      BY <3>1 DEF Timed
    <3>2. x \in Asleep(k, obj) /\ x \in Tasks
      BY <2>4, <3>1 DEF Asleep
    <3>3. /\ k.wake[x] \in 0 .. MaxTicks /\ k.wake[x] > 0
          /\ k.alarm \in 0 .. MaxTicks /\ k.alarm <= k.wake[x] /\ k.alarm # NULL
      BY <1>0, <2>10, <3>2 DEF Kernel, Timed
    <3>4. k0.wake[x] = Decrement(k.wake[x]) /\ k0.alarm = Decrement(k.alarm)
      BY <1>0, <2>2, <3>2, <3>3 DEF Elapse, Kernel
    <3>5. /\ Decrement(k.wake[x]) \in 0 .. MaxTicks
          /\ Decrement(k.alarm) \in 0 .. MaxTicks
          /\ Decrement(k.alarm) <= Decrement(k.wake[x])
      BY <3>3, KernelAssumption DEF Decrement
    <3>6. k1.alarm # NULL /\ k1.alarm # 0
      BY <3>1, <3>4, <3>5, KernelAssumption DEF AlarmDue
    <3> HIDE DEF Decrement
    <3> QED BY <3>1, <3>4, <3>5, <3>6, KernelAssumption
  <2>11. Keeps(k, isr, k', isr', obj)
    BY <2>8, <2>9, <2>10 DEF Keeps
  <2> QED BY <1>0, <2>3, <2>4, <2>5, <2>6, <2>7, <2>9, <2>11 DEF WindowCloses
<1>8. ASSUME AlarmWake PROVE CpuStep /\ KeepsOut(k, k')
  <2>1. Expired(k) /\ k' = WakeExpired(k) /\ resched' = resched
    BY <1>8 DEF AlarmWake
  <2>2. /\ Sound(k', obj) /\ k'.current = k.current
        /\ k.current # NULL => k'.state[k.current] = k.state[k.current]
        /\ SameWaiters(k, k', obj)
        /\ KeepsOrder(k, obj, k', obj) /\ KeepsTime(k, obj, k', obj)
        /\ KeepsOut(k, k')
    BY <1>0, <2>1, WakeExpiredSound
  <2>3. Keeps(k, isr, k', isr', obj)
    BY <1>8, <2>2, KeepsAll DEF AlarmWake
  <2> QED BY <1>0, <2>1, <2>2, <2>3 DEF WindowCloses
<1>9. ASSUME AlarmDone PROVE CpuStep /\ KeepsOut(k, k')
  <2> DEFINE k1 == reprogram_alarm(k)
  <2>1. k.current \in Tasks
    <3>1. k.current # NULL
      BY <1>9 DEF AlarmDone, CpuTypes, BootQuiet, Booting
    <3> QED BY <1>0, <3>1 DEF Kernel
  <2>2. k' = br_sched_reschedule(k1)
    BY <1>9 DEF AlarmDone
  <2>3. k1 \in Kernel
    BY <1>0, AlarmType
  <2>4. \E n : k1 = [k EXCEPT !.alarm = n]
    BY DEF reprogram_alarm
  <2>7. /\ k1.alarm = IF k1.sleep_list = NULL THEN NULL ELSE k1.wake[k1.sleep_list]
        /\ k1.sleep_list = k.sleep_list /\ k1.wake = k.wake /\ ~Expired(k)
    BY <1>9, <1>0 DEF reprogram_alarm, AlarmDone, Kernel
  <2> HIDE DEF k1
  <2>5. /\ Sound(k1, obj) /\ k1.current = k.current /\ k1.state = k.state
        /\ KeepsOrder(k, obj, k1, obj) /\ KeepsOut(k, k1)
    BY <1>0, <2>4, AlarmSound
  <2>6. /\ Sound(k', obj) /\ SameBlocked(k1, k')
        /\ k'.state[k'.current] = "RUNNING"
        /\ KeepsOrder(k1, obj, k', obj) /\ KeepsTime(k1, obj, k', obj)
        /\ KeepsOut(k1, k')
    BY <2>1, <2>2, <2>3, <2>5, RescheduleSound
  <2>8. ASSUME ByWake(k, Asleep(k, obj))
        PROVE  Timed(k', obj)
    <3>1. ByWake(k1, Asleep(k1, obj))
      BY <2>5, <2>8 DEF KeepsOrder, OrderKept
    <3>2. \A x \in Asleep(k1, obj) :
             k1.sleep_list # NULL /\ k1.alarm # NULL /\ k1.alarm <= k1.wake[x]
      BY <2>3, <2>5, <2>7, <3>1, Reprogrammed DEF Sound
    <3>3. ASSUME NEW x \in Asleep(k1, obj)
          PROVE  k1.wake[x] > 0
      <4>1. k1.sleep_list \in Tasks /\ x \in Tasks /\ k1.sleep_list # NULL
        BY <2>3, <3>2, <3>3 DEF Kernel, Asleep
      <4>2. k1.wake[k1.sleep_list] \in 0 .. MaxTicks /\ k1.wake[x] \in 0 .. MaxTicks
        BY <2>3, <4>1 DEF Kernel
      <4>3. k1.wake[k1.sleep_list] # 0
        BY <2>7, <4>1 DEF Expired
      <4>4. k1.wake[k1.sleep_list] <= k1.wake[x]
        BY <2>7, <3>2, <3>3, <4>1
      <4> QED BY <4>2, <4>3, <4>4, KernelAssumption
    <3>4. Timed(k1, obj)
      BY <3>2, <3>3 DEF Timed
    <3> QED BY <2>6, <3>4, TimedKept
  <2>9. Keeps(k, isr, k', isr', obj) /\ KeepsOut(k, k')
    BY <2>5, <2>6, <2>8, KeepsTransitive DEF Keeps
  <2> QED BY <2>5, <2>6, <2>9 DEF WindowCloses, SameBlocked, SameWaiters
<1>10. CpuRuns => CpuStep /\ KeepsOut(k, k')
  BY <1>2, <1>3, <1>4, <1>5, <1>6, <1>7, <1>8, <1>9 DEF CpuRuns
<1>11. CpuRuns \/ \E prio \in Priorities : BootCreate(prio)
  BY DEF CpuRuns, CpuNext
<1> QED BY <1>1, <1>10, <1>11

\* The order of the system's lists.
InOrder ==
    /\ Levels(k, ReadySet(k))
    /\ ByWake(k, Asleep(k, obj))
    /\ ByPriority(k, Waiting(k, obj))

OnTime == isr = "none" => Timed(k, obj)

LEMMA InitOrder == CpuInit => InOrder /\ OnTime
<1> SUFFICES ASSUME CpuInit PROVE InOrder /\ OnTime
  OBVIOUS
<1>1. /\ \A t \in Tasks : k.state[t] = "INACTIVE" /\ k.next[t] = NULL
      /\ \A p \in Priorities : k.ready[p] = NULL
  BY DEF CpuInit, InitialKernel
<1> QED BY <1>1 DEF InOrder, OnTime, Timed, Levels, Leveled, ByWake, ByPriority,
                    Sorted, ReadySet, Asleep, Waiting

LEMMA OrderStep ==
    ASSUME InOrder, KeepsOrder(k, obj, k', obj')
    PROVE  InOrder'
BY DEF InOrder, KeepsOrder, OrderKept

-------------------------------------------------------------------------------
(***************************************************************************)
(* Task management.  br_sched_unready finds a READY task only because the  *)
(* ready queues are in order: these lemmas need Levels.                    *)
(***************************************************************************)
\* Task u leaves the lists it is on and enters none.
Detached(kk, ob, k1, u) ==
    /\ k1 \in Kernel /\ SameRest(kk, k1) /\ k1.state = kk.state
    /\ Listed(k1, ReadySet(kk) \ {u}, Asleep(kk, ob) \ {u}, Waiting(kk, ob))
    /\ OrderKept(kk, ReadySet(kk), Asleep(kk, ob), Waiting(kk, ob),
                 k1, ReadySet(kk) \ {u}, Asleep(kk, ob) \ {u}, Waiting(kk, ob))

LEMMA DetachLists ==
    ASSUME NEW kk \in Kernel, NEW ob, Sound(kk, ob), Levels(kk, ReadySet(kk)),
           NEW u \in Tasks, kk.state[u] = "BLOCKED" => ob[u] = NULL,
           NEW k1,
           \/ kk.state[u] = "READY" /\ k1 = br_sched_unready(kk, u)
           \/ kk.state[u] = "BLOCKED" /\ k1 = br_time_sleep_list_remove(kk, u)
           \/ kk.state[u] \notin {"READY", "BLOCKED"} /\ k1 = kk
    PROVE  Detached(kk, ob, k1, u)
<1> DEFINE R == ReadySet(kk)
           A == Asleep(kk, ob)
           W == Waiting(kk, ob)
           P == R \ {u}
           B == A \ {u}
<1>1. Listed(kk, R, A, W)
  BY DEF Sound
<1>2. /\ u \in R <=> kk.state[u] = "READY"
      /\ u \in A <=> kk.state[u] = "BLOCKED"
  BY DEF ReadySet, Asleep
<1>3. /\ kk.state[u] # "READY" => P = R
      /\ kk.state[u] # "BLOCKED" => B = A
  BY <1>2
<1> SUFFICES /\ k1 \in Kernel /\ SameRest(kk, k1) /\ k1.state = kk.state
             /\ Listed(k1, P, B, W) /\ OrderKept(kk, R, A, W, k1, P, B, W)
  BY DEF Detached
<1>4. CASE kk.state[u] = "READY" /\ k1 = br_sched_unready(kk, u)
  <2>1. u \in R /\ Levels(kk, R)
    BY <1>2, <1>4
  <2>2. P = R \ {u} /\ B = A
    BY <1>3, <1>4
  <2> HIDE DEF R, A, W, P, B
  <2> QED BY <1>1, <1>4, <2>1, <2>2, UnreadyLists
<1>5. CASE kk.state[u] = "BLOCKED" /\ k1 = br_time_sleep_list_remove(kk, u)
  <2>1. u \in A
    BY <1>2, <1>5
  <2>2. P = R /\ B = A \ {u}
    BY <1>3, <1>5
  <2> HIDE DEF R, A, W, P, B
  <2> QED BY <1>1, <1>5, <2>1, <2>2, UnsleepLists
<1>6. CASE kk.state[u] \notin {"READY", "BLOCKED"} /\ k1 = kk
  <2>1. P = R /\ B = A
    BY <1>3, <1>6
  <2> HIDE DEF R, A, W, P, B
  <2> QED BY <1>1, <1>6, <2>1 DEF SameRest, OrderKept
<1> QED BY <1>4, <1>5, <1>6

\* Setting a state does not touch the order.
LEMMA StateOrder ==
    ASSUME NEW kk, NEW R, NEW A, NEW W, Listed(kk, R, A, W),
           NEW k2, SameLists(kk, k2), k2.wake = kk.wake, k2.priority = kk.priority
    PROVE  Listed(k2, R, A, W) /\ OrderKept(kk, R, A, W, k2, R, A, W)
<1>1. SameRanks(kk, R, A, W, k2)
  BY DEF SameRanks
<1> QED BY <1>1, ListedFrame, OrderSame

\* br_task_suspend of a task that is not BLOCKED; of the caller only with the
\* scheduler unlocked.
LEMMA SuspendSound ==
    ASSUME NEW kk \in Kernel, NEW ob, Sound(kk, ob), Levels(kk, ReadySet(kk)),
           NEW u \in Tasks, u # Idle,
           kk.state[u] \in {"READY", "RUNNING", "SUSPENDED"},
           kk.state[u] = "RUNNING" => kk.lock = 0,
           NEW k2, k2 = SuspendSection(kk, u)
    PROVE  /\ Sound(k2, ob) /\ k2.current = kk.current
           /\ k2.state = [kk.state EXCEPT ![u] = "SUSPENDED"]
           /\ KeepsOrder(kk, ob, k2, ob) /\ KeepsTime(kk, ob, k2, ob)
<1> DEFINE R  == ReadySet(kk)
           A  == Asleep(kk, ob)
           W  == Waiting(kk, ob)
           P  == R \ {u}
           k1 == IF kk.state[u] = "READY" THEN br_sched_unready(kk, u) ELSE kk
<1>1. Detached(kk, ob, k1, u)
  <2>1. \/ kk.state[u] = "READY" /\ k1 = br_sched_unready(kk, u)
        \/ kk.state[u] \notin {"READY", "BLOCKED"} /\ k1 = kk
    OBVIOUS
  <2> HIDE DEF k1
  <2> QED BY <2>1, DetachLists
<1>2. A \ {u} = A
  BY DEF Asleep
<1>3. k2 = [k1 EXCEPT !.state[u] = "SUSPENDED"]
  BY DEF SuspendSection
<1> HIDE DEF k1
<1>4. /\ k1 \in Kernel /\ SameRest(kk, k1) /\ k1.state = kk.state
      /\ Listed(k1, P, A, W) /\ OrderKept(kk, R, A, W, k1, P, A, W)
  BY <1>1, <1>2 DEF Detached
<1>5. /\ SameLists(k1, k2) /\ SameRest(k1, k2)
      /\ k2.state = [kk.state EXCEPT ![u] = "SUSPENDED"]
  BY <1>3, <1>4 DEF SameLists, SameRest, Kernel
<1>6. \A x \in Tasks : k2.state[x] = IF x = u THEN "SUSPENDED" ELSE kk.state[x]
  BY <1>5 DEF Kernel
<1>7. ReadySet(k2) = P /\ SameBlocked(kk, k2)
  BY <1>6 DEF ReadySet, SameBlocked
<1>8. Asleep(k2, ob) = A /\ Waiting(k2, ob) = W
  BY <1>7, SameWaiting
<1>9. /\ k2.current = kk.current /\ k2.lock = kk.lock /\ k2.hung = kk.hung
      /\ k2.wake = kk.wake /\ k2.result = kk.result /\ k2.alarm = kk.alarm
  BY <1>4, <1>5 DEF SameRest
<1> HIDE DEF R, A, W, P
<1>10. Listed(k2, P, A, W) /\ OrderKept(kk, R, A, W, k2, P, A, W)
  <2>1. Listed(k2, P, A, W) /\ OrderKept(k1, P, A, W, k2, P, A, W)
    BY <1>4, <1>5, StateOrder DEF SameRest
  <2> QED BY <1>4, <2>1 DEF OrderKept
<1>11. kk.current # NULL => kk.current \in Tasks
  BY DEF Kernel
<1>12. OneRunner(k2) /\ IdleRuns(k2)
  BY <1>6, <1>9, <1>11, IdleTask DEF Sound, OneRunner, IdleRuns
<1>13. BlockedRunner(k2, ob)
  BY <1>6, <1>9, <1>11 DEF Sound, BlockedRunner, OneRunner
<1>14. NoTimeout(k2, ob) /\ ~k2.hung
  BY <1>9 DEF Sound, NoTimeout
<1>15. KeepsOrder(kk, ob, k2, ob)
  BY <1>7, <1>8, <1>10 DEF KeepsOrder, R, A, W
<1>16. KeepsTime(kk, ob, k2, ob)
  BY <1>8, <1>9 DEF KeepsTime, A
<1> QED BY <1>5, <1>7, <1>8, <1>9, <1>10, <1>12, <1>13, <1>14, <1>15, <1>16 DEF Sound

\* br_task_delete of another task that waits for no object.
LEMMA DeleteSound ==
    ASSUME NEW kk \in Kernel, NEW ob, Sound(kk, ob), Levels(kk, ReadySet(kk)),
           NEW u \in Tasks, u # Idle, u # kk.current,
           kk.state[u] = "BLOCKED" => ob[u] = NULL, NULL \notin WaitQueues,
           NEW k2, k2 = DeleteSection(kk, u)
    PROVE  /\ Sound(k2, ob) /\ k2.current = kk.current
           /\ k2.state = [kk.state EXCEPT ![u] = "INACTIVE"]
           /\ KeepsOrder(kk, ob, k2, ob) /\ KeepsTime(kk, ob, k2, ob)
<1> DEFINE R  == ReadySet(kk)
           A  == Asleep(kk, ob)
           W  == Waiting(kk, ob)
           P  == R \ {u}
           B  == A \ {u}
           k1 == CASE kk.state[u] = "READY"   -> br_sched_unready(kk, u)
                   [] kk.state[u] = "BLOCKED" -> br_time_sleep_list_remove(kk, u)
                   [] OTHER                   -> kk
<1>1. Detached(kk, ob, k1, u)
  <2>1. \/ kk.state[u] = "READY" /\ k1 = br_sched_unready(kk, u)
        \/ kk.state[u] = "BLOCKED" /\ k1 = br_time_sleep_list_remove(kk, u)
        \/ kk.state[u] \notin {"READY", "BLOCKED"} /\ k1 = kk
    OBVIOUS
  <2> HIDE DEF k1
  <2> QED BY <2>1, DetachLists
<1>3. k2 = [k1 EXCEPT !.state[u] = "INACTIVE", !.next[u] = NULL]
  BY DEF DeleteSection
<1> HIDE DEF k1
<1>4. /\ k1 \in Kernel /\ SameRest(kk, k1) /\ k1.state = kk.state
      /\ Listed(k1, P, B, W) /\ OrderKept(kk, R, A, W, k1, P, B, W)
  BY <1>1 DEF Detached
<1>2. k1.next[u] = NULL
  <2>1. Loose(u, P, B, W)
    <3>1. \A q \in WaitQueues : u \notin W[q]
      BY DEF Waiting
    <3> QED BY <3>1 DEF Loose
  <2> HIDE DEF P, B, W
  <2> QED BY <1>4, <2>1 DEF Listed
<1>5. /\ SameLists(k1, k2) /\ SameRest(k1, k2)
      /\ k2.state = [kk.state EXCEPT ![u] = "INACTIVE"]
  <2>1. k1.next = [k1.next EXCEPT ![u] = NULL]
    BY <1>2, <1>4 DEF Kernel, Links
  <2> QED BY <1>3, <1>4, <2>1 DEF SameLists, SameRest, Kernel
<1>6. \A x \in Tasks : k2.state[x] = IF x = u THEN "INACTIVE" ELSE kk.state[x]
  BY <1>5 DEF Kernel
<1>7. ReadySet(k2) = P /\ Asleep(k2, ob) = B
  BY <1>6 DEF ReadySet, Asleep
<1>8. Waiting(k2, ob) = W
  <2>1. CASE kk.state[u] # "BLOCKED"
    <3>1. SameBlocked(kk, k2)
      BY <1>6, <2>1 DEF SameBlocked
    <3> QED BY <3>1, SameWaiting
  <2>2. CASE ob[u] = NULL
    <3>1. ASSUME NEW q \in WaitQueues
          PROVE  {t \in Tasks : k2.state[t] = "BLOCKED" /\ ob[t] = q}
                   = {t \in Tasks : kk.state[t] = "BLOCKED" /\ ob[t] = q}
      BY <1>6, <2>2
    <3> QED BY <3>1 DEF Waiting
  <2> QED BY <2>1, <2>2
<1>9. /\ k2.current = kk.current /\ k2.lock = kk.lock /\ k2.hung = kk.hung
      /\ k2.wake = kk.wake /\ k2.result = kk.result /\ k2.alarm = kk.alarm
  BY <1>4, <1>5 DEF SameRest
<1> HIDE DEF R, A, W, P, B
<1>10. Listed(k2, P, B, W) /\ OrderKept(kk, R, A, W, k2, P, B, W)
  <2>1. Listed(k2, P, B, W) /\ OrderKept(k1, P, B, W, k2, P, B, W)
    BY <1>4, <1>5, StateOrder DEF SameRest
  <2> QED BY <1>4, <2>1 DEF OrderKept
<1>11. kk.current # NULL => kk.current \in Tasks
  BY DEF Kernel
<1>12. OneRunner(k2) /\ IdleRuns(k2)
  BY <1>6, <1>9, <1>11, IdleTask DEF Sound, OneRunner, IdleRuns
<1>13. BlockedRunner(k2, ob)
  BY <1>6, <1>9, <1>11 DEF Sound, BlockedRunner
<1>14. NoTimeout(k2, ob) /\ ~k2.hung
  BY <1>9 DEF Sound, NoTimeout
<1>15. KeepsOrder(kk, ob, k2, ob)
  BY <1>7, <1>8, <1>10 DEF KeepsOrder, R, A, W
<1>16. KeepsTime(kk, ob, k2, ob)
  BY <1>7, <1>9 DEF KeepsTime, A, B
<1> QED BY <1>5, <1>7, <1>8, <1>9, <1>10, <1>12, <1>13, <1>14, <1>15, <1>16 DEF Sound

\* br_sched_ready of a task that is SUSPENDED or has just got its slot.
LEMMA EnterSound ==
    ASSUME NEW kk \in Kernel, NEW ob, Sound(kk, ob), kk.current # NULL,
           NEW u \in Tasks, u # kk.current,
           kk.state[u] \in {"SUSPENDED", "INACTIVE"},
           NEW k2, k2 = br_sched_ready(kk, u)
    PROVE  /\ Sound(k2, ob) /\ k2.current = kk.current
           /\ k2.state = [kk.state EXCEPT ![u] = "READY"]
           /\ KeepsOrder(kk, ob, k2, ob) /\ KeepsTime(kk, ob, k2, ob)
<1> DEFINE R == ReadySet(kk)
           A == Asleep(kk, ob)
           W == Waiting(kk, ob)
           P == R \cup {u}
<1>1. Listed(kk, R, A, W) /\ Loose(u, R, A, W)
  BY LooseTask DEF Sound
<1>2. P = R \cup {u}
  OBVIOUS
<1> HIDE DEF R, A, W, P
<1>3. /\ Listed(k2, P, A, W) /\ SameRest(kk, k2)
      /\ k2.state = [kk.state EXCEPT ![u] = "READY"]
      /\ OrderKept(kk, R, A, W, k2, P, A, W)
  BY <1>1, <1>2, ReadyLists, ReadyOrder
<1>4. \A x \in Tasks : k2.state[x] = IF x = u THEN "READY" ELSE kk.state[x]
  BY <1>3 DEF Kernel
<1>5. ReadySet(k2) = P /\ SameBlocked(kk, k2)
  BY <1>2, <1>4 DEF ReadySet, SameBlocked, R
<1>6. Asleep(k2, ob) = A /\ Waiting(k2, ob) = W
  BY <1>5, SameWaiting DEF A, W
<1>7. /\ k2.current = kk.current /\ k2.lock = kk.lock /\ k2.hung = kk.hung
      /\ k2.wake = kk.wake /\ k2.result = kk.result /\ k2.alarm = kk.alarm
  BY <1>3 DEF SameRest
<1>8. kk.current \in Tasks /\ kk.state[Idle] \in {"READY", "RUNNING"}
  <2>1. kk.current \in Tasks
    BY DEF Kernel
  <2>2. kk.state[kk.current] # "INACTIVE"
    BY DEF Sound, OneRunner
  <2> QED BY <2>1, <2>2 DEF Sound, IdleRuns
<1>9. OneRunner(k2) /\ IdleRuns(k2)
  BY <1>4, <1>7, <1>8, IdleTask DEF Sound, OneRunner, IdleRuns
<1>10. BlockedRunner(k2, ob)
  BY <1>4, <1>7, <1>8 DEF Sound, BlockedRunner
<1>11. NoTimeout(k2, ob) /\ ~k2.hung
  BY <1>7 DEF Sound, NoTimeout
<1>12. KeepsOrder(kk, ob, k2, ob)
  BY <1>3, <1>5, <1>6 DEF KeepsOrder, R, A, W
<1>13. KeepsTime(kk, ob, k2, ob)
  BY <1>6, <1>7 DEF KeepsTime, A
<1> QED BY <1>3, <1>5, <1>6, <1>7, <1>9, <1>10, <1>11, <1>12, <1>13 DEF Sound

\* The slot that br_task_create fills is on no list.
FilledSlot(kk, ob, u, prio, k2, o2) ==
    /\ ob \in [Tasks -> WaitQueues \cup {NULL}] /\ kk.state[u] = "INACTIVE"
    /\ k2 = InitTcb(kk, u, prio) /\ o2 = [ob EXCEPT ![u] = NULL]

LEMMA FillSound ==
    ASSUME NEW kk \in Kernel, NEW ob, Sound(kk, ob), NEW u \in Tasks,
           NEW prio, NEW k2, NEW o2, FilledSlot(kk, ob, u, prio, k2, o2)
    PROVE  /\ Sound(k2, o2) /\ k2.current = kk.current /\ k2.state = kk.state
           /\ KeepsOrder(kk, ob, k2, o2) /\ KeepsTime(kk, ob, k2, o2)
<1> DEFINE R == ReadySet(kk)
           A == Asleep(kk, ob)
           W == Waiting(kk, ob)
<1> USE DEF FilledSlot
<1>1. Listed(kk, R, A, W) /\ Loose(u, R, A, W)
  BY LooseTask DEF Sound
<1>2. kk.next[u] = NULL
  <2> HIDE DEF R, A, W
  <2> QED BY <1>1 DEF Listed
<1>3. SameLists(kk, k2)
  <2>1. kk.next = [kk.next EXCEPT ![u] = NULL]
    BY <1>2 DEF Kernel, Links
  <2> QED BY <2>1 DEF InitTcb, SameLists
<1>4. /\ k2.current = kk.current /\ k2.lock = kk.lock /\ k2.hung = kk.hung
      /\ k2.state = kk.state /\ k2.result = kk.result /\ k2.alarm = kk.alarm
      /\ k2.wake = [kk.wake EXCEPT ![u] = 0]
      /\ k2.priority = [kk.priority EXCEPT ![u] = prio]
  BY DEF InitTcb, Kernel
<1>5. \A x \in Tasks : /\ x # u => k2.wake[x] = kk.wake[x]
                       /\ x # u => k2.priority[x] = kk.priority[x]
                       /\ o2[x] = IF x = u THEN NULL ELSE ob[x]
  BY <1>4 DEF Kernel
<1>6. SameRanks(kk, R, A, W, k2)
  BY <1>5 DEF SameRanks, ReadySet, Asleep, Waiting
<1>7. ReadySet(k2) = R /\ Asleep(k2, o2) = A
  BY <1>4, <1>5 DEF ReadySet, Asleep
<1>8. Waiting(k2, o2) = W
  <2>1. ASSUME NEW q \in WaitQueues
        PROVE  {t \in Tasks : k2.state[t] = "BLOCKED" /\ o2[t] = q}
                 = {t \in Tasks : kk.state[t] = "BLOCKED" /\ ob[t] = q}
    BY <1>4, <1>5
  <2> QED BY <2>1 DEF Waiting
<1>9. Listed(k2, R, A, W) /\ OrderKept(kk, R, A, W, k2, R, A, W)
  <2> HIDE DEF R, A, W
  <2> QED BY <1>1, <1>3, <1>6, ListedFrame, OrderSame
<1>10. OneRunner(k2) /\ IdleRuns(k2) /\ NoTimeout(k2, o2) /\ ~k2.hung
  BY <1>4, <1>5 DEF Sound, OneRunner, IdleRuns, NoTimeout
<1>11. BlockedRunner(k2, o2)
  <2>1. kk.current # NULL => kk.current \in Tasks /\ kk.current # u
    BY DEF Kernel, Sound, OneRunner
  <2> QED BY <1>4, <1>5, <2>1 DEF Sound, BlockedRunner
<1>12. KeepsOrder(kk, ob, k2, o2)
  BY <1>7, <1>8, <1>9 DEF KeepsOrder
<1>13. KeepsTime(kk, ob, k2, o2)
  BY <1>4, <1>5, <1>7 DEF KeepsTime, Asleep
<1> QED BY <1>4, <1>7, <1>8, <1>9, <1>10, <1>11, <1>12, <1>13 DEF Sound

-------------------------------------------------------------------------------
(***************************************************************************)
(* What sound memory means for the properties of BrCpu.                    *)
(***************************************************************************)
\* A link that is not NULL goes from one member of a list to another.
LEMMA LinkInList ==
    ASSUME NEW R, NEW A, NEW W, Listed(k, R, A, W),
           NEW x \in Tasks, k.next[x] # NULL
    PROVE  \/ x \in R /\ k.next[x] \in R
           \/ x \in A /\ k.next[x] \in A
           \/ \E q \in WaitQueues : x \in W[q] /\ k.next[x] \in W[q]
<1>1. x \in R \/ x \in A \/ \E q \in WaitQueues : x \in W[q]
  BY DEF Listed, Loose
<1>2. \A I, h, Mem : Queue(I, h, k.next, Mem) /\ x \in Mem => k.next[x] \in Mem
  BY DEF Queue, Within
<1> QED BY <1>1, <1>2 DEF Listed

\* Well-formed lists that have no member in common share no cell.
LEMMA ListsApart ==
    ASSUME k \in Kernel, NEW R, NEW A, NEW W, Listed(k, R, A, W)
    PROVE  SingleLink
<1>1. /\ \A p \in Priorities : k.ready[p] # NULL => k.ready[p] \in R
      /\ \A p, r \in Priorities : k.ready[p] = k.ready[r] => p = r \/ k.ready[p] = NULL
      /\ \A p \in Priorities, x \in R : k.ready[p] = NULL \/ k.ready[p] # k.next[x]
      /\ \A x, y \in R : k.next[x] = k.next[y] => x = y \/ k.next[x] = NULL
  <2>1. Queue(Priorities, k.ready, k.next, R)
    BY DEF Listed
  <2> QED BY <2>1 DEF Queue, Within
<1>2. /\ k.sleep_list # NULL => k.sleep_list \in A
      /\ \A x \in A : k.sleep_list = NULL \/ k.sleep_list # k.next[x]
      /\ \A x, y \in A : k.next[x] = k.next[y] => x = y \/ k.next[x] = NULL
  <2>1. Queue({NULL}, One(k.sleep_list), k.next, A)
    BY DEF Listed
  <2>2. One(k.sleep_list)[NULL] = k.sleep_list
    BY DEF One
  <2> QED BY <2>1, <2>2 DEF Queue, Within
<1>3. ASSUME NEW q \in WaitQueues
      PROVE  /\ k.wq[q] # NULL => k.wq[q] \in W[q]
             /\ \A x \in W[q] : k.wq[q] = NULL \/ k.wq[q] # k.next[x]
             /\ \A x, y \in W[q] : k.next[x] = k.next[y] => x = y \/ k.next[x] = NULL
  <2>1. Queue({NULL}, One(k.wq[q]), k.next, W[q])
    BY DEF Listed
  <2>2. One(k.wq[q])[NULL] = k.wq[q]
    BY DEF One
  <2> QED BY <2>1, <2>2 DEF Queue, Within
<1>4. /\ R \cap A = {}
      /\ \A q \in WaitQueues : W[q] \cap R = {} /\ W[q] \cap A = {}
      /\ \A q, r \in WaitQueues : q # r => W[q] \cap W[r] = {}
  BY DEF Listed, Apart
<1>5. \A x \in Tasks : k.next[x] # NULL =>
          \/ x \in R /\ k.next[x] \in R
          \/ x \in A /\ k.next[x] \in A
          \/ \E q \in WaitQueues : x \in W[q] /\ k.next[x] \in W[q]
  BY LinkInList
<1>6. ASSUME NEW x \in Tasks, NEW y \in Tasks, k.next[x] = k.next[y],
             k.next[x] # NULL
      PROVE  x = y
  <2>1. CASE x \in R /\ k.next[x] \in R
    <3>1. y \in R
      BY <1>4, <1>5, <1>6, <2>1
    <3> QED BY <1>1, <1>6, <2>1, <3>1
  <2>2. CASE x \in A /\ k.next[x] \in A
    <3>1. y \in A
      BY <1>4, <1>5, <1>6, <2>2
    <3> QED BY <1>2, <1>6, <2>2, <3>1
  <2>3. ASSUME NEW q \in WaitQueues, x \in W[q], k.next[x] \in W[q]
        PROVE  x = y
    <3>1. y \in W[q]
      BY <1>4, <1>5, <1>6, <2>3
    <3> QED BY <1>3, <1>6, <2>3, <3>1
  <2> QED BY <1>5, <1>6, <2>1, <2>2, <2>3
<1>7. \A q, r \in WaitQueues : k.wq[q] = k.wq[r] => q = r \/ k.wq[q] = NULL
  BY <1>3, <1>4
<1>8. \A p \in Priorities : k.ready[p] = NULL \/ k.ready[p] # k.sleep_list
  BY <1>1, <1>2, <1>4
<1>9. \A p \in Priorities, q \in WaitQueues :
          k.ready[p] = NULL \/ k.ready[p] # k.wq[q]
  BY <1>1, <1>3, <1>4
<1>10. \A q \in WaitQueues : k.wq[q] = NULL \/ k.wq[q] # k.sleep_list
  BY <1>2, <1>3, <1>4
<1>11. ASSUME NEW x \in Tasks, k.next[x] # NULL
       PROVE  /\ k.next[x] # k.sleep_list
              /\ \A p \in Priorities : k.next[x] # k.ready[p]
              /\ \A q \in WaitQueues : k.next[x] # k.wq[q]
  <2>1. k.next[x] # k.sleep_list
    BY <1>2, <1>4, <1>5, <1>11
  <2>2. ASSUME NEW p \in Priorities PROVE k.next[x] # k.ready[p]
    BY <1>1, <1>4, <1>5, <1>11
  <2>3. ASSUME NEW q \in WaitQueues PROVE k.next[x] # k.wq[q]
    BY <1>3, <1>4, <1>5, <1>11
  <2> QED BY <2>1, <2>2, <2>3
<1> QED BY <1>1, <1>6, <1>7, <1>8, <1>9, <1>10, <1>11 DEF SingleLink

\* The walks along the lists find the tasks on them.
LEMMA WalksFindMembers ==
    ASSUME k \in Kernel, NEW R, NEW A, NEW W, Listed(k, R, A, W)
    PROVE  /\ UNION {Visited(k.ready[p], k.next, {}) : p \in Priorities} = R
           /\ Visited(k.sleep_list, k.next, {}) = A
           /\ \A q \in WaitQueues : Visited(k.wq[q], k.next, {}) = W[q]
<1>1. /\ k.next \in Links /\ R \in SUBSET Tasks /\ A \in SUBSET Tasks
      /\ \A q \in WaitQueues : W[q] \in SUBSET Tasks
  BY DEF Kernel, Listed, Members
<1>2. UNION {Visited(k.ready[p], k.next, {}) : p \in Priorities} = R
  <2>1. Queue(Priorities, k.ready, k.next, R)
    BY DEF Listed
  <2>2. \A x : x \in R <=> \E p \in Priorities : x \in Visited(k.ready[p], k.next, {})
    BY <1>1, <2>1, VisitedQueue
  <2> QED BY <2>2
<1>3. ASSUME NEW h, NEW Mem \in SUBSET Tasks, Queue({NULL}, One(h), k.next, Mem)
      PROVE  Visited(h, k.next, {}) = Mem
  <2>1. One(h)[NULL] = h
    BY DEF One
  <2>2. \A x : x \in Mem <=> \E i \in {NULL} : x \in Visited(One(h)[i], k.next, {})
    BY <1>1, <1>3, VisitedQueue
  <2>3. \A x : x \in Mem <=> x \in Visited(h, k.next, {})
    BY <2>1, <2>2
  <2> QED BY <2>3
<1> QED BY <1>1, <1>2, <1>3 DEF Listed

LEMMA SoundMeans ==
    ASSUME CpuTypeOK, CpuSound
    PROVE  ListsMatchStates /\ NoEndlessWalk /\ OneRunning
<1>1. k \in Kernel /\ Listed(k, ReadySet(k), Asleep(k, obj), Waiting(k, obj))
  BY DEF CpuTypeOK, CpuSound, Sound
<1>2. ReadySet(k) = ReadyTasks /\ Asleep(k, obj) = Sleepers
      /\ \A q \in WaitQueues : Waiting(k, obj)[q] = Waiters(q)
  BY DEF ReadySet, ReadyTasks, Asleep, Sleepers, Waiting, Waiters
<1>3. ListsMatchStates
  BY <1>1, <1>2, ListsApart, WalksFindMembers DEF ListsMatchStates
<1>4. NoEndlessWalk
  BY DEF CpuSound, Sound, NoEndlessWalk
<1>5. OneRunning
  BY AppRuns DEF CpuSound, Sound, OneRunner, OneRunning
<1> QED BY <1>3, <1>4, <1>5

\* With the sleepers in order and the alarm in time, the alarm covers them all.
LEMMA AlarmMeans ==
    ASSUME CpuTypeOK, CpuSound, ByWake(k, Asleep(k, obj)),
           isr = "none" => Timed(k, obj)
    PROVE  AlarmCoversSleepers
<1>1. k \in Kernel /\ Listed(k, ReadySet(k), Asleep(k, obj), Waiting(k, obj))
  BY DEF CpuTypeOK, CpuSound, Sound
<1> DEFINE A == Asleep(k, obj)
<1>2. Visited(k.sleep_list, k.next, {}) = A
  BY <1>1, WalksFindMembers
<1> SUFFICES ASSUME isr = "none", NEW t \in A
             PROVE  /\ k.alarm # NULL /\ k.alarm <= k.wake[k.sleep_list]
                    /\ k.wake[k.sleep_list] <= k.wake[t]
  BY <1>2 DEF AlarmCoversSleepers
<1>3. Timed(k, obj)
  OBVIOUS
<1>4. k.sleep_list \in A /\ k.wake[k.sleep_list] <= k.wake[t]
  <2>1. Queue({NULL}, One(k.sleep_list), k.next, A) /\ A \in SUBSET Tasks
    BY <1>1 DEF Listed, Members
  <2>2. k.sleep_list # NULL
    BY <1>1, <2>1, HeadThere
  <2>3. k.wake \in [Tasks -> Nat]
    BY <1>1, Ranks
  <2>4. Sorted(A, k.next, k.wake)
    BY DEF ByWake
  <2> HIDE DEF A
  <2> QED BY <2>1, <2>2, <2>3, <2>4, HeadLeast
<1> QED BY <1>3, <1>4 DEF Timed

-------------------------------------------------------------------------------
(***************************************************************************)
(* The parts that the calls of semaphores, mutexes and message queues have *)
(* in common.                                                              *)
(***************************************************************************)
\* The first task on a wait queue waits for it.
\* A priority that changes disturbs no wait queue while its task is on none.
LEMMA QueuesStayOrdered ==
    ASSUME NEW kk, NEW ob, Sound(kk, ob), NEW k2, k2.next = kk.next,
           ByPriority(kk, Waiting(kk, ob)),
           \A q \in WaitQueues : \A x \in Waiting(kk, ob)[q] :
               k2.priority[x] = kk.priority[x]
    PROVE  ByPriority(k2, Waiting(kk, ob))
<1> DEFINE W == Waiting(kk, ob)
<1>1. ASSUME NEW q \in WaitQueues PROVE Sorted(W[q], k2.next, k2.priority)
  <2>1. Queue({NULL}, One(kk.wq[q]), kk.next, W[q])
    BY DEF Sound, Listed
  <2>2. \A x \in W[q] : kk.next[x] = NULL \/ kk.next[x] \in W[q]
    BY <2>1 DEF Queue, Within
  <2>3. Sorted(W[q], kk.next, kk.priority)
    BY DEF ByPriority
  <2> HIDE DEF W
  <2> QED BY <2>2, <2>3 DEF Sorted, W
<1> QED BY <1>1 DEF ByPriority

LEMMA HeadWaits ==
    ASSUME NEW kk, NEW ob, Sound(kk, ob), NEW q \in WaitQueues, kk.wq[q] # NULL
    PROVE  kk.wq[q] \in Tasks /\ kk.state[kk.wq[q]] = "BLOCKED" /\ ob[kk.wq[q]] = q
<1>1. Queue({NULL}, One(kk.wq[q]), kk.next, Waiting(kk, ob)[q])
  BY DEF Sound, Listed
<1>2. One(kk.wq[q])[NULL] = kk.wq[q]
  BY DEF One
<1>3. kk.wq[q] \in Waiting(kk, ob)[q]
  BY <1>1, <1>2 DEF Queue, Within
<1> QED BY <1>3 DEF Waiting

\* With the waiters in order, it has the highest priority of them.
LEMMA HeadFirst ==
    ASSUME k \in Kernel, Sound(k, obj), ByPriority(k, Waiting(k, obj)),
           NEW q \in WaitQueues, NEW u \in Waiters(q)
    PROVE  k.wq[q] # NULL /\ k.priority[k.wq[q]] <= k.priority[u]
<1> DEFINE M == Waiting(k, obj)[q]
<1>1. u \in M /\ M \in SUBSET Tasks
  BY DEF Waiting, Waiters
<1>2. Queue({NULL}, One(k.wq[q]), k.next, M) /\ Sorted(M, k.next, k.priority)
  BY DEF Sound, Listed, ByPriority
<1>3. k.priority \in [Tasks -> Nat]
  BY Ranks
<1> HIDE DEF M
<1>4. k.wq[q] # NULL
  BY <1>1, <1>2, HeadThere
<1> QED BY <1>1, <1>2, <1>3, <1>4, HeadLeast

\* The memory kk differs from k in priorities at most.
Reprioritized(kk) ==
    /\ kk \in Kernel /\ Sound(kk, obj) /\ kk.state = k.state
    /\ kk.current = k.current /\ kk.lock = k.lock

\* The running task blocks on queue q, for good.
BlockCall(kk, t, q, call) ==
    /\ InApp(t) /\ MayBlock /\ call # "app"
    /\ k' = block_on_wq(kk, q, t, NULL)
    /\ pc' = [pc EXCEPT ![t] = call]
    /\ obj' = [obj EXCEPT ![t] = q]
    /\ resched' = [resched EXCEPT ![t] = TRUE]

LEMMA BlockCallSound ==
    ASSUME CpuTypeOK, CpuSound, Careful, NEW C, pc \in [Tasks -> C],
           NEW kk, Reprioritized(kk), NEW t \in Tasks, NEW q \in WaitQueues,
           NEW call, BlockCall(kk, t, q, call)
    PROVE  /\ CpuSound' /\ k'.state = [k.state EXCEPT ![t] = "BLOCKED"]
           /\ KeepsOrder(kk, obj, k', obj') /\ KeepsTime(kk, obj, k', obj')
           /\ k'.current = k.current
<1>1. k.current = t /\ k.state[t] = "RUNNING" /\ t # Idle
  BY AppRuns DEF BlockCall, InApp
<1>2. /\ kk \in Kernel /\ Sound(kk, obj) /\ t = kk.current
      /\ kk.state[t] = "RUNNING" /\ kk.state = k.state
  BY <1>1 DEF Reprioritized
<1>3. kk.lock = 0
  <2>1. k.lock \in 0 .. MaxLock
    BY DEF CpuTypeOK, Kernel
  <2>2. ~(k.lock > 0)
    BY DEF BlockCall, MayBlock, Careful
  <2> QED BY <2>1, <2>2, KernelAssumption DEF Reprioritized
<1>4. obj \in [Tasks -> WaitQueues \cup {NULL}] /\ NULL \notin WaitQueues
  BY DEF CpuTypeOK, Careful
<1>5. k' = block_on_wq(kk, q, t, NULL) /\ obj' = [obj EXCEPT ![t] = q]
  BY DEF BlockCall
<1>6. /\ Sound(k', obj') /\ k'.current = t
      /\ KeepsOrder(kk, obj, k', obj') /\ KeepsTime(kk, obj, k', obj')
  <2>1. BlocksOn(kk, k', obj, obj', t, q)
    BY <1>1, <1>2, <1>3, <1>4, <1>5 DEF BlocksOn
  <2> QED BY <2>1, BlockSound
<1>7. k'.state = [kk.state EXCEPT ![t] = "BLOCKED"]
  BY <1>2, <1>5 DEF block_on_wq, wq_insert, PutWait, Kernel
<1>8. WindowCloses(k', resched')
  BY <1>6 DEF WindowCloses, BlockCall, CpuTypeOK
<1>9. \A u \in Tasks : pc'[u] = "app" => obj'[u] = NULL
  BY <1>4 DEF BlockCall, CpuSound
<1> QED BY <1>1, <1>2, <1>6, <1>7, <1>8, <1>9 DEF CpuSound

\* A call returns without having timed out.
LEMMA ReturnCallSound ==
    ASSUME CpuTypeOK, CpuSound, Careful, NEW C, pc \in [Tasks -> C],
           NEW t \in Tasks, Running(t), ~resched[t],
           k' = k, resched' = resched,
           pc' = [pc EXCEPT ![t] = "app"], obj' = [obj EXCEPT ![t] = NULL]
    PROVE  /\ CpuSound'
           /\ KeepsOrder(k, obj, k', obj') /\ KeepsTime(k, obj, k', obj')
<1>1. k.state[t] = "RUNNING"
  BY AppRuns
<1>2. k \in Kernel /\ obj \in [Tasks -> WaitQueues \cup {NULL}]
  BY DEF CpuTypeOK
<1>3. /\ Sound(k, obj')
      /\ KeepsOrder(k, obj, k, obj') /\ KeepsTime(k, obj, k, obj')
  BY <1>1, <1>2, ReturnSound DEF CpuSound
<1>4. \A u \in Tasks : pc'[u] = "app" => obj'[u] = NULL
  BY <1>2 DEF CpuSound
<1> QED BY <1>3, <1>4 DEF CpuSound, WindowCloses

\* The running task between two calls wakes the first waiter of queue q.
WakeCall(kk, t, q) ==
    /\ InApp(t) /\ kk.wq[q] # NULL
    /\ k' = wake_waiter(wq_pop(kk, q), kk.wq[q])
    /\ pc' = pc /\ obj' = obj

LEMMA WakeCallSound ==
    ASSUME CpuTypeOK, CpuSound, Careful,
           NEW kk, Reprioritized(kk), NEW t \in Tasks, NEW q \in WaitQueues,
           WakeCall(kk, t, q)
    PROVE  /\ CpuSound'
           /\ kk.wq[q] \in Tasks /\ obj[kk.wq[q]] = q
           /\ k.state[kk.wq[q]] = "BLOCKED" /\ pc[kk.wq[q]] # "app"
           /\ k'.state = [k.state EXCEPT ![kk.wq[q]] = "READY"]
           /\ KeepsOrder(kk, obj, k', obj) /\ KeepsTime(kk, obj, k', obj)
           /\ k'.current = k.current
<1>1. k.current = t /\ k.state[t] = "RUNNING"
  BY AppRuns DEF WakeCall, InApp
<1>2. PICK w : w = kk.wq[q]
  OBVIOUS
<1>3. /\ kk \in Kernel /\ Sound(kk, obj) /\ kk.state = k.state
      /\ kk.current = k.current
  BY DEF Reprioritized
<1>4. w # NULL /\ k' = wake_waiter(wq_pop(kk, q), w) /\ pc' = pc /\ obj' = obj
  BY <1>2 DEF WakeCall
<1>5. w \in Tasks /\ k.state[w] = "BLOCKED" /\ obj[w] = q
  BY <1>2, <1>3, <1>4, HeadWaits
<1>6. w # kk.current
  BY <1>1, <1>3, <1>5
<1>7. obj \in [Tasks -> WaitQueues \cup {NULL}] /\ NULL \notin WaitQueues
  BY DEF CpuTypeOK, Careful
<1>8. /\ Sound(k', obj) /\ k'.current = kk.current
      /\ k'.state = [kk.state EXCEPT ![w] = "READY"]
      /\ KeepsOrder(kk, obj, k', obj) /\ KeepsTime(kk, obj, k', obj)
  BY <1>2, <1>3, <1>4, <1>6, <1>7, WakeSound
<1>9. k'.state[t] = "RUNNING"
  BY <1>1, <1>3, <1>5, <1>8 DEF CpuTypeOK, Kernel
<1>10. CpuSound'
  BY <1>1, <1>3, <1>4, <1>8, <1>9 DEF CpuSound, WindowCloses
<1>11. pc[w] # "app"
  BY <1>5, <1>7 DEF CpuSound
<1> QED BY <1>2, <1>3, <1>5, <1>8, <1>10, <1>11

\* An interrupt handler wakes the first waiter of queue q, not the running
\* task, and reschedules.
IsrWake(q) ==
    /\ ~Booting /\ k.wq[q] # NULL /\ k.wq[q] # k.current
    /\ k' = br_sched_reschedule(wake_waiter(wq_pop(k, q), k.wq[q]))
    /\ pc' = pc /\ obj' = obj /\ resched' = resched

LEMMA IsrWakeSound ==
    ASSUME CpuTypeOK, CpuSound, Careful, NEW q \in WaitQueues, IsrWake(q)
    PROVE  /\ CpuSound'
           /\ k.wq[q] \in Tasks /\ obj[k.wq[q]] = q
           /\ k.state[k.wq[q]] = "BLOCKED" /\ pc[k.wq[q]] # "app"
           /\ \A u \in Tasks : k'.state[u] = "BLOCKED"
                                 <=> k.state[u] = "BLOCKED" /\ u # k.wq[q]
           /\ KeepsOrder(k, obj, k', obj) /\ KeepsTime(k, obj, k', obj)
           /\ KeepsOut(k, k') /\ k'.current # NULL
<1>1. PICK w : w = k.wq[q]
  OBVIOUS
<1>2. PICK k1 : k1 = wake_waiter(wq_pop(k, q), w)
  OBVIOUS
<1>3. /\ w # NULL /\ w # k.current /\ k.current \in Tasks
      /\ k' = br_sched_reschedule(k1) /\ pc' = pc /\ obj' = obj
  BY <1>1, <1>2 DEF IsrWake, Booting, CpuTypeOK, Kernel
<1>4. k \in Kernel /\ Sound(k, obj)
  BY DEF CpuTypeOK, CpuSound
<1>5. w \in Tasks /\ k.state[w] = "BLOCKED" /\ obj[w] = q
  BY <1>1, <1>3, <1>4, HeadWaits
<1>6. obj \in [Tasks -> WaitQueues \cup {NULL}] /\ NULL \notin WaitQueues
  BY DEF CpuTypeOK, Careful
<1>7. /\ Sound(k1, obj) /\ k1.current = k.current
      /\ k1.state = [k.state EXCEPT ![w] = "READY"]
      /\ KeepsOrder(k, obj, k1, obj) /\ KeepsTime(k, obj, k1, obj)
  BY <1>1, <1>2, <1>3, <1>4, <1>6, WakeSound
<1>8. k1 \in Kernel
  <2>1. wq_pop(k, q) \in Kernel
    BY <1>1, <1>3, <1>4, <1>5, WaitQueueType
  <2> QED BY <1>2, <1>5, <2>1, WaitQueueType
<1>9. /\ Sound(k', obj) /\ SameBlocked(k1, k')
      /\ k'.state[k'.current] = "RUNNING" /\ k'.current \in Tasks
      /\ KeepsOrder(k1, obj, k', obj) /\ KeepsTime(k1, obj, k', obj)
      /\ KeepsOut(k1, k')
  BY <1>3, <1>7, <1>8, RescheduleSound
<1>10. CpuSound'
  BY <1>3, <1>9 DEF CpuSound, WindowCloses
<1>11. \A u \in Tasks : k'.state[u] = "BLOCKED"
                          <=> k.state[u] = "BLOCKED" /\ u # w
  <2>1. \A u \in Tasks : k1.state[u] = IF u = w THEN "READY" ELSE k.state[u]
    BY <1>4, <1>7 DEF Kernel
  <2> QED BY <1>9, <2>1 DEF SameBlocked
<1>12. pc[w] # "app"
  BY <1>5, <1>6 DEF CpuSound
<1>13. KeepsOut(k, k1)
  BY <1>4, <1>5, <1>7 DEF KeepsOut, Kernel
<1>14. /\ KeepsOrder(k, obj, k', obj) /\ KeepsTime(k, obj, k', obj)
       /\ KeepsOut(k, k')
  BY <1>7, <1>9, <1>13, KeepsTransitive
<1>15. k'.current # NULL
  BY <1>9, ListAssumption
<1> QED BY <1>1, <1>5, <1>10, <1>11, <1>12, <1>14, <1>15

\* k itself.
LEMMA SameReprioritized ==
    ASSUME CpuTypeOK, CpuSound
    PROVE  Reprioritized(k)
BY DEF CpuTypeOK, CpuSound, Reprioritized
===============================================================================
