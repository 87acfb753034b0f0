# Verification of the bedrock kernel

bedrock is a preemptive RTOS kernel in C for one processor: tasks with fixed
priorities and round robin, a sleep list driven by a one-shot alarm,
semaphores, mutexes with priority inheritance, message queues, a block pool,
and two ports (ARM Cortex-M, a host simulation).  This directory holds TLA+
modules translated from the C source, TLC configurations that check them on
small instances, and TLAPS proofs of theorems about them for every instance.

Paths below are relative to the repository root; `PROJECT.json` maps every
definition that stands for code to its source lines.  (A next-state relation
that only lists actions has no lines of its own.)

## 1. Inventory

### Components

| component | source | state | operations | modelled in |
|---|---|---|---|---|
| lists | every `tcb->next` loop in `kernel/` | one link per TCB, head pointers | insert at a place, remove, pop | `BrList` |
| scheduler | `kernel/br_sched.c` | `ready_queue[]`, `current_task`, `sched_lock`, `rr_remaining` | ready, unready, reschedule, start, lock, unlock, tick | `BrKernel`, `BrCpu` |
| sleep list, alarm | `kernel/br_time.c` | `sleep_list`, `wake_time`, the pending alarm | sleep, alarm handler | `BrKernel`, `BrCpu` |
| tasks | `kernel/br_task.c` | `tcb_pool`, TCB states | create, suspend, resume, delete, yield | `BrKernel`, `BrTasks`, `BrSystem` |
| semaphores | `kernel/br_ipc.c` | `count`, wait queue | init, take, give | `BrSem`, `AbstractSem`, `BrSystem` |
| mutexes | `kernel/br_ipc.c` | `locked`, `owner`, `owner_orig_prio`, wait queue | init, lock, unlock | `BrMutex`, `AbstractLock` |
| message queues | `kernel/br_ipc.c` | ring buffer, two wait queues | init, send, recv | `BrMqueue` |
| timer (Cortex-M) | `arch/arm-cortex-m/br_hal_timer.c` | SysTick counter, counted periods, alarm | `SysTick_Handler`, get time, set and cancel alarm | `BrCpu` (order), `BrTimer` (time base) |
| context switch (Cortex-M) | `arch/arm-cortex-m/br_hal_context.c` | pending switch, saved stack pointers, canaries | request, `SVC_Handler`, `PendSV_Handler`, stack check, panic | `BrPendSV` |
| host port | `arch/host-x86-64/` | `ucontext` slots, signal mask, alarm | slots, `swapcontext`, `sigalrm_handler` | `BrHost` |
| memory pool | `lib/br_pool.c` | pools, free list in the blocks | create, alloc, free, available | `BrPool` |
| panic, assert | `kernel/br_panic.c` | a handler pointer | | the halt only, `BrPendSV` |
| UART, startup, boards, kconfig, examples | | | | not modelled |

### How they interact

* All kernel functions work on one shared memory and exclude each other by
  disabling interrupts.  An application call is therefore a sequence of a few
  critical sections; between two of them any interrupt may arrive, and its
  handler may switch to other tasks which run for any time.
* A TCB has ONE link field.  A ready queue, the sleep list and a wait queue
  all thread through it, so a task must be on one list at most.  Nothing in
  the code tests that; every function relies on the callers.
* IPC calls `block_on_wq` / `wake_waiter`, which write the task's state and
  move it between wait queue, sleep list and ready queue; then, outside the
  critical section, they call `br_sched_reschedule`, and a blocked call goes
  on after it, when its task is dispatched again.
* The timer interrupt calls `br_sched_tick` and then, when the alarm is due,
  `br_time_alarm_handler`, which wakes every sleeper whose time is up.  (The
  host's signal handler does the two in the other order.)
* `br_sched_reschedule` hands the exchange of registers to the port.  On the
  Cortex-M it is only requested there and happens in a later exception; on the
  host it happens at once, also in the middle of the signal handler.

### What is hard

`PROJECT.json` lists the hazards with their lines.  The main groups:

* **one link field**: a task queued twice, or removed from a list it is not
  on, corrupts two lists and makes a later loop endless with interrupts off;
* **windows**: between the state check and the critical section of
  `br_task_resume`; between the two critical sections of `br_task_create`;
  between `br_hal_irq_restore` and `br_sched_reschedule` in every blocking
  call; between the waking of a blocked sender or receiver and its second
  attempt;
* **hand-over**: who owns a unit, a mutex or a message while the task it was
  given to is READY but has not run;
* **timeouts**: a task on a wait queue and the sleep list at the same time;
* **priority**: an inherited priority changed while the task is queued;
* **the switch**: a request that overwrites a pending one, a context resumed in
  another way than it was left, a stack that overflowed before its task left;
* **time**: a counter that has wrapped while interrupts are disabled;
* **liveness**: sleeps that must end, round robin that must rotate, waits that
  no later call can end.

### What makes each component correct

* lists and scheduler: the lists hold exactly the tasks whose states say so;
  no walk is endless; one task is RUNNING and it is the one that executes;
  a READY task is queued at its own priority; peers take turns;
* sleep list: the alarm covers the earliest deadline; no deadline is missed;
  every sleep ends;
* semaphores: units are conserved; nobody waits while a unit is free; the
  waiter served is one of highest priority;
* mutexes: mutual exclusion; a locked mutex is never orphaned by a hand-over;
  the owner is boosted while, and only while, it owns;
* message queues: order; no accepted message lost; no reception without a
  message; no sender and receiver that wait for each other;
* ports: the registers hold the context of the task the kernel takes for the
  running one, every other context is where its TCB says, interrupts are masked
  exactly where the code believes it, a task that overran its stack is stopped;
* time base: a sleep lasts at least as long as was asked for;
* pool: the free list holds exactly the free blocks, and blocks keep apart.

## 2. Modules

```
BrList <- BrKernel <- BrCpu <- BrTasks <- BrPendSV (MCPendSV)
                                       <- BrHost   (MCHost)
                            <- BrSem   <- BrSystem (MCSystem, with BrTasks as an instance)
                            <- BrMutex             (MCMutex)    --implements--> AbstractLock
                            <- BrMqueue            (MCMqueue)
BrSem and BrSystem --implement--> AbstractSem
BrPool (MCPool; its free list is an instance of BrList)     BrTimer (MCTimer)
```

* **BrList**: a list is a head and the shared link array.  The C loops
  `while (*pp && !stop) pp = &(*pp)->next` become the set of cells at which
  they stop; if that set is empty the loop is endless and the operation sets
  `halts` to FALSE.  Nothing assumes that lists are acyclic or disjoint.
  Reachability is defined by closed sets, not by recursion, so that the prover
  can use it.
* **BrKernel**: the whole memory is a record `k`; each C function that runs
  with interrupts off is an operator from memories to memories with the name
  of the C function.  `XxxSection` is the part of `xxx` up to its
  `br_hal_irq_restore`.  `k.hung` records that some loop never ended; no
  action is taken afterwards, as on the machine.
* **BrCpu**: the processor.  One action per critical section.  `pc[t]` is the
  call in which task t is, `resched[t]` says that its next step is
  `br_sched_reschedule`, `obj[t]` is the wait queue of its blocking call.
  Boot (`main` creates tasks, then `br_kernel_start`), yield, sleep, scheduler
  lock and the timer interrupt.  The alarm handler is one action per iteration
  of its loop; no task runs until it is done.
* **BrTasks**: suspend, resume (two steps), create at run time (two steps),
  delete.
* **BrSem / BrMutex / BrMqueue**: the calls on these objects, by tasks and
  (semaphores, queues) by interrupt handlers.  The blocking call has a step
  that blocks, the step `Reschedule` of BrCpu, and the step after it returns.
  A call whose `wait_result` is a timeout returns in two steps, as the code tests
  it with interrupts enabled and takes itself off the wait queue (`wq_remove`) in
  a critical section of its own: in between (`pc[t]` is "expired") it is still
  queued, and a give, an unlock or a message may find it there.
  History variables (`units`, `held`, `base`, `fifo`, `dropped`, `phantom`)
  record what the callers were told.
* **BrSystem**: semaphores and task management on one memory.  `BrSem` is
  extended and the calls of `BrTasks` are taken from an instance of it over the
  same variables, so a task may be suspended, resumed, deleted and created anew
  at any point of a take or a give of its own or of others.
* **BrPendSV**: the Cortex-M switch under `BrTasks`.  `cpu` is the task whose
  context the registers hold, `sp[t]` whose context the saved stack pointer in
  t's TCB leads to, `pendsv` the two pointers PendSV will use.  A kernel step
  that changes `current_task` only pends the exception; a task executes only
  when the registers hold its context.  The exceptions have one priority, as
  the code never sets it: PendSV, the lower number, is taken first.  After an
  overwritten request (`clobbered`) or a panic nothing more is modelled.
* **BrHost**: the host port under `BrTasks`.  `pos[s]` is where the context in
  slot s goes on (its task's code, behind the `swapcontext` of a reschedule,
  or one of two places in the signal handler), `mask` and `ucMask[s]` the live
  and the saved signal mask, `owner[s]` the task whose code the context executes,
  NULL when that is main().  main() has no slot of its own.  It calls
  `br_kernel_start` with SIGALRM unblocked and the interval timer running, so
  `StartKernel` (`br_sched_start`) and `StartFirst` (`setcontext`) are two steps
  and the signal may come before, between and after them: a handler in between
  sees `current_task` and may switch, and then saves main() over the slot of the
  first task.  Nothing excludes this.
* **BrTimer**: one sleep on the SysTick counter, cycle by cycle: the counter
  wraps, the exception pends while interrupts are disabled, the time is put
  together from both.
* **BrPool**: memory as an array of pointers, the links of the free list in the
  blocks themselves, the application writing to the blocks it holds.  The loop
  of `br_pool_create` is given by what it has built after n turns (`Pushed`: the
  list is empty after none) and by the links it leaves (`Threaded`).
* **AbstractSem / AbstractLock**: what the users are promised, without queues,
  priorities, scheduling and interrupts.  The refinement maps a task inside a
  blocking call to a member of `waiting`; its grant happens at its return.

Operators commented "Mistake" stand beside the operator they distort.  No
specification uses them.  Each distorts a definition the way a bug in the C
function would (a dropped test, an off-by-one, a missing reset), and each
property of each passing run is violated when one of them takes the place of
its original (`mutants` in `PROJECT.json`): the property does depend on the code.

### Abstractions

* In the kernel modules time is relative and counted in timer ticks: `wake[t]`
  and `alarm` are ticks left.  `BrTimer` has the clock and the counter.  The
  widths of the integers are not modelled.
* In `BrCpu`, `BrTasks` and the IPC modules the context switch is ideal: the
  task that executes is `current_task`.  `BrPendSV` and `BrHost` replace it by
  the ports' code.
* Task bodies are arbitrary: between two calls of the kernel an application
  task may do anything, and it may stop calling the kernel for good.  The idle
  task makes no calls.
* Calls that return an error without changing anything are steps that stutter
  and are not written.

### Assumptions that are CONSTANTS

Each narrows what the *application* or the *moment of an interrupt* may do,
because the code fails otherwise.  Where a run exhibits the failure the table
names it.  Two promises of the documentation that the code breaks have no run of
their own: suspending a BLOCKED task (`docs/en/api-reference.md:120`) and several
senders or receivers on one queue (`docs/en/api-reference.md:284`).

| constant | passing runs | otherwise |
|---|---|---|
| `WakeInWindow` | FALSE: no interrupt wakes the running task between its blocking section and its reschedule | run `sem_window` |
| `BlockWhileLocked` | FALSE: a task that holds the scheduler lock does not block or suspend itself | reschedule returns at once and a BLOCKED task executes |
| `Timeouts` | {NULL}: infinite timeouts in IPC calls | run `sem_timed`; with a second sleeper the sleep-list insertion overwrites the link of the wait queue (`ListsMatchStates` fails) |
| `DeleteTakers` | FALSE: nobody deletes a task inside a take | run `delete_waiter` |
| `SuspendBlocked` | FALSE: nobody suspends a BLOCKED task | the task stays on its sleep list and is woken while SUSPENDED (`ListsMatchStates` fails), whatever `docs/en/api-reference.md:120` promises |
| `Managers` | one task manages the others | two that resume or create at the same time queue a task twice (`ListsMatchStates`, `OneRunning`, `NoEndlessWalk` fail) |
| `Nesting` | FALSE: a task holds one mutex at a time | `OwnerInherits`, `BoostIsTemporary` fail |
| `SenderSets`, `ReceiverSets` | one sender and one receiver | with two, `NoMessageDropped` and `NoPhantomMessage` fail, whatever `docs/en/api-reference.md:284` promises |
| `MaxMsgs` | 2 | with 1, `NoStandoff` fails: the second attempt of a blocked sender stores its message and wakes no receiver, and its next send waits for a receiver that waits for it |
| `Victims` | never the idle task | without idle a reschedule of a blocked task finds nobody |
| `Stacks` (host) | as many as slots | slots are never given back: with one stack more, a task gets no context (`ContextsMatchTasks` fails) |
| `Careless` (pool) | FALSE: the application frees what it holds, once | a double free fails `FreeListExact` |

The calls of `br_pool.c` take no lock; the model has no overlapping calls, so
what two tasks in the pool at once do is not checked.

## 3. Runs

Passing runs check deadlock as well: with a timer that always ticks, the system
never stops unless the memory is hung.  The exceptions: `cortex`, where a panic
or a lost context ends the model, and `timer_wrap`, where the clock reaches its
horizon.

| run | instance | question |
|---|---|---|
| `cortex` | idle and three slots, priorities 0..1 for applications, sleeps up to 2 ticks, slice 2 ticks, one level of scheduler lock, task 1 manages 3, task 3 may overrun its stack | Do suspend, resume, create and delete, in any order with sleeps, yields, ticks, alarms and delayed switches, keep the shared link field coherent, one task running and every deadline kept? Does each task find its own registers again? |
| `host` | idle and two tasks, sleeps up to 2 ticks, slice 1 tick, one level of lock, three stacks, fairness | Is the signal mask right however a context was left and resumed? Does each task keep its context? Does every sleep end and every READY peer get its turn? |
| `system` | idle and three tasks, a binary semaphore used by tasks and interrupts, task 1 manages 3 | Conservation, no lost wake-up, order of service, refinement, no return of the dead, under task management |
| `mutex` | idle and three tasks, two mutexes, two application priorities | Exclusion, hand-over, inheritance and its end, refinement |
| `mqueue` | idle and two tasks, queue of two, two messages; each side a task or an interrupt handler | FIFO, no loss, no phantom, no standoff |
| `pool` | three buffers of 2, 3 and 6 bytes, two pools, pointers of 2 bytes, blocks of 0, 1 and 3 | Is the free list exact and do blocks keep apart, whatever is written to them and wherever they are returned? |
| `priority` | idle and two tasks | finding 1 |
| `sem_window` | idle and one task, interrupts in the window | finding 2 |
| `sem_timed` | idle and one task, a timeout of one tick | finding 3 |
| `mutex_inversion` | idle and three tasks, three application priorities | finding 4 |
| `delete_waiter` | idle and two tasks, one deletes the other inside a take | finding 5 |
| `timer_wrap` | a period of 8 cycles, 2 cycles per microsecond, three periods | finding 6 |

**Why these bounds.**  A list of at most three tasks has a head, an inner and a
last element, so each insertion and removal happens at each kind of place.  Two
application priorities besides idle's give peers and strict order; the
inversion needs a third.  Sleeps of one and two ticks give equal, earlier and
later deadlines, hence several wake-ups in one alarm and a reprogrammed alarm.
A slice of two ticks is renewed, counted down and expired.  A binary semaphore
reaches both its limits at once.  A queue of two messages wraps, fills and
empties, and lets a task be woken while the queue is neither full nor empty.
All three `priorities` are explored, as main() picks them freely.  The
host run has as many stacks as slots, so that a slot is found again by its
stack.  The pool's buffers leave a remainder, are too small for one block, or
hold several.  `cortex` explores 2.1 million states, `mutex` 1.4, the others
less.  No symmetry
is used: slots are ordered, because task creation takes the first free one.

**Fairness.**  Weak fairness of the pending reschedule (the processor executes
instructions), of the timer interrupt (hardware), of the steps of the alarm
handler (an interrupt handler that has begun runs to its end), and of the
second half of a call whose task executes (`ResumeReady`, `CreateReady`,
`TakeReturn`).  On the host the steps of a context behind its `swapcontext` are
weakly fair (the process executes), and the signal is strongly fair: it is
blocked in every critical section and unblocked between them, and the interval
timer sends it again and again.  Nothing obliges an application to make a call,
so a liveness property holds only by the kernel's own steps.

## 4. Findings

1. **`priority`.**  `br_sched_reschedule` takes the head of the best ready
   queue and never compares it with the running task, which is in no queue.
   `br_time_alarm_handler` calls it after every wake-up, so an alarm that wakes
   a task of lower priority takes the processor from a running task of higher
   priority.  `docs/en/architecture.md:36` promises priority-based preemption.
2. **`sem_window`.**  An interrupt that gives the semaphore between
   `br_hal_irq_restore` and `br_sched_reschedule` of a blocking take finds the
   caller queued and still `current_task`; it is queued and executing at
   once, and a later take returns BR_OK without a unit.
3. **`sem_timed`.**  `block_on_wq` puts the task on the sleep list and does not
   program the alarm; when no other sleeper has, the timeout never fires.
4. **`mutex_inversion`.**  Inheritance changes the priority of a READY owner and
   leaves it in the queue of the old one; a task of middle priority runs first.
5. **`delete_waiter`.**  `br_task_delete` takes a BLOCKED task off the sleep list
   only.  A task deleted in a take stays in the wait queue, and the next give
   makes its INACTIVE slot READY.  `docs/en/task-deletion.md:116` allows it.
6. **`timer_wrap`.**  `br_hal_timer_get_us` does not look at a pending SysTick:
   when the counter wraps between `br_hal_irq_disable` and the reading in
   `br_sleep_us`, the time read is one period too early, and the sleep ends at
   once.  Without a wrap in that window the property holds.

Three behaviours are described by the model and its passing properties.  `OnlyTwoRaces`: a pending
switch is overwritten when one SysTick ends a slice and wakes a sleeper, and a
switch is requested on main()'s stack when SysTick comes between
`br_sched_start` and SVC; PendSV then saves a context in the wrong TCB.
`ContextsMatchTasks` allows the same on the host, once: a SIGALRM between
`br_sched_start` and `setcontext` may switch away from main(), whose context then
replaces that of the first task.  main() is dispatched in its place, enters the
overwritten slot, which leads back into the signal handler, and the code of that
task never starts.  No second task is affected, and never a task that runs.  In
`BrHost` the flag `g_in_isr` (`inIsr`) stays true when the signal handler
switches; the calls that read it are those of `br_ipc.c`, which are not
composed with the host port.

## 5. Proofs

TLC's runs are about the instances above; the theorems hold for every number of
tasks, priorities, objects and every bound, under the named ASSUMEs of the
modules and the hypotheses each theorem states.  Every invariant and every
action property of a passing run is a theorem, and so are the refinements of
`AbstractSem` and `AbstractLock`; only liveness is left to TLC.

### What the proofs assume

Besides the range of each constant, the ASSUMEs say that NULL is none of the
numbers and stacks it stands beside, that the first slot is idle's, and that the
placeholders of `BrPendSV` (`MAIN`, `NONE`) are no tasks and no switches.  Some
theorems have hypotheses on constants.  They are the settings of the passing
runs, now for any number of everything else, and none is a convenience: the
table of section 2 says what fails without it.

| hypothesis | says | needed because |
|---|---|---|
| `Disciplined` (tasks, ports) | one manager at most; it never names idle and suspends nobody who is BLOCKED; nobody blocks under the scheduler lock; no wake-up in the window after a blocking section | resume and create ready their slot in a second step; a task that executes after it blocked can be on a ready queue |
| `Patient` (IPC) | infinite timeouts; no blocking under the lock; no wake-up in the window | a waiter with a timeout is on two lists with one link; with infinite timeouts no call is ever "expired" (`Unexpired`), which is part of the invariants |
| `SystemDisciplined` | `Patient`, the discipline of the manager, nobody deleted inside a take | finding 5 |
| `~Nesting` (inheritance) | one mutex at a time | an unlock restores the priority of before the lock, whoever waits for the other mutex |
| `OneSender`, `OneReceiver` | at most one on a side, a task or the handlers | a woken task has no claim on its slot or message until it runs |
| `MaxMsgs > 1` (standoff) | a ring of more than one slot | the second attempt wakes nobody |
| `~Careless` (pool) | what is freed is held | a double free puts a block on the list twice |
| `EnoughSlots` (host) | no more stacks than slots | slots are never given back |

Without any of them: the types of tasks, semaphores, mutexes, queues, the
composed system and the pool, `NoWaiterWhileFree`, `RingIsFifo`, `BlocksApart`,
`OnlyTwoRaces` and `OverflowCaught`.

### The lists: `BrListProofs`, `BrCpuProofs`

A family of lists is *well formed* (`Queue`) when it holds exactly a set of
members, no two links or heads target the same task, and no smaller set contains
the heads and follows the links.  `WalkStops`: a walk along a well-formed list
ends, by the pigeonhole principle on the links (a walk that never ended would
map finitely many tasks one to one onto all of them but the first).
`InsertQueue`, `PopQueue` and the removal from the middle keep the family well
formed and touch no link of another list; `UnlinkAbsent`: searching a list for a
task that is not on it changes nothing, which is what `wake_waiter` does to the
sleep list when the wait was infinite.  `Sorted` and `Leveled` carry the order of
a list through the same operations.

`BrCpuProofs` lifts this to the memory: each C function keeps the types, leaves
alone what it should, and keeps `Listed(kk, R, A, W)` (ready queues, sleep list
and wait queues are well formed and hold the disjoint sets R, A and W).  The
inductive invariant that all systems share is `CpuSound`:

| conjunct | why the induction needs it |
|---|---|
| `Listed` of the READY, sleeping and waiting tasks | the fact itself; each operation inserts a task on no list or removes one where it is |
| `~k.hung` | no walk met a loop so far |
| `OneRunner` | only `current_task` may be RUNNING: the task that blocks or is preempted was on no list |
| `IdleRuns` | once there is a task, idle is READY or running: reschedule always finds somebody |
| `NoTimeout` | no waiter has timed out: none is on the sleep list, and a call returns without searching its wait queue |
| `BlockedRunner` | a task that blocked itself and has not switched yet holds no scheduler lock, so that reschedule replaces it, and its sleep is not over yet |
| `WindowCloses` | outside its window the executing task is RUNNING |
| a task between calls has no `obj` | sleepers and waiters are told apart by it |

Beside it `InOrder` (ready queues by level, the sleep list by deadline, wait
queues by priority) and `OnTime` (outside the alarm handler no sleeper's time is
up and the alarm is not later than any) are kept by every step that does not
change a priority under them (`KeepsOrder`, `KeepsTime`).  Each C function has a
lemma (`SleepSound`, `BlockSound`, `WakeSound`, `WakeExpiredSound`,
`RescheduleSound`, `TickSound`, `SuspendSound`, `DeleteSound`, ...),
`CpuNextSound` puts them together, and `SoundMeans` derives the properties that
the runs check: `WalksFindMembers` shows that well-formed lists are what a walk
visits, `ListsApart` that no two links meet.

### Tasks and ports: `BrTasksProofs`, `BrPortProofs`

* **Types.**  TypeOK is not inductive: an alarm during boot would call
  reschedule with no running task (`BootQuiet` excludes it), and a resume or
  create in progress must have a slot (`TargetChosen`).
* **`TasksSound`** adds to the above `CallsInProgress`: what a manager is about
  to ready is on no list and not running.  `br_sched_unready` searches one queue
  only, the one of the task's present priority, so removal needs `InOrder`: a
  READY task is found because its queue is that of its level.  From it
  `ListsIntact`, `WalksEnd`, `CurrentRuns`, `UnreadyFindsTask`, `AlarmInTime` and
  `NobodyOversleeps`.
* **Cortex-M.**  A step of the port is a kernel step or leaves the kernel's memory
  alone, by construction of `PortNext`; the lemma `KernelBehaves` says so and
  shows nothing of the switch, but `PortKernelSound` carries the results over by
  it.  What the port adds is in the theorems that follow.  `RacesKnown`:
  a request needs a kernel step that changes `current_task`; in thread mode none
  is pending, and a task, not main(), has the registers.  `OverflowStops` needs
  `MainFirst` (until a task is current main() has the registers).
  `ContextsInPlace`: a pending switch goes from the task in the registers to the
  one the kernel has chosen, and whoever exists is where its TCB says.
  `SwitchDelivers`: SVC and PendSV give the registers to the task that the kernel
  has chosen meanwhile and leave the one they took them from where its own TCB
  says; when nothing is pending after the first switch (`Settled`) the task in
  the registers is the running one, so no switch is forgotten.
  `NobodyAppears` is what the kernel contributes: only br_task_create puts a slot
  to use, so that the task a switch goes to was prepared.
* **Host.**  `HostInv` is `TasksSound` and `OwnContexts`: the executing slot is
  the current task's, slots and stacks correspond one to one, a context left
  behind has the mask that its position asks for, and a slot holds its task's
  code but for one at most that holds main() (`MainIn`), saved there with SIGALRM
  blocked before the first task was entered.  `br_hal_stack_init` finds a
  slot nobody uses because there are no more stacks than slots (`SlotFound`, the
  pigeonhole principle again).  The host is no instance of `BrTasks`:
  `sigalrm_handler` runs the alarm before the round-robin tick, so its two steps
  have lemmas of their own (`SignalSound`, `HandlerTickSound`).

### Semaphores: `BrSemProofs`

* **`NoLostWakeup`**: for every timeout, with interrupts in every window, a give
  either wakes a waiter or finds the wait queue empty, a take blocks only at
  count 0, and no other operation makes an empty wait queue non-empty.  It needs
  no assumption about the lists: it holds even in states where another hazard has
  corrupted them.  `NoLostWakeupManaged` says the same of `BrSystem`, finding 5
  included.  (`SameOperators`: the copies of the kernel's operators in its
  instance of `BrTasks` are the same functions.)
* **`Conservation`, `NoUnitFromNothing`**: `CpuSound` tells which task a give
  wakes, a BLOCKED one inside its take of this very semaphore, so the woken and
  not yet returned grow by exactly one.
* **`HighestFirst`**: the head of an ordered wait queue is a waiter of the
  highest priority.  **`SemImplements`**: each step is one of `AbstractSem` or
  none.
* The same four under task management, with `SystemSound`: `SemSound` for the
  calls of both modules, what the manager is about to ready (`ManagerCalls`), and
  that whoever is inside a call exists (`Alive`).  **`NoRevival`** follows from
  it: a wake-up reaches a BLOCKED task only.

### Mutexes: `BrMutexProofs`

* **`Exclusion`, `Orphans`** follow from `Owned`: the owner of a locked mutex has
  it or is about to return with it, and nobody else has or is.  Nested locks are
  included.  **`MutexImplements`** adds that a task about to return with a mutex
  is not counted as a holder yet (`NotTwice`).
* **`Inheriting`, `BoostEnds`** have the invariant `Inheritance`: one mutex per
  task (`OneEach`), the priority kept for the unlock is the one the owner was
  created with (`Recorded`), the wait queues are in order, so that the new owner
  is never below those it leaves waiting.

### Message queues: `BrMqueueProofs`

* **`Fifo`**: the work is in the indices: `Wraps` (one wrap of an index),
  `FreeSlot` (the slot behind the messages is none of theirs) and `NextHead`.
* **`NothingDropped`, `NothingInvented`**: `SlotKept` (while a woken sender has
  not returned the ring is not full) and `MessageKept`, the same for a receiver.
* **`NeverStuck`**: the second attempt of a woken task wakes nobody, so a receiver
  may stay queued with a message in the ring.  `NearlyEmpty` and `NearlyFull` say
  that it is one message (one slot) at most and that nobody is about to make a
  second attempt; with two slots a ring cannot be both.

### The pool: `BrPoolProofs`

`Layout`: every pool is cut out of a buffer of its own, which gives `Apart` by
arithmetic, whatever the application writes.  `FreeExact` has `Chained` (the
words inside the free blocks are a well-formed list of exactly them: the list
lemmas again, over addresses instead of tasks) and `Counted`; creation builds the
chain block by block from a function of the block's number, so no induction is
needed.

### What stays with TLC

* Liveness (`SleepEnds`, `RoundRobinTurn`): fairness and ENABLED are beyond the
  prover.
* The properties of the findings, which the code violates.

## 6. Not modelled, and the plan

Not modelled for good: UART, startup and board files (device I/O and C
runtime), the kconfig tool (build time, not part of the kernel), the examples
(applications; read for how the API is used).  Of panic and assert the halt of
`br_hal_panic` is in `BrPendSV`; the handler pointer of `br_panic_invoke` has no
behaviour beyond its call, and the kernel calls neither it nor `br_assert`.

Left out of modules that exist:

* finite timeouts of IPC calls and the suspension of waiting tasks: the code
  corrupts its lists as soon as there is a second sleeper (table of section 2),
  and no property of what follows would hold;
* mutexes and message queues under task management (a deleted owner, a deleted
  sender): `BrSystem` composes semaphores only, whose wait queues are the same;
* the IPC calls on the two ports: their tests of `br_hal_in_isr`;
* widths: the 16-bit `rr_remaining`, the 64-bit sum of a deadline;
* the exception frames that PendSV pushes on a stack after the overflow check;
* overlapping calls of the pool.

Next, in this order:

1. Proofs: that the calls of the pool, made one after the other, implement an
   abstract set of free blocks; which part of `TakeNeedsUnit` and of
   `TimedTakeEnds` survives with finite timeouts and a single sleeper; that a
   sleep lasts long enough on the Cortex-M when no wrap falls into the window
   (`BrTimer`).
2. An abstract FIFO channel implemented by `BrMqueue`.
3. Mutexes under task management.
