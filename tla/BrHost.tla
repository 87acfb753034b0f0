------------------------------- MODULE BrHost -------------------------------
(***************************************************************************)
(* The host port (arch/host-x86-64) under the task system of BrTasks: the  *)
(* interrupt is the signal SIGALRM, critical sections block it, and        *)
(* br_hal_context_switch is swapcontext, which switches at once, also in   *)
(* the middle of the signal handler.  A context left there goes on with    *)
(* the rest of the handler when its task is next dispatched.               *)
(*                                                                         *)
(* Contexts live in execution slots.  A slot is found by the stack the     *)
(* application passed to br_task_create, and never given back.             *)
(***************************************************************************)
EXTENDS BrTasks

CONSTANT Stacks  \* the stacks the application has for its tasks

ASSUME HostAssumption == Stacks \subseteq Nat /\ NULL \notin Stacks

VARIABLES
    slotOf,    \* tcb->sp: the execution slot of a task, or NULL
    slotKey,   \* per slot: the stack it was allocated for, or NULL
    owner,     \* per slot: the task whose code its context executes, or NULL:
               \*   there is none, or it is that of main()
    pos,       \* per slot, and for main() at NULL: where the context goes on
    ucMask,    \* per slot: the signal mask in the saved context
    exec,      \* the slot that executes, or NULL: main(), on its own stack
    mask,      \* SIGALRM is blocked
    inIsr,     \* g_in_isr
    fresh      \* no tick has elapsed since g_last_tick_us

(***************************************************************************)
(* The position of a context: "app" in the code of its task (of main() up  *)
(* to the setcontext of br_hal_start_first_task), or before the call of    *)
(* swapcontext of an operation that will not switch; "call" behind the     *)
(* swapcontext of a reschedule its task called; "alarm" and "tick" in      *)
(* sigalrm_handler, behind br_time_alarm_handler and behind br_sched_tick. *)
(***************************************************************************)
Positions == {"app", "call", "alarm", "tick"}

Slots == Tasks  \* as many as CONFIG_MAX_TASKS

hostVars == <<slotOf, slotKey, owner, pos, ucMask, exec, mask, inIsr, fresh>>
hostAll  == <<vars, hostVars>>

HostInit ==
    /\ Init
    /\ slotOf = [t \in Tasks |-> NULL]
    /\ slotKey = [s \in Slots |-> NULL]
    /\ owner = [s \in Slots |-> NULL]
    /\ pos = [s \in Slots \cup {NULL} |-> "app"]
    /\ ucMask = [s \in Slots |-> FALSE]
    /\ exec = NULL
    /\ mask = FALSE
    /\ inIsr = FALSE
    /\ fresh = TRUE

Least(S) == CHOOSE s \in S : \A r \in S : s <= r

\* Mistake: a slot is looked for among the free ones only.
alloc_slot_NoReuse(stack) ==
    LET free == {s \in Slots : slotKey[s] = NULL}
    IN  IF free # {} THEN Least(free) ELSE NULL

\* Mistake: slots are taken in turn, without a search and without a limit.
alloc_slot_InTurn(stack) == Cardinality({s \in Slots : slotKey[s] # NULL})

\* The slot of the stack, else the first free one, else NULL.
alloc_slot(stack) ==
    LET own  == {s \in Slots : slotKey[s] = stack}
        free == {s \in Slots : slotKey[s] = NULL}
    IN  IF own # {} THEN Least(own)
        ELSE IF free # {} THEN Least(free) ELSE NULL

\* Whose code executes; NULL is main().
Executes == IF exec = NULL THEN NULL ELSE owner[exec]

\* Outside handlers and critical sections, in the code of a task or of main().
InTask == Executes # NULL /\ pos[exec] = "app" /\ isr = "none"
InMain == Executes = NULL /\ pos[exec] = "app" /\ isr = "none"

\* br_hal_stack_init for the task u: a context that starts with an empty mask.
StackInit(u, stack) ==
    LET s == alloc_slot(stack)
    IN  /\ slotOf' = [slotOf EXCEPT ![u] = s]
        /\ IF s = NULL
           THEN UNCHANGED <<slotKey, owner, pos, ucMask>>
           ELSE /\ slotKey' = [slotKey EXCEPT ![s] = stack]
                /\ owner' = [owner EXCEPT ![s] = u]
                /\ pos' = [pos EXCEPT ![s] = "app"]
                /\ ucMask' = [ucMask EXCEPT ![s] = FALSE]

\* The stacks of the tasks that have not been deleted.
StacksInUse == {slotKey[slotOf[t]] : t \in {u \in Tasks : slotOf[u] # NULL}}

FreeStacks == Stacks \ StacksInUse

\* main() takes its stacks in their order: any other one is a symmetry.
CreateAtBoot ==
    /\ \E prio \in Priorities : BootCreate(prio)
    /\ FreeStacks # {}
    /\ StackInit(FirstFree(k), Least(FreeStacks))
    /\ UNCHANGED <<target, exec, mask, inIsr, fresh>>

HostCreate ==
    /\ InTask
    /\ \E t \in Tasks, prio \in AppPriorities : CreateSlot(t, prio)
    /\ \E stack \in FreeStacks : StackInit(FirstFree(k), stack)
    /\ UNCHANGED <<exec, mask, inIsr, fresh>>

\* main() calls br_kernel_start, which sets current_task with SIGALRM
\* unblocked and the interval timer running ...
StartKernel == Start /\ UNCHANGED <<target, hostVars>>

\* ... and enters the context of the first task.  When a handler has saved
\* main() over that context in between, and main() is dispatched in its place,
\* setcontext leads back into the handler that main() has returned from.
StartFirst ==
    /\ InMain /\ k.current # NULL
    /\ exec' = slotOf[k.current]
    /\ mask' = ucMask[exec']
    /\ IF exec = NULL
       THEN UNCHANGED pos
       ELSE \E again \in {"alarm", "tick"} : pos' = [pos EXCEPT ![exec] = again]
    /\ UNCHANGED <<vars, slotOf, slotKey, owner, ucMask, inIsr, fresh>>

HostDelete ==
    /\ InTask
    /\ \E t, u \in Tasks : Delete(t, u) /\ slotOf' = [slotOf EXCEPT ![u] = NULL]
    /\ UNCHANGED <<slotKey, owner, pos, ucMask, exec, mask, inIsr, fresh>>

\* The calls of a task that do not reach swapcontext.
HostCall ==
    /\ InTask
    /\ \E t \in Tasks :
        \/ /\ \/ Yield(t)
              \/ \E ticks \in 1 .. MaxTicks : Sleep(t, ticks)
              \/ br_sched_lock(t)
              \/ br_sched_unlock(t)
           /\ UNCHANGED target
        \/ \E u \in Tasks : Suspend(t, u)
        \/ \E u \in Tasks : ResumeCheck(t, u)
        \/ ResumeReady(t)
        \/ CreateReady(t)
    /\ UNCHANGED hostVars

\* Mistake: swapcontext does not restore the mask of the new context.
SwapContext_KeepsMask(there, stays) ==
    IF k'.current = k.current
    THEN /\ pos' = [pos EXCEPT ![exec] = stays]
         /\ UNCHANGED <<owner, ucMask, exec, mask>>
    ELSE /\ pos' = [pos EXCEPT ![slotOf[k.current]] = there]
         /\ owner' = [owner EXCEPT ![slotOf[k.current]] = Executes]
         /\ ucMask' = [ucMask EXCEPT ![slotOf[k.current]] = TRUE]
         /\ exec' = slotOf[k'.current]
         /\ UNCHANGED mask

\* The effect on the contexts of a br_sched_reschedule, called with the
\* signal blocked: with another task to run the caller is left at `there',
\* and the mask saved and replaced; else the caller goes on at `stays'.
SwapContext(there, stays) ==
    IF k'.current = k.current
    THEN /\ pos' = [pos EXCEPT ![exec] = stays]
         /\ UNCHANGED <<owner, ucMask, exec, mask>>
    ELSE /\ pos' = [pos EXCEPT ![slotOf[k.current]] = there]
         /\ owner' = [owner EXCEPT ![slotOf[k.current]] = Executes]
         /\ ucMask' = [ucMask EXCEPT ![slotOf[k.current]] = TRUE]
         /\ exec' = slotOf[k'.current]
         /\ mask' = ucMask[exec']

\* A task calls br_sched_reschedule ...
CallReschedule ==
    /\ InTask
    /\ \E t \in Tasks : Reschedule(t)
    /\ SwapContext("call", "app")
    /\ UNCHANGED <<target, slotOf, slotKey, inIsr, fresh>>

\* ... and, when it executes again, br_hal_irq_restore with the state 0.
IrqRestore ==
    /\ exec # NULL /\ pos[exec] = "call"
    /\ pos' = [pos EXCEPT ![exec] = "app"]
    /\ mask' = FALSE
    /\ UNCHANGED <<vars, slotOf, slotKey, owner, ucMask, exec, inIsr, fresh>>

\* The signal: sigalrm_handler up to its test of the alarm.  Before main() has
\* set current_task it finds no alarm and no task, and ends.
sigalrm_handler ==
    /\ ~mask /\ ~k.hung
    /\ InMain \/ InTask
    /\ TickWakesCurrent => WakeInWindow
    /\ fresh' = (k.current = NULL)
    /\ IF k.current = NULL
       THEN k' = Elapse(k) /\ UNCHANGED <<isr, pos, mask, inIsr>>
       ELSE /\ mask' = TRUE
            /\ inIsr' = TRUE
            /\ LET k1 == Elapse(k)
               IN  IF AlarmDue(k1)
                   THEN /\ k' = [k1 EXCEPT !.alarm = NULL]
                        /\ isr' = "alarm"
                        /\ UNCHANGED pos
                   ELSE /\ k' = k1
                        /\ pos' = [pos EXCEPT ![exec] = "alarm"]
                        /\ UNCHANGED isr
    /\ UNCHANGED <<pc, obj, resched, target, slotOf, slotKey, owner, ucMask, exec>>

\* br_time_alarm_handler: its loop, and its call of br_sched_reschedule.
AlarmLoop ==
    /\ AlarmWake
    /\ UNCHANGED <<target, hostVars>>

AlarmReschedule ==
    /\ AlarmDone
    /\ SwapContext("alarm", "alarm")
    /\ UNCHANGED <<target, slotOf, slotKey, inIsr, fresh>>

\* br_sched_tick with the time elapsed since the last call: less than a slice
\* when another context has called it meanwhile.
TickOfHost ==
    IF fresh /\ k.rr[k.current] > 0 THEN k ELSE br_sched_tick(k)

HandlerTick ==
    /\ pos[exec] = "alarm" /\ isr = "none"
    /\ k' = TickOfHost
    /\ fresh' = TRUE
    /\ SwapContext("tick", "tick")
    /\ UNCHANGED <<pc, obj, resched, isr, target, slotOf, slotKey, inIsr>>

\* The end of the handler; sigreturn restores the mask before the signal.
HandlerReturn ==
    /\ pos[exec] = "tick"
    /\ inIsr' = FALSE
    /\ pos' = [pos EXCEPT ![exec] = "app"]
    /\ mask' = FALSE
    /\ UNCHANGED <<vars, slotOf, slotKey, owner, ucMask, exec, fresh>>

HostNext ==
    \/ CreateAtBoot
    \/ HostCreate
    \/ StartKernel
    \/ StartFirst
    \/ HostDelete
    \/ HostCall
    \/ CallReschedule
    \/ IrqRestore
    \/ sigalrm_handler
    \/ AlarmLoop
    \/ AlarmReschedule
    \/ HandlerTick
    \/ HandlerReturn

HostSpec == HostInit /\ [][HostNext]_hostAll

\* The process executes, and the interval timer keeps sending the signal.
FairHostSpec ==
    /\ HostSpec
    /\ WF_hostAll(StartFirst \/ CallReschedule \/ IrqRestore)
    /\ WF_hostAll(AlarmLoop \/ AlarmReschedule \/ HandlerTick \/ HandlerReturn)
    /\ SF_hostAll(sigalrm_handler)
    /\ WF_hostAll(InTask /\ UNCHANGED hostVars
                  /\ \E t \in Tasks : ResumeReady(t) \/ CreateReady(t))

-------------------------------------------------------------------------------

HostTypeOK ==
    /\ slotOf \in [Tasks -> Slots \cup {NULL}]
    /\ slotKey \in [Slots -> Stacks \cup {NULL}]
    /\ owner \in [Slots -> Tasks \cup {NULL}]
    /\ pos \in [Slots \cup {NULL} -> Positions]
    /\ ucMask \in [Slots -> BOOLEAN]
    /\ exec \in Slots \cup {NULL}
    /\ mask \in BOOLEAN /\ inIsr \in BOOLEAN /\ fresh \in BOOLEAN

\* Signal-mask invariant: the code of a task, or of main(), always executes with
\* SIGALRM unblocked and the rest of a handler or reschedule with SIGALRM
\* blocked, by whatever way its context was left and resumed.
MaskExact == mask <=> pos[exec] # "app" \/ isr # "none"

\* The context that executes is that of the running task, and every task that
\* exists has a context of its own.  One task may find main() in the place of
\* its own context, when a handler has switched before main() entered it.
ContextsMatchTasks ==
    LET InUse == {t \in Tasks : k.state[t] # "INACTIVE"}
        Lost  == {t \in InUse : owner[slotOf[t]] # t}
    IN  /\ exec # NULL => exec = slotOf[k.current]
        /\ \A t \in InUse : slotOf[t] # NULL
        /\ \A t, u \in Tasks : slotOf[t] = slotOf[u] => t = u \/ slotOf[t] = NULL
        /\ \A t \in Lost : owner[slotOf[t]] = NULL /\ exec # NULL
        /\ \A t, u \in Lost : t = u
===============================================================================
