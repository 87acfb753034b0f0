------------------------------- MODULE BrTimer -------------------------------
(***************************************************************************)
(* The time base of the Cortex-M port (arch/arm-cortex-m/br_hal_timer.c)   *)
(* under one sleep of kernel/br_time.c.  BrKernel counts in ticks of the   *)
(* timer; here a tick is one period of the SysTick counter, the clock      *)
(* counts processor cycles, and the time the kernel reads is put together  *)
(* from the counter and from the periods the handler has counted.          *)
(***************************************************************************)
EXTENDS Integers

CONSTANTS
    Reload,      \* systick_reload
    TicksPerUs,  \* TICKS_PER_US
    Delays,      \* the arguments of br_sleep_us
    Horizon,     \* bound: cycles since br_hal_timer_init
    NONE         \* no alarm is pending

VARIABLES
    clock,              \* cycles since br_hal_timer_init
    pending,            \* the SysTick exception is pending
    masked,             \* interrupts are disabled
    timer_overflow_us,
    alarm,              \* alarm_target, or NONE when not alarm_pending
    sleep,              \* "no", "entering" br_sleep_us, or "asleep"
    wake,               \* tcb->wake_time
    since, us           \* when the sleep was called, and for how long

vars == <<clock, pending, masked, timer_overflow_us, alarm, sleep, wake, since, us>>

Init ==
    /\ clock = 0
    /\ pending = FALSE /\ masked = FALSE
    /\ timer_overflow_us = 0
    /\ alarm = NONE
    /\ sleep = "no" /\ wake = 0 /\ since = 0 /\ us = 0

Period == Reload + 1

\* The counter runs down from Reload.  (It is 0 in the last cycle of a period
\* and the exception pends then, a cycle before it does here: its entry takes
\* longer than that.)
SYST_CVR == Reload - (clock % Period)

br_hal_timer_get_us(base) == base + (Reload - SYST_CVR) \div TicksPerUs

tick_period_us == Period \div TicksPerUs

br_hal_timer_set_alarm(abs_us) == alarm' = abs_us

br_hal_timer_cancel_alarm == alarm' = NONE

\* Interrupts are never disabled for a whole period.
Cycle ==
    /\ clock < Horizon
    /\ clock' = clock + 1
    /\ clock' % Period = 0 => ~pending
    /\ pending' = (pending \/ clock' % Period = 0)
    /\ UNCHANGED <<masked, timer_overflow_us, alarm, sleep, wake, since, us>>

\* br_sleep_us disables interrupts ...
SleepEnter(delay) ==
    /\ sleep = "no" /\ ~pending
    /\ sleep' = "entering"
    /\ masked' = TRUE
    /\ since' = clock /\ us' = delay
    /\ UNCHANGED <<clock, pending, timer_overflow_us, alarm, wake>>

\* ... reads the time, sets the alarm and enables them again.
SleepRead ==
    /\ sleep = "entering"
    /\ wake' = br_hal_timer_get_us(timer_overflow_us) + us
    /\ br_hal_timer_set_alarm(wake')
    /\ sleep' = "asleep"
    /\ masked' = FALSE
    /\ UNCHANGED <<clock, pending, timer_overflow_us, since, us>>

\* br_time_alarm_handler with one sleeper, which it wakes or waits for anew.
AlarmHandler(base) ==
    CASE sleep # "asleep" -> UNCHANGED sleep /\ br_hal_timer_cancel_alarm
      [] sleep = "asleep" /\ wake <= br_hal_timer_get_us(base) ->
            sleep' = "no" /\ br_hal_timer_cancel_alarm
      [] OTHER -> UNCHANGED sleep /\ br_hal_timer_set_alarm(wake)

SysTick_Handler ==
    /\ pending /\ ~masked
    /\ pending' = FALSE
    /\ timer_overflow_us' = timer_overflow_us + tick_period_us
    /\ IF alarm # NONE /\ timer_overflow_us' >= alarm
       THEN AlarmHandler(timer_overflow_us')
       ELSE UNCHANGED <<sleep, alarm>>
    /\ UNCHANGED <<clock, masked, wake, since, us>>

Next ==
    \/ Cycle
    \/ \E delay \in Delays : SleepEnter(delay)
    \/ SleepRead
    \/ SysTick_Handler

Spec == Init /\ [][Next]_vars

-------------------------------------------------------------------------------

\* A sleep lasts as long as was asked for, up to the fraction of a microsecond
\* that the readings at its two ends cut off.
SleepsLongEnough ==
    [][sleep = "asleep" /\ sleep' = "no" =>
          clock - since > (us - 1) * TicksPerUs]_vars
===============================================================================
