----------------------------- MODULE AbstractSem -----------------------------
(***************************************************************************)
(* What counting semaphores promise to their users, without queues,        *)
(* scheduling or interrupts: takes and gives are atomic on a number of     *)
(* units, a task that waits leaves with a unit or (timeout) without one.   *)
(***************************************************************************)
EXTENDS Integers, FiniteSets

CONSTANTS Tasks, Sems, InitialCount, MaxCount

VARIABLES
    units,   \* per semaphore: the units given and not taken
    waiting  \* per semaphore: the tasks inside a blocking take

Init ==
    /\ units = [s \in Sems |-> InitialCount]
    /\ waiting = [s \in Sems |-> {}]

\* A task or an interrupt handler takes a free unit without waiting.
Take(s) ==
    /\ units[s] > 0
    /\ units' = [units EXCEPT ![s] = @ - 1]
    /\ UNCHANGED waiting

Wait(s, t) ==
    /\ \A r \in Sems : t \notin waiting[r]
    /\ waiting' = [waiting EXCEPT ![s] = @ \cup {t}]
    /\ UNCHANGED units

Leave(s, t) ==
    /\ t \in waiting[s]
    /\ waiting' = [waiting EXCEPT ![s] = @ \ {t}]

Grant(s, t)   == Leave(s, t) /\ units[s] > 0 /\ units' = [units EXCEPT ![s] = @ - 1]
TimeOut(s, t) == Leave(s, t) /\ UNCHANGED units

\* Beyond the capacity a unit can only be on its way to a waiting task.
Give(s) ==
    /\ units[s] < MaxCount + Cardinality(waiting[s])
    /\ units' = [units EXCEPT ![s] = @ + 1]
    /\ UNCHANGED waiting

Next ==
    \E s \in Sems :
        Take(s) \/ Give(s)
        \/ \E t \in Tasks : Wait(s, t) \/ Grant(s, t) \/ TimeOut(s, t)

Spec == Init /\ [][Next]_<<units, waiting>>
===============================================================================
