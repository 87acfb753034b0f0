---------------------------- MODULE AbstractLock ----------------------------
(***************************************************************************)
(* What mutexes promise to their users: a task becomes the holder of a     *)
(* mutex only while nobody holds it, at once or after having waited, and   *)
(* only the holder gives it up.                                            *)
(***************************************************************************)
CONSTANTS Tasks, Mutexes, NULL

VARIABLES
    holder,  \* per mutex: the task whose lock has succeeded, or NULL
    waiting  \* per mutex: the tasks inside a blocking lock

Init ==
    /\ holder = [m \in Mutexes |-> NULL]
    /\ waiting = [m \in Mutexes |-> {}]

Outside(t) == \A m \in Mutexes : t \notin waiting[m]

Acquire(m, t) == holder[m] = NULL /\ holder' = [holder EXCEPT ![m] = t]

Lock(m, t) == Outside(t) /\ Acquire(m, t) /\ UNCHANGED waiting

Wait(m, t) ==
    /\ Outside(t)
    /\ waiting' = [waiting EXCEPT ![m] = @ \cup {t}]
    /\ UNCHANGED holder

Leave(m, t) ==
    t \in waiting[m] /\ waiting' = [waiting EXCEPT ![m] = @ \ {t}]

Grant(m, t)   == Leave(m, t) /\ Acquire(m, t)
TimeOut(m, t) == Leave(m, t) /\ UNCHANGED holder

Unlock(m, t) ==
    /\ Outside(t) /\ holder[m] = t
    /\ holder' = [holder EXCEPT ![m] = NULL]
    /\ UNCHANGED waiting

Next ==
    \E m \in Mutexes, t \in Tasks :
        Lock(m, t) \/ Wait(m, t) \/ Grant(m, t) \/ TimeOut(m, t) \/ Unlock(m, t)

Spec == Init /\ [][Next]_<<holder, waiting>>
===============================================================================
