------------------------------ MODULE BrSystem ------------------------------
(***************************************************************************)
(* Semaphores and task management together: tasks that take and give       *)
(* semaphores are suspended, resumed, deleted and created anew by another  *)
(* task at any point of their calls.  The link field that kernel/br_ipc.c  *)
(* uses for its wait queues is the one kernel/br_task.c removes from.      *)
(***************************************************************************)
EXTENDS BrSem

CONSTANTS
    Managers, Victims, SuspendBlocked,  \* see BrTasks
    DeleteTakers  \* may a task be deleted inside a take?

VARIABLE target  \* per task: the slot its resume or create has chosen

T == INSTANCE BrTasks

systemVars == <<vars, target>>

SystemInit == Init /\ T!Init

\* br_task_delete on a task that may be inside br_sem_take.
Delete(t, u) ==
    /\ pc[u] \in {"take", "expired"} => DeleteTakers
    /\ T!Delete(t, u)

TasksNext ==
    \E t \in Tasks :
        \/ \E u \in Tasks : T!Suspend(t, u)
        \/ \E u \in Tasks : T!ResumeCheck(t, u)
        \/ T!ResumeReady(t)
        \/ \E prio \in AppPriorities : T!CreateSlot(t, prio)
        \/ T!CreateReady(t)
        \/ \E u \in Tasks : Delete(t, u)

SystemNext ==
    \/ Next /\ UNCHANGED target
    \/ TasksNext /\ UNCHANGED <<count, units>>

SystemSpec == SystemInit /\ [][SystemNext]_systemVars

-------------------------------------------------------------------------------

SystemTypeOK ==
    /\ CpuTypeOK
    /\ pc \in [Tasks -> {"app", "take", "expired", "resume", "create"}]
    /\ target \in [Tasks -> Tasks \cup {NULL}]
    /\ count \in [Sems -> 0 .. MaxCount]
    /\ units \in [Sems -> Int]

\* A deleted task stays deleted until br_task_create uses its slot again:
\* nothing makes it READY, whatever it was doing when it was deleted.
DeletedStaysDead ==
    [][\A t \in Tasks :
          k.state[t] = "INACTIVE" /\ k'.state[t] # "INACTIVE" =>
              Booting \/ \E u \in Tasks : pc[u] = "create" /\ target[u] = t
      ]_systemVars
===============================================================================
