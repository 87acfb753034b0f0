----------------------------- MODULE BrSemProofs -----------------------------
(***************************************************************************)
(* Theorems about semaphores, alone (BrSem) and under task management      *)
(* (BrSystem).                                                             *)
(***************************************************************************)
EXTENDS BrSystem, BrCpuProofs

\* A take that has blocked remembers the semaphore whose queue it joined.
TakesSem == \A t \in Tasks : pc[t] \in {"take", "expired"} => obj[t] \in Sems

\* The types with the calls in C in progress.
Typed(C) ==
    /\ CpuTypeOK /\ BootQuiet /\ TakesSem
    /\ pc \in [Tasks -> C]
    /\ count \in [Sems -> 0 .. MaxCount]
    /\ units \in [Sems -> Int]

\* A take that never times out is in one of the first two.
SemCalls == {"app", "take"}
AllCalls == SemCalls \cup {"expired"}

TypeInv == TypeOK /\ BootQuiet /\ TakesSem

LEMMA TypeInvTyped == TypeInv <=> Typed(AllCalls)
<1>1. AllCalls = {"app", "take", "expired"}
  BY DEF AllCalls, SemCalls
<1> QED BY <1>1 DEF TypeInv, TypeOK, Typed

\* Initially every variable has a value of its type ...
LEMMA InitTypes == Init => TypeInv
<1> SUFFICES ASSUME Init PROVE TypeInv
  OBVIOUS
<1>1. CpuTypes
  BY CpuInitTypes DEF Init
<1>2. units \in [Sems -> Int]
  BY SemAssumption DEF Init
<1> QED BY <1>1, <1>2, SemAssumption
        DEF Init, CpuInit, CpuTypes, TypeInv, TypeOK, TakesSem

\* A waiter that a give wakes comes off the queue of its semaphore; the
\* running task stays the same.
LEMMA WakeFirstType ==
    ASSUME k \in Kernel, NEW s \in Sems, k.wq[s] # NULL
    PROVE  /\ k.wq[s] \in Tasks
           /\ WakeFirst(s) \in Kernel
           /\ WakeFirst(s).current = k.current
           /\ \A r \in WaitQueues \ {s} : WakeFirst(s).wq[r] = k.wq[r]
<1>1. s \in WaitQueues
  BY SemAssumption
<1> QED BY <1>1, WakeStep DEF WakeFirst

\* ... every step keeps that.
LEMMA StepTypes ==
    ASSUME NEW C, SemCalls \subseteq C, Typed(C), [Next]_vars,
           \/ "expired" \in C
           \/ /\ "expired" \notin C
              /\ \A t \in Tasks : obj[t] # NULL => k.result[t] # "TIMEOUT"
    PROVE  Typed(C)'
<1> USE DEF Typed, SemCalls, TakesSem
<1>0. k \in Kernel
  BY DEF CpuTypeOK
<1>1. CASE CpuNext /\ UNCHANGED <<count, units>>
  BY <1>1, CpuNextTypes, CpuNextFrame DEF CpuTypes
<1>2. ASSUME NEW s \in Sems, NEW n \in {-1, 1}
      PROVE  [units EXCEPT ![s] = @ + n] \in [Sems -> Int]
  OBVIOUS
<1>3. ASSUME NEW s \in Sems, Took(s) \/ Gave(s)
      PROVE  units' \in [Sems -> Int]
  BY <1>3 DEF Took, Gave
<1>4. ASSUME NEW s \in Sems, count[s] > 0, count' = [count EXCEPT ![s] = @ - 1]
      PROVE  count' \in [Sems -> 0 .. MaxCount]
  BY <1>4, SemAssumption
<1>5. ASSUME NEW s \in Sems, AddUnit(s)
      PROVE  count' \in [Sems -> 0 .. MaxCount] /\ units' \in [Sems -> Int]
  BY <1>5, SemAssumption DEF AddUnit, Gave
<1>6. ASSUME NEW t \in Tasks, NEW s \in Sems, TakeFree(t, s)
      PROVE  Typed(C)'
  BY <1>6, <1>3, <1>4 DEF TakeFree, CpuTypeOK, BootQuiet, Booting
<1>7. ASSUME NEW t \in Tasks, NEW s \in Sems, NEW timeout \in Timeouts,
             TakeBlock(t, s, timeout)
      PROVE  Typed(C)'
  <2>1. s \in WaitQueues /\ timeout \in (1 .. MaxTicks) \cup {NULL}
    BY SemAssumption
  <2>2. k' \in Kernel /\ k'.current = k.current
    BY <1>0, <1>7, <2>1, BlockStep DEF TakeBlock
  <2>3. k.current # NULL
    BY <1>7, ListAssumption DEF TakeBlock, InApp, Running
  <2>4. /\ pc' = [pc EXCEPT ![t] = "take"] /\ obj' = [obj EXCEPT ![t] = s]
        /\ resched' = [resched EXCEPT ![t] = TRUE]
        /\ UNCHANGED <<isr, count, units>>
    BY <1>7 DEF TakeBlock
  <2>5. /\ pc' \in [Tasks -> C] /\ obj' \in [Tasks -> WaitQueues \cup {NULL}]
        /\ resched' \in [Tasks -> BOOLEAN]
    BY <2>1, <2>4 DEF CpuTypeOK
  <2>6. TakesSem'
    BY <2>4 DEF CpuTypeOK
  <2> QED BY <2>2, <2>3, <2>4, <2>5, <2>6 DEF CpuTypeOK, BootQuiet, Booting
<1>8. ASSUME NEW t \in Tasks, TakeReturn(t)
      PROVE  Typed(C)'
  <2>1. obj[t] \in Sems /\ obj[t] \in WaitQueues
    BY <1>8, SemAssumption DEF TakeReturn
  <2>2. k' \in Kernel /\ k'.current = k.current
    BY <1>8, <2>1, RemoveStep DEF TakeReturn, CpuTypeOK
  <2>3. k.current # NULL
    BY <1>8, ListAssumption DEF TakeReturn, Running
  <2>4. units' \in [Sems -> Int]
    BY <1>3, <1>8, <2>1 DEF TakeReturn
  <2>5. /\ UNCHANGED <<resched, isr, count>>
        /\ \/ /\ pc' = [pc EXCEPT ![t] = "expired"] /\ obj' = obj
              /\ "expired" \in C
           \/ /\ pc' = [pc EXCEPT ![t] = "app"]
              /\ obj' = [obj EXCEPT ![t] = NULL]
    <3>1. obj[t] # NULL
      BY <2>1, SemAssumption
    <3> QED BY <1>8, <3>1 DEF TakeReturn
  <2>6. pc' \in [Tasks -> C] /\ obj' \in [Tasks -> WaitQueues \cup {NULL}]
    BY <2>5 DEF CpuTypeOK
  <2>7. TakesSem'
    BY <2>1, <2>5 DEF CpuTypeOK
  <2> QED BY <2>2, <2>3, <2>4, <2>5, <2>6, <2>7 DEF CpuTypeOK, BootQuiet, Booting
<1>9. ASSUME NEW t \in Tasks, NEW s \in Sems, GiveWake(t, s)
      PROVE  Typed(C)'
  <2>1. k' \in Kernel /\ k'.current = k.current
    BY <1>9, WakeFirstType DEF GiveWake, CpuTypeOK
  <2>2. k.current # NULL
    BY <1>9, ListAssumption DEF GiveWake, InApp, Running
  <2>3. units' \in [Sems -> Int]
    BY <1>3, <1>9 DEF GiveWake
  <2> QED BY <1>9, <2>1, <2>2, <2>3 DEF GiveWake, CpuTypeOK, BootQuiet, Booting
<1>10. ASSUME NEW s \in Sems,
              IsrGiveCount(s) \/ \E t \in Tasks : GiveCount(t, s)
       PROVE  Typed(C)'
  <2>1. count' \in [Sems -> 0 .. MaxCount] /\ units' \in [Sems -> Int]
    BY <1>5, <1>10 DEF GiveCount, IsrGiveCount
  <2> QED BY <1>10, <2>1 DEF GiveCount, IsrGiveCount, CpuTypeOK, BootQuiet, Booting
<1>11. ASSUME NEW s \in Sems, IsrGiveWake(s)
       PROVE  Typed(C)'
  <2>1. k.current \in Tasks
    BY <1>11 DEF IsrGiveWake, InIsr, Booting, CpuTypeOK, Kernel
  <2> DEFINE k1 == WakeFirst(s)
  <2>2. k1 \in Kernel /\ k1.current \in Tasks
    BY <1>11, <2>1, WakeFirstType DEF IsrGiveWake, CpuTypeOK
  <2>3. k' = br_sched_reschedule(k1)
    BY <1>11 DEF IsrGiveWake
  <2> HIDE DEF k1
  <2>4. k' \in Kernel /\ k'.current \in Tasks
    BY <2>2, <2>3, RescheduleType
  <2>5. units' \in [Sems -> Int]
    BY <1>3, <1>11 DEF IsrGiveWake
  <2> QED BY <1>11, <2>4, <2>5, ListAssumption
          DEF IsrGiveWake, CpuTypeOK, BootQuiet, Booting
<1>12. ASSUME NEW s \in Sems, IsrTake(s)
       PROVE  Typed(C)'
  BY <1>3, <1>4, <1>12 DEF IsrTake, CpuTypeOK, BootQuiet, Booting
<1>13. CASE UNCHANGED vars
  BY <1>13 DEF vars, CpuTypeOK, BootQuiet, Booting
<1> QED BY <1>1, <1>6, <1>7, <1>8, <1>9, <1>10, <1>11, <1>12, <1>13
        DEF Next, SemNext

LEMMA NextTypes == TypeInv /\ [Next]_vars => TypeInv'
<1>1. TypeInv' <=> Typed(AllCalls)'
  BY TypeInvTyped, PTL
<1>2. SemCalls \subseteq AllCalls /\ "expired" \in AllCalls
  BY DEF AllCalls
<1> HIDE DEF AllCalls
<1> QED BY <1>1, <1>2, TypeInvTyped, StepTypes

\* Every variable always has a value of its type; the count of a semaphore
\* stays between 0 and its maximum.
THEOREM TypeCorrect == Spec => []TypeOK
<1>1. TypeInv => TypeOK
  BY DEF TypeInv
<1> QED BY <1>1, InitTypes, NextTypes, PTL DEF Spec

-------------------------------------------------------------------------------
\* While a unit is free the wait queue is empty: holds initially ...
LEMMA InitNoWaiter == Init => NoWaiterWhileFree
<1> SUFFICES ASSUME Init PROVE NoWaiterWhileFree
  OBVIOUS
<1>1. \A s \in Sems : k.wq[s] = NULL
  BY SemAssumption DEF Init, CpuInit, InitialKernel
<1> QED BY <1>1 DEF NoWaiterWhileFree

\* ... and every step keeps it.
LEMMA StepNoWaiter ==
    ASSUME NEW C, Typed(C), NoWaiterWhileFree, [Next]_vars
    PROVE  NoWaiterWhileFree'
<1> USE DEF NoWaiterWhileFree
<1>0. k \in Kernel /\ count \in [Sems -> 0 .. MaxCount] /\ Sems \subseteq WaitQueues
  BY SemAssumption DEF Typed, CpuTypeOK
<1>1. CASE CpuNext /\ UNCHANGED <<count, units>>
  BY <1>1, CpuNextFrame
<1>2. ASSUME NEW s \in Sems,
             \/ IsrTake(s) \/ IsrGiveCount(s)
             \/ \E t \in Tasks : TakeFree(t, s) \/ GiveCount(t, s)
      PROVE  NoWaiterWhileFree'
  <2>1. UNCHANGED k
    BY <1>2 DEF IsrTake, IsrGiveCount, TakeFree, GiveCount
  <2>2. \/ count[s] > 0 /\ count' = [count EXCEPT ![s] = @ - 1]
        \/ k.wq[s] = NULL /\ count' = [count EXCEPT ![s] = @ + 1]
    BY <1>2 DEF IsrTake, IsrGiveCount, TakeFree, GiveCount, AddUnit
  <2> QED BY <1>0, <2>1, <2>2
<1>3. ASSUME NEW t \in Tasks, NEW s \in Sems, NEW timeout \in Timeouts,
             TakeBlock(t, s, timeout)
      PROVE  NoWaiterWhileFree'
  <2>1. \A r \in WaitQueues \ {s} : k'.wq[r] = k.wq[r]
    BY <1>0, <1>3, BlockStep, SemAssumption DEF TakeBlock
  <2>2. ~(count[s] > 0) /\ UNCHANGED count
    BY <1>3 DEF TakeBlock
  <2> QED BY <1>0, <2>1, <2>2
<1>4. ASSUME NEW t \in Tasks, TakeReturn(t)
      PROVE  NoWaiterWhileFree'
  <2>1. obj[t] \in WaitQueues /\ UNCHANGED count
    BY <1>0, <1>4 DEF TakeReturn, Typed, TakesSem
  <2>2. \A r \in WaitQueues : k.wq[r] = NULL => k'.wq[r] = NULL
    BY <1>0, <1>4, <2>1, RemoveStep DEF TakeReturn
  <2> QED BY <1>0, <2>1, <2>2
<1>5. ASSUME NEW s \in Sems, IsrGiveWake(s) \/ \E t \in Tasks : GiveWake(t, s)
      PROVE  NoWaiterWhileFree'
  <2> DEFINE k1 == WakeFirst(s)
  <2>1. k.wq[s] # NULL /\ UNCHANGED count
    BY <1>5 DEF IsrGiveWake, GiveWake
  <2>2. \A r \in WaitQueues \ {s} : k1.wq[r] = k.wq[r]
    BY <1>0, <2>1, WakeFirstType
  <2>3. k' = k1 \/ k' = br_sched_reschedule(k1)
    BY <1>5 DEF IsrGiveWake, GiveWake
  <2> HIDE DEF k1
  <2>4. k'.wq = k1.wq
    BY <2>3, SchedFrame
  <2> QED BY <1>0, <2>1, <2>2, <2>4
<1>6. CASE UNCHANGED vars
  BY <1>6 DEF vars
<1> QED BY <1>1, <1>2, <1>3, <1>4, <1>5, <1>6 DEF Next, SemNext

LEMMA NextNoWaiter ==
    TypeInv /\ NoWaiterWhileFree /\ [Next]_vars => NoWaiterWhileFree'
BY TypeInvTyped, StepNoWaiter

(***************************************************************************)
(* No lost wake-up: no unit of a semaphore is free while a task is queued  *)
(* for it, whatever the timeouts, the interrupts and the interleaving.     *)
(***************************************************************************)
THEOREM NoLostWakeup == Spec => []NoWaiterWhileFree
BY InitTypes, NextTypes, InitNoWaiter, NextNoWaiter, PTL DEF Spec

-------------------------------------------------------------------------------
(***************************************************************************)
(* Sound memory and conservation of units, for takes that wait without a   *)
(* timeout: after a timeout the links of the sleep list and of the wait    *)
(* queue are mixed up.                                                     *)
(***************************************************************************)
Patient == Timeouts = {NULL} /\ ~WakeInWindow /\ ~BlockWhileLocked

OnlyTakesWait == \A t \in Tasks : obj[t] # NULL => pc[t] = "take"

\* Of the calls in progress none has expired.
SemSound(C) ==
    "expired" \notin C /\ Typed(C) /\ CpuSound /\ InOrder /\ OnlyTakesWait

LEMMA InitSound == ASSUME Patient, Init PROVE SemSound(SemCalls)
<1>1. CpuSound /\ Typed(SemCalls)
  <2>1. Typed(AllCalls) /\ pc \in [Tasks -> SemCalls]
    BY InitTypes, TypeInvTyped DEF Init, CpuInit, SemCalls
  <2>2. CpuSound
    BY InitTypes, CpuInitSound, SemAssumption DEF Patient, Careful, Init
  <2> QED BY <2>1, <2>2 DEF Typed
<1>2. InOrder
  BY InitOrder DEF Init
<1> QED BY <1>1, <1>2 DEF SemSound, OnlyTakesWait, Init, CpuInit, SemCalls

LEMMA SemFacts ==
    ASSUME Patient, NEW C, SemSound(C)
    PROVE  /\ CpuTypeOK /\ CpuTypes /\ CpuSound /\ Careful /\ InOrder /\ OnlyTakesWait
           /\ TakesSem /\ pc \in [Tasks -> C]
           /\ k \in Kernel /\ k.state \in [Tasks -> States]
           /\ obj \in [Tasks -> WaitQueues \cup {NULL}]
           /\ Sems \subseteq WaitQueues /\ NULL \notin Sems
           /\ count \in [Sems -> 0 .. MaxCount] /\ units \in [Sems -> Int]
BY SemAssumption DEF SemSound, Typed, CpuTypes, CpuTypeOK, Kernel, Careful, Patient

\* The woken waiter of a give, in the task's and in the handler's form.
GiveWakes(s, w) ==
    /\ w \in Tasks /\ pc[w] = "take" /\ obj[w] = s /\ k.state[w] = "BLOCKED"
    /\ \A u \in Tasks : k'.state[u] = "BLOCKED"
                          <=> k.state[u] = "BLOCKED" /\ u # w
    /\ \A u \in Waiters(s) : k.priority[w] <= k.priority[u]
    /\ pc' = pc /\ obj' = obj

\* What each kind of step does to the memory and to those who wait.
MemoryKept == CpuSound' /\ InOrder' /\ KeepsOut(k, k') /\ k'.current # NULL

LEMMA GiveWakeSound ==
    ASSUME Patient, NEW C, SemSound(C), NEW s \in Sems,
           IsrGiveWake(s) \/ \E t \in Tasks : GiveWake(t, s)
    PROVE  MemoryKept /\ \E w \in Tasks : GiveWakes(s, w)
<1>0. /\ CpuTypeOK /\ CpuSound /\ Careful /\ InOrder /\ OnlyTakesWait
      /\ s \in WaitQueues /\ NULL # s /\ k.state \in [Tasks -> States]
  BY SemFacts
<1>1. PICK w : w = k.wq[s]
  OBVIOUS
<1>2. \A u \in Waiters(s) : k.priority[w] <= k.priority[u]
  BY <1>0, <1>1, HeadFirst DEF CpuTypeOK, CpuSound, InOrder
<1>3. ASSUME NEW t \in Tasks, GiveWake(t, s)
      PROVE  MemoryKept /\ w \in Tasks /\ GiveWakes(s, w)
  <2>1. WakeCall(k, t, s)
    BY <1>3 DEF GiveWake, WakeFirst, WakeCall
  <2>2. Reprioritized(k)
    BY <1>0, SameReprioritized
  <2>3. /\ CpuSound' /\ w \in Tasks /\ obj[w] = s
        /\ k.state[w] = "BLOCKED"
        /\ k'.state = [k.state EXCEPT ![w] = "READY"]
        /\ KeepsOrder(k, obj, k', obj) /\ k'.current = k.current
    BY <1>0, <1>1, <2>1, <2>2, WakeCallSound
  <2>4. InOrder'
    BY <1>0, <2>1, <2>3, OrderStep DEF WakeCall
  <2>5. KeepsOut(k, k') /\ k'.current # NULL
    BY <1>0, <2>1, <2>3, ListAssumption DEF KeepsOut, WakeCall, InApp, Running
  <2> QED BY <1>0, <1>2, <2>1, <2>3, <2>4, <2>5
          DEF GiveWakes, WakeCall, MemoryKept, OnlyTakesWait
<1>4. CASE IsrGiveWake(s)
  <2>1. IsrWake(s)
    BY <1>0, <1>4 DEF IsrGiveWake, InIsr, WakeFirst, IsrWake, Careful
  <2>2. /\ CpuSound' /\ w \in Tasks /\ obj[w] = s
        /\ k.state[w] = "BLOCKED"
        /\ \A u \in Tasks : k'.state[u] = "BLOCKED"
                              <=> k.state[u] = "BLOCKED" /\ u # w
        /\ KeepsOrder(k, obj, k', obj) /\ KeepsOut(k, k') /\ k'.current # NULL
    BY <1>0, <1>1, <2>1, IsrWakeSound
  <2>3. InOrder'
    BY <1>0, <2>1, <2>2, OrderStep DEF IsrWake
  <2> QED BY <1>0, <1>2, <2>1, <2>2, <2>3
          DEF GiveWakes, IsrWake, MemoryKept, OnlyTakesWait
<1> QED BY <1>3, <1>4

LEMMA TakeBlockSound ==
    ASSUME Patient, NEW C, SemSound(C), NEW t \in Tasks, NEW s \in Sems,
           NEW timeout \in Timeouts, TakeBlock(t, s, timeout)
    PROVE  /\ MemoryKept /\ k'.state = [k.state EXCEPT ![t] = "BLOCKED"]
           /\ k.state[t] = "RUNNING" /\ k'.current = t
<1>1. /\ CpuTypeOK /\ CpuSound /\ Careful /\ s \in WaitQueues /\ InOrder
      /\ pc \in [Tasks -> C] /\ k.state \in [Tasks -> States]
  BY SemFacts
<1>2. BlockCall(k, t, s, "take")
  BY DEF TakeBlock, BlockCall, Patient
<1>3. Reprioritized(k)
  BY <1>1, SameReprioritized
<1>4. /\ CpuSound' /\ k'.state = [k.state EXCEPT ![t] = "BLOCKED"]
      /\ KeepsOrder(k, obj, k', obj') /\ k'.current = k.current
  BY <1>1, <1>2, <1>3, BlockCallSound
<1>5. k.current = t /\ k.state[t] = "RUNNING"
  BY <1>1, AppRuns DEF TakeBlock, InApp
<1>6. InOrder' /\ KeepsOut(k, k') /\ k'.current # NULL
  BY <1>1, <1>4, <1>5, OrderStep, ListAssumption DEF KeepsOut
<1> QED BY <1>4, <1>5, <1>6 DEF MemoryKept

LEMMA TakeReturnSound ==
    ASSUME Patient, NEW C, SemSound(C), NEW t \in Tasks, TakeReturn(t)
    PROVE  /\ pc[t] = "take" /\ pc' = [pc EXCEPT ![t] = "app"]
           /\ obj' = [obj EXCEPT ![t] = NULL]
           /\ MemoryKept /\ k' = k /\ k.state[t] = "RUNNING"
           /\ obj[t] \in Sems /\ Took(obj[t]) /\ k.current = t
<1>1. /\ CpuTypeOK /\ CpuSound /\ Careful /\ InOrder
      /\ pc \in [Tasks -> C] /\ obj[t] \in Sems /\ obj[t] # NULL
  BY SemFacts DEF TakesSem, TakeReturn
<1>0. pc[t] = "take"
  BY <1>1 DEF SemSound, TakeReturn
<1>2. Running(t) /\ ~resched[t]
  BY DEF TakeReturn
<1>3. k.state[t] = "RUNNING" /\ k.current = t
  BY <1>1, <1>2, AppRuns
<1>4. k.result[t] = "OK"
  BY <1>1 DEF CpuSound, Sound, NoTimeout
<1>5. /\ k' = k /\ Took(obj[t]) /\ pc' = [pc EXCEPT ![t] = "app"]
      /\ obj' = [obj EXCEPT ![t] = NULL] /\ UNCHANGED <<resched, isr>>
  BY <1>0, <1>4 DEF TakeReturn
<1>6. CpuSound' /\ KeepsOrder(k, obj, k', obj')
  BY <1>1, <1>2, <1>5, ReturnCallSound
<1>7. InOrder' /\ KeepsOut(k, k') /\ k'.current # NULL
  BY <1>1, <1>3, <1>5, <1>6, OrderStep, ListAssumption DEF KeepsOut, CpuSound, Sound, OneRunner
<1> QED BY <1>0, <1>1, <1>3, <1>5, <1>6, <1>7 DEF MemoryKept

\* The counting steps leave the memory alone.
Counts(s) ==
    \/ IsrTake(s) \/ IsrGiveCount(s)
    \/ \E t \in Tasks : TakeFree(t, s) \/ GiveCount(t, s)

LEMMA CountsSame ==
    ASSUME NEW s \in Sems, Counts(s)
    PROVE  UNCHANGED <<k, pc, obj, resched, isr>> /\ k.current # NULL
<1>1. UNCHANGED <<k, pc, obj, resched, isr>>
  BY DEF Counts, IsrTake, IsrGiveCount, TakeFree, GiveCount
<1>2. k.current # NULL
  BY ListAssumption DEF Counts, IsrTake, IsrGiveCount, TakeFree, GiveCount, InIsr,
                        Booting, InApp, Running
<1> QED BY <1>1, <1>2

LEMMA StepSound ==
    ASSUME Patient, NEW C, SemCalls \subseteq C, SemSound(C), [Next]_vars
    PROVE  /\ SemSound(C)'
           /\ k.current # NULL => KeepsOut(k, k') /\ k'.current # NULL
<1>0. /\ CpuTypes /\ CpuSound /\ Careful /\ InOrder /\ OnlyTakesWait
      /\ obj \in [Tasks -> WaitQueues \cup {NULL}] /\ pc \in [Tasks -> C]
  BY SemFacts
<1>1. Typed(C)'
  <2>1. \A t \in Tasks : obj[t] # NULL => k.result[t] # "TIMEOUT"
    BY <1>0 DEF CpuSound, Sound, NoTimeout
  <2> QED BY <2>1, StepTypes DEF SemSound
<1> SUFFICES /\ CpuSound' /\ InOrder' /\ OnlyTakesWait'
             /\ k.current # NULL => KeepsOut(k, k') /\ k'.current # NULL
  BY <1>1 DEF SemSound
<1>2. CASE CpuNext
  <2>1. /\ CpuSound' /\ Keeps(k, isr, k', isr', obj)
        /\ CpuRuns => KeepsOut(k, k')
    BY <1>0, <1>2, CpuNextSound
  <2>2. pc' = pc /\ obj' = obj
    BY <1>2, CpuNextFrame
  <2>3. InOrder'
    BY <1>0, <2>1, <2>2, OrderStep DEF Keeps
  <2>4. k.current # NULL => CpuRuns
    BY <1>2 DEF CpuNext, CpuRuns, BootCreate, Booting
  <2>5. k.current # NULL => k'.current # NULL
    BY <1>0, <1>2, CpuStaysStarted DEF CpuTypes, CpuTypeOK, Kernel
  <2> QED BY <1>0, <2>1, <2>2, <2>3, <2>4, <2>5 DEF OnlyTakesWait
<1>3. CASE \/ UNCHANGED vars
           \/ \E s \in Sems : Counts(s)
  <2>1. UNCHANGED <<k, pc, obj, resched>>
    BY <1>3, CountsSame DEF vars
  <2>2. KeepsOut(k, k') \/ k.current = NULL
    <3>1. k.current # NULL => k.state[k.current] # "INACTIVE"
      BY <1>0 DEF CpuSound, Sound, OneRunner
    <3> QED BY <2>1, <3>1 DEF KeepsOut
  <2> QED BY <1>0, <2>1, <2>2 DEF CpuSound, InOrder, OnlyTakesWait
<1>4. ASSUME NEW s \in Sems, IsrGiveWake(s) \/ \E t \in Tasks : GiveWake(t, s)
      PROVE  MemoryKept /\ OnlyTakesWait'
  BY <1>0, <1>4, GiveWakeSound DEF GiveWakes, OnlyTakesWait
<1>5. ASSUME NEW t \in Tasks, NEW s \in Sems, NEW timeout \in Timeouts,
             TakeBlock(t, s, timeout)
      PROVE  MemoryKept /\ OnlyTakesWait'
  <2>1. MemoryKept
    BY <1>5, TakeBlockSound
  <2> QED BY <1>0, <1>5, <2>1 DEF TakeBlock, OnlyTakesWait
<1>6. ASSUME NEW t \in Tasks, TakeReturn(t)
      PROVE  MemoryKept /\ OnlyTakesWait'
  <2>1. MemoryKept
    BY <1>6, TakeReturnSound
  <2> QED BY <1>0, <1>6, <2>1, TakeReturnSound DEF OnlyTakesWait
<1> QED BY <1>2, <1>3, <1>4, <1>5, <1>6 DEF Next, SemNext, Counts, MemoryKept

LEMMA AlwaysSound == ASSUME Patient PROVE Spec => []SemSound(SemCalls)
<1>1. Init => SemSound(SemCalls)
  BY InitSound
<1>2. SemSound(SemCalls) /\ [Next]_vars => SemSound(SemCalls)'
  BY StepSound
<1> QED BY <1>1, <1>2, PTL DEF Spec

(***************************************************************************)
(* The kernel's lists are intact, whatever the tasks and handlers do: each *)
(* READY, sleeping or waiting task is on its list, once, and no list holds *)
(* anybody else, loops or runs into another.                               *)
(***************************************************************************)
THEOREM ListsIntact ==
    ASSUME Patient
    PROVE  Spec => []ListsMatchStates
<1>1. SemSound(SemCalls) => ListsMatchStates
  BY SoundMeans DEF SemSound, Typed
<1> QED BY <1>1, AlwaysSound, PTL

-------------------------------------------------------------------------------
\* A step that grants a unit to w, and one in which w takes its unit along.
LEMMA GrantOne ==
    ASSUME NEW s \in Sems, NEW w \in Tasks, GiveWakes(s, w)
    PROVE  /\ Granted(s)' = Granted(s) \cup {w} /\ w \notin Granted(s)
           /\ \A r \in Sems \ {s} : Granted(r)' = Granted(r)
BY DEF GiveWakes, Granted

LEMMA GrantsFinite ==
    ASSUME NEW s
    PROVE  IsFiniteSet(Granted(s)) /\ Cardinality(Granted(s)) \in Nat
<1>1. Granted(s) \in SUBSET Tasks
  BY DEF Granted
<1> QED BY <1>1, FS_Subset, FS_CardinalityType, ListAssumption

LEMMA InitConserved == Init => UnitsConserved
<1> SUFFICES ASSUME Init PROVE UnitsConserved
  OBVIOUS
<1>1. \A s \in Sems : Granted(s) = {}
  BY DEF Init, CpuInit, Granted
<1>2. Cardinality({}) = 0
  BY FS_EmptySet
<1> QED BY <1>1, <1>2, SemAssumption DEF Init, UnitsConserved

\* While the tasks that wait and those that were woken stay the same.
LEMMA SameGrants ==
    ASSUME SameWaiters(k, k', obj), UNCHANGED <<pc, obj>>,
           NULL \notin Sems
    PROVE  \A s \in Sems : Granted(s)' = Granted(s)
BY DEF SameWaiters, Granted

LEMMA NextConserved ==
    ASSUME Patient, NEW Cs, SemSound(Cs), UnitsConserved, [Next]_vars
    PROVE  UnitsConserved'
<1>0. /\ CpuTypes /\ CpuSound /\ Careful /\ NULL \notin Sems
      /\ pc \in [Tasks -> Cs] /\ k.state \in [Tasks -> States]
      /\ obj \in [Tasks -> WaitQueues \cup {NULL}] /\ Sems \subseteq WaitQueues
      /\ count \in [Sems -> 0 .. MaxCount] /\ units \in [Sems -> Int]
  BY SemFacts
<1> DEFINE C(s) == Cardinality(Granted(s))
<1>00. \A s \in Sems : units[s] = count[s] + C(s) /\ C(s) \in Nat
                       /\ count[s] \in Int /\ units[s] \in Int
  BY <1>0, GrantsFinite DEF UnitsConserved
<1>1. ASSUME SameWaiters(k, k', obj), UNCHANGED <<pc, obj>>, UNCHANGED <<count, units>>
      PROVE  UnitsConserved'
  <2>1. \A s \in Sems : Granted(s)' = Granted(s)
    BY <1>0, <1>1, SameGrants
  <2>2. \A s \in Sems : C(s)' = C(s)
    BY <2>1
  <2> HIDE DEF C
  <2>3. \A s \in Sems : units'[s] = count'[s] + C(s)'
    BY <1>00, <1>1, <2>2
  <2> QED BY <2>3 DEF UnitsConserved, C
<1>2. CASE CpuNext /\ UNCHANGED <<count, units>>
  BY <1>0, <1>1, <1>2, CpuNextSound, CpuNextFrame
<1>3. ASSUME NEW s \in Sems, Counts(s) PROVE UnitsConserved'
  <2>1. UNCHANGED <<k, pc, obj>>
    BY <1>3, CountsSame
  <2>2. \A r \in Sems : C(r)' = C(r)
    <3>1. \A r \in Sems : Granted(r)' = Granted(r)
      BY <2>1 DEF Granted
    <3> QED BY <3>1
  <2>3. \/ /\ count' = [count EXCEPT ![s] = @ - 1]
           /\ units' = [units EXCEPT ![s] = @ - 1]
        \/ /\ count' = [count EXCEPT ![s] = @ + 1]
           /\ units' = [units EXCEPT ![s] = @ + 1]
    BY <1>3 DEF Counts, IsrTake, IsrGiveCount, TakeFree, GiveCount, AddUnit,
                Took, Gave
  <2> HIDE DEF C
  <2>4. \A r \in Sems : units'[r] = count'[r] + C(r)'
    BY <1>0, <1>00, <2>2, <2>3
  <2> QED BY <2>4 DEF UnitsConserved, C
<1>4. ASSUME NEW t \in Tasks, NEW s \in Sems, NEW timeout \in Timeouts,
             TakeBlock(t, s, timeout)
      PROVE  UnitsConserved'
  <2>1. k'.state = [k.state EXCEPT ![t] = "BLOCKED"]
    BY <1>4, TakeBlockSound
  <2>2. /\ pc[t] = "app" /\ pc' = [pc EXCEPT ![t] = "take"]
        /\ obj' = [obj EXCEPT ![t] = s] /\ UNCHANGED <<count, units>>
    BY <1>4 DEF TakeBlock, InApp
  <2>3. /\ \A u \in Tasks : k'.state[u] = IF u = t THEN "BLOCKED" ELSE k.state[u]
        /\ \A u \in Tasks : pc'[u] = IF u = t THEN "take" ELSE pc[u]
        /\ \A u \in Tasks : obj'[u] = IF u = t THEN s ELSE obj[u]
    BY <1>0, <2>1, <2>2
  <2>4. \A r \in Sems : Granted(r)' = Granted(r)
    BY <2>2, <2>3 DEF Granted
  <2>5. \A r \in Sems : C(r)' = C(r)
    BY <2>4
  <2> HIDE DEF C
  <2>6. \A r \in Sems : units'[r] = count'[r] + C(r)'
    BY <1>00, <2>2, <2>5
  <2> QED BY <2>6 DEF UnitsConserved, C
<1>5. ASSUME NEW s \in Sems,
             IsrGiveWake(s) \/ \E t \in Tasks : GiveWake(t, s)
      PROVE  UnitsConserved'
  <2>1. PICK w \in Tasks : GiveWakes(s, w)
    BY <1>5, GiveWakeSound
  <2>2. units' = [units EXCEPT ![s] = @ + 1] /\ UNCHANGED count
    BY <1>5 DEF IsrGiveWake, GiveWake, Gave
  <2>3. /\ Granted(s)' = Granted(s) \cup {w} /\ w \notin Granted(s)
        /\ \A r \in Sems \ {s} : Granted(r)' = Granted(r)
    BY <2>1, GrantOne
  <2>4. C(s)' = C(s) + 1
    <3>1. Cardinality(Granted(s) \cup {w}) = Cardinality(Granted(s)) + 1
      BY <2>3, GrantsFinite, FS_AddElement
    <3> QED BY <2>3, <3>1
  <2>5. \A r \in Sems \ {s} : C(r)' = C(r)
    BY <2>3
  <2> HIDE DEF C
  <2>6. \A r \in Sems : units'[r] = count'[r] + C(r)'
    BY <1>0, <1>00, <2>2, <2>4, <2>5
  <2> QED BY <2>6 DEF UnitsConserved, C
<1>6. ASSUME NEW t \in Tasks, TakeReturn(t) PROVE UnitsConserved'
  <2>1. PICK s \in Sems : s = obj[t]
    BY <1>6, TakeReturnSound
  <2>2. /\ k' = k /\ k.state[t] = "RUNNING" /\ pc[t] = "take"
        /\ pc' = [pc EXCEPT ![t] = "app"] /\ obj' = [obj EXCEPT ![t] = NULL]
        /\ units' = [units EXCEPT ![s] = @ - 1] /\ UNCHANGED count
    BY <1>6, <2>1, TakeReturnSound DEF TakeReturn, Took
  <2>3. /\ \A u \in Tasks : pc'[u] = IF u = t THEN "app" ELSE pc[u]
        /\ \A u \in Tasks : obj'[u] = IF u = t THEN NULL ELSE obj[u]
    BY <1>0, <2>2
  <2>4. /\ t \in Granted(s) /\ Granted(s)' = Granted(s) \ {t}
        /\ \A r \in Sems \ {s} : Granted(r)' = Granted(r)
    BY <2>1, <2>2, <2>3 DEF Granted
  <2>5. C(s)' = C(s) - 1
    <3>1. Cardinality(Granted(s) \ {t}) = Cardinality(Granted(s)) - 1
      BY <2>4, GrantsFinite, FS_RemoveElement
    <3> QED BY <2>4, <3>1
  <2>6. \A r \in Sems \ {s} : C(r)' = C(r)
    BY <2>4
  <2> HIDE DEF C
  <2>7. \A r \in Sems : units'[r] = count'[r] + C(r)'
    BY <1>0, <1>00, <2>2, <2>5, <2>6
  <2> QED BY <2>7 DEF UnitsConserved, C
<1>7. CASE UNCHANGED vars
  BY <1>1, <1>7 DEF vars, SameWaiters
<1> QED BY <1>2, <1>3, <1>4, <1>5, <1>6, <1>7 DEF Next, SemNext, Counts

(***************************************************************************)
(* Units are conserved: a unit that was given is in the count, on its way  *)
(* to a woken waiter or taken; no give is lost and no take succeeds        *)
(* without a unit.                                                         *)
(***************************************************************************)
THEOREM Conservation ==
    ASSUME Patient
    PROVE  Spec => []UnitsConserved
<1>1. Init => UnitsConserved
  BY InitConserved
<1>2. SemSound(SemCalls) /\ UnitsConserved /\ [Next]_vars => UnitsConserved'
  BY NextConserved
<1> QED BY <1>1, <1>2, AlwaysSound, PTL DEF Spec

\* No take ever returns BR_OK without a unit that was there or was given.
THEOREM NoUnitFromNothing ==
    ASSUME Patient
    PROVE  Spec => []TakeNeedsUnit
<1>1. TypeOK /\ UnitsConserved => TakeNeedsUnit
  <2> SUFFICES ASSUME TypeOK, UnitsConserved, NEW s \in Sems PROVE units[s] >= 0
    BY DEF TakeNeedsUnit
  <2>1. count[s] \in Nat
    BY DEF TypeOK
  <2> QED BY <2>1, GrantsFinite DEF UnitsConserved
<1> QED BY <1>1, Conservation, TypeCorrect, PTL

-------------------------------------------------------------------------------
(***************************************************************************)
(* What the users of a semaphore see: the waiters leave by priority, and   *)
(* the calls implement the atomic ones of AbstractSem.                     *)
(***************************************************************************)
\* Whoever stops waiting has the highest priority of those who waited.
PicksHighest ==
    \A s \in Sems, t \in Tasks :
        t \in Waiters(s) /\ k'.state[t] # "BLOCKED" =>
            \A u \in Waiters(s) : k.priority[t] <= k.priority[u]

LEMMA StepPicks ==
    ASSUME Patient, NEW C, SemSound(C), [Next]_vars
    PROVE  PicksHighest
<1>0. /\ CpuTypes /\ CpuSound /\ Careful /\ NULL \notin Sems
      /\ k.state \in [Tasks -> States]
  BY SemFacts
<1>1. CASE CpuNext
  <2>1. SameWaiters(k, k', obj)
    BY <1>0, <1>1, CpuNextSound
  <2> QED BY <1>0, <2>1 DEF SameWaiters, Waiters, PicksHighest
<1>2. CASE k' = k
  BY <1>2 DEF Waiters, PicksHighest
<1>3. ASSUME NEW s \in Sems, IsrGiveWake(s) \/ \E t \in Tasks : GiveWake(t, s)
      PROVE  PicksHighest
  <2>1. PICK w \in Tasks : GiveWakes(s, w)
    BY <1>3, GiveWakeSound
  <2> QED BY <2>1 DEF GiveWakes, Waiters, PicksHighest
<1>4. ASSUME NEW t \in Tasks, NEW s \in Sems, NEW timeout \in Timeouts,
             TakeBlock(t, s, timeout)
      PROVE  PicksHighest
  <2>1. k'.state = [k.state EXCEPT ![t] = "BLOCKED"]
    BY <1>4, TakeBlockSound
  <2> QED BY <1>0, <2>1 DEF Waiters, PicksHighest
<1>5. ASSUME NEW s \in Sems, Counts(s) PROVE k' = k
  BY <1>5, CountsSame
<1>6. ASSUME NEW t \in Tasks, TakeReturn(t) PROVE k' = k
  BY <1>6, TakeReturnSound
<1> QED BY <1>1, <1>2, <1>3, <1>4, <1>5, <1>6 DEF Next, SemNext, Counts, vars

\* A give wakes a waiter of the highest priority, whatever priorities the
\* waiters have and in whatever order they came.
THEOREM HighestFirst ==
    ASSUME Patient
    PROVE  Spec => HighestWaiterFirst
<1>1. SemSound(SemCalls) /\ [Next]_vars => [PicksHighest]_vars
  BY StepPicks
<1> QED BY <1>1, AlwaysSound, PTL DEF Spec, HighestWaiterFirst, PicksHighest

\* The tasks inside a take of s.
Inside == [s \in Sems |->
              {t \in Tasks : pc[t] \in {"take", "expired"} /\ obj[t] = s}]

LEMMA InsideFinite ==
    ASSUME NEW s \in Sems
    PROVE  /\ IsFiniteSet(Inside[s]) /\ Cardinality(Inside[s]) \in Nat
           /\ Granted(s) \subseteq Inside[s]
           /\ \A w \in Inside[s] \ Granted(s) :
                 Cardinality(Granted(s)) + 1 <= Cardinality(Inside[s])
           /\ Cardinality(Granted(s)) <= Cardinality(Inside[s])
<1> DEFINE I == Inside[s]
           G == Granted(s)
<1>1. I \in SUBSET Tasks /\ G \subseteq I
  BY DEF Inside, Granted
<1>2. IsFiniteSet(I) /\ Cardinality(I) \in Nat
  BY <1>1, FS_Subset, FS_CardinalityType, ListAssumption
<1>3. IsFiniteSet(G) /\ Cardinality(G) \in Nat
  BY GrantsFinite
<1> HIDE DEF I, G
<1>4. Cardinality(G) <= Cardinality(I)
  BY <1>1, <1>2, FS_Subset
<1>5. ASSUME NEW w \in I \ G
      PROVE  Cardinality(G) + 1 <= Cardinality(I)
  <2>1. Cardinality(G \cup {w}) = Cardinality(G) + 1
    BY <1>3, FS_AddElement
  <2>2. G \cup {w} \subseteq I
    BY <1>1
  <2> QED BY <1>2, <2>1, <2>2, FS_Subset
<1> QED BY <1>1, <1>2, <1>4, <1>5 DEF I, G

LEMMA SameCardinality == \A S : Abstract!Cardinality(S) = Cardinality(S)
BY DEF Abstract!Cardinality, Cardinality

\* Every step of a semaphore is a step of the abstract one, or none.
LEMMA StepAbstract ==
    ASSUME Patient, NEW C, SemSound(C), UnitsConserved, [Next]_vars
    PROVE  [Abstract!Next]_<<units, Inside>>
<1>0. /\ CpuTypes /\ CpuSound /\ Careful /\ NULL \notin Sems
      /\ pc \in [Tasks -> C] /\ obj \in [Tasks -> WaitQueues \cup {NULL}]
      /\ count \in [Sems -> 0 .. MaxCount] /\ units \in [Sems -> Int]
  BY SemFacts
<1>00. \A s \in Sems : /\ units[s] = count[s] + Cardinality(Granted(s))
                       /\ count[s] \in 0 .. MaxCount
                       /\ Cardinality(Granted(s)) \in Nat
                       /\ Cardinality(Inside[s]) \in Nat
                       /\ Cardinality(Granted(s)) <= Cardinality(Inside[s])
  BY <1>0, GrantsFinite, InsideFinite DEF UnitsConserved
<1>1. CASE UNCHANGED <<pc, obj, units>>
  BY <1>1 DEF Inside
<1>2. CASE CpuNext /\ UNCHANGED <<count, units>>
  BY <1>1, <1>2, CpuNextFrame
<1>3. ASSUME NEW s \in Sems, Counts(s)
      PROVE  [Abstract!Next]_<<units, Inside>>
  <2>1. Inside' = Inside
    BY <1>3, CountsSame DEF Inside
  <2>2. CASE count[s] > 0 /\ units' = [units EXCEPT ![s] = @ - 1]
    <3>1. units[s] > 0
      BY <1>00, <2>2, SemAssumption
    <3>2. Abstract!Take(s)
      BY <2>1, <2>2, <3>1 DEF Abstract!Take, Inside
    <3> QED BY <3>2 DEF Abstract!Next
  <2>3. CASE count[s] < MaxCount /\ units' = [units EXCEPT ![s] = @ + 1]
    <3>1. units[s] < MaxCount + Cardinality(Inside[s])
      BY <1>00, <2>3, SemAssumption
    <3>2. Abstract!Give(s)
      BY <2>1, <2>3, <3>1, SameCardinality DEF Abstract!Give, Inside
    <3> QED BY <3>2 DEF Abstract!Next
  <2> QED BY <1>3, <2>2, <2>3 DEF Counts, IsrTake, IsrGiveCount, TakeFree, GiveCount,
                                  AddUnit, Took, Gave
<1>4. ASSUME NEW t \in Tasks, NEW s \in Sems, NEW timeout \in Timeouts,
             TakeBlock(t, s, timeout)
      PROVE  [Abstract!Next]_<<units, Inside>>
  <2>1. /\ pc[t] = "app" /\ pc' = [pc EXCEPT ![t] = "take"]
        /\ obj' = [obj EXCEPT ![t] = s] /\ units' = units
    BY <1>4 DEF TakeBlock, InApp
  <2>2. Inside' = [Inside EXCEPT ![s] = @ \cup {t}]
    <3>1. \A r \in Sems : Inside'[r] = IF r = s THEN Inside[r] \cup {t} ELSE Inside[r]
      BY <1>0, <2>1 DEF Inside
    <3> QED BY <3>1 DEF Inside
  <2>3. \A r \in Sems : t \notin Inside[r]
    BY <2>1 DEF Inside
  <2>4. Abstract!Wait(s, t)
    BY <2>1, <2>2, <2>3 DEF Abstract!Wait, Inside
  <2> QED BY <2>4 DEF Abstract!Next
<1>5. ASSUME NEW s \in Sems,
             IsrGiveWake(s) \/ \E t \in Tasks : GiveWake(t, s)
      PROVE  [Abstract!Next]_<<units, Inside>>
  <2>1. PICK w \in Tasks : GiveWakes(s, w)
    BY <1>5, GiveWakeSound
  <2>2. units' = [units EXCEPT ![s] = @ + 1]
    BY <1>5 DEF IsrGiveWake, GiveWake, Gave
  <2>3. Inside' = Inside /\ w \in Inside[s] \ Granted(s)
    BY <2>1 DEF GiveWakes, Inside, Granted
  <2>4. Cardinality(Granted(s)) + 1 <= Cardinality(Inside[s])
    BY <2>3, InsideFinite
  <2>5. units[s] < MaxCount + Cardinality(Inside[s])
    BY <1>00, <2>4, SemAssumption
  <2>6. Abstract!Give(s)
    BY <2>2, <2>3, <2>5, SameCardinality DEF Abstract!Give, Inside
  <2> QED BY <2>6 DEF Abstract!Next
<1>6. ASSUME NEW t \in Tasks, TakeReturn(t)
      PROVE  [Abstract!Next]_<<units, Inside>>
  <2>1. PICK s \in Sems : s = obj[t]
    BY <1>6, TakeReturnSound
  <2>2. /\ k.state[t] = "RUNNING" /\ pc[t] = "take"
        /\ pc' = [pc EXCEPT ![t] = "app"] /\ obj' = [obj EXCEPT ![t] = NULL]
        /\ units' = [units EXCEPT ![s] = @ - 1]
    BY <1>6, <2>1, TakeReturnSound DEF TakeReturn, Took
  <2>3. Inside' = [Inside EXCEPT ![s] = @ \ {t}] /\ t \in Inside[s]
    <3>1. \A r \in Sems : Inside'[r] = IF r = s THEN Inside[r] \ {t} ELSE Inside[r]
      BY <1>0, <2>1, <2>2 DEF Inside
    <3>2. t \in Inside[s]
      BY <2>1, <2>2 DEF Inside
    <3>3. Inside' = [Inside EXCEPT ![s] = @ \ {t}]
      BY <3>1 DEF Inside
    <3> QED BY <3>2, <3>3
  <2>4. units[s] > 0
    <3>1. t \in Granted(s)
      BY <2>1, <2>2 DEF Granted
    <3>2. /\ Cardinality(Granted(s) \ {t}) = Cardinality(Granted(s)) - 1
          /\ IsFiniteSet(Granted(s) \ {t})
      BY <3>1, GrantsFinite, FS_RemoveElement
    <3>3. Cardinality(Granted(s) \ {t}) \in Nat
      BY <3>2, FS_CardinalityType
    <3> QED BY <1>00, <3>2, <3>3
  <2>5. Abstract!Grant(s, t)
    BY <2>2, <2>3, <2>4 DEF Abstract!Grant, Abstract!Leave, Inside
  <2> QED BY <2>5 DEF Abstract!Next
<1>7. CASE UNCHANGED vars
  BY <1>1, <1>7 DEF vars
<1> QED BY <1>2, <1>3, <1>4, <1>5, <1>6, <1>7 DEF Next, SemNext, Counts

LEMMA InitAbstract == Init => Abstract!Init
BY DEF Init, CpuInit, Abstract!Init

(***************************************************************************)
(* Takes and gives are atomic to their users: a task that waits takes a    *)
(* unit when it leaves, and no interleaving of tasks, interrupts and ticks *)
(* shows more than that.                                                   *)
(***************************************************************************)
THEOREM SemImplements ==
    ASSUME Patient
    PROVE  Spec => ImplementsSem
<1>1. SemSound(SemCalls) /\ UnitsConserved /\ [Next]_vars
        => [Abstract!Next]_<<units, Inside>>
  BY StepAbstract
<1> QED BY <1>1, InitAbstract, AlwaysSound, Conservation, PTL
        DEF Spec, ImplementsSem, Abstract!Spec, Inside

-------------------------------------------------------------------------------
(***************************************************************************)
(* Under task management (BrSystem).  BrSystem instantiates BrTasks, whose *)
(* operators on the memory are those of BrKernel.                          *)
(***************************************************************************)
LEMMA SameOperators ==
    ASSUME NEW kk, NEW t, NEW prio
    PROVE  /\ T!br_sched_ready(kk, t) = br_sched_ready(kk, t)
           /\ T!SuspendSection(kk, t) = SuspendSection(kk, t)
           /\ T!DeleteSection(kk, t) = DeleteSection(kk, t)
           /\ T!InitTcb(kk, t, prio) = InitTcb(kk, t, prio)
           /\ T!FirstFree(kk) = FirstFree(kk) /\ T!FreeSlots(kk) = FreeSlots(kk)
<1> USE DEF T!ListOf, ListOf
<1>0. /\ \A l, Stop : T!StopCells(l, Stop) = StopCells(l, Stop)
      /\ \A l, c : T!Deref(l, c) = Deref(l, c)
      /\ \A l, c, y : T!Store(l, c, y) = Store(l, c, y)
  BY DEF T!StopCells, StopCells, T!Visited, Visited, T!Ends, Ends,
         T!ClosedSets, ClosedSets, T!Store, Store, T!Deref, Deref
<1>1. /\ \A k1, p, l : T!PutReady(k1, p, l) = PutReady(k1, p, l)
      /\ \A k1, l : T!PutSleep(k1, l) = PutSleep(k1, l)
  BY DEF T!PutReady, PutReady, T!PutSleep, PutSleep
<1>2. T!br_sched_ready(kk, t) = br_sched_ready(kk, t)
  <2>1. ASSUME NEW l
        PROVE  T!Insert(l, t, {}) = Insert(l, t, {})
    <3> DEFINE tc == CHOOSE x \in T!StopCells(l, {}) : TRUE
               c  == CHOOSE x \in StopCells(l, {}) : TRUE
    <3>1. T!StopCells(l, {}) = StopCells(l, {}) /\ tc = c
      BY <1>0
    <3>2. \A d : T!Store([l EXCEPT !.next[t] = T!Deref(l, d)], d, t)
                 = Store([l EXCEPT !.next[t] = Deref(l, d)], d, t)
      BY <1>0
    <3>3. /\ T!Insert(l, t, {}) =
                 IF T!StopCells(l, {}) = {} THEN [l EXCEPT !.halts = FALSE]
                 ELSE T!Store([l EXCEPT !.next[t] = T!Deref(l, tc)], tc, t)
          /\ Insert(l, t, {}) =
                 IF StopCells(l, {}) = {} THEN [l EXCEPT !.halts = FALSE]
                 ELSE Store([l EXCEPT !.next[t] = Deref(l, c)], c, t)
      BY DEF T!Insert, Insert
    <3> HIDE DEF tc, c
    <3>4. T!Store([l EXCEPT !.next[t] = T!Deref(l, tc)], tc, t)
            = Store([l EXCEPT !.next[t] = Deref(l, c)], c, t)
      BY <3>1, <3>2
    <3> QED BY <3>1, <3>3, <3>4, Zenon
  <2> QED BY <1>1, <2>1, Zenon DEF T!br_sched_ready, br_sched_ready
<1>3. ASSUME NEW l
      PROVE  T!Unlink(l, t) = Unlink(l, t)
  <2> DEFINE tc == CHOOSE x \in T!StopCells(l, {t}) : TRUE
             c  == CHOOSE x \in StopCells(l, {t}) : TRUE
  <2>1. T!StopCells(l, {t}) = StopCells(l, {t}) /\ tc = c
    BY <1>0
  <2>2. \A d : /\ T!Deref(l, d) = Deref(l, d)
               /\ T!Store(T!Store(l, d, l.next[t]), t, NULL)
                    = Store(Store(l, d, l.next[t]), t, NULL)
    BY <1>0
  <2>3. /\ T!Unlink(l, t) =
               IF T!StopCells(l, {t}) = {} THEN [l EXCEPT !.halts = FALSE]
               ELSE IF T!Deref(l, tc) = t
                    THEN T!Store(T!Store(l, tc, l.next[t]), t, NULL) ELSE l
        /\ Unlink(l, t) =
               IF StopCells(l, {t}) = {} THEN [l EXCEPT !.halts = FALSE]
               ELSE IF Deref(l, c) = t
                    THEN Store(Store(l, c, l.next[t]), t, NULL) ELSE l
    BY DEF T!Unlink, Unlink
  <2> HIDE DEF tc, c
  <2>4. /\ T!Deref(l, tc) = Deref(l, c)
        /\ T!Store(T!Store(l, tc, l.next[t]), t, NULL)
             = Store(Store(l, c, l.next[t]), t, NULL)
    BY <2>1, <2>2
  <2>5. CASE StopCells(l, {t}) = {}
    BY <2>1, <2>3, <2>5, Zenon
  <2>6. CASE StopCells(l, {t}) # {} /\ Deref(l, c) = t
    <3>1. T!StopCells(l, {t}) # {} /\ T!Deref(l, tc) = t
      BY <2>1, <2>4, <2>6
    <3> QED BY <2>3, <2>4, <2>6, <3>1, Zenon
  <2>7. CASE StopCells(l, {t}) # {} /\ Deref(l, c) # t
    <3>1. T!StopCells(l, {t}) # {} /\ T!Deref(l, tc) # t
      BY <2>1, <2>4, <2>7
    <3> QED BY <2>3, <2>7, <3>1, Zenon
  <2> QED BY <2>5, <2>6, <2>7
<1>4. T!br_sched_unready(kk, t) = br_sched_unready(kk, t)
  BY <1>1, <1>3, Zenon DEF T!br_sched_unready, br_sched_unready
<1>5. T!br_time_sleep_list_remove(kk, t) = br_time_sleep_list_remove(kk, t)
  BY <1>1, <1>3, Zenon DEF T!br_time_sleep_list_remove, br_time_sleep_list_remove
<1>6. T!SuspendSection(kk, t) = SuspendSection(kk, t)
  BY <1>4 DEF T!SuspendSection, SuspendSection
<1>7. T!DeleteSection(kk, t) = DeleteSection(kk, t)
  BY <1>4, <1>5 DEF T!DeleteSection, DeleteSection
<1>8. T!InitTcb(kk, t, prio) = InitTcb(kk, t, prio)
  BY DEF T!InitTcb, InitTcb
<1>9. T!FirstFree(kk) = FirstFree(kk) /\ T!FreeSlots(kk) = FreeSlots(kk)
  BY DEF T!FirstFree, FirstFree, T!FreeSlots, FreeSlots
<1> QED BY <1>2, <1>6, <1>7, <1>8, <1>9

SystemCalls == SemCalls \cup {"resume", "create"}

\* A resume or create in progress has chosen its slot.
TargetChosen == \A t \in Tasks : pc[t] \in {"resume", "create"} => target[t] \in Tasks

EverySystemCall == SystemCalls \cup {"expired"}

SystemInv ==
    /\ Typed(EverySystemCall)
    /\ target \in [Tasks -> Tasks \cup {NULL}]
    /\ TargetChosen

\* A step of task management keeps the types, the wait queues and the counts.
LEMMA TasksStep ==
    ASSUME SystemInv, TasksNext, UNCHANGED <<count, units>>
    PROVE  SystemInv' /\ k'.wq = k.wq
<1> USE DEF SystemInv, Typed, EverySystemCall, SystemCalls, SemCalls, TakesSem,
            TargetChosen
<1>0. k \in Kernel
  BY DEF CpuTypeOK
<1>1. ASSUME NEW t \in Tasks, NEW u \in Tasks, T!Suspend(t, u)
      PROVE  SystemInv' /\ k'.wq = k.wq
  <2>1. k' = SuspendSection(k, u) /\ k.current # NULL
    BY <1>1, SameOperators, ListAssumption DEF T!Suspend, T!InApp, T!Running
  <2>2. k' \in Kernel /\ k'.current = k.current /\ k'.wq = k.wq
    BY <1>0, <2>1, TaskSectionsType, TaskFrame
  <2>3. resched' \in [Tasks -> BOOLEAN] /\ UNCHANGED <<pc, obj, isr, target>>
    BY <1>1 DEF T!Suspend, CpuTypeOK
  <2> QED BY <2>1, <2>2, <2>3 DEF CpuTypeOK, BootQuiet, Booting
<1>2. ASSUME NEW t \in Tasks, NEW u \in Tasks, T!ResumeCheck(t, u)
      PROVE  SystemInv' /\ k'.wq = k.wq
  BY <1>2 DEF T!ResumeCheck, CpuTypeOK, BootQuiet, Booting
<1>3. ASSUME NEW t \in Tasks, T!ResumeReady(t) \/ T!CreateReady(t)
      PROVE  SystemInv' /\ k'.wq = k.wq
  <2>1. target[t] \in Tasks
    BY <1>3 DEF T!ResumeReady, T!CreateReady
  <2>2. k' = br_sched_ready(k, target[t]) /\ k.current # NULL
    BY <1>3, SameOperators, ListAssumption DEF T!ResumeReady, T!CreateReady, T!Running
  <2>3. k' \in Kernel /\ k'.current = k.current /\ k'.wq = k.wq
    BY <1>0, <2>1, <2>2, ReadyType, SchedFrame
  <2>4. /\ resched' \in [Tasks -> BOOLEAN]
        /\ pc' = [pc EXCEPT ![t] = "app"]
        /\ target' = [target EXCEPT ![t] = NULL]
        /\ UNCHANGED <<obj, isr>>
    BY <1>3 DEF T!ResumeReady, T!CreateReady, CpuTypeOK
  <2> QED BY <2>2, <2>3, <2>4 DEF CpuTypeOK, BootQuiet, Booting
<1>4. ASSUME NEW t \in Tasks, NEW prio \in AppPriorities, T!CreateSlot(t, prio)
      PROVE  SystemInv' /\ k'.wq = k.wq
  <2> DEFINE u == FirstFree(k)
  <2>1. u \in Tasks /\ prio \in Priorities
    BY <1>0, <1>4, SameOperators, FirstFreeFound, CpuAssumption DEF T!CreateSlot
  <2>2. /\ k' = InitTcb(k, u, prio) /\ k.current # NULL
        /\ pc' = [pc EXCEPT ![t] = "create", ![u] = "app"]
        /\ obj' = [obj EXCEPT ![u] = NULL]
        /\ resched' = [resched EXCEPT ![u] = FALSE]
        /\ target' = [target EXCEPT ![t] = u, ![u] = NULL]
        /\ UNCHANGED isr
    BY <1>4, SameOperators, ListAssumption DEF T!CreateSlot, T!InApp, T!Running
  <2> HIDE DEF u
  <2>3. k' \in Kernel /\ k'.current = k.current /\ k'.wq = k.wq
    <3>1. InitTcb(k, u, prio) \in Kernel
      BY <1>0, <2>1, TaskSectionsType
    <3>2. InitTcb(k, u, prio).current = k.current /\ InitTcb(k, u, prio).wq = k.wq
      BY DEF InitTcb
    <3> QED BY <2>2, <3>1, <3>2
  <2>4. TargetChosen' /\ TakesSem'
    BY <2>1, <2>2
  <2> QED BY <2>1, <2>2, <2>3, <2>4 DEF CpuTypeOK, BootQuiet, Booting
<1>5. ASSUME NEW t \in Tasks, NEW u \in Tasks, Delete(t, u)
      PROVE  SystemInv' /\ k'.wq = k.wq
  <2>1. /\ k' = DeleteSection(k, u) /\ k.current # NULL
        /\ UNCHANGED <<pc, obj, resched, isr, target>>
    BY <1>5, SameOperators, ListAssumption DEF Delete, T!Delete, T!InApp, T!Running
  <2>2. k' \in Kernel /\ k'.current = k.current /\ k'.wq = k.wq
    BY <1>0, <2>1, TaskSectionsType, TaskFrame
  <2> QED BY <2>1, <2>2 DEF CpuTypeOK, BootQuiet, Booting
<1> QED BY <1>1, <1>2, <1>3, <1>4, <1>5 DEF TasksNext

\* No call of a semaphore starts or disturbs a resume or create.
LEMMA OtherCalls ==
    ASSUME SystemInv, [Next]_vars
    PROVE  \A t \in Tasks : pc'[t] \in {"resume", "create"} => pc'[t] = pc[t]
<1> USE DEF SystemInv, Typed
<1>1. CASE CpuNext
  BY <1>1, CpuNextFrame
<1>2. CASE SemNext
  BY <1>2 DEF SemNext, TakeFree, TakeBlock, GiveWake, GiveCount, IsrGiveWake,
              IsrGiveCount, IsrTake
<1>3. CASE \E t \in Tasks : TakeReturn(t)
  BY <1>3 DEF TakeReturn
<1>4. CASE UNCHANGED vars
  BY <1>4 DEF vars
<1> QED BY <1>1, <1>2, <1>3, <1>4 DEF Next

LEMMA SystemStep ==
    SystemInv /\ NoWaiterWhileFree /\ [SystemNext]_systemVars
      => SystemInv' /\ NoWaiterWhileFree'
<1> SUFFICES ASSUME SystemInv, NoWaiterWhileFree, [SystemNext]_systemVars
             PROVE  SystemInv' /\ NoWaiterWhileFree'
  OBVIOUS
<1>1. CASE [Next]_vars /\ UNCHANGED target
  <2>1. Typed(EverySystemCall)'
    <3>1. SemCalls \subseteq EverySystemCall /\ "expired" \in EverySystemCall
      BY DEF EverySystemCall, SystemCalls
    <3>2. Typed(EverySystemCall)
      BY DEF SystemInv
    <3> HIDE DEF EverySystemCall
    <3> QED BY <1>1, <3>1, <3>2, StepTypes
  <2>2. NoWaiterWhileFree'
    BY <1>1, StepNoWaiter DEF SystemInv
  <2>3. TargetChosen'
    BY <1>1, OtherCalls DEF SystemInv, TargetChosen
  <2> QED BY <1>1, <2>1, <2>2, <2>3 DEF SystemInv
<1>2. CASE TasksNext /\ UNCHANGED <<count, units>>
  BY <1>2, TasksStep DEF NoWaiterWhileFree
<1> QED BY <1>1, <1>2 DEF SystemNext, systemVars

LEMMA SystemStart == SystemInit => SystemInv /\ NoWaiterWhileFree
<1> SUFFICES ASSUME SystemInit PROVE SystemInv /\ NoWaiterWhileFree
  OBVIOUS
<1>1. Init /\ target = [t \in Tasks |-> NULL]
  BY DEF SystemInit, T!Init
<1>2. Typed(AllCalls) /\ NoWaiterWhileFree
  BY <1>1, InitTypes, TypeInvTyped, InitNoWaiter
<1> QED BY <1>1, <1>2 DEF SystemInv, Typed, AllCalls, EverySystemCall, SystemCalls,
                          SemCalls, TargetChosen, Init, CpuInit

\* Every variable has a value of its type while tasks are managed.
THEOREM SystemTypeCorrect == SystemSpec => []SystemTypeOK
<1>1. SystemInv => SystemTypeOK
  <2>1. EverySystemCall = {"app", "take", "expired", "resume", "create"}
    BY DEF EverySystemCall, SystemCalls, SemCalls
  <2> QED BY <2>1 DEF SystemInv, Typed, SystemTypeOK
<1> QED BY <1>1, SystemStart, SystemStep, PTL DEF SystemSpec

(***************************************************************************)
(* No lost wake-up, even when tasks are suspended, deleted and created     *)
(* anew anywhere in their takes and gives, and lists are damaged by it.    *)
(***************************************************************************)
THEOREM NoLostWakeupManaged == SystemSpec => []NoWaiterWhileFree
BY SystemStart, SystemStep, PTL DEF SystemSpec

-------------------------------------------------------------------------------
(***************************************************************************)
(* With one task at most that manages others, which names neither the idle *)
(* task nor (to suspend it) a BLOCKED one nor (to delete it) one inside a  *)
(* take, what holds of the semaphores alone still holds.                   *)
(***************************************************************************)
SystemDisciplined ==
    /\ Patient /\ ~SuspendBlocked /\ ~DeleteTakers /\ Idle \notin Victims
    /\ \A a, b \in Managers : a = b

\* What the manager is about to ready is neither on a list nor running.
ManagerCalls ==
    \A t \in Tasks : pc[t] \in {"resume", "create"} =>
        /\ t \in Managers /\ target[t] # k.current
        /\ pc[t] = "resume" => k.state[target[t]] = "SUSPENDED"
        /\ pc[t] = "create" => k.state[target[t]] = "INACTIVE"

\* Who is inside a call has been started and not deleted since.
Alive ==
    \A t \in Tasks :
        pc[t] # "app" => k.current # NULL /\ k.state[t] # "INACTIVE"

SystemSound == SystemInv /\ SemSound(SystemCalls) /\ ManagerCalls /\ Alive

\* A slot whose task was deleted is readied by br_task_create only.
StaysDead ==
    \A t \in Tasks :
        k.state[t] = "INACTIVE" /\ k'.state[t] # "INACTIVE" =>
            Booting \/ \E u \in Tasks : pc[u] = "create" /\ target[u] = t

LEMMA SystemInitSound == ASSUME SystemDisciplined, SystemInit PROVE SystemSound
<1>1. SystemInv /\ Init
  BY SystemStart DEF SystemInit
<1>2. SemSound(SemCalls)
  BY <1>1, InitSound DEF SystemDisciplined
<1>3. \A t \in Tasks : pc[t] = "app"
  BY <1>1 DEF Init, CpuInit
<1>4. Typed(SystemCalls) /\ "expired" \notin SystemCalls
  BY <1>2 DEF SemSound, Typed, SystemCalls, SemCalls
<1> QED BY <1>1, <1>2, <1>3, <1>4 DEF SystemSound, SemSound, ManagerCalls, Alive

\* Who enters a call of a semaphore waits in it.
LEMMA NewCalls ==
    ASSUME Patient, NEW C, SemSound(C), [Next]_vars
    PROVE  \A x \in Tasks : pc'[x] # "app" =>
               \/ pc[x] # "app"
               \/ k'.current # NULL /\ k'.state[x] = "BLOCKED"
<1>0. pc \in [Tasks -> C] /\ k.state \in [Tasks -> States]
  BY SemFacts
<1>1. CASE CpuNext
  BY <1>1, CpuNextFrame
<1>2. ASSUME NEW s \in Sems, NEW t \in Tasks, NEW timeout \in Timeouts,
             TakeBlock(t, s, timeout)
      PROVE  \A x \in Tasks : pc'[x] # "app" =>
                 \/ pc[x] # "app"
                 \/ k'.current # NULL /\ k'.state[x] = "BLOCKED"
  <2>1. k'.state = [k.state EXCEPT ![t] = "BLOCKED"] /\ k'.current # NULL
    BY <1>2, TakeBlockSound DEF MemoryKept
  <2>2. k'.state[t] = "BLOCKED"
    BY <1>0, <2>1
  <2>3. pc' = [pc EXCEPT ![t] = "take"]
    BY <1>2 DEF TakeBlock
  <2> QED BY <1>0, <2>1, <2>2, <2>3
<1>3. ASSUME NEW s \in Sems,
             \/ Counts(s) \/ IsrGiveWake(s)
             \/ \E t \in Tasks : GiveWake(t, s)
      PROVE  pc' = pc
  BY <1>3, CountsSame DEF IsrGiveWake, GiveWake
<1>4. CASE \E t \in Tasks : TakeReturn(t)
  BY <1>0, <1>4 DEF TakeReturn
<1>5. CASE UNCHANGED vars
  BY <1>5 DEF vars
<1> QED BY <1>1, <1>2, <1>3, <1>4, <1>5 DEF Next, SemNext, Counts

LEMMA SemsKeep ==
    ASSUME SystemDisciplined, SystemSound, [Next]_vars, UNCHANGED target
    PROVE  SystemSound' /\ StaysDead
<1>1. SystemInv' /\ Patient
  <2>1. Typed(EverySystemCall)'
    <3>1. SemCalls \subseteq EverySystemCall /\ "expired" \in EverySystemCall
      BY DEF EverySystemCall, SystemCalls
    <3>2. Typed(EverySystemCall)
      BY DEF SystemSound, SystemInv
    <3> HIDE DEF EverySystemCall
    <3> QED BY <3>1, <3>2, StepTypes
  <2>2. TargetChosen'
    BY OtherCalls DEF SystemSound, SystemInv, TargetChosen
  <2> QED BY <2>1, <2>2 DEF SystemSound, SystemInv, SystemDisciplined
<1>2. /\ SemSound(SystemCalls)'
      /\ k.current # NULL => KeepsOut(k, k') /\ k'.current # NULL
  BY <1>1, StepSound DEF SystemSound, SystemCalls
<1>3. /\ \A x \in Tasks : pc'[x] # "app" =>
             \/ pc[x] # "app"
             \/ k'.current # NULL /\ k'.state[x] = "BLOCKED"
      /\ \A x \in Tasks : pc'[x] \in {"resume", "create"} => pc'[x] = pc[x]
  <2> DEFINE C == SystemCalls
  <2>1. SemSound(C) /\ SystemInv
    BY DEF SystemSound
  <2> HIDE DEF C
  <2> QED BY <1>1, <2>1, NewCalls, OtherCalls
<1>4. Alive'
  BY <1>2, <1>3 DEF SystemSound, Alive, KeepsOut
<1>5. ManagerCalls'
  <2> SUFFICES ASSUME NEW t \in Tasks, pc'[t] \in {"resume", "create"}
               PROVE  /\ t \in Managers /\ target[t] # k'.current
                      /\ pc'[t] = "resume" => k'.state[target[t]] = "SUSPENDED"
                      /\ pc'[t] = "create" => k'.state[target[t]] = "INACTIVE"
    BY DEF ManagerCalls
  <2>1. pc'[t] = pc[t]
    BY <1>3
  <2>2. /\ t \in Managers /\ target[t] # k.current /\ target[t] \in Tasks
        /\ pc[t] = "resume" => k.state[target[t]] = "SUSPENDED"
        /\ pc[t] = "create" => k.state[target[t]] = "INACTIVE"
        /\ k.current # NULL
    BY <2>1 DEF SystemSound, SystemInv, TargetChosen, ManagerCalls, Alive
  <2> QED BY <1>2, <2>1, <2>2 DEF KeepsOut
<1>6. StaysDead
  <2>1. k.current # NULL => k.state[k.current] # "INACTIVE"
    BY DEF SystemSound, SemSound, CpuSound, Sound, OneRunner
  <2> QED BY <1>2, <2>1 DEF StaysDead, KeepsOut, Booting
<1> QED BY <1>1, <1>2, <1>4, <1>5, <1>6 DEF SystemSound

-------------------------------------------------------------------------------
\* What a call of task management leaves to show; none of them changes who
\* waits for a semaphore.
Manages(k2, o2) ==
    /\ Sound(k2, o2) /\ k2.current = k.current
    /\ KeepsOrder(k, obj, k2, o2) /\ SameWaiters(k, k2, obj)

TakersSame ==
    /\ obj' = obj
    /\ \A x \in Tasks : pc'[x] = "take" <=> pc[x] = "take"
    /\ \A x \in Tasks : pc'[x] = "expired" <=> pc[x] = "expired"

Managed == SystemSound' /\ SameWaiters(k, k', obj) /\ TakersSame /\ StaysDead

LEMMA CallsKept ==
    ASSUME SystemSound, SystemInv', TakersSame
    PROVE  Typed(SystemCalls)'
<1>1. pc \in [Tasks -> SystemCalls] /\ "expired" \notin SystemCalls
  BY DEF SystemSound, SemSound, Typed
<1>2. pc' \in [Tasks -> SystemCalls]
  BY <1>1 DEF TakersSame, SystemInv, Typed, EverySystemCall
<1> QED BY <1>2 DEF SystemInv, Typed

LEMMA ManagedStep ==
    ASSUME SystemSound, SystemInv', Manages(k', obj'), TakersSame,
           WindowCloses(k', resched'), ManagerCalls', Alive', StaysDead
    PROVE  Managed
<1>1. \A x \in Tasks : pc'[x] = "app" => obj'[x] = NULL
  BY DEF TakersSame, SystemSound, SemSound, OnlyTakesWait
<1>2. CpuSound' /\ InOrder'
  BY <1>1, OrderStep DEF CpuSound, Manages, SystemSound, SemSound
<1>3. OnlyTakesWait'
  BY DEF TakersSame, SystemSound, SemSound, OnlyTakesWait
<1>4. Typed(SystemCalls)'
  BY CallsKept
<1> QED BY <1>2, <1>3, <1>4 DEF Managed, Manages, SystemSound, SemSound

LEMMA SystemFacts ==
    ASSUME SystemSound
    PROVE  /\ CpuTypeOK /\ CpuSound /\ k \in Kernel /\ Sound(k, obj)
           /\ k.state \in [Tasks -> States] /\ Levels(k, ReadySet(k))
           /\ pc \in [Tasks -> SystemCalls] /\ resched \in [Tasks -> BOOLEAN]
           /\ obj \in [Tasks -> WaitQueues \cup {NULL}]
           /\ target \in [Tasks -> Tasks \cup {NULL}]
           /\ k.current # NULL => k.state[k.current] # "INACTIVE"
           /\ NULL \notin WaitQueues
           /\ \A x \in Tasks : obj[x] # NULL <=> pc[x] = "take"
BY SemAssumption
   DEF SystemSound, SystemInv, SemSound, Typed, CpuTypeOK, CpuSound, InOrder, Sound,
       OneRunner, Kernel, OnlyTakesWait, TakesSem

LEMMA ManagerRuns ==
    ASSUME SystemSound, NEW t \in Tasks, T!InApp(t)
    PROVE  /\ k.current = t /\ k.state[t] = "RUNNING" /\ t # Idle
           /\ pc[t] = "app" /\ ~resched[t] /\ k.current # NULL
           /\ \A x \in Tasks : k.state[x] = "RUNNING" => x = t
<1>1. Running(t) /\ ~resched[t] /\ pc[t] = "app" /\ t # Idle
  BY DEF T!InApp, T!Running, Running, T!Idle, Idle
<1>2. k.current = t /\ k.state[t] = "RUNNING"
  BY <1>1, SystemFacts, AppRuns
<1> QED BY <1>1, <1>2, SystemFacts, ListAssumption DEF Sound, OneRunner

LEMMA OneManager ==
    ASSUME SystemSound, SystemDisciplined, NEW t \in Managers, NEW x \in Tasks, x # t
    PROVE  pc[x] \notin {"resume", "create"}
BY DEF SystemSound, ManagerCalls, SystemDisciplined

LEMMA SuspendKeeps ==
    ASSUME SystemSound, SystemInv', SystemDisciplined,
           NEW t \in Tasks, NEW u \in Tasks, T!Suspend(t, u)
    PROVE  Managed
<1>1. /\ k' = SuspendSection(k, u) /\ T!InApp(t)
      /\ resched' = [resched EXCEPT ![t] = u = t]
      /\ UNCHANGED <<pc, obj, isr, target>>
      /\ u # t => t \in Managers /\ u \in Victims
      /\ u = t => MayBlock
      /\ k.state[u] \notin {"INACTIVE", "BLOCKED"}
  BY SameOperators DEF T!Suspend, SystemDisciplined, T!MayBlock, MayBlock
<1>2. /\ k \in Kernel /\ Sound(k, obj) /\ Levels(k, ReadySet(k))
      /\ k.current = t /\ k.state[t] = "RUNNING" /\ t # Idle /\ pc[t] = "app"
      /\ resched \in [Tasks -> BOOLEAN] /\ k.current # NULL
      /\ \A x \in Tasks : k.state[x] = "RUNNING" => x = t
  BY <1>1, ManagerRuns, SystemFacts
<1>3. u # Idle
  BY <1>1, <1>2 DEF SystemDisciplined
<1>4. k.state[u] \in {"READY", "RUNNING", "SUSPENDED"}
  BY <1>1, <1>2 DEF Kernel, States
<1>5. k.state[u] = "RUNNING" => k.lock = 0
  <2>1. k.lock \in 0 .. MaxLock
    BY <1>2 DEF Kernel
  <2>2. u = t => ~(k.lock > 0)
    BY <1>1 DEF MayBlock, T!MayBlock, SystemDisciplined, Patient
  <2>3. u = t => k.lock = 0
    BY <2>1, <2>2
  <2> QED BY <1>2, <2>3
<1>6. /\ Sound(k', obj) /\ k'.current = k.current /\ KeepsOrder(k, obj, k', obj)
      /\ k'.state = [k.state EXCEPT ![u] = "SUSPENDED"]
  BY <1>1, <1>2, <1>3, <1>4, <1>5, SuspendSound
<1>7. \A x \in Tasks : k'.state[x] = IF x = u THEN "SUSPENDED" ELSE k.state[x]
  BY <1>2, <1>6 DEF Kernel
<1>8. Manages(k', obj') /\ TakersSame
  BY <1>1, <1>4, <1>6, <1>7 DEF Manages, SameWaiters, TakersSame
<1>9. WindowCloses(k', resched')
  <2>1. u = t => resched'[k'.current]
    BY <1>1, <1>2, <1>6
  <2>2. u # t => k'.state[k'.current] = "RUNNING"
    BY <1>2, <1>6, <1>7
  <2> QED BY <2>1, <2>2 DEF WindowCloses
<1>10. ManagerCalls'
  <2>1. \A x \in Tasks : pc[x] \in {"resume", "create"} => u = t /\ target[x] \in Tasks
    BY <1>1, <1>2, OneManager DEF SystemSound, SystemInv, TargetChosen
  <2> QED BY <1>1, <1>2, <1>6, <1>7, <2>1 DEF SystemSound, ManagerCalls
<1>11. Alive' /\ StaysDead
  BY <1>1, <1>2, <1>4, <1>6, <1>7 DEF SystemSound, Alive, StaysDead
<1> QED BY <1>8, <1>9, <1>10, <1>11, ManagedStep

LEMMA ResumeCheckKeeps ==
    ASSUME SystemSound, SystemInv', SystemDisciplined,
           NEW t \in Tasks, NEW u \in Tasks, T!ResumeCheck(t, u)
    PROVE  Managed
<1>1. /\ T!InApp(t) /\ t \in Managers /\ k.state[u] = "SUSPENDED"
      /\ pc' = [pc EXCEPT ![t] = "resume"]
      /\ target' = [target EXCEPT ![t] = u]
      /\ UNCHANGED <<k, obj, resched, isr>>
  BY DEF T!ResumeCheck
<1>2. /\ k.current = t /\ k.state[t] = "RUNNING" /\ pc[t] = "app" /\ k.current # NULL
      /\ pc \in [Tasks -> SystemCalls] /\ target \in [Tasks -> Tasks \cup {NULL}]
      /\ Sound(k, obj) /\ CpuSound
  BY <1>1, ManagerRuns, SystemFacts
<1>3. ManagerCalls'
  <2>1. \A x \in Tasks : x # t => pc[x] \notin {"resume", "create"}
    BY <1>1, OneManager
  <2>2. \A x \in Tasks : pc'[x] \in {"resume", "create"} =>
            x = t /\ pc'[x] = "resume" /\ target'[x] = u
    BY <1>1, <1>2, <2>1
  <2> QED BY <1>1, <1>2, <2>2 DEF ManagerCalls
<1>4. TakersSame /\ WindowCloses(k', resched') /\ StaysDead
  BY <1>1, <1>2 DEF TakersSame, CpuSound, WindowCloses, StaysDead
<1>5. Alive'
  BY <1>1, <1>2 DEF SystemSound, Alive
<1>6. CpuSound' /\ InOrder' /\ OnlyTakesWait' /\ SameWaiters(k, k', obj)
  BY <1>1, <1>2, <1>4
     DEF CpuSound, SystemSound, SemSound, InOrder, OnlyTakesWait, TakersSame, SameWaiters
<1> QED BY <1>3, <1>4, <1>5, <1>6, CallsKept DEF Managed, SystemSound, SemSound

LEMMA ReadyKeeps ==
    ASSUME SystemSound, SystemInv', SystemDisciplined,
           NEW t \in Tasks, T!ResumeReady(t) \/ T!CreateReady(t)
    PROVE  Managed
<1> DEFINE u == target[t]
<1>1. /\ T!Running(t) /\ pc[t] \in {"resume", "create"}
      /\ pc[t] = "resume" \/ pc[t] = "create"
      /\ k' = br_sched_ready(k, u)
      /\ pc' = [pc EXCEPT ![t] = "app"]
      /\ UNCHANGED <<obj, isr>>
      /\ resched' = resched \/ resched' = [resched EXCEPT ![t] = TRUE]
  BY SameOperators DEF T!ResumeReady, T!CreateReady
<1>2. /\ k \in Kernel /\ Sound(k, obj) /\ resched \in [Tasks -> BOOLEAN] /\ CpuSound
      /\ pc \in [Tasks -> SystemCalls] /\ \A x \in Tasks : obj[x] # NULL <=> pc[x] = "take"
  BY SystemFacts
<1>3. /\ u \in Tasks /\ u # k.current /\ k.current = t /\ k.current # NULL
      /\ k.state[u] \in {"SUSPENDED", "INACTIVE"} /\ t \in Managers
      /\ k.state[u] = "INACTIVE" => pc[t] = "create"
  BY <1>1, ListAssumption
     DEF SystemSound, SystemInv, TargetChosen, ManagerCalls, T!Running
<1>4. /\ Sound(k', obj) /\ k'.current = k.current /\ KeepsOrder(k, obj, k', obj)
      /\ k'.state = [k.state EXCEPT ![u] = "READY"]
  <2> HIDE DEF u
  <2> QED BY <1>1, <1>2, <1>3, EnterSound
<1>5. \A x \in Tasks : k'.state[x] = IF x = u THEN "READY" ELSE k.state[x]
  BY <1>2, <1>4 DEF Kernel
<1>6. StaysDead
  BY <1>3, <1>5 DEF StaysDead
<1> HIDE DEF u
<1>7. Manages(k', obj') /\ TakersSame
  BY <1>1, <1>2, <1>3, <1>4, <1>5 DEF Manages, SameWaiters, TakersSame
<1>8. WindowCloses(k', resched')
  <2>1. k'.state[k'.current] = k.state[k.current]
    BY <1>3, <1>4, <1>5
  <2>2. resched[k.current] => resched'[k.current]
    BY <1>1, <1>2, <1>3
  <2> QED BY <1>2, <1>4, <2>1, <2>2 DEF CpuSound, WindowCloses
<1>9. ManagerCalls'
  <2>1. \A x \in Tasks : pc'[x] \notin {"resume", "create"}
    BY <1>1, <1>2, <1>3, OneManager
  <2> QED BY <2>1 DEF ManagerCalls
<1>10. Alive'
  BY <1>1, <1>2, <1>3, <1>4, <1>5 DEF SystemSound, Alive
<1> QED BY <1>6, <1>7, <1>8, <1>9, <1>10, ManagedStep

LEMMA CreateSlotKeeps ==
    ASSUME SystemSound, SystemInv', SystemDisciplined,
           NEW t \in Tasks, NEW prio \in AppPriorities, T!CreateSlot(t, prio)
    PROVE  Managed
<1> DEFINE u == FirstFree(k)
<1>1. /\ T!InApp(t) /\ t \in Managers /\ FreeSlots(k) # {}
      /\ k' = InitTcb(k, u, prio)
      /\ pc' = [pc EXCEPT ![t] = "create", ![u] = "app"]
      /\ obj' = [obj EXCEPT ![u] = NULL]
      /\ resched' = [resched EXCEPT ![u] = FALSE]
      /\ target' = [target EXCEPT ![t] = u, ![u] = NULL]
      /\ isr' = isr
  BY SameOperators DEF T!CreateSlot
<1>2. u \in Tasks /\ k.state[u] = "INACTIVE"
  BY <1>1, SystemFacts, FirstFreeFound DEF FreeSlots
<1> HIDE DEF u
<1>3. /\ k \in Kernel /\ Sound(k, obj) /\ k.current = t /\ k.current # NULL
      /\ k.state[t] = "RUNNING" /\ resched \in [Tasks -> BOOLEAN]
      /\ pc[t] = "app" /\ pc \in [Tasks -> SystemCalls]
      /\ target \in [Tasks -> Tasks \cup {NULL}]
      /\ obj \in [Tasks -> WaitQueues \cup {NULL}]
      /\ \A x \in Tasks : obj[x] # NULL <=> pc[x] = "take"
  BY <1>1, ManagerRuns, SystemFacts
<1>4. u # t /\ pc[u] = "app" /\ obj[u] = NULL
  BY <1>2, <1>3 DEF SystemSound, Alive
<1>5. /\ Sound(k', obj') /\ k'.current = k.current /\ k'.state = k.state
      /\ KeepsOrder(k, obj, k', obj')
  <2>1. FilledSlot(k, obj, u, prio, k', obj')
    BY <1>1, <1>2, <1>3 DEF FilledSlot
  <2> QED BY <1>2, <1>3, <2>1, FillSound
<1>6. TakersSame
  <2>1. \A x \in Tasks : obj'[x] = obj[x]
    BY <1>1, <1>3, <1>4
  <2>2. obj' = obj
    BY <1>1, <1>3, <2>1
  <2> QED BY <1>1, <1>3, <1>4, <2>2 DEF TakersSame
<1>7. Manages(k', obj')
  BY <1>5 DEF Manages, SameWaiters
<1>8. WindowCloses(k', resched')
  BY <1>3, <1>5 DEF WindowCloses
<1>9. ManagerCalls'
  <2>1. \A x \in Tasks : x # t => pc[x] \notin {"resume", "create"}
    BY <1>1, OneManager
  <2>2. \A x \in Tasks : pc'[x] \in {"resume", "create"} =>
            x = t /\ pc'[x] = "create" /\ target'[x] = u
    BY <1>1, <1>2, <1>3, <1>4, <2>1
  <2> QED BY <1>1, <1>2, <1>3, <1>4, <1>5, <2>2 DEF ManagerCalls
<1>10. Alive'
  BY <1>1, <1>3, <1>4, <1>5 DEF SystemSound, Alive
<1>11. StaysDead
  BY <1>5 DEF StaysDead
<1> QED BY <1>6, <1>7, <1>8, <1>9, <1>10, <1>11, ManagedStep

LEMMA DeleteKeeps ==
    ASSUME SystemSound, SystemInv', SystemDisciplined,
           NEW t \in Tasks, NEW u \in Tasks, Delete(t, u)
    PROVE  Managed
<1>1. /\ T!InApp(t) /\ t \in Managers /\ u \in Victims /\ u # k.current
      /\ k' = DeleteSection(k, u) /\ pc[u] \notin {"take", "expired"}
      /\ UNCHANGED <<pc, obj, resched, isr, target>>
  BY SameOperators DEF Delete, T!Delete, SystemDisciplined
<1>2. /\ k \in Kernel /\ Sound(k, obj) /\ Levels(k, ReadySet(k))
      /\ k.current = t /\ k.state[t] = "RUNNING" /\ pc[t] = "app" /\ k.current # NULL
      /\ pc \in [Tasks -> SystemCalls] /\ NULL \notin WaitQueues
      /\ \A x \in Tasks : obj[x] # NULL <=> pc[x] = "take"
  BY <1>1, ManagerRuns, SystemFacts
<1>3. u # Idle /\ obj[u] = NULL /\ u # t
  BY <1>1, <1>2 DEF SystemDisciplined
<1>4. \A x \in Tasks : pc[x] \notin {"resume", "create"}
  BY <1>1, <1>2, OneManager
<1>5. /\ Sound(k', obj) /\ k'.current = k.current /\ KeepsOrder(k, obj, k', obj)
      /\ k'.state = [k.state EXCEPT ![u] = "INACTIVE"]
  BY <1>1, <1>2, <1>3, DeleteSound
<1>6. \A x \in Tasks : k'.state[x] = IF x = u THEN "INACTIVE" ELSE k.state[x]
  BY <1>2, <1>5 DEF Kernel
<1>7. Manages(k', obj') /\ TakersSame
  BY <1>1, <1>3, <1>5, <1>6 DEF Manages, SameWaiters, TakersSame
<1>8. WindowCloses(k', resched')
  BY <1>2, <1>3, <1>5, <1>6 DEF WindowCloses
<1>9. ManagerCalls'
  BY <1>1, <1>4 DEF ManagerCalls
<1>10. Alive' /\ StaysDead
  <2>1. pc[u] = "app"
    BY <1>1, <1>2, <1>4 DEF SystemCalls, SemCalls
  <2> QED BY <1>1, <1>5, <1>6, <2>1 DEF SystemSound, Alive, StaysDead
<1> QED BY <1>7, <1>8, <1>9, <1>10, ManagedStep

LEMMA ManagementKeeps ==
    ASSUME SystemSound, SystemDisciplined, TasksNext, UNCHANGED <<count, units>>
    PROVE  Managed
<1>1. SystemInv'
  BY TasksStep DEF SystemSound
<1> QED BY <1>1, SuspendKeeps, ResumeCheckKeeps, ReadyKeeps, CreateSlotKeeps,
           DeleteKeeps DEF TasksNext

\* What a step of the system does: one of the semaphores', or none of theirs.
LEMMA SystemKeeps ==
    ASSUME SystemSound, SystemDisciplined, [SystemNext]_systemVars
    PROVE  /\ SystemSound' /\ StaysDead
           /\ \/ [Next]_vars
              \/ /\ SameWaiters(k, k', obj) /\ TakersSame
                 /\ UNCHANGED <<count, units>>
<1>1. CASE [Next]_vars /\ UNCHANGED target
  BY <1>1, SemsKeep
<1>2. CASE TasksNext /\ UNCHANGED <<count, units>>
  BY <1>2, ManagementKeeps DEF Managed
<1> QED BY <1>1, <1>2 DEF SystemNext, systemVars

LEMMA AlwaysSystemSound == ASSUME SystemDisciplined PROVE SystemSpec => []SystemSound
<1>1. SystemInit => SystemSound
  BY SystemInitSound
<1>2. SystemSound /\ [SystemNext]_systemVars => SystemSound'
  BY SystemKeeps
<1> QED BY <1>1, <1>2, PTL DEF SystemSpec

\* The lists stay intact when the tasks inside takes and gives are suspended
\* and resumed, and others deleted and created anew.
THEOREM SystemListsIntact ==
    ASSUME SystemDisciplined
    PROVE  SystemSpec => []ListsMatchStates
<1>1. SystemSound => ListsMatchStates
  BY SoundMeans DEF SystemSound, SemSound, Typed
<1> QED BY <1>1, AlwaysSystemSound, PTL

\* Nothing revives a deleted task but a br_task_create that took its slot.
THEOREM NoRevival ==
    ASSUME SystemDisciplined
    PROVE  SystemSpec => DeletedStaysDead
<1>1. SystemSound /\ [SystemNext]_systemVars => [StaysDead]_systemVars
  BY SystemKeeps
<1> QED BY <1>1, AlwaysSystemSound, PTL DEF SystemSpec, DeletedStaysDead, StaysDead

LEMMA QuietStep ==
    ASSUME SystemSound, SameWaiters(k, k', obj), TakersSame, UNCHANGED <<count, units>>
    PROVE  /\ UnitsConserved => UnitsConserved'
           /\ PicksHighest /\ Inside' = Inside
<1>0. NULL \notin Sems
  BY SemAssumption
<1>1. \A s \in Sems : Granted(s)' = Granted(s)
  BY <1>0 DEF SameWaiters, TakersSame, Granted
<1>2. UnitsConserved => UnitsConserved'
  <2> DEFINE G(s) == Granted(s)
             C(s) == Cardinality(G(s))
  <2>1. \A s \in Sems : C(s)' = C(s)
    BY <1>1
  <2> HIDE DEF C
  <2>2. (\A s \in Sems : units[s] = count[s] + C(s)) =>
            \A s \in Sems : units'[s] = count'[s] + C(s)'
    BY <2>1
  <2> QED BY <2>2 DEF UnitsConserved, C
<1>3. PicksHighest
  BY <1>0 DEF PicksHighest, Waiters, SameWaiters
<1>4. Inside' = Inside
  BY DEF Inside, TakersSame
<1> QED BY <1>2, <1>3, <1>4

LEMMA SystemStepAbstract ==
    ASSUME SystemDisciplined, SystemSound, UnitsConserved, [SystemNext]_systemVars
    PROVE  /\ SystemSound' /\ UnitsConserved' /\ PicksHighest
           /\ [Abstract!Next]_<<units, Inside>>
<1>1. SystemSound' /\ SemSound(SystemCalls) /\ Patient
  BY SystemKeeps DEF SystemSound, SystemDisciplined
<1>2. CASE [Next]_vars
  BY <1>1, <1>2, NextConserved, StepPicks, StepAbstract
<1>3. CASE SameWaiters(k, k', obj) /\ TakersSame /\ UNCHANGED <<count, units>>
  BY <1>1, <1>3, QuietStep
<1> QED BY <1>2, <1>3, SystemKeeps

LEMMA SystemFirst == SystemInit => UnitsConserved /\ Abstract!Init
BY InitConserved, InitAbstract DEF SystemInit

\* Units are conserved under task management.
THEOREM SystemConservation ==
    ASSUME SystemDisciplined
    PROVE  SystemSpec => []UnitsConserved
<1>1. SystemSound /\ UnitsConserved /\ [SystemNext]_systemVars => UnitsConserved'
  BY SystemStepAbstract
<1> QED BY <1>1, SystemFirst, AlwaysSystemSound, PTL DEF SystemSpec

\* Waiters leave by priority under task management.
THEOREM SystemHighestFirst ==
    ASSUME SystemDisciplined
    PROVE  SystemSpec => HighestWaiterFirst
<1>1. SystemSound /\ UnitsConserved /\ [SystemNext]_systemVars => [PicksHighest]_vars
  BY SystemStepAbstract
<1> QED BY <1>1, SystemConservation, AlwaysSystemSound, PTL
        DEF SystemSpec, HighestWaiterFirst, PicksHighest

\* Takes and gives are atomic to their users, whatever is done to them.
THEOREM SystemImplements ==
    ASSUME SystemDisciplined
    PROVE  SystemSpec => ImplementsSem
<1>1. SystemSound /\ UnitsConserved /\ [SystemNext]_systemVars
        => [Abstract!Next]_<<units, Inside>>
  BY SystemStepAbstract
<1> QED BY <1>1, SystemFirst, SystemConservation, AlwaysSystemSound, PTL
        DEF SystemSpec, ImplementsSem, Abstract!Spec, Inside
===============================================================================
