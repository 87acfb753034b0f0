---------------------------- MODULE BrMutexProofs ----------------------------
(***************************************************************************)
(* Theorems about mutexes (BrMutex).                                       *)
(***************************************************************************)
EXTENDS BrMutex, BrCpuProofs

\* A lock that has blocked remembers the mutex whose queue it joined.
LocksMutex == \A t \in Tasks : pc[t] \in {"lock", "expired"} => obj[t] \in Mutexes

TypeInv == TypeOK /\ BootQuiet /\ LocksMutex

\* Initially every variable has a value of its type ...
LEMMA InitTypes == Init => TypeInv
<1> SUFFICES ASSUME Init PROVE TypeInv
  OBVIOUS
<1>1. CpuTypes
  BY CpuInitTypes DEF Init
<1>2. 0 \in Priorities
  BY KernelAssumption DEF Priorities
<1>3. Unlocked \in Mutex
  BY <1>2 DEF Unlocked, Mutex
<1> QED BY <1>1, <1>2, <1>3
        DEF Init, CpuInit, CpuTypes, TypeInv, TypeOK, LocksMutex

\* ... inheriting and restoring a priority keep the types of the memory ...
LEMMA PriorityType ==
    ASSUME k \in Kernel, mtx \in [Mutexes -> Mutex], NEW t \in Tasks,
           NEW m \in Mutexes
    PROVE  /\ Inherit(t, m) \in Kernel /\ Inherit(t, m).current = k.current
           /\ Inherit(t, m).wq = k.wq /\ Inherit(t, m).next = k.next
           /\ RestorePriority(t, m) \in Kernel
           /\ RestorePriority(t, m).current = k.current
           /\ RestorePriority(t, m).wq = k.wq
           /\ RestorePriority(t, m).next = k.next
<1>1. ASSUME NEW u, NEW p \in Priorities
      PROVE  /\ [k EXCEPT !.priority[u] = p] \in Kernel
             /\ [k EXCEPT !.priority[u] = p].current = k.current
             /\ [k EXCEPT !.priority[u] = p].wq = k.wq
             /\ [k EXCEPT !.priority[u] = p].next = k.next
  BY DEF Kernel
<1>2. k.priority[t] \in Priorities /\ mtx[m].owner_orig_prio \in Priorities
  BY DEF Kernel, Mutex
<1> QED BY <1>1, <1>2 DEF Inherit, RestorePriority

\* ... every step keeps that.
LEMMA NextTypes == TypeInv /\ [Next]_vars => TypeInv'
<1> SUFFICES ASSUME TypeInv, [Next]_vars PROVE TypeInv'
  OBVIOUS
<1> USE DEF TypeInv, TypeOK, LocksMutex
<1>0. Mutexes \subseteq WaitQueues
  BY MutexAssumption
<1>1. CASE /\ CpuNext
           /\ base' = IF Booting THEN k'.priority ELSE base
           /\ UNCHANGED <<mtx, held>>
  <2>1. CpuTypes' /\ UNCHANGED <<pc, obj>>
    BY <1>1, CpuNextTypes, CpuNextFrame DEF CpuTypes
  <2>2. k'.priority \in [Tasks -> Priorities]
    BY <2>1 DEF CpuTypes, CpuTypeOK, Kernel
  <2> QED BY <1>1, <2>1, <2>2 DEF CpuTypes
<1>2. ASSUME NEW t \in Tasks, NEW m \in Mutexes, LockFree(t, m)
      PROVE  TypeInv'
  <2>1. LockedBy(t) \in Mutex
    BY DEF LockedBy, Mutex, CpuTypeOK, Kernel
  <2> QED BY <1>2, <2>1 DEF LockFree, CpuTypeOK, BootQuiet, Booting
<1>3. ASSUME NEW t \in Tasks, NEW m \in Mutexes, NEW timeout \in Timeouts,
             LockBlock(t, m, timeout)
      PROVE  TypeInv'
  <2> DEFINE k1 == Inherit(t, m)
  <2>1. m \in WaitQueues /\ timeout \in (1 .. MaxTicks) \cup {NULL}
    BY MutexAssumption
  <2>2. k1 \in Kernel /\ k1.current = k.current
    BY PriorityType DEF CpuTypeOK
  <2>3. k' = block_on_wq(k1, m, t, timeout)
    BY <1>3 DEF LockBlock
  <2> HIDE DEF k1
  <2>4. k' \in Kernel /\ k'.current = k.current
    BY <2>1, <2>2, <2>3, BlockStep
  <2>5. k.current # NULL
    BY <1>3, ListAssumption DEF LockBlock, MayLock, InApp, Running
  <2> QED BY <1>3, <2>1, <2>4, <2>5 DEF LockBlock, CpuTypeOK, BootQuiet, Booting
<1>4. ASSUME NEW t \in Tasks, LockReturn(t)
      PROVE  TypeInv'
  <2>1. obj[t] \in Mutexes /\ obj[t] \in WaitQueues
    BY <1>0, <1>4 DEF LockReturn
  <2>2. k' \in Kernel /\ k'.current = k.current
    BY <1>4, <2>1, RemoveStep DEF LockReturn, CpuTypeOK
  <2>3. k.current # NULL
    BY <1>4, ListAssumption DEF LockReturn, Running
  <2>4. held' \in [Tasks -> SUBSET Mutexes]
    BY <1>4, <2>1 DEF LockReturn
  <2>5. /\ UNCHANGED <<resched, isr, mtx, base>>
        /\ \/ pc' = [pc EXCEPT ![t] = "expired"] /\ obj' = obj
           \/ /\ pc' = [pc EXCEPT ![t] = "app"]
              /\ obj' = [obj EXCEPT ![t] = NULL]
    BY <1>4 DEF LockReturn
  <2>6. /\ pc' \in [Tasks -> {"app", "lock", "expired"}]
        /\ obj' \in [Tasks -> WaitQueues \cup {NULL}]
    BY <2>5 DEF CpuTypeOK
  <2>7. LocksMutex'
    BY <2>1, <2>5 DEF CpuTypeOK
  <2> QED BY <2>2, <2>3, <2>4, <2>5, <2>6, <2>7 DEF CpuTypeOK, BootQuiet, Booting
<1>5. ASSUME NEW t \in Tasks, NEW m \in Mutexes, UnlockWake(t, m)
      PROVE  TypeInv'
  <2> DEFINE w  == k.wq[m]
             k1 == RestorePriority(t, m)
  <2>1. k1 \in Kernel /\ k1.current = k.current /\ k1.wq = k.wq
    BY PriorityType DEF CpuTypeOK
  <2>2. /\ w # NULL
        /\ k' = wake_waiter(wq_pop(k1, m), w)
        /\ mtx' = [mtx EXCEPT ![m].owner = w,
                              ![m].owner_orig_prio = k1.priority[w]]
    BY <1>5 DEF UnlockWake
  <2>3. w = k1.wq[m]
    BY <2>1
  <2> HIDE DEF k1, w
  <2>4. w \in Tasks /\ k' \in Kernel /\ k'.current = k.current
    BY <1>0, <2>1, <2>2, <2>3, WakeStep
  <2>5. k1.priority[w] \in Priorities
    BY <2>1, <2>4 DEF Kernel
  <2>6. mtx' \in [Mutexes -> Mutex]
    BY <2>2, <2>4, <2>5 DEF Mutex
  <2>7. k.current # NULL
    BY <1>5, ListAssumption DEF UnlockWake, InApp, Running
  <2> QED BY <1>5, <2>4, <2>6, <2>7 DEF UnlockWake, CpuTypeOK, BootQuiet, Booting
<1>6. ASSUME NEW t \in Tasks, NEW m \in Mutexes, UnlockFree(t, m)
      PROVE  TypeInv'
  <2>1. k' \in Kernel /\ k'.current = k.current
    BY <1>6, PriorityType DEF UnlockFree, CpuTypeOK
  <2>2. k.current # NULL
    BY <1>6, ListAssumption DEF UnlockFree, InApp, Running
  <2>3. mtx' \in [Mutexes -> Mutex]
    <3>1. /\ mtx[m] \in Mutex
          /\ mtx' = [mtx EXCEPT ![m].locked = FALSE, ![m].owner = NULL]
      BY <1>6 DEF UnlockFree
    <3>2. mtx \in [Mutexes -> Mutex]
      OBVIOUS
    <3> QED BY ONLY <3>1, <3>2, m \in Mutexes DEF Mutex
  <2> QED BY <1>6, <2>1, <2>2, <2>3 DEF UnlockFree, CpuTypeOK, BootQuiet, Booting
<1>7. CASE UNCHANGED vars
  BY <1>7 DEF vars, CpuTypeOK, BootQuiet, Booting
<1> QED BY <1>1, <1>2, <1>3, <1>4, <1>5, <1>6, <1>7 DEF Next, MutexNext

\* Every variable of the mutexes always has a value of its type.
THEOREM TypeCorrect == Spec => []TypeOK
<1>1. TypeInv => TypeOK
  BY DEF TypeInv
<1> QED BY <1>1, InitTypes, NextTypes, PTL DEF Spec

-------------------------------------------------------------------------------
(***************************************************************************)
(* Sound memory, for locks that wait without a timeout: after a timeout    *)
(* the links of the sleep list and of the wait queue are mixed up.         *)
(***************************************************************************)
Patient == Timeouts = {NULL} /\ ~WakeInWindow /\ ~BlockWhileLocked

\* No lock has expired.
Unexpired == \A t \in Tasks : pc[t] # "expired"

MutexSound == TypeInv /\ CpuSound /\ Unexpired

LEMMA InitSound == Patient /\ Init => MutexSound
BY InitTypes, CpuInitSound, MutexAssumption
   DEF Patient, Careful, Init, MutexSound, Unexpired, CpuInit

\* What the lemmas about calls ask for.
LEMMA Given ==
    ASSUME MutexSound, Patient
    PROVE  /\ CpuTypes /\ CpuTypeOK /\ CpuSound /\ Careful
           /\ Mutexes \subseteq WaitQueues /\ NULL \notin Mutexes
           /\ pc \in [Tasks -> {"app", "lock"}]
           /\ obj \in [Tasks -> WaitQueues \cup {NULL}]
           /\ k \in Kernel /\ k.state \in [Tasks -> States]
           /\ mtx \in [Mutexes -> Mutex] /\ held \in [Tasks -> SUBSET Mutexes]
BY MutexAssumption
   DEF MutexSound, TypeInv, TypeOK, CpuTypes, CpuTypeOK, Careful, Patient, Kernel,
       Unexpired

\* Inheriting or restoring a priority moves nobody.
LEMMA PriorityMovesNobody ==
    ASSUME MutexSound, Patient, NEW t \in Tasks, NEW m \in Mutexes
    PROVE  Reprioritized(Inherit(t, m)) /\ Reprioritized(RestorePriority(t, m))
<1>1. k \in Kernel /\ Sound(k, obj) /\ mtx \in [Mutexes -> Mutex]
  BY Given DEF CpuSound
<1>2. ASSUME NEW kk, kk \in Kernel, NEW u, NEW p, kk = [k EXCEPT !.priority[u] = p]
      PROVE  Reprioritized(kk)
  BY <1>1, <1>2, PrioritySound DEF Reprioritized
<1>3. Reprioritized(k)
  BY <1>1 DEF Reprioritized
<1>4. Inherit(t, m) \in Kernel /\ RestorePriority(t, m) \in Kernel
  BY <1>1, PriorityType
<1> QED BY <1>2, <1>3, <1>4 DEF Inherit, RestorePriority

LEMMA LockBlockSound ==
    ASSUME MutexSound, Patient, NEW t \in Tasks, NEW m \in Mutexes,
           NEW timeout \in Timeouts, LockBlock(t, m, timeout)
    PROVE  /\ CpuSound' /\ k'.state = [k.state EXCEPT ![t] = "BLOCKED"]
           /\ KeepsOrder(Inherit(t, m), obj, k', obj')
           /\ k'.priority = Inherit(t, m).priority
           /\ k'.current = t /\ k.state[t] = "RUNNING"
<1> DEFINE k1 == Inherit(t, m)
<1>1. BlockCall(k1, t, m, "lock")
  BY DEF LockBlock, MayLock, BlockCall, Patient
<1>2. m \in WaitQueues /\ Reprioritized(k1) /\ k1 \in Kernel
  BY Given, PriorityMovesNobody, PriorityType
<1>3. k' = block_on_wq(k1, m, t, timeout) /\ timeout \in (1 .. MaxTicks) \cup {NULL}
  BY MutexAssumption DEF LockBlock
<1>4. k.current = t /\ k.state[t] = "RUNNING"
  BY Given, AppRuns DEF LockBlock, MayLock, InApp
<1> HIDE DEF k1
<1>5. k'.priority = k1.priority
  BY <1>2, <1>3, BlockStep
<1>6. /\ CpuSound' /\ k'.state = [k.state EXCEPT ![t] = "BLOCKED"]
      /\ KeepsOrder(k1, obj, k', obj') /\ k'.current = k.current
  BY <1>1, <1>2, Given, BlockCallSound
<1> QED BY <1>4, <1>5, <1>6 DEF k1

LEMMA LockReturnSound ==
    ASSUME MutexSound, Patient, NEW t \in Tasks, LockReturn(t)
    PROVE  /\ CpuSound' /\ k' = k /\ k.state[t] = "RUNNING" /\ pc[t] = "lock"
           /\ pc' = [pc EXCEPT ![t] = "app"] /\ obj' = [obj EXCEPT ![t] = NULL]
           /\ obj[t] \in Mutexes /\ held' = [held EXCEPT ![t] = @ \cup {obj[t]}]
           /\ KeepsOrder(k, obj, k', obj') /\ k.current = t
<1>1. Running(t) /\ ~resched[t]
  BY DEF LockReturn
<1>2. obj[t] \in Mutexes /\ obj[t] # NULL
  BY Given DEF LockReturn, MutexSound, TypeInv, LocksMutex
<1>3. k.state[t] = "RUNNING" /\ k.current = t
  BY <1>1, Given, AppRuns
<1>4. k.result[t] = "OK"
  BY <1>2, Given DEF CpuSound, Sound, NoTimeout
<1>5. pc[t] = "lock"
  BY Given DEF LockReturn, MutexSound, Unexpired
<1>6. /\ k' = k /\ held' = [held EXCEPT ![t] = @ \cup {obj[t]}]
      /\ pc' = [pc EXCEPT ![t] = "app"] /\ obj' = [obj EXCEPT ![t] = NULL]
      /\ UNCHANGED <<resched, isr>>
  BY <1>4, <1>5 DEF LockReturn
<1>7. CpuSound' /\ KeepsOrder(k, obj, k', obj')
  BY <1>1, <1>6, Given, ReturnCallSound
<1> QED BY <1>2, <1>3, <1>5, <1>6, <1>7

LEMMA UnlockWakeSound ==
    ASSUME MutexSound, Patient, NEW t \in Tasks, NEW m \in Mutexes,
           UnlockWake(t, m), NEW w, w = k.wq[m]
    PROVE  /\ CpuSound'
           /\ w \in Tasks /\ pc[w] = "lock" /\ obj[w] = m
           /\ k.state[w] = "BLOCKED"
           /\ k'.state = [k.state EXCEPT ![w] = "READY"]
           /\ KeepsOrder(RestorePriority(t, m), obj, k', obj)
           /\ k'.priority = RestorePriority(t, m).priority
           /\ k'.current = t /\ k.current = t /\ k.state[t] = "RUNNING"
<1> DEFINE k1 == RestorePriority(t, m)
<1>1. Reprioritized(k1) /\ m \in WaitQueues /\ k1.wq = k.wq /\ k1 \in Kernel
  BY Given, PriorityMovesNobody, PriorityType
<1>2. WakeCall(k1, t, m)
  BY <1>1 DEF UnlockWake, WakeCall
<1> HIDE DEF k1
<1>3. k1.wq[m] = w
  BY <1>1
<1>4. /\ CpuSound' /\ w \in Tasks /\ obj[w] = m
      /\ k.state[w] = "BLOCKED" /\ pc[w] # "app"
      /\ k'.state = [k.state EXCEPT ![w] = "READY"]
      /\ KeepsOrder(k1, obj, k', obj) /\ k'.current = k.current
  <2>1. CpuTypeOK /\ CpuSound /\ Careful
    BY Given
  <2>2. Reprioritized(k1) /\ m \in WaitQueues /\ WakeCall(k1, t, m)
    BY <1>1, <1>2
  <2> HIDE DEF Patient
  <2> QED BY <1>3, <2>1, <2>2, WakeCallSound
<1>5. k'.priority = k1.priority
  BY <1>1, <1>2, WakeStep DEF WakeCall
<1>6. k.current = t /\ k.state[t] = "RUNNING"
  BY Given, AppRuns DEF UnlockWake, InApp
<1> QED BY <1>4, <1>5, <1>6, Given DEF k1

LEMMA UnlockFreeSound ==
    ASSUME MutexSound, Patient, NEW t \in Tasks, NEW m \in Mutexes,
           UnlockFree(t, m)
    PROVE  CpuSound' /\ k'.state = k.state
<1>1. /\ k' = RestorePriority(t, m)
      /\ UNCHANGED <<pc, obj, resched>>
  BY DEF UnlockFree
<1>2. Sound(k', obj) /\ k'.state = k.state /\ k'.current = k.current
  BY <1>1, PriorityMovesNobody DEF Reprioritized
<1> QED BY <1>1, <1>2, Given DEF CpuSound, WindowCloses

LEMMA StaysUnexpired ==
    ASSUME MutexSound, Patient, [Next]_vars
    PROVE  Unexpired'
<1>1. pc \in [Tasks -> {"app", "lock"}]
  BY Given
<1>2. CASE CpuNext \/ UNCHANGED vars
  BY <1>1, <1>2, CpuNextFrame DEF vars, Unexpired
<1>3. ASSUME NEW t \in Tasks, NEW m \in Mutexes,
             \/ LockFree(t, m) \/ UnlockWake(t, m) \/ UnlockFree(t, m)
             \/ \E timeout \in Timeouts : LockBlock(t, m, timeout)
      PROVE  Unexpired'
  BY <1>1, <1>3 DEF LockFree, UnlockWake, UnlockFree, LockBlock, Unexpired
<1>4. ASSUME NEW t \in Tasks, LockReturn(t) PROVE Unexpired'
  BY <1>1, <1>4, LockReturnSound DEF Unexpired
<1> QED BY <1>2, <1>3, <1>4 DEF Next, MutexNext

LEMMA NextSound == Patient /\ MutexSound /\ [Next]_vars => MutexSound'
<1> SUFFICES ASSUME Patient, MutexSound, [Next]_vars PROVE CpuSound' /\ Unexpired'
  BY NextTypes DEF MutexSound
<1>0. Unexpired'
  BY StaysUnexpired
<1> SUFFICES CpuSound'
  BY <1>0
<1>1. CASE CpuNext
  BY <1>1, CpuNextSound, Given
<1>2. ASSUME NEW t \in Tasks, NEW m \in Mutexes, LockFree(t, m)
      PROVE  CpuSound'
  BY <1>2, Given DEF LockFree, CpuSound
<1>3. CASE UNCHANGED vars
  BY <1>3, Given DEF vars, CpuSound
<1> QED BY <1>1, <1>2, <1>3, LockBlockSound, LockReturnSound, UnlockWakeSound,
           UnlockFreeSound DEF Next, MutexNext

(***************************************************************************)
(* The kernel's lists are intact, whatever the tasks do: each READY,       *)
(* sleeping or waiting task is on its list, once, and no list holds        *)
(* anybody else, loops or runs into another.                               *)
(***************************************************************************)
THEOREM ListsIntact ==
    ASSUME Patient
    PROVE  Spec => []ListsMatchStates
<1>1. MutexSound => ListsMatchStates
  BY SoundMeans DEF MutexSound, TypeInv, TypeOK
<1>2. Init => MutexSound
  BY InitSound
<1>3. MutexSound /\ [Next]_vars => MutexSound'
  BY NextSound
<1> QED BY <1>1, <1>2, <1>3, PTL DEF Spec

-------------------------------------------------------------------------------
(***************************************************************************)
(* Who owns a mutex: the task that has it, or the task that an unlock made *)
(* the owner and that has not returned from its lock yet.  Nobody else has *)
(* it or is about to, and nobody waits for a mutex that is free.           *)
(***************************************************************************)
Arrives(t, m) == pc[t] = "lock" /\ obj[t] = m /\ k.state[t] # "BLOCKED"

HasIt(t, m) == m \in held[t] \/ Arrives(t, m)

OwnerHasIt(m) ==
    IF mtx[m].locked
    THEN mtx[m].owner \in Tasks /\ HasIt(mtx[m].owner, m)
    ELSE mtx[m].owner = NULL /\ k.wq[m] = NULL

Owned ==
    \A m \in Mutexes :
        /\ OwnerHasIt(m)
        /\ \A t \in Tasks : HasIt(t, m) => mtx[m].locked /\ mtx[m].owner = t

LEMMA InitOwned == Init => Owned
<1> SUFFICES ASSUME Init PROVE Owned
  OBVIOUS
<1>1. \A m \in Mutexes : /\ ~mtx[m].locked /\ mtx[m].owner = NULL
                         /\ k.wq[m] = NULL
  BY MutexAssumption DEF Init, Unlocked, CpuInit, InitialKernel
<1>2. \A t \in Tasks : pc[t] = "app" /\ held[t] = {}
  BY DEF Init, CpuInit
<1> QED BY <1>1, <1>2 DEF Owned, OwnerHasIt, HasIt, Arrives

\* Steps that neither lock nor unlock nor wake.
LEMMA SameOwners ==
    ASSUME Owned, UNCHANGED <<mtx, held>>,
           \A t \in Tasks, m \in Mutexes : Arrives(t, m)' <=> Arrives(t, m),
           \A m \in Mutexes : ~mtx[m].locked => k'.wq[m] = k.wq[m]
    PROVE  Owned'
<1>1. \A t \in Tasks, m \in Mutexes : HasIt(t, m)' <=> HasIt(t, m)
  BY DEF HasIt
<1> HIDE DEF Arrives, HasIt
<1>2. ASSUME NEW m \in Mutexes PROVE OwnerHasIt(m)'
  BY <1>1 DEF Owned, OwnerHasIt
<1> QED BY <1>1, <1>2 DEF Owned

\* A mutex changes hands: no other mutex is concerned, and it has one owner.
LEMMA NewOwner ==
    ASSUME Owned, NEW m \in Mutexes, OwnerHasIt(m)',
           \A n \in Mutexes \ {m} :
               /\ mtx'[n] = mtx[n] /\ k'.wq[n] = k.wq[n]
               /\ \A u \in Tasks : HasIt(u, n)' <=> HasIt(u, n),
           \A u \in Tasks : HasIt(u, m)' => mtx'[m].locked /\ mtx'[m].owner = u
    PROVE  Owned'
<1>1. ASSUME NEW n \in Mutexes \ {m} PROVE OwnerHasIt(n)'
  BY DEF Owned, OwnerHasIt
<1>2. ASSUME NEW n \in Mutexes \ {m}, NEW u \in Tasks, HasIt(u, n)'
      PROVE  mtx'[n].locked /\ mtx'[n].owner = u
  BY <1>2 DEF Owned
<1> QED BY <1>1, <1>2 DEF Owned

LEMMA NextOwned == Patient /\ MutexSound /\ Owned /\ [Next]_vars => Owned'
<1> SUFFICES ASSUME Patient, MutexSound, Owned, [Next]_vars PROVE Owned'
  OBVIOUS
<1>0. /\ Mutexes \subseteq WaitQueues /\ NULL \notin Mutexes
      /\ pc \in [Tasks -> {"app", "lock"}]
      /\ obj \in [Tasks -> WaitQueues \cup {NULL}]
      /\ k \in Kernel /\ k.state \in [Tasks -> States]
      /\ mtx \in [Mutexes -> Mutex] /\ held \in [Tasks -> SUBSET Mutexes]
  BY Given
<1>1. CASE CpuNext /\ UNCHANGED <<mtx, held>>
  <2>1. k'.wq = k.wq /\ pc' = pc /\ obj' = obj /\ SameWaiters(k, k', obj)
    BY <1>1, Given, CpuNextSound, CpuNextFrame
  <2>2. \A t \in Tasks, m \in Mutexes : Arrives(t, m)' <=> Arrives(t, m)
    BY <1>0, <2>1 DEF Arrives, SameWaiters
  <2> QED BY <1>1, <2>1, <2>2, SameOwners
<1>2. ASSUME NEW t \in Tasks, NEW m \in Mutexes, LockFree(t, m)
      PROVE  Owned'
  <2>1. /\ ~mtx[m].locked /\ mtx' = [mtx EXCEPT ![m] = LockedBy(t)]
        /\ held' = [held EXCEPT ![t] = @ \cup {m}] /\ UNCHANGED <<k, pc, obj>>
    BY <1>2 DEF LockFree
  <2>2. mtx'[m].locked /\ mtx'[m].owner = t
    BY <1>0, <2>1 DEF LockedBy
  <2>3. /\ \A u \in Tasks, n \in Mutexes : n \in held'[u] <=> n \in held[u] \/ (u = t /\ n = m)
        /\ \A u \in Tasks, n \in Mutexes : Arrives(u, n)' <=> Arrives(u, n)
        /\ \A n \in Mutexes \ {m} : mtx'[n] = mtx[n]
    BY <1>0, <2>1 DEF Arrives
  <2>4. \A u \in Tasks, n \in Mutexes : HasIt(u, n)' <=> HasIt(u, n) \/ (u = t /\ n = m)
    BY <2>3 DEF HasIt
  <2>5. \A u \in Tasks : ~HasIt(u, m)
    BY <2>1 DEF Owned
  <2>6. OwnerHasIt(m)'
    BY <2>2, <2>4 DEF OwnerHasIt
  <2> QED BY <2>1, <2>2, <2>3, <2>4, <2>5, <2>6, NewOwner
<1>3. ASSUME NEW t \in Tasks, NEW m \in Mutexes, NEW timeout \in Timeouts,
             LockBlock(t, m, timeout)
      PROVE  Owned'
  <2>1. k'.state = [k.state EXCEPT ![t] = "BLOCKED"]
    BY <1>3, LockBlockSound
  <2>2. /\ pc[t] = "app" /\ pc' = [pc EXCEPT ![t] = "lock"]
        /\ obj' = [obj EXCEPT ![t] = m] /\ UNCHANGED <<mtx, held>>
        /\ mtx[m].locked /\ k' = block_on_wq(Inherit(t, m), m, t, timeout)
    BY <1>3 DEF LockBlock, MayLock, InApp
  <2>3. /\ \A u \in Tasks : k'.state[u] = IF u = t THEN "BLOCKED" ELSE k.state[u]
        /\ \A u \in Tasks : pc'[u] = IF u = t THEN "lock" ELSE pc[u]
        /\ \A u \in Tasks : obj'[u] = IF u = t THEN m ELSE obj[u]
    BY <1>0, <2>1, <2>2
  <2>4. \A u \in Tasks, n \in Mutexes : Arrives(u, n)' <=> Arrives(u, n)
    BY <2>2, <2>3 DEF Arrives
  <2>5. \A n \in Mutexes \ {m} : k'.wq[n] = k.wq[n]
    <3> DEFINE k1 == Inherit(t, m)
    <3>1. k1 \in Kernel /\ k1.wq = k.wq
      BY <1>0, PriorityType
    <3>2. k' = block_on_wq(k1, m, t, timeout)
      BY <2>2
    <3> HIDE DEF k1
    <3>3. timeout \in (1 .. MaxTicks) \cup {NULL} /\ m \in WaitQueues
      BY <1>0, MutexAssumption
    <3> QED BY <1>0, <3>1, <3>2, <3>3, BlockStep
  <2> QED BY <2>2, <2>4, <2>5, SameOwners
<1>4. ASSUME NEW t \in Tasks, LockReturn(t)
      PROVE  Owned'
  <2>1. PICK m \in Mutexes : m = obj[t]
    BY <1>4, LockReturnSound
  <2>2. /\ k' = k /\ k.state[t] = "RUNNING" /\ held' = [held EXCEPT ![t] = @ \cup {m}]
        /\ pc[t] = "lock" /\ pc' = [pc EXCEPT ![t] = "app"]
        /\ obj' = [obj EXCEPT ![t] = NULL] /\ UNCHANGED mtx
    BY <1>4, <2>1, LockReturnSound DEF LockReturn
  <2>3. /\ \A u \in Tasks : pc'[u] = IF u = t THEN "app" ELSE pc[u]
        /\ \A u \in Tasks : obj'[u] = IF u = t THEN NULL ELSE obj[u]
        /\ \A u \in Tasks, n \in Mutexes : n \in held'[u] <=> n \in held[u] \/ (u = t /\ n = m)
    BY <1>0, <2>2
  <2>4. \A u \in Tasks, n \in Mutexes : HasIt(u, n)' <=> HasIt(u, n)
    BY <2>1, <2>2, <2>3 DEF HasIt, Arrives
  <2>5. OwnerHasIt(m)'
    BY <2>2, <2>4 DEF Owned, OwnerHasIt
  <2> QED BY <2>2, <2>4, <2>5, NewOwner DEF Owned
<1>5. ASSUME NEW t \in Tasks, NEW m \in Mutexes, UnlockWake(t, m)
      PROVE  Owned'
  <2>1. PICK w : w = k.wq[m]
    OBVIOUS
  <2>2. /\ w \in Tasks /\ pc[w] = "lock" /\ obj[w] = m /\ k.state[w] = "BLOCKED"
        /\ k'.state = [k.state EXCEPT ![w] = "READY"]
    BY <1>5, <2>1, UnlockWakeSound
  <2>3. /\ mtx[m].owner = t /\ pc[t] = "app" /\ UNCHANGED <<pc, obj>>
        /\ held' = [held EXCEPT ![t] = @ \ {m}]
        /\ \E p : mtx' = [mtx EXCEPT ![m].owner = w, ![m].owner_orig_prio = p]
        /\ k' = wake_waiter(wq_pop(RestorePriority(t, m), m), w) /\ w # NULL
    BY <1>5, <2>1 DEF UnlockWake, InApp
  <2>4. mtx[m].locked
    BY <2>3, ListAssumption DEF Owned, OwnerHasIt
  <2>5. /\ mtx'[m].locked /\ mtx'[m].owner = w
        /\ \A n \in Mutexes \ {m} : mtx'[n] = mtx[n]
    BY <1>0, <2>3, <2>4 DEF Mutex
  <2>6. /\ \A u \in Tasks : k'.state[u] = IF u = w THEN "READY" ELSE k.state[u]
        /\ \A u \in Tasks, n \in Mutexes :
              n \in held'[u] <=> n \in held[u] /\ ~(u = t /\ n = m)
    BY <1>0, <2>2, <2>3
  <2>7. \A u \in Tasks, n \in Mutexes : Arrives(u, n)' <=> Arrives(u, n) \/ (u = w /\ n = m)
    BY <2>2, <2>3, <2>6 DEF Arrives
  <2>8. \A u \in Tasks, n \in Mutexes \ {m} : HasIt(u, n)' <=> HasIt(u, n)
    BY <2>6, <2>7 DEF HasIt
  <2>9. \A u \in Tasks : HasIt(u, m)' => u = w
    BY <2>3, <2>6, <2>7 DEF HasIt, Owned, Arrives
  <2>10. OwnerHasIt(m)'
    BY <2>2, <2>5, <2>7 DEF OwnerHasIt, HasIt
  <2>11. \A n \in Mutexes \ {m} : k'.wq[n] = k.wq[n]
    <3> DEFINE k1 == RestorePriority(t, m)
    <3>1. k1 \in Kernel /\ k1.wq = k.wq /\ k' = wake_waiter(wq_pop(k1, m), w)
      BY <1>0, <2>3, PriorityType
    <3> HIDE DEF k1
    <3>2. w = k1.wq[m] /\ k1.wq[m] # NULL /\ m \in WaitQueues
      BY <1>0, <2>1, <2>3, <3>1
    <3>3. \A n \in WaitQueues \ {m} : k'.wq[n] = k1.wq[n]
      BY <3>1, <3>2, WakeStep
    <3> QED BY <1>0, <3>1, <3>3
  <2> QED BY <2>5, <2>8, <2>9, <2>10, <2>11, NewOwner
<1>6. ASSUME NEW t \in Tasks, NEW m \in Mutexes, UnlockFree(t, m)
      PROVE  Owned'
  <2>1. k'.state = k.state /\ k'.wq = k.wq
    BY <1>0, <1>6, UnlockFreeSound, PriorityType DEF UnlockFree
  <2>2. /\ mtx[m].owner = t /\ pc[t] = "app" /\ UNCHANGED <<pc, obj>>
        /\ held' = [held EXCEPT ![t] = @ \ {m}] /\ k.wq[m] = NULL
        /\ mtx' = [mtx EXCEPT ![m].locked = FALSE, ![m].owner = NULL]
    BY <1>6 DEF UnlockFree, InApp
  <2>3. /\ ~mtx'[m].locked /\ mtx'[m].owner = NULL
        /\ \A n \in Mutexes \ {m} : mtx'[n] = mtx[n]
    BY <1>0, <2>2 DEF Mutex
  <2>4. \A u \in Tasks, n \in Mutexes :
            n \in held'[u] <=> n \in held[u] /\ ~(u = t /\ n = m)
    BY <1>0, <2>2
  <2>5. \A u \in Tasks, n \in Mutexes : Arrives(u, n)' <=> Arrives(u, n)
    BY <2>1, <2>2 DEF Arrives
  <2>6. \A u \in Tasks, n \in Mutexes \ {m} : HasIt(u, n)' <=> HasIt(u, n)
    BY <2>4, <2>5 DEF HasIt
  <2>7. \A u \in Tasks : ~HasIt(u, m)'
    BY <2>2, <2>4, <2>5 DEF HasIt, Owned, Arrives
  <2>8. OwnerHasIt(m)'
    BY <2>1, <2>2, <2>3 DEF OwnerHasIt
  <2> QED BY <2>1, <2>3, <2>6, <2>7, <2>8, NewOwner
<1>7. CASE UNCHANGED vars
  BY <1>7, SameOwners DEF vars, Arrives
<1> QED BY <1>1, <1>2, <1>3, <1>4, <1>5, <1>6, <1>7 DEF Next, MutexNext

LEMMA AlwaysOwned ==
    ASSUME Patient
    PROVE  Spec => [](Owned /\ TypeOK)
<1>1. Init => MutexSound /\ Owned
  BY InitSound, InitOwned
<1>2. MutexSound /\ Owned /\ [Next]_vars => (MutexSound /\ Owned)'
  BY NextSound, NextOwned
<1>3. MutexSound => TypeOK
  BY DEF MutexSound, TypeInv
<1> QED BY <1>1, <1>2, <1>3, PTL DEF Spec

\* Mutual exclusion: a mutex that a task holds is locked by that task, and no
\* other task holds it.
THEOREM Exclusion ==
    ASSUME Patient
    PROVE  Spec => []MutualExclusion
<1>1. Owned => MutualExclusion
  BY DEF Owned, HasIt, MutualExclusion
<1> QED BY <1>1, AlwaysOwned, PTL

\* A hand-over never loses the mutex: the owner has it or will return with
\* it, and nobody waits for a mutex that is free.
THEOREM Orphans ==
    ASSUME Patient
    PROVE  Spec => []NeverOrphaned
<1>1. Owned => NeverOrphaned
  BY DEF Owned, OwnerHasIt, HasIt, Arrives, NeverOrphaned
<1> QED BY <1>1, AlwaysOwned, PTL

-------------------------------------------------------------------------------
(***************************************************************************)
(* What the users of a mutex see: the calls implement the atomic ones of   *)
(* AbstractLock.                                                           *)
(***************************************************************************)
\* Who has locked m, and who is inside a lock of m.
HolderIn(hd) ==
    [m \in Mutexes |-> IF \E t \in Tasks : m \in hd[t]
                       THEN CHOOSE t \in Tasks : m \in hd[t]
                       ELSE NULL]
Holder == HolderIn(held)
Inside == [m \in Mutexes |-> {t \in Tasks : pc[t] \in {"lock", "expired"} /\ obj[t] = m}]

\* The two histories tell the same: a lock that an unlock is about to let
\* return has not returned yet.
NotTwice == \A t \in Tasks, m \in Mutexes : Arrives(t, m) => m \notin held[t]

LEMMA HolderKnown ==
    ASSUME NEW hd, NEW m \in Mutexes
    PROVE  /\ \A t \in Tasks :
                 m \in hd[t] /\ (\A u \in Tasks : m \in hd[u] => u = t)
                   => HolderIn(hd)[m] = t
           /\ (\A u \in Tasks : m \notin hd[u]) => HolderIn(hd)[m] = NULL
BY DEF HolderIn

\* A mutex changes hands, in what the users see.
LEMMA HolderStep ==
    ASSUME NEW m \in Mutexes, NEW h,
           h \in Tasks => m \in held'[h] /\ \A u \in Tasks : m \in held'[u] => u = h,
           h \notin Tasks => h = NULL /\ \A u \in Tasks : m \notin held'[u],
           \A u \in Tasks, n \in Mutexes \ {m} : n \in held'[u] <=> n \in held[u]
    PROVE  Holder' = [Holder EXCEPT ![m] = h]
<1>1. Holder' = HolderIn(held')
  BY DEF Holder, HolderIn
<1>2. HolderIn(held')[m] = h
  BY HolderKnown
<1>3. \A n \in Mutexes \ {m} : HolderIn(held')[n] = Holder[n]
  BY DEF Holder, HolderIn
<1>4. /\ Holder = [n \in Mutexes |-> Holder[n]]
      /\ Holder' = [n \in Mutexes |-> HolderIn(held')[n]]
  BY <1>1 DEF Holder, HolderIn
<1> QED BY <1>2, <1>3, <1>4

LEMMA StepNotTwice ==
    ASSUME Patient, MutexSound, Owned, NotTwice, [Next]_vars
    PROVE  NotTwice'
<1>0. /\ pc \in [Tasks -> {"app", "lock"}] /\ k.state \in [Tasks -> States]
      /\ obj \in [Tasks -> WaitQueues \cup {NULL}] /\ NULL \notin Mutexes
      /\ held \in [Tasks -> SUBSET Mutexes] /\ mtx \in [Mutexes -> Mutex]
  BY Given
<1>1. CASE CpuNext /\ UNCHANGED <<mtx, held>>
  <2>1. SameWaiters(k, k', obj) /\ pc' = pc /\ obj' = obj
    BY <1>1, Given, CpuNextSound, CpuNextFrame
  <2> QED BY <1>0, <1>1, <2>1 DEF SameWaiters, NotTwice, Arrives
<1>2. ASSUME NEW t \in Tasks, NEW m \in Mutexes, LockFree(t, m)
      PROVE  NotTwice'
  <2>1. pc[t] = "app" /\ UNCHANGED <<k, pc, obj>>
        /\ held' = [held EXCEPT ![t] = @ \cup {m}]
    BY <1>2 DEF LockFree, MayLock, InApp
  <2> QED BY <1>0, <2>1 DEF NotTwice, Arrives
<1>3. ASSUME NEW t \in Tasks, NEW m \in Mutexes, NEW timeout \in Timeouts,
             LockBlock(t, m, timeout)
      PROVE  NotTwice'
  <2>1. k'.state = [k.state EXCEPT ![t] = "BLOCKED"]
    BY <1>3, LockBlockSound
  <2>2. /\ pc' = [pc EXCEPT ![t] = "lock"] /\ obj' = [obj EXCEPT ![t] = m]
        /\ UNCHANGED held
    BY <1>3 DEF LockBlock
  <2> QED BY <1>0, <2>1, <2>2 DEF NotTwice, Arrives
<1>4. ASSUME NEW t \in Tasks, LockReturn(t) PROVE NotTwice'
  <2>1. /\ k' = k /\ pc' = [pc EXCEPT ![t] = "app"] /\ obj' = [obj EXCEPT ![t] = NULL]
        /\ held' = [held EXCEPT ![t] = @ \cup {obj[t]}]
    BY <1>4, LockReturnSound DEF LockReturn
  <2> QED BY <1>0, <2>1 DEF NotTwice, Arrives
<1>5. ASSUME NEW t \in Tasks, NEW m \in Mutexes, UnlockWake(t, m)
      PROVE  NotTwice'
  <2>1. PICK w : w = k.wq[m]
    OBVIOUS
  <2>2. /\ w \in Tasks /\ obj[w] = m /\ k.state[w] = "BLOCKED"
        /\ k'.state = [k.state EXCEPT ![w] = "READY"] /\ k.state[t] = "RUNNING"
    BY <1>5, <2>1, UnlockWakeSound
  <2>3. UNCHANGED <<pc, obj>> /\ held' = [held EXCEPT ![t] = @ \ {m}] /\ mtx[m].owner = t
    BY <1>5 DEF UnlockWake
  <2>4. m \notin held[w]
    BY <2>2, <2>3 DEF Owned, HasIt
  <2> QED BY <1>0, <2>2, <2>3, <2>4 DEF NotTwice, Arrives
<1>6. ASSUME NEW t \in Tasks, NEW m \in Mutexes, UnlockFree(t, m)
      PROVE  NotTwice'
  <2>1. k'.state = k.state /\ UNCHANGED <<pc, obj>> /\ held' = [held EXCEPT ![t] = @ \ {m}]
    BY <1>6, UnlockFreeSound DEF UnlockFree
  <2> QED BY <1>0, <2>1 DEF NotTwice, Arrives
<1>7. CASE UNCHANGED vars
  BY <1>7 DEF vars, NotTwice, Arrives
<1> QED BY <1>1, <1>2, <1>3, <1>4, <1>5, <1>6, <1>7 DEF Next, MutexNext

\* Every step of a mutex is a step of the abstract one, or none.
LEMMA StepAbstract ==
    ASSUME Patient, MutexSound, Owned, NotTwice, [Next]_vars
    PROVE  [Abstract!Next]_<<Holder, Inside>>
<1>0. /\ pc \in [Tasks -> {"app", "lock"}] /\ k.state \in [Tasks -> States]
      /\ obj \in [Tasks -> WaitQueues \cup {NULL}] /\ NULL \notin Mutexes
      /\ held \in [Tasks -> SUBSET Mutexes] /\ mtx \in [Mutexes -> Mutex]
      /\ Mutexes \subseteq WaitQueues
  BY Given
<1>1. CASE UNCHANGED <<pc, obj, held>>
  BY <1>1 DEF Holder, HolderIn, Inside
<1>2. CASE CpuNext /\ UNCHANGED <<mtx, held>>
  BY <1>1, <1>2, CpuNextFrame
<1>3. ASSUME NEW t \in Tasks, pc[t] = "app"
      PROVE  Abstract!Outside(t)
  BY <1>3 DEF Abstract!Outside
<1>4. ASSUME NEW t \in Tasks, NEW m \in Mutexes, LockFree(t, m)
      PROVE  Abstract!Lock(m, t)
  <2>1. /\ pc[t] = "app" /\ ~mtx[m].locked /\ UNCHANGED <<pc, obj>>
        /\ held' = [held EXCEPT ![t] = @ \cup {m}]
    BY <1>4 DEF LockFree, MayLock, InApp
  <2>2. \A u \in Tasks : m \notin held[u]
    BY <2>1 DEF Owned, HasIt
  <2>3. Holder[m] = NULL
    BY <2>2, HolderKnown DEF Holder
  <2>4. Holder' = [Holder EXCEPT ![m] = t]
    <3>1. /\ m \in held'[t] /\ \A u \in Tasks : m \in held'[u] => u = t
          /\ \A u \in Tasks, n \in Mutexes \ {m} : n \in held'[u] <=> n \in held[u]
      BY <1>0, <2>1, <2>2
    <3> QED BY <3>1, HolderStep
  <2>5. Inside' = Inside
    BY <2>1 DEF Inside
  <2> QED BY <1>3, <2>1, <2>3, <2>4, <2>5
          DEF Abstract!Lock, Abstract!Acquire, Inside, Holder, HolderIn
<1>5. ASSUME NEW t \in Tasks, NEW m \in Mutexes, NEW timeout \in Timeouts,
             LockBlock(t, m, timeout)
      PROVE  Abstract!Wait(m, t)
  <2>1. /\ pc[t] = "app" /\ pc' = [pc EXCEPT ![t] = "lock"]
        /\ obj' = [obj EXCEPT ![t] = m] /\ held' = held
    BY <1>5 DEF LockBlock, MayLock, InApp
  <2>2. Inside' = [Inside EXCEPT ![m] = @ \cup {t}]
    <3>1. \A n \in Mutexes : Inside'[n] = IF n = m THEN Inside[n] \cup {t} ELSE Inside[n]
      BY <1>0, <2>1 DEF Inside
    <3> QED BY <3>1 DEF Inside
  <2>3. Holder' = Holder
    BY <2>1 DEF Holder, HolderIn
  <2> QED BY <1>3, <2>1, <2>2, <2>3 DEF Abstract!Wait, Inside, Holder, HolderIn
<1>6. ASSUME NEW t \in Tasks, LockReturn(t)
      PROVE  \E m \in Mutexes : Abstract!Grant(m, t)
  <2>1. PICK m \in Mutexes : m = obj[t]
    BY <1>6, LockReturnSound
  <2>2. /\ k.state[t] = "RUNNING" /\ held' = [held EXCEPT ![t] = @ \cup {m}]
        /\ pc[t] = "lock" /\ pc' = [pc EXCEPT ![t] = "app"]
        /\ obj' = [obj EXCEPT ![t] = NULL]
    BY <1>6, <2>1, LockReturnSound DEF LockReturn
  <2>3. Arrives(t, m)
    BY <2>1, <2>2 DEF Arrives
  <2>4. \A u \in Tasks : m \notin held[u]
    <3>1. \A u \in Tasks : HasIt(u, m) => u = t
      BY <2>3 DEF Owned, HasIt
    <3> QED BY <2>3, <3>1 DEF HasIt, NotTwice
  <2>5. Holder[m] = NULL
    BY <2>4, HolderKnown DEF Holder
  <2>6. Holder' = [Holder EXCEPT ![m] = t]
    <3>1. /\ m \in held'[t] /\ \A u \in Tasks : m \in held'[u] => u = t
          /\ \A u \in Tasks, n \in Mutexes \ {m} : n \in held'[u] <=> n \in held[u]
      BY <1>0, <2>2, <2>4
    <3> QED BY <3>1, HolderStep
  <2>7. Inside' = [Inside EXCEPT ![m] = @ \ {t}] /\ t \in Inside[m]
    <3>1. /\ pc[t] = "lock" /\ pc' = [pc EXCEPT ![t] = "app"]
          /\ obj[t] = m /\ obj' = [obj EXCEPT ![t] = NULL]
      BY <2>1, <2>2
    <3>2. \A n \in Mutexes : Inside'[n] = IF n = m THEN Inside[n] \ {t} ELSE Inside[n]
      BY <1>0, <3>1 DEF Inside
    <3>3. t \in Inside[m]
      BY <3>1 DEF Inside
    <3>4. Inside' = [Inside EXCEPT ![m] = @ \ {t}]
      BY <3>2 DEF Inside
    <3> QED BY <3>3, <3>4
  <2>8. Abstract!Grant(m, t)
    BY <2>5, <2>6, <2>7
       DEF Abstract!Grant, Abstract!Leave, Abstract!Acquire, Inside, Holder, HolderIn
  <2> QED BY <2>8
<1>7. ASSUME NEW t \in Tasks, NEW m \in Mutexes, UnlockWake(t, m) \/ UnlockFree(t, m)
      PROVE  Abstract!Unlock(m, t)
  <2>1. /\ pc[t] = "app" /\ mtx[m].owner = t /\ UNCHANGED <<pc, obj>>
        /\ held' = [held EXCEPT ![t] = @ \ {m}]
    BY <1>7 DEF UnlockWake, UnlockFree, InApp
  <2>2. m \in held[t] /\ \A u \in Tasks : m \in held[u] => u = t
    <3>1. HasIt(t, m)
      BY <2>1, ListAssumption DEF Owned, OwnerHasIt
    <3> QED BY <2>1, <3>1 DEF HasIt, Arrives, Owned
  <2>3. Holder[m] = t
    BY <2>2, HolderKnown DEF Holder
  <2>4. Holder' = [Holder EXCEPT ![m] = NULL]
    <3>1. /\ \A u \in Tasks : m \notin held'[u]
          /\ \A u \in Tasks, n \in Mutexes \ {m} : n \in held'[u] <=> n \in held[u]
      BY <1>0, <2>1, <2>2
    <3> QED BY <3>1, HolderStep, ListAssumption
  <2>5. Inside' = Inside
    BY <2>1 DEF Inside
  <2> QED BY <1>3, <2>1, <2>3, <2>4, <2>5 DEF Abstract!Unlock, Inside, Holder, HolderIn
<1>8. CASE UNCHANGED vars
  BY <1>1, <1>8 DEF vars
<1> QED BY <1>2, <1>4, <1>5, <1>6, <1>7, <1>8 DEF Next, MutexNext, Abstract!Next

LEMMA InitAbstract == Init => Abstract!Init /\ NotTwice
<1> SUFFICES ASSUME Init PROVE Abstract!Init /\ NotTwice
  OBVIOUS
<1>1. \A t \in Tasks : pc[t] = "app" /\ held[t] = {}
  BY DEF Init, CpuInit
<1> QED BY <1>1 DEF Abstract!Init, NotTwice, Arrives

(***************************************************************************)
(* Locks and unlocks are atomic to their users: a task that waits becomes  *)
(* the holder when its lock returns, and at no time has anybody else been. *)
(***************************************************************************)
THEOREM MutexImplements ==
    ASSUME Patient
    PROVE  Spec => ImplementsLock
<1> DEFINE I == MutexSound /\ Owned /\ NotTwice
<1>1. Init => I /\ Abstract!Init
  BY InitSound, InitOwned, InitAbstract
<1>2. I /\ [Next]_vars => I'
  BY NextSound, NextOwned, StepNotTwice
<1>3. I /\ [Next]_vars => [Abstract!Next]_<<Holder, Inside>>
  BY StepAbstract
<1> HIDE DEF I
<1> QED BY <1>1, <1>2, <1>3, PTL
        DEF Spec, ImplementsLock, Abstract!Spec, Holder, HolderIn, Inside

-------------------------------------------------------------------------------
(***************************************************************************)
(* Priority inheritance, for tasks that hold one mutex at a time: with two *)
(* the priority an unlock restores depends on the order of the unlocks.    *)
(***************************************************************************)
\* A task that is inside a lock has no mutex, another one has at most one.
OneEach ==
    \A t \in Tasks :
        /\ pc[t] = "lock" => held[t] = {}
        /\ \A m, n \in held[t] : m = n

\* What an unlock restores is the priority the owner was created with.
Recorded ==
    \A m \in Mutexes :
        mtx[m].locked =>
            ~Booting /\ mtx[m].owner_orig_prio = base[mtx[m].owner]

Inheritance ==
    /\ OneEach /\ Recorded
    /\ ByPriority(k, Waiting(k, obj))
    /\ OwnerInherits /\ BoostIsTemporary

Known == MutexSound /\ Owned /\ Inheritance

LEMMA InitInheritance == Init => Inheritance
<1> SUFFICES ASSUME Init PROVE Inheritance
  OBVIOUS
<1>1. /\ \A t \in Tasks : /\ pc[t] = "app" /\ held[t] = {} /\ base[t] = 0
                          /\ k.priority[t] = 0 /\ k.state[t] = "INACTIVE"
      /\ \A m \in Mutexes : ~mtx[m].locked
  BY DEF Init, CpuInit, InitialKernel, Unlocked
<1>2. ByPriority(k, Waiting(k, obj))
  BY InitOrder DEF Init, InOrder
<1> QED BY <1>1, <1>2
        DEF Inheritance, OneEach, Recorded, OwnerInherits, Waiters, BoostIsTemporary

\* Who waits owns nothing, and nobody owns two mutexes.
LEMMA Owners ==
    ASSUME Known, Patient
    PROVE  /\ \A q \in WaitQueues : \A u \in Waiters(q), m \in Mutexes : mtx[m].owner # u
           /\ \A t \in Tasks, m, n \in Mutexes :
                  mtx[m].owner = t /\ mtx[n].owner = t => m = n
           /\ \A t \in Tasks, m \in Mutexes : mtx[m].owner = t => HasIt(t, m)
           /\ \A m \in Mutexes : ~mtx[m].locked => Waiters(m) = {} /\ mtx[m].owner = NULL
<1>0. /\ pc \in [Tasks -> {"app", "lock"}] /\ NULL \notin WaitQueues
      /\ Mutexes \subseteq WaitQueues /\ held \in [Tasks -> SUBSET Mutexes]
      /\ k \in Kernel /\ CpuSound /\ NULL \notin Tasks
  BY Given, ListAssumption, MutexAssumption DEF Known
<1>1. \A t \in Tasks, m \in Mutexes : mtx[m].owner = t => HasIt(t, m)
  BY <1>0 DEF Known, Owned, OwnerHasIt
<1>2. ASSUME NEW q \in WaitQueues, NEW u \in Waiters(q), NEW m \in Mutexes
      PROVE  mtx[m].owner # u
  <2>1. u \in Tasks /\ k.state[u] = "BLOCKED" /\ obj[u] = q /\ q # NULL
    BY <1>0 DEF Waiters
  <2>2. pc[u] = "lock"
    BY <1>0, <2>1 DEF CpuSound
  <2>3. held[u] = {}
    BY <2>1, <2>2 DEF Known, Inheritance, OneEach
  <2> QED BY <1>1, <2>1, <2>3 DEF HasIt, Arrives
<1>3. ASSUME NEW t \in Tasks, NEW m \in Mutexes, NEW n \in Mutexes,
             HasIt(t, m), HasIt(t, n)
      PROVE  m = n
  BY <1>3 DEF HasIt, Arrives, Known, Inheritance, OneEach
<1>4. ASSUME NEW m \in Mutexes, ~mtx[m].locked
      PROVE  Waiters(m) = {} /\ mtx[m].owner = NULL
  <2>1. k.wq[m] = NULL /\ mtx[m].owner = NULL
    BY <1>4 DEF Known, Owned, OwnerHasIt
  <2>2. Sound(k, obj) /\ ByPriority(k, Waiting(k, obj)) /\ m \in WaitQueues
    BY <1>0 DEF Known, Inheritance, CpuSound
  <2>3. \A u \in Waiters(m) : k.wq[m] # NULL
    BY <1>0, <2>2, HeadFirst
  <2> QED BY <2>1, <2>3
<1> QED BY <1>1, <1>2, <1>3, <1>4

\* A step that leaves the owners and every priority alone.
LEMMA SameOwnersInherit ==
    ASSUME Known, Patient, ByPriority(k, Waiting(k, obj))',
           OneEach', UNCHANGED <<mtx, base>>, k'.priority = k.priority,
           \A m \in Mutexes : Waiters(m)' = Waiters(m), ~Booting'
    PROVE  Inheritance'
<1>1. Recorded'
  BY DEF Known, Inheritance, Recorded
<1>2. OwnerInherits' /\ BoostIsTemporary'
  BY DEF Known, Inheritance, OwnerInherits, BoostIsTemporary
<1> QED BY <1>1, <1>2 DEF Inheritance

LEMMA CpuInherits ==
    ASSUME Known, Patient, CpuNext, UNCHANGED <<mtx, held>>,
           base' = IF Booting THEN k'.priority ELSE base
    PROVE  Inheritance'
<1>1. /\ CpuTypes /\ CpuSound /\ Careful /\ k \in Kernel
      /\ Mutexes \subseteq WaitQueues /\ NULL \notin Mutexes
  BY Given DEF Known
<1>2. /\ SameWaiters(k, k', obj) /\ Keeps(k, isr, k', isr', obj)
      /\ pc' = pc /\ obj' = obj /\ (Booting \/ k'.priority = k.priority)
  BY <1>1, CpuNextSound, CpuNextFrame
<1>3. \A m \in Mutexes : Waiters(m)' = Waiters(m)
  BY <1>1, <1>2 DEF SameWaiters, Waiters
<1>4. ByPriority(k', Waiting(k', obj'))
  BY <1>2 DEF Keeps, KeepsOrder, OrderKept, Known, Inheritance
<1>5. OneEach'
  BY <1>2 DEF Known, Inheritance, OneEach
<1>6. CASE Booting
  <2>1. \A m \in Mutexes : ~mtx[m].locked
    BY <1>6 DEF Known, Inheritance, Recorded
  <2>2. \A m \in Mutexes : Waiters(m) = {}
    BY <2>1, Owners
  <2> QED BY <1>3, <1>4, <1>5, <1>6, <2>1, <2>2
          DEF Inheritance, Recorded, OwnerInherits, BoostIsTemporary
<1>7. CASE ~Booting
  <2>1. k.current \in Tasks
    BY <1>1, <1>7 DEF Kernel, Booting
  <2>2. ~Booting'
    BY <1>1, <2>1, CpuStaysStarted DEF Booting
  <2> QED BY <1>2, <1>3, <1>4, <1>5, <1>7, <2>2, SameOwnersInherit
<1> QED BY <1>6, <1>7

LEMMA LockFreeInherits ==
    ASSUME Known, Patient, ~Nesting, NEW t \in Tasks, NEW m \in Mutexes,
           LockFree(t, m)
    PROVE  Inheritance'
<1>1. /\ pc[t] = "app" /\ k.current = t /\ held[t] = {} /\ ~mtx[m].locked
      /\ mtx' = [mtx EXCEPT ![m] = LockedBy(t)]
      /\ held' = [held EXCEPT ![t] = @ \cup {m}] /\ UNCHANGED <<k, pc, obj, base>>
  BY DEF LockFree, MayLock, InApp, Running
<1>2. mtx \in [Mutexes -> Mutex] /\ held \in [Tasks -> SUBSET Mutexes]
  BY Given DEF Known
<1>3. /\ mtx'[m].locked /\ mtx'[m].owner = t
      /\ mtx'[m].owner_orig_prio = k.priority[t]
      /\ \A n \in Mutexes \ {m} : mtx'[n] = mtx[n]
  BY <1>1, <1>2 DEF LockedBy
<1>4. \A n \in Mutexes : mtx[n].owner # t
  BY <1>1, Owners DEF HasIt, Arrives
<1>5. k.priority[t] = base[t]
  BY <1>4 DEF Known, Inheritance, BoostIsTemporary
<1>6. OneEach'
  BY <1>1, <1>2 DEF Known, Inheritance, OneEach
<1>7. Recorded'
  BY <1>1, <1>3, <1>5, ListAssumption DEF Known, Inheritance, Recorded, Booting
<1>8. Waiters(m) = {} /\ mtx[m].owner = NULL
  BY <1>1, Owners
<1>9. OwnerInherits'
  BY <1>1, <1>3, <1>8 DEF Known, Inheritance, OwnerInherits, Waiters
<1>10. BoostIsTemporary'
  BY <1>1, <1>3, <1>8, ListAssumption DEF Known, Inheritance, BoostIsTemporary
<1> QED BY <1>1, <1>6, <1>7, <1>9, <1>10 DEF Known, Inheritance

LEMMA LockBlockInherits ==
    ASSUME Known, Patient, ~Nesting, NEW t \in Tasks, NEW m \in Mutexes,
           NEW timeout \in Timeouts, LockBlock(t, m, timeout)
    PROVE  Inheritance'
<1> DEFINE k1 == Inherit(t, m)
           o  == mtx[m].owner
<1>0. /\ k \in Kernel /\ Mutexes \subseteq WaitQueues /\ Sound(k, obj)
      /\ pc \in [Tasks -> {"app", "lock"}] /\ held \in [Tasks -> SUBSET Mutexes]
      /\ obj \in [Tasks -> WaitQueues \cup {NULL}]
  BY Given DEF Known, CpuSound
<1>1. /\ pc[t] = "app" /\ held[t] = {} /\ mtx[m].locked
      /\ pc' = [pc EXCEPT ![t] = "lock"] /\ obj' = [obj EXCEPT ![t] = m]
      /\ UNCHANGED <<mtx, held, base>>
  BY DEF LockBlock, MayLock, InApp
<1>2. /\ k'.state = [k.state EXCEPT ![t] = "BLOCKED"]
      /\ KeepsOrder(k1, obj, k', obj') /\ k'.priority = k1.priority
      /\ k'.current = t /\ k.state[t] = "RUNNING"
  BY LockBlockSound DEF Known
<1>3. k1.state = k.state /\ k1.next = k.next /\ k1 \in Kernel
  BY <1>0, PriorityMovesNobody, PriorityType, Given DEF Known, Reprioritized
<1>4. o \in Tasks /\ o # t
  BY <1>1 DEF Known, Owned, OwnerHasIt, HasIt, Arrives
<1>5. /\ \A u \in Tasks \ {o} : k1.priority[u] = k.priority[u]
      /\ k1.priority[o] <= k.priority[o] /\ k1.priority[o] <= k.priority[t]
  <2>1. /\ k.priority \in [Tasks -> Priorities]
        /\ k.priority[t] \in Nat /\ k.priority[o] \in Nat
    BY <1>0, <1>4, Ranks DEF Kernel
  <2>2. CASE k.priority[t] < k.priority[o]
    <3>1. k1.priority = [k.priority EXCEPT ![o] = k.priority[t]]
      BY <1>0, <2>2 DEF Inherit, Kernel
    <3> QED BY <1>4, <2>1, <2>2, <3>1
  <2>3. CASE ~(k.priority[t] < k.priority[o])
    <3>1. k1 = k
      BY <2>3 DEF Inherit
    <3> QED BY <2>1, <2>3, <3>1
  <2> QED BY <2>2, <2>3
<1> HIDE DEF k1, o
<1>6. \A q \in WaitQueues : \A u \in Waiting(k, obj)[q] :
          u \in Tasks /\ u \in Waiters(q) /\ u # o /\ u # t
  BY <1>2, Owners DEF Waiting, Waiters, o
<1>7. ByPriority(k1, Waiting(k, obj))
  BY <1>0, <1>3, <1>5, <1>6, QueuesStayOrdered DEF Known, Inheritance
<1>8. Waiting(k1, obj) = Waiting(k, obj)
  BY <1>3 DEF Waiting
<1>9. ByPriority(k', Waiting(k', obj'))
  BY <1>2, <1>7, <1>8 DEF KeepsOrder, OrderKept
<1>10. \A n \in Mutexes : \A u \in Waiters(n)' :
           (u \in Waiters(n) /\ u # o) \/ (u = t /\ n = m)
  BY <1>0, <1>1, <1>2, <1>6 DEF Waiters, Waiting
<1>11. OneEach'
  BY <1>0, <1>1 DEF Known, Inheritance, OneEach
<1>12. Recorded'
  BY <1>1, <1>2, ListAssumption DEF Known, Inheritance, Recorded, Booting
<1>13. OwnerInherits'
  <2> SUFFICES ASSUME NEW n \in Mutexes, NEW u \in Waiters(n)'
               PROVE  k1.priority[mtx[n].owner] <= k1.priority[u]
    BY <1>1, <1>2 DEF OwnerInherits
  <2>1. CASE u = t /\ n = m
    BY <1>4, <1>5, <2>1 DEF o
  <2>2. CASE u \in Waiters(n) /\ u # o
    <3>1. u \in Tasks /\ mtx[n].owner \in Tasks
      BY <2>2, Owners DEF Waiters, Known, Owned, OwnerHasIt
    <3>2. k.priority[mtx[n].owner] <= k.priority[u] /\ k1.priority[u] = k.priority[u]
      BY <1>5, <2>2, <3>1 DEF Known, Inheritance, OwnerInherits
    <3>3. /\ k.priority[u] \in Nat /\ k.priority[mtx[n].owner] \in Nat
          /\ k1.priority[mtx[n].owner] \in Nat
      BY <1>0, <1>3, <3>1, Ranks
    <3>4. k1.priority[mtx[n].owner] <= k.priority[mtx[n].owner]
      BY <1>5, <3>1, <3>3
    <3> QED BY <3>2, <3>3, <3>4
  <2> QED BY <1>10, <2>1, <2>2
<1>14. BoostIsTemporary'
  BY <1>1, <1>2, <1>5 DEF Known, Inheritance, BoostIsTemporary, o
<1> QED BY <1>9, <1>11, <1>12, <1>13, <1>14 DEF Inheritance

LEMMA LockReturnInherits ==
    ASSUME Known, Patient, NEW t \in Tasks, LockReturn(t)
    PROVE  Inheritance'
<1>0. /\ pc \in [Tasks -> {"app", "lock"}] /\ held \in [Tasks -> SUBSET Mutexes]
      /\ obj \in [Tasks -> WaitQueues \cup {NULL}]
  BY Given DEF Known
<1>1. /\ k' = k /\ k.current = t /\ k.state[t] = "RUNNING"
      /\ held' = [held EXCEPT ![t] = @ \cup {obj[t]}] /\ KeepsOrder(k, obj, k', obj')
  BY LockReturnSound DEF Known
<1>2. /\ pc[t] = "lock" /\ pc' = [pc EXCEPT ![t] = "app"]
      /\ obj' = [obj EXCEPT ![t] = NULL] /\ UNCHANGED <<mtx, base>>
  BY LockReturnSound DEF Known, LockReturn
<1>3. \A m \in Mutexes : Waiters(m)' = Waiters(m)
  BY <1>0, <1>1, <1>2, MutexAssumption DEF Waiters
<1>4. ByPriority(k', Waiting(k', obj'))
  BY <1>1 DEF KeepsOrder, OrderKept, Known, Inheritance
<1>5. OneEach'
  BY <1>0, <1>1, <1>2 DEF Known, Inheritance, OneEach
<1>6. ~Booting'
  BY <1>1, ListAssumption DEF Booting
<1> QED BY <1>1, <1>2, <1>3, <1>4, <1>5, <1>6, SameOwnersInherit

\* An unlock by t restores the priority t was created with, and touches no
\* waiter's.
LEMMA UnlockRestores ==
    ASSUME Known, Patient, NEW t \in Tasks, NEW m \in Mutexes, InApp(t),
           mtx[m].owner = t, NEW k1, k1 = RestorePriority(t, m)
    PROVE  /\ k1.priority = [k.priority EXCEPT ![t] = base[t]]
           /\ k1 \in Kernel /\ Waiting(k1, obj) = Waiting(k, obj)
           /\ ByPriority(k1, Waiting(k, obj)) /\ ~Booting /\ mtx[m].locked
           /\ \A n \in Mutexes \ {m} : mtx[n].owner # t
           /\ \A q \in WaitQueues : t \notin Waiters(q)
<1>0. k \in Kernel /\ Sound(k, obj)
  BY Given DEF Known, CpuSound
<1>1. mtx[m].locked
  BY Owners, ListAssumption
<1>2. mtx[m].owner_orig_prio = base[t] /\ ~Booting
  BY <1>1 DEF Known, Inheritance, Recorded
<1>3. k1 \in Kernel /\ k1.next = k.next /\ k1.state = k.state
  BY <1>0, PriorityMovesNobody, PriorityType, Given DEF Known, Reprioritized
<1>4. k1.priority = [k.priority EXCEPT ![t] = base[t]]
  BY <1>0, <1>2 DEF RestorePriority, Kernel
<1>5. \A q \in WaitQueues : t \notin Waiters(q)
  BY Owners
<1>6. \A q \in WaitQueues : \A u \in Waiting(k, obj)[q] : k1.priority[u] = k.priority[u]
  BY <1>0, <1>4, <1>5 DEF Waiting, Waiters, Kernel
<1>7. ByPriority(k1, Waiting(k, obj))
  BY <1>0, <1>3, <1>6, QueuesStayOrdered DEF Known, Inheritance
<1> QED BY <1>1, <1>2, <1>3, <1>4, <1>5, <1>7, Owners DEF Waiting

LEMMA UnlockWakeInherits ==
    ASSUME Known, Patient, NEW t \in Tasks, NEW m \in Mutexes, UnlockWake(t, m)
    PROVE  Inheritance'
<1> DEFINE k1 == RestorePriority(t, m)
           w  == k.wq[m]
<1>0. /\ k \in Kernel /\ Mutexes \subseteq WaitQueues /\ Sound(k, obj)
      /\ held \in [Tasks -> SUBSET Mutexes] /\ mtx \in [Mutexes -> Mutex]
      /\ k.priority \in [Tasks -> Priorities]
  BY Given DEF Known, CpuSound, Kernel
<1>1. /\ InApp(t) /\ mtx[m].owner = t
      /\ mtx' = [mtx EXCEPT ![m].owner = w, ![m].owner_orig_prio = k1.priority[w]]
      /\ held' = [held EXCEPT ![t] = @ \ {m}] /\ UNCHANGED <<pc, obj, base>>
  BY DEF UnlockWake
<1>2. /\ w \in Tasks /\ obj[w] = m /\ k.state[w] = "BLOCKED"
      /\ k'.state = [k.state EXCEPT ![w] = "READY"]
      /\ KeepsOrder(k1, obj, k', obj) /\ k'.priority = k1.priority
      /\ k'.current = t /\ k.state[t] = "RUNNING"
  BY UnlockWakeSound DEF Known
<1>3. /\ k1.priority = [k.priority EXCEPT ![t] = base[t]]
      /\ Waiting(k1, obj) = Waiting(k, obj)
      /\ ByPriority(k1, Waiting(k, obj)) /\ mtx[m].locked
      /\ \A n \in Mutexes \ {m} : mtx[n].owner # t
      /\ \A q \in WaitQueues : t \notin Waiters(q)
  BY <1>1, UnlockRestores
<1>4. \A u \in Waiters(m) : k.priority[w] <= k.priority[u]
  BY <1>0, HeadFirst DEF Known, Inheritance
<1> HIDE DEF k1, w
<1>5. w # t /\ w \in Waiters(m)
  BY <1>2 DEF Waiters
<1>6. /\ mtx'[m].locked /\ mtx'[m].owner = w /\ mtx'[m].owner_orig_prio = k1.priority[w]
      /\ \A n \in Mutexes \ {m} : mtx'[n] = mtx[n]
  BY <1>0, <1>1, <1>3 DEF Mutex
<1>7. k1.priority[w] = base[w]
  <2>1. k.priority[w] = base[w]
    BY <1>0, <1>2, <1>5, Owners DEF Known, Inheritance, BoostIsTemporary
  <2> QED BY <1>0, <1>2, <1>3, <1>5, <2>1
<1>8. \A n \in Mutexes : \A u \in Waiters(n)' : u \in Waiters(n) /\ u # t /\ u \in Tasks
  BY <1>0, <1>1, <1>2, <1>3 DEF Waiters, Kernel
<1>9. ByPriority(k', Waiting(k', obj'))
  BY <1>1, <1>2, <1>3 DEF KeepsOrder, OrderKept
<1>10. OneEach'
  BY <1>0, <1>1 DEF Known, Inheritance, OneEach
<1>11. Recorded'
  <2> SUFFICES ASSUME NEW n \in Mutexes, mtx'[n].locked
               PROVE  mtx'[n].owner_orig_prio = base[mtx'[n].owner]
    BY <1>1, <1>2, ListAssumption DEF Recorded, Booting
  <2>1. CASE n = m
    BY <1>6, <1>7, <2>1
  <2>2. CASE n # m
    BY <1>6, <2>2 DEF Known, Inheritance, Recorded
  <2> QED BY <2>1, <2>2
<1>12. OwnerInherits'
  <2> SUFFICES ASSUME NEW n \in Mutexes, NEW u \in Waiters(n)'
               PROVE  k1.priority[mtx'[n].owner] <= k1.priority[u]
    BY <1>2 DEF OwnerInherits
  <2>1. u \in Waiters(n) /\ u # t /\ u \in Tasks
    BY <1>8
  <2>2. k1.priority[u] = k.priority[u]
    BY <1>0, <1>3, <2>1
  <2>3. CASE n = m
    <3>1. k1.priority[w] = k.priority[w]
      BY <1>0, <1>2, <1>3, <1>5
    <3> QED BY <1>4, <1>6, <2>1, <2>2, <2>3, <3>1
  <2>4. CASE n # m
    <3>1. mtx[n].owner \in Tasks /\ mtx[n].owner # t
      BY <1>3, <2>1, <2>4, Owners DEF Known, Owned, OwnerHasIt
    <3>2. k1.priority[mtx[n].owner] = k.priority[mtx[n].owner]
      BY <1>0, <1>3, <3>1
    <3> QED BY <1>6, <2>1, <2>2, <2>4, <3>2 DEF Known, Inheritance, OwnerInherits
  <2> QED BY <2>3, <2>4
<1>13. BoostIsTemporary'
  <2> SUFFICES ASSUME NEW u \in Tasks, \A n \in Mutexes : mtx'[n].owner # u
               PROVE  k1.priority[u] = base[u]
    BY <1>1, <1>2 DEF BoostIsTemporary
  <2>1. CASE u = t
    BY <1>0, <1>3, <2>1
  <2>2. CASE u # t
    <3>1. \A n \in Mutexes : mtx[n].owner # u
      BY <1>1, <1>6, <2>2
    <3> QED BY <1>0, <1>3, <2>2, <3>1 DEF Known, Inheritance, BoostIsTemporary
  <2> QED BY <2>1, <2>2
<1> QED BY <1>9, <1>10, <1>11, <1>12, <1>13 DEF Inheritance

LEMMA UnlockFreeInherits ==
    ASSUME Known, Patient, NEW t \in Tasks, NEW m \in Mutexes, UnlockFree(t, m)
    PROVE  Inheritance'
<1> DEFINE k1 == RestorePriority(t, m)
<1>0. /\ k \in Kernel /\ Mutexes \subseteq WaitQueues /\ Sound(k, obj)
      /\ held \in [Tasks -> SUBSET Mutexes] /\ mtx \in [Mutexes -> Mutex]
      /\ k.priority \in [Tasks -> Priorities]
  BY Given DEF Known, CpuSound, Kernel
<1>1. /\ InApp(t) /\ k.current = t /\ mtx[m].owner = t /\ k.wq[m] = NULL /\ k' = k1
      /\ mtx' = [mtx EXCEPT ![m].locked = FALSE, ![m].owner = NULL]
      /\ held' = [held EXCEPT ![t] = @ \ {m}] /\ UNCHANGED <<pc, obj, base>>
  BY DEF UnlockFree, InApp, Running
<1>2. k1.state = k.state /\ k1.current = k.current
  BY PriorityMovesNobody DEF Known, Reprioritized
<1>3. /\ k1.priority = [k.priority EXCEPT ![t] = base[t]]
      /\ Waiting(k1, obj) = Waiting(k, obj)
      /\ ByPriority(k1, Waiting(k, obj)) /\ ~Booting
      /\ \A n \in Mutexes \ {m} : mtx[n].owner # t
      /\ \A q \in WaitQueues : t \notin Waiters(q)
  BY <1>1, UnlockRestores
<1> HIDE DEF k1
<1>4. Waiters(m) = {}
  BY <1>0, <1>1, HeadFirst DEF Known, Inheritance
<1>5. /\ ~mtx'[m].locked /\ mtx'[m].owner = NULL
      /\ \A n \in Mutexes \ {m} : mtx'[n] = mtx[n]
  BY <1>0, <1>1 DEF Mutex
<1>6. \A n \in Mutexes : Waiters(n)' = Waiters(n)
  BY <1>1, <1>2 DEF Waiters
<1>7. OneEach'
  BY <1>0, <1>1 DEF Known, Inheritance, OneEach
<1>8. Recorded'
  BY <1>1, <1>2, <1>3, <1>5 DEF Known, Inheritance, Recorded, Booting
<1>9. OwnerInherits'
  <2> SUFFICES ASSUME NEW n \in Mutexes \ {m}, NEW u \in Waiters(n)
               PROVE  k1.priority[mtx[n].owner] <= k1.priority[u]
    BY <1>1, <1>4, <1>5, <1>6 DEF OwnerInherits
  <2>1. u \in Tasks /\ u # t /\ mtx[n].owner \in Tasks /\ mtx[n].owner # t
    BY <1>0, <1>3, Owners DEF Known, Owned, OwnerHasIt, Waiters
  <2>2. k1.priority[u] = k.priority[u] /\ k1.priority[mtx[n].owner] = k.priority[mtx[n].owner]
    BY <1>0, <1>3, <2>1
  <2> QED BY <2>2 DEF Known, Inheritance, OwnerInherits
<1>10. BoostIsTemporary'
  <2> SUFFICES ASSUME NEW u \in Tasks, \A n \in Mutexes : mtx'[n].owner # u
               PROVE  k1.priority[u] = base[u]
    BY <1>1 DEF BoostIsTemporary
  <2>1. CASE u = t
    BY <1>0, <1>3, <2>1
  <2>2. CASE u # t
    <3>1. \A n \in Mutexes : mtx[n].owner # u
      BY <1>1, <1>5, <2>2
    <3> QED BY <1>0, <1>3, <2>2, <3>1 DEF Known, Inheritance, BoostIsTemporary
  <2> QED BY <2>1, <2>2
<1> QED BY <1>1, <1>3, <1>7, <1>8, <1>9, <1>10 DEF Inheritance

LEMMA NextInheritance == Patient /\ ~Nesting /\ Known /\ [Next]_vars => Inheritance'
<1> SUFFICES ASSUME Patient, ~Nesting, Known, [Next]_vars PROVE Inheritance'
  OBVIOUS
<1>1. CASE UNCHANGED vars
  BY <1>1 DEF vars, Known, Inheritance, OneEach, Recorded, Booting, OwnerInherits,
              Waiters, BoostIsTemporary
<1> QED BY <1>1, CpuInherits, LockFreeInherits, LockBlockInherits, LockReturnInherits,
           UnlockWakeInherits, UnlockFreeInherits DEF Next, MutexNext

LEMMA AlwaysInherited ==
    ASSUME Patient, ~Nesting
    PROVE  Spec => []Inheritance
<1>1. Init => Known
  BY InitSound, InitOwned, InitInheritance DEF Known
<1>2. Known /\ [Next]_vars => Known'
  BY NextSound, NextOwned, NextInheritance DEF Known
<1>3. Known => Inheritance
  BY DEF Known
<1> QED BY <1>1, <1>2, <1>3, PTL DEF Spec

(***************************************************************************)
(* Nobody waits for an owner of a lower priority than its own, however     *)
(* many wait and in whatever order they came, also after a hand-over.      *)
(***************************************************************************)
THEOREM Inheriting ==
    ASSUME Patient, ~Nesting
    PROVE  Spec => []OwnerInherits
<1>1. Inheritance => OwnerInherits
  BY DEF Inheritance
<1> QED BY <1>1, AlwaysInherited, PTL

\* A boost ends with the unlock: who owns no mutex has the priority it was
\* created with.
THEOREM BoostEnds ==
    ASSUME Patient, ~Nesting
    PROVE  Spec => []BoostIsTemporary
<1>1. Inheritance => BoostIsTemporary
  BY DEF Inheritance
<1> QED BY <1>1, AlwaysInherited, PTL
===============================================================================
