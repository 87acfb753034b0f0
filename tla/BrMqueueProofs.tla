--------------------------- MODULE BrMqueueProofs ---------------------------
(***************************************************************************)
(* Theorems about message queues (BrMqueue).                               *)
(***************************************************************************)
EXTENDS BrMqueue, BrCpuProofs

(***************************************************************************)
(* A blocked call waits in one of the two queues, and a blocked send has   *)
(* its message at hand: what the second attempt of a send stores is a      *)
(* message.                                                                *)
(***************************************************************************)
CallsQueue ==
    \A t \in Tasks : /\ pc[t] # "app" => obj[t] \in WaitQueues
                     /\ pc[t] = "send" => msg[t] \in Msgs

TypeInv == TypeOK /\ BootQuiet /\ CallsQueue

\* Initially every variable has a value of its type ...
LEMMA InitTypes == Init => TypeInv
<1> SUFFICES ASSUME Init PROVE TypeInv
  OBVIOUS
<1>1. CpuTypes
  BY CpuInitTypes DEF Init
<1>2. 0 \in Slots /\ 0 \in 0 .. MaxMsgs
  BY MqueueAssumption DEF Slots
<1>3. EmptyRing \in Ring
  BY <1>2 DEF EmptyRing, Ring
<1> QED BY <1>1, <1>3
        DEF Init, CpuInit, CpuTypes, TypeInv, TypeOK, CallsQueue

\* ... the ring buffer keeps its bounds ...
LEMMA RingType ==
    ASSUME mq \in Ring
    PROVE  /\ \A m \in Msgs : ~Full /\ Enqueue(m) => mq' \in Ring
           /\ ~Empty /\ Dequeue => mq' \in Ring
<1>1. \A i \in Slots : (i + 1) % MaxMsgs \in Slots
  BY MqueueAssumption, SMTT(30) DEF Slots
<1>2. ASSUME NEW m \in Msgs, ~Full, Enqueue(m)
      PROVE  mq' \in Ring
  <2>1. mq.count + 1 \in 0 .. MaxMsgs
    BY <1>2, MqueueAssumption DEF Full, Ring
  <2>2. (mq.tail + 1) % MaxMsgs \in Slots
    BY <1>1 DEF Ring
  <2>3. [mq.buffer EXCEPT ![mq.tail] = m] \in [Slots -> Msgs \cup {NULL}]
    BY DEF Ring
  <2> QED BY <1>2, <2>1, <2>2, <2>3 DEF Enqueue, Ring
<1>3. ASSUME ~Empty, Dequeue
      PROVE  mq' \in Ring
  <2>1. mq.count - 1 \in 0 .. MaxMsgs
    BY <1>3, MqueueAssumption DEF Empty, Ring
  <2>2. (mq.head + 1) % MaxMsgs \in Slots
    BY <1>1 DEF Ring
  <2> QED BY <1>3, <2>1, <2>2 DEF Dequeue, Ring
<1> QED BY <1>2, <1>3

\* ... waking a task of the opposite side keeps the types of the memory ...
LEMMA WakeOneType ==
    ASSUME k \in Kernel, NEW q \in WaitQueues
    PROVE  WakeOne(q) \in Kernel /\ WakeOne(q).current = k.current
BY WakeStep DEF WakeOne

\* ... every step keeps that.
LEMMA NextTypes == TypeInv /\ [Next]_vars => TypeInv'
<1> SUFFICES ASSUME TypeInv, [Next]_vars PROVE TypeInv'
  OBVIOUS
<1> USE DEF TypeInv, TypeOK, CallsQueue, users, ipcVars
<1>0. SendWait \in WaitQueues /\ RecvWait \in WaitQueues
  BY MqueueAssumption
<1>1. CASE (CpuNext /\ UNCHANGED ipcVars) /\ UNCHANGED users
  BY <1>1, CpuNextTypes, CpuNextFrame DEF CpuTypes
<1>2. ASSUME NEW t \in Tasks, UNCHANGED users,
             Recv(t) \/ \E m \in Msgs : Send(t, m)
      PROVE  TypeInv'
  <2>1. PICK q \in WaitQueues : k' = WakeOne(q)
    BY <1>0, <1>2 DEF Send, Recv
  <2>2. k' \in Kernel /\ k'.current = k.current
    BY <2>1, WakeOneType DEF CpuTypeOK
  <2>3. k.current # NULL
    BY <1>2, ListAssumption DEF Send, Recv, InApp, Running
  <2>4. mq' \in Ring
    BY <1>2, RingType DEF Send, Recv
  <2>5. resched' \in [Tasks -> BOOLEAN]
    BY <1>2 DEF Send, Recv, CpuTypeOK
  <2> QED BY <1>2, <2>2, <2>3, <2>4, <2>5
          DEF Send, Recv, CpuTypeOK, BootQuiet, Booting
<1>3. ASSUME NEW t \in Tasks, NEW timeout \in Timeouts, UNCHANGED users,
             RecvBlock(t, timeout) \/ \E m \in Msgs : SendBlock(t, m, timeout)
      PROVE  TypeInv'
  <2>1. PICK q \in WaitQueues, call \in {"send", "recv"} :
           /\ Block(t, call, q, timeout)
           /\ call = "send" => \E m \in Msgs : msg' = [msg EXCEPT ![t] = m]
           /\ call = "recv" => UNCHANGED msg
    BY <1>0, <1>3 DEF SendBlock, RecvBlock
  <2>2. timeout \in (1 .. MaxTicks) \cup {NULL}
    BY MqueueAssumption
  <2>3. k' \in Kernel /\ k'.current = k.current
    BY <2>1, <2>2, BlockStep DEF Block, CpuTypeOK
  <2>4. k.current # NULL
    BY <2>1, ListAssumption DEF Block, InApp, Running
  <2>5. msg' \in [Tasks -> Msgs \cup {NULL}]
    BY <2>1
  <2>6. \A u \in Tasks : pc'[u] = "send" => msg'[u] \in Msgs
    BY <2>1 DEF Block
  <2> QED BY <1>3, <2>1, <2>3, <2>4, <2>5, <2>6
          DEF Block, CpuTypeOK, BootQuiet, Booting
<1>4. ASSUME NEW t \in Tasks, UNCHANGED users, SendReturn(t) \/ RecvReturn(t)
      PROVE  TypeInv'
  <2>1. PICK call \in {"send", "recv"}, q \in WaitQueues : Return(t, call, q)
    BY <1>0, <1>4 DEF SendReturn, RecvReturn
  <2>2. /\ UNCHANGED <<resched, isr>> /\ obj[t] \in WaitQueues /\ Running(t)
        /\ \/ /\ pc' = [pc EXCEPT ![t] = "expired"]
              /\ UNCHANGED <<obj, msg>>
           \/ /\ pc' = [pc EXCEPT ![t] = "app"]
              /\ obj' = [obj EXCEPT ![t] = NULL]
              /\ msg' = [msg EXCEPT ![t] = NULL]
    BY <2>1 DEF Return
  <2>3. k' = wq_remove(k, q, t) \/ k' = k
    BY <2>1 DEF Return
  <2>4. k' \in Kernel /\ k'.current = k.current
    BY <2>3, RemoveStep DEF CpuTypeOK
  <2>5. k.current # NULL
    BY <2>2, ListAssumption DEF Running
  <2>6. mq' \in Ring
    <3>1. CASE SendReturn(t)
      <4>1. Expires(t) \/ msg[t] \in Msgs
        BY <3>1 DEF SendReturn, Return, Expires
      <4> QED BY <3>1, <4>1, RingType DEF SendReturn
    <3>2. CASE RecvReturn(t)
      BY <3>2, RingType DEF RecvReturn
    <3> QED BY <1>4, <3>1, <3>2
  <2>7. dropped' \in BOOLEAN /\ phantom' \in BOOLEAN
    BY <1>4 DEF SendReturn, RecvReturn
  <2>8. /\ pc' \in [Tasks -> {"app", "send", "recv", "expired"}]
        /\ obj' \in [Tasks -> WaitQueues \cup {NULL}]
        /\ msg' \in [Tasks -> Msgs \cup {NULL}]
    BY <2>2 DEF CpuTypeOK
  <2>9. CallsQueue'
    BY <2>2 DEF CpuTypeOK
  <2> QED BY <1>4, <2>2, <2>4, <2>5, <2>6, <2>7, <2>8, <2>9
          DEF CpuTypeOK, BootQuiet, Booting
<1>5. ASSUME UNCHANGED users, IsrRecv \/ \E m \in Msgs : IsrSend(m)
      PROVE  TypeInv'
  <2>1. PICK q \in WaitQueues : FromIsr(q)
    BY <1>0, <1>5 DEF IsrSend, IsrRecv
  <2> DEFINE k1 == WakeOne(q)
  <2>2. k.current \in Tasks
    BY <2>1 DEF FromIsr, Booting, CpuTypeOK, Kernel
  <2>3. k1 \in Kernel /\ k1.current \in Tasks
    BY <2>2, WakeOneType DEF CpuTypeOK
  <2>4. k' = k \/ k' = br_sched_reschedule(k1)
    BY <2>1 DEF FromIsr
  <2> HIDE DEF k1
  <2>5. k' \in Kernel /\ k'.current \in Tasks
    BY <2>2, <2>3, <2>4, RescheduleType DEF CpuTypeOK
  <2>6. mq' \in Ring
    BY <1>5, RingType DEF IsrSend, IsrRecv
  <2> QED BY <1>5, <2>1, <2>5, <2>6, ListAssumption
          DEF FromIsr, CpuTypeOK, BootQuiet, Booting
<1>6. CASE UNCHANGED vars
  BY <1>6 DEF vars, CpuTypeOK, BootQuiet, Booting
<1> QED BY <1>1, <1>2, <1>3, <1>4, <1>5, <1>6 DEF Next, MqueueNext

\* Every variable of a message queue always has a value of its type: the
\* indices and the count of the ring buffer stay within its bounds.
THEOREM TypeCorrect == Spec => []TypeOK
<1>1. TypeInv => TypeOK
  BY DEF TypeInv
<1> QED BY <1>1, InitTypes, NextTypes, PTL DEF Spec
-------------------------------------------------------------------------------
(***************************************************************************)
(* Sound memory, for calls that wait without a timeout: after a timeout    *)
(* the links of the sleep list and of the wait queue are mixed up.         *)
(***************************************************************************)
Patient == Timeouts = {NULL} /\ ~WakeInWindow /\ ~BlockWhileLocked

\* No call has expired.
Unexpired == \A t \in Tasks : pc[t] # "expired"

MqueueSound == TypeInv /\ CpuSound /\ Unexpired

LEMMA InitSound == Patient /\ Init => MqueueSound
BY InitTypes, CpuInitSound, MqueueAssumption
   DEF Patient, Careful, Init, MqueueSound, Unexpired, CpuInit

LEMMA Given ==
    ASSUME MqueueSound, Patient
    PROVE  /\ CpuTypes /\ CpuTypeOK /\ CpuSound /\ Careful
           /\ {SendWait, RecvWait} \subseteq WaitQueues /\ NULL \notin WaitQueues
           /\ pc \in [Tasks -> {"app", "send", "recv"}]
           /\ Reprioritized(k)
<1>1. /\ CpuTypes /\ CpuTypeOK /\ CpuSound /\ Careful
      /\ {SendWait, RecvWait} \subseteq WaitQueues /\ NULL \notin WaitQueues
      /\ pc \in [Tasks -> {"app", "send", "recv"}]
  BY MqueueAssumption
     DEF MqueueSound, TypeInv, TypeOK, CpuTypes, Careful, Patient, Unexpired
<1> QED BY <1>1, SameReprioritized

\* A call that does not block wakes the first task of the opposite side.
LEMMA TransferSound ==
    ASSUME MqueueSound, Patient, NEW t \in Tasks,
           Recv(t) \/ \E m \in Msgs : Send(t, m)
    PROVE  CpuSound'
<1>1. PICK q \in WaitQueues : /\ InApp(t) /\ k' = WakeOne(q)
                              /\ resched' = [resched EXCEPT ![t] = k.wq[q] # NULL]
                              /\ pc' = pc /\ obj' = obj
  BY Given DEF Send, Recv
<1>2. CASE k.wq[q] = NULL
  <2>1. k' = k
    BY <1>1, <1>2 DEF WakeOne
  <2>2. k.current = t /\ k.state[t] = "RUNNING"
    BY <1>1, Given, AppRuns DEF InApp
  <2> QED BY <1>1, <2>1, <2>2, Given DEF CpuSound, WindowCloses
<1>3. CASE k.wq[q] # NULL
  <2>1. WakeCall(k, t, q)
    BY <1>1, <1>3 DEF WakeOne, WakeCall
  <2> QED BY <2>1, Given, WakeCallSound
<1> QED BY <1>2, <1>3

LEMMA WaitSound ==
    ASSUME MqueueSound, Patient, NEW t \in Tasks, NEW timeout \in Timeouts,
           RecvBlock(t, timeout) \/ \E m \in Msgs : SendBlock(t, m, timeout)
    PROVE  CpuSound'
<1>1. PICK q \in WaitQueues, call \in {"send", "recv"} : Block(t, call, q, timeout)
  BY Given DEF SendBlock, RecvBlock
<1>2. BlockCall(k, t, q, call)
  BY <1>1 DEF Block, BlockCall, Patient
<1> QED BY <1>2, Given, BlockCallSound

LEMMA SecondAttemptSound ==
    ASSUME MqueueSound, Patient, NEW t \in Tasks, SendReturn(t) \/ RecvReturn(t)
    PROVE  CpuSound' /\ ~Expires(t) /\ k' = k
           /\ pc' = [pc EXCEPT ![t] = "app"] /\ obj' = [obj EXCEPT ![t] = NULL]
<1>1. PICK call \in {"send", "recv"}, q \in WaitQueues : Return(t, call, q)
  BY Given DEF SendReturn, RecvReturn
<1>2. Running(t) /\ ~resched[t] /\ obj[t] # NULL /\ pc[t] # "expired"
  BY <1>1, Given DEF Return, MqueueSound, Unexpired
<1>3. ~Expires(t)
  BY <1>2, Given DEF CpuSound, Sound, NoTimeout, Expires
<1>4. /\ k' = k /\ pc' = [pc EXCEPT ![t] = "app"]
      /\ obj' = [obj EXCEPT ![t] = NULL] /\ UNCHANGED <<resched, isr>>
  BY <1>1, <1>2, <1>3 DEF Return
<1> QED BY <1>2, <1>3, <1>4, Given, ReturnCallSound

LEMMA HandlerSound ==
    ASSUME MqueueSound, Patient, IsrRecv \/ \E m \in Msgs : IsrSend(m)
    PROVE  CpuSound'
<1>1. PICK q \in WaitQueues : FromIsr(q)
  BY Given DEF IsrSend, IsrRecv
<1>2. CASE k.wq[q] = NULL
  BY <1>1, <1>2, Given DEF FromIsr, CpuSound, WindowCloses
<1>3. CASE k.wq[q] # NULL
  <2>1. IsrWake(q)
    BY <1>1, <1>3, Given DEF FromIsr, WakeOne, IsrWake, Careful
  <2> QED BY <2>1, Given, IsrWakeSound
<1> QED BY <1>2, <1>3

LEMMA StaysUnexpired ==
    ASSUME MqueueSound, Patient, [Next]_vars
    PROVE  Unexpired'
<1>1. pc \in [Tasks -> {"app", "send", "recv"}]
  BY Given
<1>2. CASE CpuNext \/ UNCHANGED vars
  BY <1>1, <1>2, CpuNextFrame DEF vars, Unexpired
<1>3. ASSUME NEW t \in Tasks, NEW m \in Msgs,
             \/ Send(t, m)
             \/ \E timeout \in Timeouts : SendBlock(t, m, timeout)
      PROVE  Unexpired'
  BY <1>1, <1>3 DEF Send, SendBlock, Block, Unexpired
<1>4. ASSUME NEW t \in Tasks, NEW timeout \in Timeouts, RecvBlock(t, timeout)
      PROVE  Unexpired'
  BY <1>1, <1>4 DEF RecvBlock, Block, Unexpired
<1>5. ASSUME NEW t \in Tasks, SendReturn(t) \/ RecvReturn(t) PROVE Unexpired'
  BY <1>1, <1>5, SecondAttemptSound DEF Unexpired
<1>6. ASSUME \/ IsrRecv \/ \E m \in Msgs : IsrSend(m)
             \/ \E t \in Tasks : Recv(t)
      PROVE  Unexpired'
  BY <1>1, <1>6 DEF Recv, IsrRecv, IsrSend, FromIsr, Unexpired
<1> QED BY <1>2, <1>3, <1>4, <1>5, <1>6 DEF Next, MqueueNext

LEMMA NextSound == Patient /\ MqueueSound /\ [Next]_vars => MqueueSound'
<1> SUFFICES ASSUME Patient, MqueueSound, [Next]_vars PROVE CpuSound'
  BY NextTypes, StaysUnexpired DEF MqueueSound
<1>1. CASE CpuNext
  BY <1>1, CpuNextSound, Given
<1>2. CASE UNCHANGED vars
  BY <1>2, Given DEF vars, CpuSound
<1> QED BY <1>1, <1>2, TransferSound, WaitSound, SecondAttemptSound,
           HandlerSound DEF Next, MqueueNext

(***************************************************************************)
(* The kernel's lists are intact, whatever senders, receivers and handlers *)
(* do: each READY, sleeping or waiting task is on its list, once, and no   *)
(* list holds anybody else, loops or runs into another.                    *)
(***************************************************************************)
THEOREM ListsIntact ==
    ASSUME Patient
    PROVE  Spec => []ListsMatchStates
<1>1. MqueueSound => ListsMatchStates
  BY SoundMeans DEF MqueueSound, TypeInv, TypeOK
<1>2. Init => MqueueSound
  BY InitSound
<1>3. MqueueSound /\ [Next]_vars => MqueueSound'
  BY NextSound
<1> QED BY <1>1, <1>2, <1>3, PTL DEF Spec

-------------------------------------------------------------------------------
(***************************************************************************)
(* The ring buffer is a queue.                                             *)
(***************************************************************************)
\* An index that runs past the end of the ring starts again at its beginning.
LEMMA Wraps ==
    ASSUME NEW n \in Nat \ {0}, NEW x \in 0 .. n - 1, NEW y \in 0 .. n
    PROVE  (x + y) % n = IF x + y < n THEN x + y ELSE x + y - n
<1>1. CASE x + y < n
  BY <1>1
<1>2. CASE x + y >= n
  <2>1. PICK a \in n .. 2 * n - 1 : a = x + y
    BY <1>2
  <2>2. a % n = a - n
    OBVIOUS
  <2> QED BY <1>2, <2>1, <2>2
<1> QED BY <1>1, <1>2

\* The slot behind the messages is none of theirs, and moves on by one.
LEMMA FreeSlot ==
    ASSUME NEW n \in Nat \ {0}, NEW h \in 0 .. n - 1, NEW c \in 0 .. n - 1,
           NEW t, t = (h + c) % n
    PROVE  /\ t \in 0 .. n - 1 /\ (t + 1) % n = (h + (c + 1)) % n
           /\ \A i \in 1 .. c : (h + i - 1) % n # t /\ (h + i - 1) % n \in 0 .. n - 1
<1>1. t = IF h + c < n THEN h + c ELSE h + c - n
  <2>1. c \in 0 .. n
    OBVIOUS
  <2> QED BY ONLY Wraps, <2>1, n \in Nat \ {0}, h \in 0 .. n - 1, t = (h + c) % n
<1>2. ASSUME NEW i \in 1 .. c
      PROVE  (h + i - 1) % n # t /\ (h + i - 1) % n \in 0 .. n - 1
  <2>1. i - 1 \in 0 .. n /\ h + (i - 1) = h + i - 1
    OBVIOUS
  <2>2. (h + (i - 1)) % n = IF h + (i - 1) < n THEN h + (i - 1) ELSE h + (i - 1) - n
    BY ONLY Wraps, <2>1, n \in Nat \ {0}, h \in 0 .. n - 1
  <2> QED BY <1>1, <2>1, <2>2
<1>3. (h + (c + 1)) % n = IF h + (c + 1) < n THEN h + (c + 1) ELSE h + (c + 1) - n
  <2>1. c + 1 \in 0 .. n
    OBVIOUS
  <2> QED BY ONLY Wraps, <2>1, n \in Nat \ {0}, h \in 0 .. n - 1
<1>4. (t + 1) % n = IF t + 1 < n THEN t + 1 ELSE t + 1 - n
  <2>1. 1 \in 0 .. n /\ t \in 0 .. n - 1
    BY <1>1
  <2> QED BY ONLY Wraps, <2>1, n \in Nat \ {0}
<1>5. t \in 0 .. n - 1 /\ (t + 1) % n = (h + (c + 1)) % n
  BY <1>1, <1>3, <1>4
<1> QED BY <1>2, <1>5

\* Counting from the next head is counting one further from this one.
LEMMA NextHead ==
    ASSUME NEW n \in Nat \ {0}, NEW h \in 0 .. n - 1, NEW j \in 0 .. n - 1
    PROVE  (((h + 1) % n) + j) % n = (h + 1 + j) % n
<1>1. CASE h + 1 < n
  <2>1. (h + 1) % n = h + 1
    BY <1>1
  <2> QED BY <2>1
<1>2. CASE h + 1 = n
  <2>1. 0 \in 0 .. n - 1 /\ j \in 0 .. n /\ 1 \in 0 .. n
    OBVIOUS
  <2>2. (h + 1) % n = 0
    BY <1>2, <2>1, Wraps
  <2>3. (h + (1 + j)) % n = IF h + (1 + j) < n THEN h + (1 + j) ELSE h + (1 + j) - n
    <3>1. 1 + j \in 0 .. n
      OBVIOUS
    <3> QED BY ONLY Wraps, <3>1, n \in Nat \ {0}, h \in 0 .. n - 1
  <2>4. h + (1 + j) = h + 1 + j /\ h + (1 + j) = n + j
    BY <1>2
  <2>5. (h + 1 + j) % n = j
    BY <2>3, <2>4
  <2>6. (0 + j) % n = j
    OBVIOUS
  <2> QED BY <2>2, <2>5, <2>6
<1> QED BY <1>1, <1>2

RingInv == RingIsFifo /\ fifo \in Seq(Msgs \cup {NULL})

LEMMA InitRing == Init => RingInv
<1> SUFFICES ASSUME Init PROVE RingInv
  OBVIOUS
<1>1. mq = EmptyRing /\ fifo = <<>>
  BY DEF Init
<1>2. 0 % MaxMsgs = 0
  BY MqueueAssumption
<1> QED BY <1>1, <1>2 DEF EmptyRing, RingInv, RingIsFifo

\* A message is stored behind the others; a fetched message is the first.
LEMMA StoreRing ==
    ASSUME TypeOK, RingInv, NEW m \in Msgs, ~Full, Enqueue(m)
    PROVE  RingInv'
<1> DEFINE N == MaxMsgs
           h == mq.head
           c == mq.count
<1>1. /\ N \in Nat \ {0} /\ h \in 0 .. N - 1 /\ c \in 0 .. N - 1
      /\ mq \in Ring /\ mq.tail = (h + c) % N /\ c = Len(fifo)
      /\ fifo \in Seq(Msgs \cup {NULL})
  BY MqueueAssumption DEF TypeOK, Ring, Slots, RingInv, RingIsFifo, Full
<1>2. /\ mq'.head = h /\ mq'.count = c + 1 /\ mq'.tail = (mq.tail + 1) % N
      /\ mq'.buffer = [mq.buffer EXCEPT ![mq.tail] = m]
      /\ fifo' = Append(fifo, m)
  BY <1>1 DEF Enqueue, Ring
<1>3. \A i \in 1 .. c : fifo[i] = mq.buffer[(h + i - 1) % N]
  BY <1>1 DEF RingInv, RingIsFifo
<1>4. mq.buffer \in [0 .. N - 1 -> Msgs \cup {NULL}]
  BY <1>1 DEF Ring, Slots
<1> HIDE DEF N, h, c
<1>5. /\ mq.tail \in 0 .. N - 1 /\ (mq.tail + 1) % N = (h + (c + 1)) % N
      /\ \A i \in 1 .. c : /\ (h + i - 1) % N # mq.tail
                           /\ (h + i - 1) % N \in 0 .. N - 1
  <2>1. PICK n \in Nat \ {0} : n = N
    BY <1>1
  <2>2. PICK x \in 0 .. n - 1, y \in 0 .. n - 1, t \in {mq.tail} :
           x = h /\ y = c
    BY <1>1, <2>1
  <2>3. t = (x + y) % n
    BY <1>1, <2>1, <2>2
  <2>4. /\ t \in 0 .. n - 1 /\ (t + 1) % n = (x + (y + 1)) % n
        /\ \A i \in 1 .. y : (x + i - 1) % n # t /\ (x + i - 1) % n \in 0 .. n - 1
    BY ONLY <2>3, FreeSlot, n \in Nat \ {0}, x \in 0 .. n - 1, y \in 0 .. n - 1
  <2> QED BY <2>1, <2>2, <2>4
<1>6. /\ Len(fifo') = c + 1 /\ fifo' \in Seq(Msgs \cup {NULL})
      /\ \A i \in 1 .. c : fifo'[i] = fifo[i]
      /\ fifo'[c + 1] = m
  BY <1>1, <1>2
<1>7. ASSUME NEW i \in 1 .. c + 1
      PROVE  fifo'[i] = mq'.buffer[(h + i - 1) % N]
  <2>1. CASE i \in 1 .. c
    BY <1>2, <1>3, <1>4, <1>5, <1>6, <2>1
  <2>2. CASE i = c + 1
    <3>1. h + i - 1 = h + c
      BY <1>1, <2>2
    <3>2. (h + i - 1) % N = mq.tail
      BY <1>1, <3>1
    <3> QED BY <1>2, <1>4, <1>5, <1>6, <2>2, <3>2
  <2> QED BY <1>1, <2>1, <2>2
<1> QED BY <1>2, <1>5, <1>6, <1>7 DEF RingInv, RingIsFifo, N, h, c

LEMMA FetchRing ==
    ASSUME TypeOK, RingInv, ~Empty, Dequeue
    PROVE  RingInv'
<1> DEFINE N == MaxMsgs
           h == mq.head
           c == mq.count
<1>1. /\ N \in Nat \ {0} /\ h \in 0 .. N - 1 /\ c \in 1 .. N
      /\ mq \in Ring /\ mq.tail = (h + c) % N /\ c = Len(fifo)
      /\ fifo \in Seq(Msgs \cup {NULL})
  BY MqueueAssumption DEF TypeOK, Ring, Slots, RingInv, RingIsFifo, Empty
<1>2. /\ mq'.head = (h + 1) % N /\ mq'.count = c - 1 /\ mq'.tail = mq.tail
      /\ mq'.buffer = mq.buffer /\ fifo' = Tail(fifo)
  BY <1>1 DEF Dequeue, Ring
<1>3. \A i \in 1 .. c : fifo[i] = mq.buffer[(h + i - 1) % N]
  BY <1>1 DEF RingInv, RingIsFifo
<1> HIDE DEF N, h, c
<1>4. ASSUME NEW j \in 0 .. c - 1
      PROVE  (mq'.head + j) % N = (h + 1 + j) % N
  <2>1. j \in 0 .. N - 1
    BY <1>1
  <2>2. (((h + 1) % N) + j) % N = (h + 1 + j) % N
    BY ONLY <1>1, <2>1, NextHead
  <2> QED BY <1>2, <2>2
<1>5. mq'.tail = (mq'.head + mq'.count) % N
  <2>1. c - 1 \in 0 .. c - 1 /\ h + 1 + (c - 1) = h + c
    BY <1>1
  <2>2. (mq'.head + (c - 1)) % N = (h + 1 + (c - 1)) % N
    BY ONLY <1>4, <2>1
  <2> QED BY <1>1, <1>2, <2>1, <2>2
<1>6. /\ Len(fifo') = c - 1 /\ fifo' \in Seq(Msgs \cup {NULL})
      /\ \A i \in 1 .. c - 1 : fifo'[i] = fifo[i + 1]
  BY <1>1, <1>2
<1>7. ASSUME NEW i \in 1 .. c - 1
      PROVE  fifo'[i] = mq'.buffer[(mq'.head + i - 1) % N]
  <2>1. /\ i - 1 \in 0 .. c - 1 /\ h + (i + 1) - 1 = h + 1 + (i - 1)
        /\ i + 1 \in 1 .. c /\ mq'.head + (i - 1) = mq'.head + i - 1
    BY <1>1, <1>2
  <2>2. (mq'.head + (i - 1)) % N = (h + 1 + (i - 1)) % N
    BY ONLY <1>4, <2>1
  <2>3. fifo[i + 1] = mq.buffer[(h + (i + 1) - 1) % N]
    BY ONLY <1>3, <2>1
  <2>4. (h + (i + 1) - 1) % N = (mq'.head + i - 1) % N
    BY ONLY <2>1, <2>2
  <2>5. fifo'[i] = fifo[i + 1]
    BY <1>6
  <2> QED BY ONLY <1>2, <2>3, <2>4, <2>5
<1> QED BY <1>2, <1>5, <1>6, <1>7 DEF RingInv, RingIsFifo, N, h, c

LEMMA NextRing == TypeInv /\ RingInv /\ [Next]_vars => RingInv'
<1> SUFFICES ASSUME TypeInv, RingInv, [Next]_vars PROVE RingInv'
  OBVIOUS
<1>1. TypeOK
  BY DEF TypeInv
<1>2. ASSUME UNCHANGED <<mq, fifo>> PROVE RingInv'
  BY <1>2 DEF RingInv, RingIsFifo
<1>3. ASSUME NEW t \in Tasks, SendReturn(t) PROVE RingInv'
  <2>1. Expires(t) \/ msg[t] \in Msgs
    BY <1>3 DEF SendReturn, Return, Expires, TypeInv, CallsQueue
  <2> QED BY <1>1, <1>2, <1>3, <2>1, StoreRing DEF SendReturn
<1>4. ASSUME NEW t \in Tasks, RecvReturn(t) PROVE RingInv'
  BY <1>1, <1>2, <1>4, FetchRing DEF RecvReturn
<1>5. ASSUME NEW m \in Msgs, IsrSend(m) \/ \E t \in Tasks : Send(t, m)
      PROVE  RingInv'
  BY <1>1, <1>5, StoreRing DEF IsrSend, Send
<1>6. ASSUME IsrRecv \/ \E t \in Tasks : Recv(t) PROVE RingInv'
  BY <1>1, <1>6, FetchRing DEF IsrRecv, Recv
<1>7. ASSUME NEW t \in Tasks, NEW timeout \in Timeouts,
             RecvBlock(t, timeout) \/ \E m \in Msgs : SendBlock(t, m, timeout)
      PROVE  RingInv'
  BY <1>2, <1>7 DEF RecvBlock, SendBlock, Block
<1>8. CASE UNCHANGED vars \/ UNCHANGED ipcVars
  BY <1>2, <1>8 DEF vars, ipcVars
<1> QED BY <1>3, <1>4, <1>5, <1>6, <1>7, <1>8 DEF Next, MqueueNext

(***************************************************************************)
(* First in, first out: for every capacity the slots from head hold the    *)
(* accepted messages in the order they were accepted, however often head   *)
(* and tail wrap around, whoever sends, receives or times out.             *)
(***************************************************************************)
THEOREM Fifo == Spec => []RingIsFifo
<1>1. RingInv => RingIsFifo
  BY DEF RingInv
<1> QED BY <1>1, InitTypes, NextTypes, InitRing, NextRing, PTL DEF Spec

-------------------------------------------------------------------------------
(***************************************************************************)
(* Between the wake-up and the second attempt the slot, or the message,    *)
(* may go to somebody else.  With one sender nobody else stores, with one  *)
(* receiver nobody else fetches.                                           *)
(***************************************************************************)
OneSender   == \A S \in SenderSets : \A x, y \in S : x = y
OneReceiver == \A S \in ReceiverSets : \A x, y \in S : x = y

Blocked(t) == k.state[t] = "BLOCKED"

\* Who is inside a call is a user of its side and queued where it belongs.
Roles ==
    \A t \in Tasks :
        /\ pc[t] = "send" => t \in senders /\ obj[t] = SendWait
        /\ pc[t] = "recv" => t \in receivers /\ obj[t] = RecvWait

Known == MqueueSound /\ Roles

\* What the lemmas below use of the types.
LEMMA Facts ==
    ASSUME Known, Patient
    PROVE  /\ pc \in [Tasks -> {"app", "send", "recv"}]
           /\ obj \in [Tasks -> WaitQueues \cup {NULL}]
           /\ k.state \in [Tasks -> States] /\ k.current \in Tasks \cup {NULL}
           /\ {SendWait, RecvWait} \subseteq WaitQueues /\ NULL \notin WaitQueues
           /\ SendWait # RecvWait /\ NULL \notin Tasks /\ HANDLER \notin Tasks
           /\ mq \in Ring /\ mq.count \in 0 .. MaxMsgs /\ MaxMsgs \in Nat \ {0}
           /\ senders \in SenderSets /\ receivers \in ReceiverSets
           /\ \A t \in Tasks : pc[t] = "app" => obj[t] = NULL
BY Given, MqueueAssumption, ListAssumption
   DEF Known, MqueueSound, TypeInv, TypeOK, CpuTypeOK, Kernel, CpuSound, Ring

\* The counter counts.
LEMMA Counts ==
    ASSUME Known, Patient
    PROVE  /\ \A m : Enqueue(m) => mq'.count = mq.count + 1
           /\ Dequeue => mq'.count = mq.count - 1
BY Facts DEF Enqueue, Dequeue, Ring

\* The first of a wait queue is blocked on it, and there is a first when
\* somebody is.
LEMMA HeadBlocked ==
    ASSUME Known, Patient, NEW q \in WaitQueues
    PROVE  /\ k.wq[q] # NULL => /\ k.wq[q] \in Tasks /\ Blocked(k.wq[q])
                                /\ obj[k.wq[q]] = q
           /\ \A u \in Tasks : Blocked(u) /\ obj[u] = q => k.wq[q] # NULL
<1>1. Sound(k, obj)
  BY Given DEF Known, CpuSound
<1>2. ASSUME NEW u \in Tasks, Blocked(u), obj[u] = q PROVE k.wq[q] # NULL
  <2> DEFINE M == Waiting(k, obj)[q]
  <2>1. Queue({NULL}, One(k.wq[q]), k.next, M)
    BY <1>1 DEF Sound, Listed
  <2>2. u \in M
    BY <1>2 DEF Waiting, Blocked
  <2> HIDE DEF M
  <2> QED BY <2>1, <2>2, HeadThere
<1> QED BY <1>1, <1>2, HeadWaits DEF Blocked

\* A call that succeeds, or a handler's, wakes the first of the other side.
Wakes(q) ==
    /\ pc' = pc /\ obj' = obj
    /\ \A u \in Tasks : Blocked(u)' <=> Blocked(u) /\ u # k.wq[q]

LEMMA CallWakes ==
    ASSUME Known, Patient, NEW t \in Tasks, NEW q \in WaitQueues,
           InApp(t), k' = WakeOne(q), pc' = pc, obj' = obj
    PROVE  Wakes(q)
<1>1. CASE k.wq[q] = NULL
  BY <1>1, Facts DEF WakeOne, Wakes, Blocked
<1>2. CASE k.wq[q] # NULL
  <2>1. WakeCall(k, t, q)
    BY <1>2 DEF WakeOne, WakeCall
  <2>2. k.wq[q] \in Tasks /\ k'.state = [k.state EXCEPT ![k.wq[q]] = "READY"]
    BY <2>1, Given, WakeCallSound DEF Known
  <2> QED BY <2>2, Facts DEF Wakes, Blocked
<1> QED BY <1>1, <1>2

LEMMA HandlerWakes ==
    ASSUME Known, Patient, NEW q \in WaitQueues, FromIsr(q)
    PROVE  Wakes(q)
<1>1. CASE k.wq[q] = NULL
  BY <1>1, Facts DEF FromIsr, Wakes, Blocked
<1>2. CASE k.wq[q] # NULL
  <2>1. IsrWake(q)
    BY <1>2, Given DEF FromIsr, WakeOne, IsrWake, Careful, Known
  <2>2. \A u \in Tasks : k'.state[u] = "BLOCKED"
                           <=> k.state[u] = "BLOCKED" /\ u # k.wq[q]
    BY <2>1, Given, IsrWakeSound DEF Known
  <2> QED BY <2>2 DEF Wakes, Blocked, FromIsr
<1> QED BY <1>1, <1>2

\* The second attempt is made by the running task, which no timeout woke.
LEMMA Attempts ==
    ASSUME Known, Patient, NEW t \in Tasks, NEW call \in {"send", "recv"},
           \/ SendReturn(t) /\ call = "send"
           \/ RecvReturn(t) /\ call = "recv"
    PROVE  /\ ~Expires(t) /\ k' = k /\ ~Blocked(t) /\ pc[t] = call
           /\ pc' = [pc EXCEPT ![t] = "app"] /\ obj' = [obj EXCEPT ![t] = NULL]
<1>1. /\ ~Expires(t) /\ k' = k
      /\ pc' = [pc EXCEPT ![t] = "app"] /\ obj' = [obj EXCEPT ![t] = NULL]
  BY SecondAttemptSound DEF Known
<1>2. Running(t) /\ ~resched[t] /\ pc[t] \in {call, "expired"}
  BY DEF SendReturn, RecvReturn, Return
<1>3. k.state[t] = "RUNNING" /\ pc[t] = call
  BY <1>2, Given, AppRuns DEF Known, MqueueSound, Unexpired
<1> QED BY <1>1, <1>3 DEF Blocked

\* What every step does to calls, waiters and counter.
Stores(q, n) == Wakes(q) /\ mq'.count = mq.count + n

Joins(t, call, q) ==
    /\ pc[t] = "app" /\ mq' = mq
    /\ pc' = [pc EXCEPT ![t] = call] /\ obj' = [obj EXCEPT ![t] = q]
    /\ \A u \in Tasks : Blocked(u)' <=> Blocked(u) \/ u = t

Leaves(t, call) ==
    /\ pc[t] = call /\ ~Blocked(t)
    /\ pc' = [pc EXCEPT ![t] = "app"] /\ obj' = [obj EXCEPT ![t] = NULL]
    /\ \A u \in Tasks : Blocked(u)' <=> Blocked(u)

Quiet ==
    /\ mq' = mq /\ pc' = pc /\ dropped' = dropped /\ phantom' = phantom
    /\ obj' = obj /\ \A u \in Tasks : pc[u] # "app" => (Blocked(u)' <=> Blocked(u))

Effect ==
    \/ Quiet
    \/ \E t \in Tasks :
          \/ /\ Joins(t, "send", SendWait) /\ Full /\ t \in senders
             /\ UNCHANGED <<dropped, phantom>>
          \/ /\ Joins(t, "recv", RecvWait) /\ Empty /\ t \in receivers
             /\ UNCHANGED <<dropped, phantom>>
          \/ /\ Leaves(t, "send") /\ phantom' = phantom
             /\ IF Full THEN mq' = mq /\ dropped' = TRUE
                        ELSE mq'.count = mq.count + 1 /\ dropped' = dropped
          \/ /\ Leaves(t, "recv") /\ dropped' = dropped
             /\ IF Empty THEN mq' = mq /\ phantom' = TRUE
                         ELSE mq'.count = mq.count - 1 /\ phantom' = phantom
    \/ \E s \in senders :
          /\ s \in Tasks => pc[s] = "app"
          /\ ~Full /\ Stores(RecvWait, 1) /\ UNCHANGED <<dropped, phantom>>
    \/ \E r \in receivers :
          /\ r \in Tasks => pc[r] = "app"
          /\ ~Empty /\ Stores(SendWait, -1) /\ UNCHANGED <<dropped, phantom>>

LEMMA StepEffect ==
    ASSUME Known, Patient, [Next]_vars
    PROVE  Effect /\ UNCHANGED users
<1>0. UNCHANGED users
  BY DEF Next, vars
<1>1. CASE CpuNext /\ UNCHANGED ipcVars
  <2>1. SameWaiters(k, k', obj) /\ pc' = pc /\ obj' = obj
    BY <1>1, Given, CpuNextSound, CpuNextFrame DEF Known
  <2>2. \A u \in Tasks : pc[u] # "app" => obj[u] # NULL
    BY Facts DEF Known, MqueueSound, TypeInv, CallsQueue
  <2>3. Quiet
    BY <1>1, <2>1, <2>2 DEF Quiet, SameWaiters, Blocked, ipcVars
  <2> QED BY <1>0, <2>3 DEF Effect
<1>2. ASSUME NEW t \in Tasks, NEW m \in Msgs, Send(t, m) PROVE Effect
  <2>1. /\ InApp(t) /\ t \in senders /\ ~Full /\ Enqueue(m) /\ k' = WakeOne(RecvWait)
        /\ UNCHANGED <<pc, obj, dropped, phantom>>
    BY <1>2 DEF Send
  <2>2. Stores(RecvWait, 1)
    BY <2>1, Facts, CallWakes, Counts DEF Stores
  <2>3. pc[t] = "app"
    BY <2>1 DEF InApp
  <2> QED BY <2>1, <2>2, <2>3 DEF Effect
<1>3. ASSUME NEW t \in Tasks, Recv(t) PROVE Effect
  <2>1. /\ InApp(t) /\ t \in receivers /\ ~Empty /\ Dequeue /\ k' = WakeOne(SendWait)
        /\ UNCHANGED <<pc, obj, dropped, phantom>>
    BY <1>3 DEF Recv
  <2>2. mq'.count = mq.count + (-1)
    BY <2>1, Facts, Counts
  <2>3. Stores(SendWait, -1)
    BY <2>1, <2>2, Facts, CallWakes DEF Stores
  <2>4. pc[t] = "app"
    BY <2>1 DEF InApp
  <2> QED BY <2>1, <2>3, <2>4 DEF Effect
<1>4. ASSUME NEW t \in Tasks, NEW call \in {"send", "recv"}, NEW q \in WaitQueues,
             NEW timeout \in Timeouts, Block(t, call, q, timeout)
      PROVE  Joins(t, call, q) /\ UNCHANGED <<dropped, phantom>>
  <2>1. BlockCall(k, t, q, call)
    BY <1>4 DEF Block, BlockCall, Patient
  <2>2. k'.state = [k.state EXCEPT ![t] = "BLOCKED"]
    BY <2>1, Given, BlockCallSound DEF Known
  <2>3. /\ pc[t] = "app" /\ mq' = mq /\ UNCHANGED <<dropped, phantom>>
        /\ pc' = [pc EXCEPT ![t] = call] /\ obj' = [obj EXCEPT ![t] = q]
    BY <1>4 DEF Block, InApp
  <2> QED BY <2>2, <2>3, Facts DEF Joins, Blocked
<1>5. ASSUME NEW t \in Tasks, NEW m \in Msgs, NEW timeout \in Timeouts,
             SendBlock(t, m, timeout)
      PROVE  Effect
  <2>1. Joins(t, "send", SendWait) /\ UNCHANGED <<dropped, phantom>>
    BY <1>4, <1>5, Facts DEF SendBlock
  <2> QED BY <1>5, <2>1 DEF SendBlock, Effect
<1>6. ASSUME NEW t \in Tasks, NEW timeout \in Timeouts, RecvBlock(t, timeout)
      PROVE  Effect
  <2>1. Joins(t, "recv", RecvWait) /\ UNCHANGED <<dropped, phantom>>
    BY <1>4, <1>6, Facts DEF RecvBlock
  <2> QED BY <1>6, <2>1 DEF RecvBlock, Effect
<1>7. ASSUME NEW t \in Tasks, SendReturn(t) PROVE Effect
  <2>1. /\ ~Expires(t) /\ k' = k /\ ~Blocked(t) /\ pc[t] = "send"
        /\ pc' = [pc EXCEPT ![t] = "app"] /\ obj' = [obj EXCEPT ![t] = NULL]
    BY <1>7, Attempts
  <2>2. /\ phantom' = phantom
        /\ IF Full THEN dropped' = TRUE /\ UNCHANGED mq
                   ELSE Enqueue(msg[t]) /\ UNCHANGED dropped
    BY <1>7, <2>1 DEF SendReturn
  <2>3. Leaves(t, "send")
    BY <2>1, <2>2 DEF Leaves, Blocked
  <2> QED BY <2>2, <2>3, Counts DEF Effect
<1>8. ASSUME NEW t \in Tasks, RecvReturn(t) PROVE Effect
  <2>1. /\ ~Expires(t) /\ k' = k /\ ~Blocked(t) /\ pc[t] = "recv"
        /\ pc' = [pc EXCEPT ![t] = "app"] /\ obj' = [obj EXCEPT ![t] = NULL]
    BY <1>8, Attempts
  <2>2. /\ dropped' = dropped
        /\ IF Empty THEN phantom' = TRUE /\ UNCHANGED mq
                    ELSE Dequeue /\ UNCHANGED phantom
    BY <1>8, <2>1 DEF RecvReturn
  <2>3. Leaves(t, "recv")
    BY <2>1, <2>2 DEF Leaves, Blocked
  <2> QED BY <2>2, <2>3, Counts DEF Effect
<1>9. ASSUME NEW m \in Msgs, IsrSend(m) PROVE Effect
  <2>1. HANDLER \in senders /\ ~Full /\ UNCHANGED <<dropped, phantom>>
    BY <1>9 DEF IsrSend, FromIsr
  <2>2. Stores(RecvWait, 1)
    BY <1>9, Facts, HandlerWakes, Counts DEF IsrSend, Stores
  <2> QED BY <2>1, <2>2, Facts DEF Effect
<1>10. ASSUME IsrRecv PROVE Effect
  <2>1. HANDLER \in receivers /\ ~Empty /\ UNCHANGED <<dropped, phantom>>
    BY <1>10 DEF IsrRecv, FromIsr
  <2>2. mq'.count = mq.count + (-1)
    BY <1>10, Facts, Counts DEF IsrRecv
  <2>3. Stores(SendWait, -1)
    BY <1>10, <2>2, Facts, HandlerWakes DEF IsrRecv, Stores
  <2> QED BY <2>1, <2>3, Facts DEF Effect
<1>11. CASE UNCHANGED vars
  BY <1>11 DEF vars, ipcVars, Effect, Quiet, Blocked
<1> QED BY <1>0, <1>1, <1>2, <1>3, <1>5, <1>6, <1>7, <1>8, <1>9, <1>10, <1>11
        DEF Next, MqueueNext

LEMMA InitRoles == Init => Roles /\ \A t \in Tasks : pc[t] = "app"
BY DEF Init, CpuInit, Roles

LEMMA StepRoles ==
    ASSUME Known, Patient, Effect, UNCHANGED users
    PROVE  Roles'
<1>1. CASE pc' = pc /\ obj' = obj
  BY <1>1 DEF Known, Roles, users
<1>2. ASSUME NEW t \in Tasks,
             \/ t \in senders /\ Joins(t, "send", SendWait)
             \/ t \in receivers /\ Joins(t, "recv", RecvWait)
             \/ Leaves(t, "send") \/ Leaves(t, "recv")
      PROVE  Roles'
  BY <1>2, Facts DEF Known, Roles, users, Joins, Leaves
<1> QED BY <1>1, <1>2 DEF Effect, Quiet, Stores, Wakes

\* The slot of a sender that was woken is still free.
SlotKept ==
    /\ ~dropped
    /\ \A t \in Tasks : pc[t] = "send" /\ ~Blocked(t) => ~Full

LEMMA StepSlotKept ==
    ASSUME Known, Patient, OneSender, SlotKept, Effect
    PROVE  SlotKept'
<1>0. \A x, y \in senders : x = y
  BY Facts DEF OneSender
<1>1. \A t \in Tasks : pc[t] = "send" => t \in senders
  BY DEF Known, Roles
<1>2. CASE Quiet
  BY <1>2, Facts DEF SlotKept, Quiet, Full
<1>3. ASSUME NEW t \in Tasks, Joins(t, "send", SendWait) \/ Joins(t, "recv", RecvWait),
             UNCHANGED dropped
      PROVE  SlotKept'
  BY <1>3, Facts DEF SlotKept, Joins, Full
<1>4. ASSUME NEW t \in Tasks, Leaves(t, "send"),
             IF Full THEN mq' = mq /\ dropped' = TRUE
                     ELSE mq'.count = mq.count + 1 /\ dropped' = dropped
      PROVE  SlotKept'
  <2>1. ~Full /\ dropped' = dropped
    BY <1>4 DEF SlotKept, Leaves
  <2>2. \A u \in Tasks : pc'[u] # "send"
    BY <1>0, <1>1, <1>4, Facts DEF Leaves
  <2> QED BY <2>1, <2>2 DEF SlotKept
<1>5. ASSUME NEW t \in Tasks, Leaves(t, "recv"), dropped' = dropped,
             mq' = mq \/ mq'.count = mq.count - 1
      PROVE  SlotKept'
  <2>1. ~Full => ~Full'
    BY <1>5, Facts DEF Full
  <2> QED BY <1>5, <2>1, Facts DEF SlotKept, Leaves
<1>6. ASSUME NEW s \in senders, s \in Tasks => pc[s] = "app", Stores(RecvWait, 1),
             UNCHANGED dropped
      PROVE  SlotKept'
  BY <1>0, <1>1, <1>6 DEF SlotKept, Stores, Wakes
<1>7. ASSUME ~Empty, Stores(SendWait, -1), UNCHANGED dropped
      PROVE  SlotKept'
  <2>1. ~Full'
    BY <1>7, Facts DEF Full, Stores
  <2> QED BY <1>7, <2>1 DEF SlotKept
<1> QED BY <1>2, <1>3, <1>4, <1>5, <1>6, <1>7 DEF Effect

\* The message for a receiver that was woken is still there.
MessageKept ==
    /\ ~phantom
    /\ \A t \in Tasks : pc[t] = "recv" /\ ~Blocked(t) => ~Empty

LEMMA StepMessageKept ==
    ASSUME Known, Patient, OneReceiver, MessageKept, Effect
    PROVE  MessageKept'
<1>0. \A x, y \in receivers : x = y
  BY Facts DEF OneReceiver
<1>1. \A t \in Tasks : pc[t] = "recv" => t \in receivers
  BY DEF Known, Roles
<1>2. CASE Quiet
  BY <1>2, Facts DEF MessageKept, Quiet, Empty
<1>3. ASSUME NEW t \in Tasks, Joins(t, "send", SendWait) \/ Joins(t, "recv", RecvWait),
             UNCHANGED phantom
      PROVE  MessageKept'
  BY <1>3, Facts DEF MessageKept, Joins, Empty
<1>4. ASSUME NEW t \in Tasks, Leaves(t, "recv"),
             IF Empty THEN mq' = mq /\ phantom' = TRUE
                      ELSE mq'.count = mq.count - 1 /\ phantom' = phantom
      PROVE  MessageKept'
  <2>1. ~Empty /\ phantom' = phantom
    BY <1>4 DEF MessageKept, Leaves
  <2>2. \A u \in Tasks : pc'[u] # "recv"
    BY <1>0, <1>1, <1>4, Facts DEF Leaves
  <2> QED BY <2>1, <2>2 DEF MessageKept
<1>5. ASSUME NEW t \in Tasks, Leaves(t, "send"), phantom' = phantom,
             mq' = mq \/ mq'.count = mq.count + 1
      PROVE  MessageKept'
  <2>1. ~Empty => ~Empty'
    BY <1>5, Facts DEF Empty
  <2> QED BY <1>5, <2>1, Facts DEF MessageKept, Leaves
<1>6. ASSUME NEW r \in receivers, r \in Tasks => pc[r] = "app", Stores(SendWait, -1),
             UNCHANGED phantom
      PROVE  MessageKept'
  BY <1>0, <1>1, <1>6 DEF MessageKept, Stores, Wakes
<1>7. ASSUME Stores(RecvWait, 1), UNCHANGED phantom
      PROVE  MessageKept'
  <2>1. ~Empty'
    BY <1>7, Facts DEF Empty, Stores
  <2> QED BY <1>7, <2>1 DEF MessageKept
<1> QED BY <1>2, <1>3, <1>4, <1>5, <1>6, <1>7 DEF Effect

LEMMA KnownAlways ==
    /\ Patient /\ Init => Known
    /\ Patient /\ Known /\ [Next]_vars => Known' /\ Effect
<1>1. Patient /\ Init => Known
  BY InitSound, InitRoles DEF Known
<1>2. ASSUME Patient, Known, [Next]_vars PROVE Known' /\ Effect
  <2>1. Effect /\ UNCHANGED users
    BY <1>2, StepEffect
  <2>2. Roles'
    BY <1>2, <2>1, StepRoles
  <2> QED BY <1>2, <2>1, <2>2, NextSound DEF Known
<1> QED BY <1>1, <1>2

(***************************************************************************)
(* With one sender, a send that returns BR_OK has stored its message,      *)
(* whoever receives and however late the sender makes its second attempt.  *)
(***************************************************************************)
THEOREM NothingDropped ==
    ASSUME Patient, OneSender
    PROVE  Spec => []NoMessageDropped
<1>1. Init => Known /\ SlotKept
  <2>1. Init => ~dropped
    BY DEF Init
  <2> QED BY <2>1, KnownAlways, InitRoles DEF SlotKept
<1>2. Known /\ SlotKept /\ [Next]_vars => (Known /\ SlotKept)'
  BY KnownAlways, StepSlotKept
<1>3. SlotKept => NoMessageDropped
  BY DEF SlotKept, NoMessageDropped
<1> QED BY <1>1, <1>2, <1>3, PTL DEF Spec

(***************************************************************************)
(* With one receiver, a recv that returns BR_OK has delivered a message,   *)
(* whoever sends and however late the receiver makes its second attempt.   *)
(***************************************************************************)
THEOREM NothingInvented ==
    ASSUME Patient, OneReceiver
    PROVE  Spec => []NoPhantomMessage
<1>1. Init => Known /\ MessageKept
  <2>1. Init => ~phantom
    BY DEF Init
  <2> QED BY <2>1, KnownAlways, InitRoles DEF MessageKept
<1>2. Known /\ MessageKept /\ [Next]_vars => (Known /\ MessageKept)'
  BY KnownAlways, StepMessageKept
<1>3. MessageKept => NoPhantomMessage
  BY DEF MessageKept, NoPhantomMessage
<1> QED BY <1>1, <1>2, <1>3, PTL DEF Spec

-------------------------------------------------------------------------------
(***************************************************************************)
(* The second attempt wakes nobody.  With one sender and one receiver it   *)
(* leaves at most one message to a waiting receiver, or one slot to a      *)
(* waiting sender, until the next call wakes it.  A ring of one slot is    *)
(* then full, and that call waits instead.                                 *)
(***************************************************************************)
NearlyEmpty ==
    \A t \in Tasks : pc[t] = "recv" /\ Blocked(t) =>
        mq.count = 0 \/ (mq.count = 1 /\ \A u \in Tasks : pc[u] # "send")
NearlyFull ==
    \A t \in Tasks : pc[t] = "send" /\ Blocked(t) =>
        \/ mq.count = MaxMsgs
        \/ mq.count = MaxMsgs - 1 /\ \A u \in Tasks : pc[u] # "recv"

LEMMA OnlyWaiter ==
    ASSUME Known, Patient, NEW t \in Tasks, Blocked(t)
    PROVE  /\ OneSender /\ pc[t] = "send" => k.wq[SendWait] = t
           /\ OneReceiver /\ pc[t] = "recv" => k.wq[RecvWait] = t
<1>1. ASSUME NEW q \in WaitQueues, obj[t] = q
      PROVE  k.wq[q] \in Tasks /\ obj[k.wq[q]] = q
  BY <1>1, HeadBlocked
<1>2. ASSUME OneSender, pc[t] = "send" PROVE k.wq[SendWait] = t
  <2>1. obj[t] = SendWait /\ t \in senders
    BY <1>2 DEF Known, Roles
  <2>2. k.wq[SendWait] \in Tasks /\ obj[k.wq[SendWait]] = SendWait
    BY <1>1, <2>1, Facts
  <2>3. pc[k.wq[SendWait]] = "send"
    BY <2>2, Facts DEF Known, Roles
  <2>4. k.wq[SendWait] \in senders
    BY <2>2, <2>3 DEF Known, Roles
  <2> QED BY <1>2, <2>1, <2>4, Facts DEF OneSender
<1>3. ASSUME OneReceiver, pc[t] = "recv" PROVE k.wq[RecvWait] = t
  <2>1. obj[t] = RecvWait /\ t \in receivers
    BY <1>3 DEF Known, Roles
  <2>2. k.wq[RecvWait] \in Tasks /\ obj[k.wq[RecvWait]] = RecvWait
    BY <1>1, <2>1, Facts
  <2>3. pc[k.wq[RecvWait]] = "recv"
    BY <2>2, Facts DEF Known, Roles
  <2>4. k.wq[RecvWait] \in receivers
    BY <2>2, <2>3 DEF Known, Roles
  <2> QED BY <1>3, <2>1, <2>4, Facts DEF OneReceiver
<1> QED BY <1>2, <1>3

Moves ==
    /\ Known /\ OneSender /\ OneReceiver /\ MaxMsgs > 1
    /\ SlotKept /\ MessageKept /\ NearlyEmpty /\ NearlyFull

LEMMA StepNearlyEmpty ==
    ASSUME Moves, Patient, Effect
    PROVE  NearlyEmpty'
<1>0. /\ \A x, y \in senders : x = y
      /\ \A x, y \in receivers : x = y
      /\ \A u \in Tasks : pc[u] = "send" => u \in senders
      /\ \A u \in Tasks : pc[u] = "recv" => u \in receivers
  BY Facts DEF Moves, OneSender, OneReceiver, Known, Roles
<1>1. CASE Quiet
  BY <1>1 DEF Moves, NearlyEmpty, Quiet
<1>2. ASSUME NEW t \in Tasks, Joins(t, "send", SendWait), Full PROVE NearlyEmpty'
  <2>1. mq.count > 1
    BY <1>2, Facts DEF Moves, Full
  <2>2. \A u \in Tasks : ~(pc[u] = "recv" /\ Blocked(u))
    BY <2>1, Facts DEF Moves, NearlyEmpty
  <2> QED BY <1>2, <2>2, Facts DEF NearlyEmpty, Joins
<1>3. ASSUME NEW t \in Tasks, Joins(t, "recv", RecvWait), Empty PROVE NearlyEmpty'
  <2>1. mq'.count = 0
    BY <1>3, Facts DEF Moves, Empty, Joins
  <2> QED BY <2>1 DEF NearlyEmpty
<1>4. ASSUME NEW t \in Tasks, Leaves(t, "send"),
             ~Full => mq'.count = mq.count + 1
      PROVE  NearlyEmpty'
  <2>1. ~Full
    BY <1>4 DEF Moves, SlotKept, Leaves
  <2>2. \A u \in Tasks : pc'[u] # "send"
    BY <1>0, <1>4, Facts DEF Moves, Leaves
  <2>3. ASSUME NEW u \in Tasks, pc'[u] = "recv", Blocked(u)'
        PROVE  mq'.count = 1
    <3>1. pc[u] = "recv" /\ Blocked(u)
      BY <1>4, <2>3, Facts DEF Leaves
    <3>2. mq.count = 0
      BY <1>4, <3>1 DEF Moves, NearlyEmpty, Leaves
    <3> QED BY <1>4, <2>1, <3>2
  <2> QED BY <2>2, <2>3 DEF NearlyEmpty
<1>5. ASSUME NEW t \in Tasks, Leaves(t, "recv") PROVE NearlyEmpty'
  <2>1. \A u \in Tasks : pc'[u] # "recv"
    BY <1>0, <1>5, Facts DEF Moves, Leaves
  <2> QED BY <2>1 DEF NearlyEmpty
<1>6. ASSUME Stores(RecvWait, 1) PROVE NearlyEmpty'
  <2>1. \A u \in Tasks : pc'[u] = "recv" => ~Blocked(u)'
    BY <1>6, OnlyWaiter DEF Moves, Stores, Wakes
  <2> QED BY <2>1 DEF NearlyEmpty
<1>7. ASSUME NEW r \in receivers, r \in Tasks => pc[r] = "app", Stores(SendWait, -1)
      PROVE  NearlyEmpty'
  <2>1. \A u \in Tasks : pc'[u] # "recv"
    BY <1>0, <1>7 DEF Stores, Wakes
  <2> QED BY <2>1 DEF NearlyEmpty
<1> QED BY <1>1, <1>2, <1>3, <1>4, <1>5, <1>6, <1>7 DEF Effect

LEMMA StepNearlyFull ==
    ASSUME Moves, Patient, Effect
    PROVE  NearlyFull'
<1>0. /\ \A x, y \in senders : x = y
      /\ \A x, y \in receivers : x = y
      /\ \A u \in Tasks : pc[u] = "send" => u \in senders
      /\ \A u \in Tasks : pc[u] = "recv" => u \in receivers
  BY Facts DEF Moves, OneSender, OneReceiver, Known, Roles
<1>1. CASE Quiet
  BY <1>1 DEF Moves, NearlyFull, Quiet
<1>2. ASSUME NEW t \in Tasks, Joins(t, "recv", RecvWait), Empty PROVE NearlyFull'
  <2>1. mq.count = 0
    BY <1>2, Facts DEF Moves, Empty
  <2>2. \A u \in Tasks : ~(pc[u] = "send" /\ Blocked(u))
    BY <2>1, Facts DEF Moves, NearlyFull
  <2> QED BY <1>2, <2>2, Facts DEF NearlyFull, Joins
<1>3. ASSUME NEW t \in Tasks, Joins(t, "send", SendWait), Full PROVE NearlyFull'
  <2>1. mq'.count = MaxMsgs
    BY <1>3, Facts DEF Moves, Full, Joins
  <2> QED BY <2>1 DEF NearlyFull
<1>4. ASSUME NEW t \in Tasks, Leaves(t, "recv"),
             ~Empty => mq'.count = mq.count - 1
      PROVE  NearlyFull'
  <2>1. ~Empty
    BY <1>4 DEF Moves, MessageKept, Leaves
  <2>2. \A u \in Tasks : pc'[u] # "recv"
    BY <1>0, <1>4, Facts DEF Moves, Leaves
  <2>3. ASSUME NEW u \in Tasks, pc'[u] = "send", Blocked(u)'
        PROVE  mq'.count = MaxMsgs - 1
    <3>1. pc[u] = "send" /\ Blocked(u)
      BY <1>4, <2>3, Facts DEF Leaves
    <3>2. mq.count = MaxMsgs
      BY <1>4, <3>1 DEF Moves, NearlyFull, Leaves
    <3> QED BY <1>4, <2>1, <3>2
  <2> QED BY <2>2, <2>3 DEF NearlyFull
<1>5. ASSUME NEW t \in Tasks, Leaves(t, "send") PROVE NearlyFull'
  <2>1. \A u \in Tasks : pc'[u] # "send"
    BY <1>0, <1>5, Facts DEF Moves, Leaves
  <2> QED BY <2>1 DEF NearlyFull
<1>6. ASSUME Stores(SendWait, -1) PROVE NearlyFull'
  <2>1. \A u \in Tasks : pc'[u] = "send" => ~Blocked(u)'
    BY <1>6, OnlyWaiter DEF Moves, Stores, Wakes
  <2> QED BY <2>1 DEF NearlyFull
<1>7. ASSUME NEW s \in senders, s \in Tasks => pc[s] = "app", Stores(RecvWait, 1)
      PROVE  NearlyFull'
  <2>1. \A u \in Tasks : pc'[u] # "send"
    BY <1>0, <1>7 DEF Stores, Wakes
  <2> QED BY <2>1 DEF NearlyFull
<1> QED BY <1>1, <1>2, <1>3, <1>4, <1>5, <1>6, <1>7 DEF Effect

LEMMA MovesMeans ==
    ASSUME Moves, Patient
    PROVE  NoStandoff
<1> SUFFICES ASSUME k.wq[SendWait] # NULL, k.wq[RecvWait] # NULL PROVE FALSE
  BY DEF NoStandoff
<1>1. PICK s, r : s = k.wq[SendWait] /\ r = k.wq[RecvWait]
  OBVIOUS
<1>2. /\ s \in Tasks /\ Blocked(s) /\ obj[s] = SendWait
      /\ r \in Tasks /\ Blocked(r) /\ obj[r] = RecvWait
  BY <1>1, HeadBlocked, Facts DEF Moves
<1>3. pc[s] = "send" /\ pc[r] = "recv"
  BY <1>2, Facts DEF Moves, Known, Roles
<1>4. mq.count = 0 /\ mq.count = MaxMsgs
  BY <1>2, <1>3 DEF Moves, NearlyEmpty, NearlyFull
<1> QED BY <1>4, Facts DEF Moves

(***************************************************************************)
(* With one sender, one receiver and two slots or more, the sender never   *)
(* waits for space while the receiver waits for a message: one of them can *)
(* always go on.                                                           *)
(***************************************************************************)
THEOREM NeverStuck ==
    ASSUME Patient, OneSender, OneReceiver, MaxMsgs > 1
    PROVE  Spec => []NoStandoff
<1>1. Init => Moves
  <2>1. Init => ~dropped /\ ~phantom
    BY DEF Init
  <2> QED BY <2>1, KnownAlways, InitRoles
          DEF Moves, SlotKept, MessageKept, NearlyEmpty, NearlyFull
<1>2. Moves /\ [Next]_vars => Moves'
  <2> SUFFICES ASSUME Moves, [Next]_vars PROVE Moves'
    OBVIOUS
  <2>1. Known' /\ Effect
    BY KnownAlways DEF Moves
  <2>2. SlotKept' /\ MessageKept'
    BY <2>1, StepSlotKept, StepMessageKept DEF Moves
  <2>3. NearlyEmpty' /\ NearlyFull'
    BY <2>1, StepNearlyEmpty, StepNearlyFull
  <2> QED BY <2>1, <2>2, <2>3 DEF Moves
<1>3. Moves => NoStandoff
  BY MovesMeans
<1> QED BY <1>1, <1>2, <1>3, PTL DEF Spec
===============================================================================
