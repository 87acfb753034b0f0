------------------------------- MODULE BrMqueue -------------------------------
(***************************************************************************)
(* A message queue (kernel/br_ipc.c): a ring buffer with a wait queue of   *)
(* senders and one of receivers, used by tasks and by interrupt handlers.  *)
(*                                                                         *)
(* A sender that found the queue full, and a receiver that found it empty, *)
(* tries a second time after it was woken, in a critical section of its    *)
(* own: by then another task may have taken the slot or the message.       *)
(***************************************************************************)
EXTENDS BrCpu, Sequences

CONSTANTS
    MaxMsgs,    \* the capacity
    Msgs,       \* the message contents
    HANDLER,    \* the interrupt handlers of the application, as one user
    SenderSets,   \* the sets of tasks and handlers that may be the senders
    ReceiverSets, \* and the receivers of the application's queue
    Timeouts,   \* the timeouts of blocking calls: ticks, NULL = infinite
    SendWait,   \* the name of the wait queue mq->send_wait
    RecvWait    \* the name of the wait queue mq->recv_wait

ASSUME MqueueAssumption ==
    /\ MaxMsgs \in Nat \ {0}
    /\ NULL \notin Msgs /\ NULL \notin WaitQueues
    /\ HANDLER \notin Tasks
    /\ SenderSets \subseteq SUBSET (Tasks \cup {HANDLER})
    /\ ReceiverSets \subseteq SUBSET (Tasks \cup {HANDLER})
    /\ Timeouts \subseteq (1 .. MaxTicks) \cup {NULL}
    /\ {SendWait, RecvWait} \subseteq WaitQueues /\ SendWait # RecvWait

VARIABLES
    senders,    \* the users of the queue, chosen by the application
    receivers,
    mq,       \* the ring buffer
    msg,      \* per task: the message of the blocking send in progress
    fifo,     \* history: the messages accepted and not yet received
    dropped,  \* history: a send returned BR_OK without storing its message
    phantom   \* history: a recv returned BR_OK without a message

users == <<senders, receivers>>
ipcVars == <<mq, msg, fifo, dropped, phantom>>
vars == <<k, pc, obj, resched, isr, users, ipcVars>>

Slots == 0 .. MaxMsgs - 1
Ring  == [buffer : [Slots -> Msgs \cup {NULL}], count : 0 .. MaxMsgs,
          head : Slots, tail : Slots]

\* br_mqueue_init
EmptyRing ==
    [buffer |-> [i \in Slots |-> NULL], count |-> 0, head |-> 0, tail |-> 0]

Init ==
    /\ CpuInit
    /\ senders \in SenderSets /\ receivers \in ReceiverSets
    /\ mq = EmptyRing
    /\ msg = [t \in Tasks |-> NULL]
    /\ fifo = <<>>
    /\ dropped = FALSE /\ phantom = FALSE

\* Mistake: an off-by-one in the test for a free slot.
Full_OffByOne == ~(mq.count <= MaxMsgs)

Full  == ~(mq.count < MaxMsgs)
Empty == ~(mq.count > 0)

\* Mistakes: the index does not wrap; the message is not counted.
Enqueue_NoWrap(m) ==
    /\ mq' = [mq EXCEPT !.buffer[mq.tail] = m, !.tail = @ + 1, !.count = @ + 1]
    /\ fifo' = Append(fifo, m)
Enqueue_Uncounted(m) ==
    /\ mq' = [mq EXCEPT !.buffer[mq.tail] = m, !.tail = (@ + 1) % MaxMsgs]
    /\ fifo' = Append(fifo, m)

Enqueue(m) ==
    /\ mq' = [mq EXCEPT !.buffer[mq.tail] = m,
                        !.tail = (@ + 1) % MaxMsgs,
                        !.count = @ + 1]
    /\ fifo' = Append(fifo, m)

\* Mistake: the slot is not given back.
Dequeue_KeepsSlot ==
    /\ mq' = [mq EXCEPT !.head = (@ + 1) % MaxMsgs]
    /\ fifo' = SubSeq(fifo, 2, Len(fifo))

\* The message is copied out; its bytes stay in the buffer.
Dequeue ==
    /\ mq' = [mq EXCEPT !.head = (@ + 1) % MaxMsgs, !.count = @ - 1]
    /\ fifo' = Tail(fifo)

\* Wake one task of the opposite side, if any.
WakeOne(q) ==
    IF k.wq[q] = NULL THEN k ELSE wake_waiter(wq_pop(k, q), k.wq[q])

-------------------------------------------------------------------------------
(* The calls of tasks.  A full or empty queue with timeout 0 changes       *)
(* nothing (BR_ERR_TIMEOUT).                                               *)

Send(t, m) ==
    /\ InApp(t) /\ t \in senders
    /\ ~Full
    /\ Enqueue(m)
    /\ k' = WakeOne(RecvWait)
    /\ resched' = [resched EXCEPT ![t] = k.wq[RecvWait] # NULL]
    /\ UNCHANGED <<pc, obj, isr, msg, dropped, phantom>>

\* Mistake: the waiting sender is not told of the free slot.
Recv_Silent(t) ==
    /\ InApp(t) /\ t \in receivers
    /\ ~Empty
    /\ Dequeue
    /\ UNCHANGED <<k, resched, pc, obj, isr, msg, dropped, phantom>>

Recv(t) ==
    /\ InApp(t) /\ t \in receivers
    /\ ~Empty
    /\ Dequeue
    /\ k' = WakeOne(SendWait)
    /\ resched' = [resched EXCEPT ![t] = k.wq[SendWait] # NULL]
    /\ UNCHANGED <<pc, obj, isr, msg, dropped, phantom>>

Block(t, call, q, timeout) ==
    /\ InApp(t) /\ MayBlock
    /\ k' = block_on_wq(k, q, t, timeout)
    /\ pc' = [pc EXCEPT ![t] = call]
    /\ obj' = [obj EXCEPT ![t] = q]
    /\ resched' = [resched EXCEPT ![t] = TRUE]
    /\ UNCHANGED <<isr, mq, fifo, dropped, phantom>>

SendBlock(t, m, timeout) ==
    /\ t \in senders /\ Full
    /\ Block(t, "send", SendWait, timeout)
    /\ msg' = [msg EXCEPT ![t] = m]

RecvBlock(t, timeout) ==
    /\ t \in receivers /\ Empty
    /\ Block(t, "recv", RecvWait, timeout)
    /\ UNCHANGED msg

\* Back from br_sched_reschedule.  With interrupts enabled the caller looks at
\* wait_result; after a timeout it leaves the queue in a critical section of its
\* own, and a call from the opposite side in between finds it there.
Expires(t) == pc[t] = "expired" \/ k.result[t] = "TIMEOUT"

Return(t, call, q) ==
    /\ Running(t)
    /\ pc[t] \in {call, "expired"} /\ obj[t] = q /\ ~resched[t]
    /\ IF pc[t] # "expired" /\ Expires(t)
       THEN pc' = [pc EXCEPT ![t] = "expired"] /\ UNCHANGED <<obj, msg>>
       ELSE /\ pc' = [pc EXCEPT ![t] = "app"]
            /\ obj' = [obj EXCEPT ![t] = NULL]
            /\ msg' = [msg EXCEPT ![t] = NULL]
    /\ k' = IF pc[t] = "expired" THEN wq_remove(k, q, t) ELSE k
    /\ UNCHANGED <<resched, isr>>

\* Who was woken tries again: the attempt wakes nobody, and BR_OK is returned
\* whether it succeeds or not.
SendReturn(t) ==
    /\ Return(t, "send", SendWait)
    /\ IF Expires(t) THEN UNCHANGED <<mq, fifo, dropped>>
       ELSE IF Full THEN dropped' = TRUE /\ UNCHANGED <<mq, fifo>>
       ELSE Enqueue(msg[t]) /\ UNCHANGED dropped
    /\ UNCHANGED phantom

RecvReturn(t) ==
    /\ Return(t, "recv", RecvWait)
    /\ IF Expires(t) THEN UNCHANGED <<mq, fifo, phantom>>
       ELSE IF Empty THEN phantom' = TRUE /\ UNCHANGED <<mq, fifo>>
       ELSE Dequeue /\ UNCHANGED phantom
    /\ UNCHANGED dropped

-------------------------------------------------------------------------------
(* The calls of interrupt handlers, which never block.                     *)

FromIsr(q) ==
    /\ isr = "none" /\ ~k.hung /\ ~Booting
    /\ k.wq[q] # NULL /\ k.wq[q] = k.current => WakeInWindow
    /\ k' = IF k.wq[q] = NULL THEN k ELSE br_sched_reschedule(WakeOne(q))
    /\ UNCHANGED <<pc, obj, resched, isr, msg, dropped, phantom>>

IsrSend(m) == HANDLER \in senders /\ ~Full /\ Enqueue(m) /\ FromIsr(RecvWait)
IsrRecv    == HANDLER \in receivers /\ ~Empty /\ Dequeue /\ FromIsr(SendWait)

MqueueNext ==
    \/ \E t \in Tasks :
          \/ \E m \in Msgs : Send(t, m)
          \/ \E m \in Msgs, timeout \in Timeouts : SendBlock(t, m, timeout)
          \/ Recv(t)
          \/ \E timeout \in Timeouts : RecvBlock(t, timeout)
          \/ SendReturn(t)
          \/ RecvReturn(t)
    \/ \E m \in Msgs : IsrSend(m)
    \/ IsrRecv

Next ==
    /\ (CpuNext /\ UNCHANGED ipcVars) \/ MqueueNext
    /\ UNCHANGED users

Spec == Init /\ [][Next]_vars

-------------------------------------------------------------------------------

TypeOK ==
    /\ CpuTypeOK
    /\ pc \in [Tasks -> {"app", "send", "recv", "expired"}]
    /\ senders \in SenderSets /\ receivers \in ReceiverSets
    /\ mq \in Ring
    /\ msg \in [Tasks -> Msgs \cup {NULL}]
    /\ dropped \in BOOLEAN /\ phantom \in BOOLEAN

\* The slots from head hold the accepted messages in the order they were
\* accepted, whoever stored and fetched them.
RingIsFifo ==
    /\ mq.count = Len(fifo)
    /\ mq.tail = (mq.head + mq.count) % MaxMsgs
    /\ \A i \in 1 .. Len(fifo) :
          fifo[i] = mq.buffer[(mq.head + i - 1) % MaxMsgs]

\* A send that returns BR_OK has stored its message.
NoMessageDropped == ~dropped

\* A recv that returns BR_OK has delivered a message.
NoPhantomMessage == ~phantom

\* Never does a sender wait for space while a receiver waits for a message.
NoStandoff == k.wq[SendWait] = NULL \/ k.wq[RecvWait] = NULL
===============================================================================
