-------------------------------- MODULE BrList --------------------------------
(***************************************************************************)
(* The intrusive singly linked lists of the kernel.                        *)
(*                                                                         *)
(* A TCB has ONE link field, tcb->next, shared by the ready queues, the    *)
(* sleep list and every wait queue.  A list is a head pointer plus that    *)
(* shared array of links, so a TCB that sits on two lists corrupts both:   *)
(* nothing here assumes that lists are disjoint or even acyclic.           *)
(*                                                                         *)
(* In the C code a walk is a loop over a pointer to a link cell            *)
(* ("br_tcb_t **pp").  A cell is the `next' field of a TCB, named by that  *)
(* TCB, or the head itself, named by NULL.                                 *)
(***************************************************************************)
EXTENDS FiniteSets

CONSTANTS Tasks,  \* the TCBs of tcb_pool
          NULL    \* the null pointer, a model value

ASSUME ListAssumption == IsFiniteSet(Tasks) /\ NULL \notin Tasks

Links == [Tasks -> Tasks \cup {NULL}]

\* A list: its head pointer and the link array it shares with the others.
ListOf(h, nx) == [head |-> h, next |-> nx, halts |-> TRUE]

(***************************************************************************)
(* Reachability along `next' from task f, the walk ending in front of a    *)
(* task of Stop or at the end of the list.  x is reached iff it belongs to *)
(* every set that contains f and is closed under following the links.      *)
(***************************************************************************)
Ends(y, Stop) == y = NULL \/ y \in Stop

ClosedSets(nx, Stop) ==
    {S \in SUBSET Tasks : \A x \in S : Ends(nx[x], Stop) \/ nx[x] \in S}

Visited(f, nx, Stop) ==
    IF Ends(f, Stop)
    THEN {}
    ELSE LET C == ClosedSets(nx, Stop)
         IN  {x \in Tasks : \A S \in C : f \in S => x \in S}

\* The cells at which the walk from the head stops: one, or none when the
\* links form a cycle without a stopping point and the C loop never ends.
StopCells(l, Stop) ==
    IF Ends(l.head, Stop)
    THEN {NULL}
    ELSE {x \in Visited(l.head, l.next, Stop) : Ends(l.next[x], Stop)}

Deref(l, c) == IF c = NULL THEN l.head ELSE l.next[c]

\* *pp = y
Store(l, c, y) ==
    IF c = NULL THEN [l EXCEPT !.head = y] ELSE [l EXCEPT !.next[c] = y]

(***************************************************************************)
(* tcb->next = *pp; *pp = tcb;   at the first cell whose target is in Stop *)
(* (the tail when there is none).                                          *)
(***************************************************************************)
Insert(l, t, Stop) ==
    IF StopCells(l, Stop) = {}
    THEN [l EXCEPT !.halts = FALSE]
    ELSE LET c == CHOOSE x \in StopCells(l, Stop) : TRUE
         IN  Store([l EXCEPT !.next[t] = Deref(l, c)], c, t)

(***************************************************************************)
(* if *pp == tcb: *pp = tcb->next; tcb->next = NULL;                       *)
(* A task that is not found leaves the list as it was.                     *)
(***************************************************************************)
Unlink(l, t) ==
    IF StopCells(l, {t}) = {}
    THEN [l EXCEPT !.halts = FALSE]
    ELSE LET c == CHOOSE x \in StopCells(l, {t}) : TRUE
         IN  IF Deref(l, c) = t
             THEN Store(Store(l, c, l.next[t]), t, NULL)
             ELSE l

\* tcb = *head; *head = tcb->next; tcb->next = NULL;   (head not NULL)
Pop(l) ==
    [l EXCEPT !.head = l.next[l.head], !.next[l.head] = NULL]
===============================================================================
