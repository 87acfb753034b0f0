---------------------------- MODULE BrListProofs ----------------------------
(***************************************************************************)
(* What the list operations of BrList do, for every set of tasks: their    *)
(* types, where a walk stops and that it does.                             *)
(***************************************************************************)
EXTENDS BrList, TLAPS, Integers, FiniteSetTheorems, WellFoundedInduction

List == [head : Tasks \cup {NULL}, next : Links, halts : BOOLEAN]

\* A head pointer and the link array make a list.
LEMMA ListOfType ==
    ASSUME NEW h \in Tasks \cup {NULL}, NEW nx \in Links
    PROVE  ListOf(h, nx) \in List
BY DEF ListOf, List

\* A walk stops at a cell: the head or the link of a task, and what that
\* cell targets is a task of Stop or nothing.
LEMMA StopCellsType ==
    ASSUME NEW l \in List, NEW Stop, NEW c \in StopCells(l, Stop)
    PROVE  /\ c \in Tasks \cup {NULL}
           /\ Deref(l, c) \in Tasks \cup {NULL}
           /\ Ends(Deref(l, c), Stop)
<1>1. CASE Ends(l.head, Stop)
  BY <1>1 DEF StopCells, Deref, List
<1>2. CASE ~Ends(l.head, Stop)
  <2>1. c \in Visited(l.head, l.next, Stop) /\ Ends(l.next[c], Stop)
    BY <1>2 DEF StopCells
  <2>2. c \in Tasks
    BY <1>2, <2>1 DEF Visited
  <2>3. c # NULL
    BY <2>2, ListAssumption
  <2> QED BY <2>1, <2>2, <2>3 DEF Deref, List, Links
<1> QED BY <1>1, <1>2

\* A write through a pointer to a link cell keeps the types.
LEMMA StoreType ==
    ASSUME NEW l \in List, NEW c \in Tasks \cup {NULL},
           NEW y \in Tasks \cup {NULL}
    PROVE  Store(l, c, y) \in List
BY DEF Store, List, Links

\* So does the insertion loop ...
LEMMA InsertType ==
    ASSUME NEW l \in List, NEW t \in Tasks, NEW Stop
    PROVE  Insert(l, t, Stop) \in List
<1>1. CASE StopCells(l, Stop) = {}
  BY <1>1 DEF Insert, List
<1>2. CASE StopCells(l, Stop) # {}
  <2> DEFINE c == CHOOSE x \in StopCells(l, Stop) : TRUE
  <2>1. c \in StopCells(l, Stop)
    BY <1>2
  <2>2. c \in Tasks \cup {NULL} /\ Deref(l, c) \in Tasks \cup {NULL}
    BY <2>1, StopCellsType
  <2> HIDE DEF c
  <2>3. [l EXCEPT !.next[t] = Deref(l, c)] \in List
    BY <2>2 DEF List, Links
  <2>4. Store([l EXCEPT !.next[t] = Deref(l, c)], c, t) \in List
    BY <2>2, <2>3, StoreType
  <2> QED BY <1>2, <2>4 DEF Insert, c
<1> QED BY <1>1, <1>2

\* ... the removal loop ...
LEMMA UnlinkType ==
    ASSUME NEW l \in List, NEW t \in Tasks
    PROVE  Unlink(l, t) \in List
<1>1. CASE StopCells(l, {t}) = {}
  BY <1>1 DEF Unlink, List
<1>2. CASE StopCells(l, {t}) # {}
  <2> DEFINE c == CHOOSE x \in StopCells(l, {t}) : TRUE
  <2>1. c \in StopCells(l, {t})
    BY <1>2
  <2>2. c \in Tasks \cup {NULL}
    BY <2>1, StopCellsType
  <2> HIDE DEF c
  <2>3. l.next[t] \in Tasks \cup {NULL}
    BY DEF List, Links
  <2>4. Store(l, c, l.next[t]) \in List
    BY <2>2, <2>3, StoreType
  <2>5. Store(Store(l, c, l.next[t]), t, NULL) \in List
    BY <2>4, StoreType
  <2> QED BY <1>2, <2>5 DEF Unlink, c
<1> QED BY <1>1, <1>2

\* ... and taking the first task off a list.
LEMMA PopType ==
    ASSUME NEW l \in List, l.head # NULL
    PROVE  Pop(l) \in List
BY DEF Pop, List, Links

-------------------------------------------------------------------------------
(***************************************************************************)
(* Well-formed queues.  A family of lists, one per index of I, with the    *)
(* heads h holds exactly the tasks of Mem: heads and links of members      *)
(* target members, no two of them the same one, and every member is        *)
(* reached (a set that contains the heads and follows the links is Mem).   *)
(***************************************************************************)
Within(S, y) == y = NULL \/ y \in S

Queue(I, h, nx, Mem) ==
    /\ \A i \in I : Within(Mem, h[i])
    /\ \A x \in Mem : Within(Mem, nx[x])
    /\ \A i, j \in I : h[i] = h[j] => i = j \/ h[i] = NULL
    /\ \A x, y \in Mem : nx[x] = nx[y] => x = y \/ nx[x] = NULL
    /\ \A i \in I, x \in Mem : h[i] = NULL \/ h[i] # nx[x]
    /\ \A S \in SUBSET Mem :
          /\ \A i \in I : Within(S, h[i])
          /\ \A x \in S : Within(S, nx[x])
          => S = Mem

\* A walk along a well-formed queue visits members only.
LEMMA VisitedMembers ==
    ASSUME NEW I, NEW h, NEW nx \in Links, NEW Mem \in SUBSET Tasks,
           Queue(I, h, nx, Mem), NEW i \in I, NEW Stop, ~Ends(h[i], Stop)
    PROVE  Visited(h[i], nx, Stop) \subseteq Mem
<1>1. Mem \in ClosedSets(nx, Stop)
  BY DEF Queue, Within, ClosedSets, Ends
<1>2. h[i] \in Mem
  BY DEF Queue, Within, Ends
<1> QED BY <1>1, <1>2 DEF Visited

\* A walk to the end of the list follows every link.
LEMMA VisitedStep ==
    ASSUME NEW nx \in Links, NEW f \in Tasks
    PROVE  /\ f \in Visited(f, nx, {})
           /\ \A x \in Visited(f, nx, {}) : Within(Visited(f, nx, {}), nx[x])
<1> DEFINE V == Visited(f, nx, {})
<1>1. ~Ends(f, {})
  BY ListAssumption DEF Ends
<1>2. f \in V
  BY <1>1 DEF Visited
<1>3. ASSUME NEW x \in V, nx[x] # NULL
      PROVE  nx[x] \in V
  <2>1. x \in Tasks /\ nx[x] \in Tasks
    BY <1>1, <1>3 DEF Visited, Links
  <2>2. \A S \in ClosedSets(nx, {}) : f \in S => x \in S
    BY <1>1 DEF Visited
  <2>3. \A S \in ClosedSets(nx, {}) : f \in S => nx[x] \in S
    BY <1>3, <2>2 DEF ClosedSets, Ends
  <2> QED BY <1>1, <2>1, <2>3 DEF Visited
<1> QED BY <1>2, <1>3 DEF Within

\* The walks along a well-formed queue to its end visit all its members.
LEMMA VisitedQueue ==
    ASSUME NEW I, NEW h, NEW nx \in Links, NEW Mem \in SUBSET Tasks,
           Queue(I, h, nx, Mem)
    PROVE  \A x : x \in Mem <=> \E i \in I : x \in Visited(h[i], nx, {})
<1> DEFINE S == UNION {Visited(h[i], nx, {}) : i \in I}
<1>1. ASSUME NEW i \in I
      PROVE  /\ Visited(h[i], nx, {}) \subseteq Mem
             /\ h[i] # NULL => h[i] \in Visited(h[i], nx, {})
             /\ \A x \in Visited(h[i], nx, {}) :
                   Within(Visited(h[i], nx, {}), nx[x])
  <2>1. CASE h[i] = NULL
    BY <2>1 DEF Visited, Ends
  <2>2. CASE h[i] # NULL
    <3>1. h[i] \in Tasks
      BY <2>2 DEF Queue, Within
    <3>2. ~Ends(h[i], {})
      BY <2>2 DEF Ends
    <3> QED BY <3>1, <3>2, VisitedStep, VisitedMembers
  <2> QED BY <2>1, <2>2
<1>2. S \in SUBSET Mem
  BY <1>1
<1>3. \A i \in I : Within(S, h[i])
  BY <1>1 DEF Within
<1>4. \A x \in S : Within(S, nx[x])
  BY <1>1 DEF Within
<1> HIDE DEF S
<1>5. S = Mem
  BY <1>2, <1>3, <1>4 DEF Queue
<1> QED BY <1>5 DEF S

\* The cell where it stops is the head or the link of a member.
LEMMA StopCellInQueue ==
    ASSUME NEW I, NEW h, NEW nx \in Links, NEW Mem \in SUBSET Tasks,
           Queue(I, h, nx, Mem), NEW i \in I, NEW Stop,
           NEW c \in StopCells(ListOf(h[i], nx), Stop)
    PROVE  c = NULL \/ c \in Mem
<1>1. CASE Ends(h[i], Stop)
  BY <1>1 DEF StopCells, ListOf
<1>2. CASE ~Ends(h[i], Stop)
  BY <1>2, VisitedMembers DEF StopCells, ListOf
<1> QED BY <1>1, <1>2

\* It does stop: a walk that never did would map its finitely many tasks to
\* each other one to one, and the first of them is the target of none.
LEMMA WalkStops ==
    ASSUME NEW I, NEW h, NEW nx \in Links, NEW Mem \in SUBSET Tasks,
           Queue(I, h, nx, Mem), NEW i \in I, NEW Stop
    PROVE  StopCells(ListOf(h[i], nx), Stop) # {}
<1>1. CASE Ends(h[i], Stop)
  BY <1>1 DEF StopCells, ListOf
<1>2. CASE ~Ends(h[i], Stop)
  <2> DEFINE f == h[i]
             V == Visited(f, nx, Stop)
  <2>1. V \subseteq Mem /\ V \subseteq Tasks
    BY <1>2, VisitedMembers
  <2>2. f \in V
    BY <1>2 DEF Visited, Queue, Within, Ends
  <2> SUFFICES ASSUME \A x \in V : ~Ends(nx[x], Stop) PROVE FALSE
    BY <1>2 DEF StopCells, ListOf
  <2>3. \A x \in V : nx[x] \in V
    <3> SUFFICES ASSUME NEW x \in V PROVE nx[x] \in V
      OBVIOUS
    <3>1. x \in Tasks /\ nx[x] \in Tasks
      BY <2>1 DEF Links, Ends
    <3>2. \A S \in ClosedSets(nx, Stop) : f \in S => x \in S
      BY <1>2 DEF Visited
    <3>3. \A S \in ClosedSets(nx, Stop) : f \in S => nx[x] \in S
      BY <3>2 DEF ClosedSets
    <3> QED BY <1>2, <3>1, <3>3 DEF Visited
  <2>4. IsFiniteSet(V) /\ IsFiniteSet(V \ {f})
        /\ Cardinality(V \ {f}) = Cardinality(V) - 1
        /\ Cardinality(V) \in Nat
    <3>1. IsFiniteSet(V)
      BY <2>1, FS_Subset, ListAssumption
    <3> QED BY <2>2, <3>1, FS_RemoveElement, FS_CardinalityType
  <2> DEFINE g == [x \in V |-> nx[x]]
  <2>5. \A x \in V : nx[x] # f
    BY <1>2, <2>1, <2>2 DEF Queue, Ends
  <2>6. g \in [V -> V \ {f}]
    BY <2>3, <2>5
  <2>9. Cardinality(V \ {f}) < Cardinality(V)
    BY <2>4
  <2> HIDE DEF V, g
  <2>10. \E x, y \in V : x # y /\ g[x] = g[y]
    BY <2>4, <2>6, <2>9, FS_PigeonHole, Zenon
  <2>7. PICK x, y \in V : x # y /\ nx[x] = nx[y]
    BY <2>10 DEF g
  <2>8. nx[x] # NULL
    BY DEF Ends
  <2> QED BY <2>1, <2>7, <2>8 DEF Queue
<1> QED BY <1>1, <1>2

\* A queue depends on the links of its members only.
LEMMA QueueFrame ==
    ASSUME NEW I, NEW h, NEW nx, NEW ny, NEW Mem, Queue(I, h, nx, Mem),
           \A x \in Mem : ny[x] = nx[x]
    PROVE  Queue(I, h, ny, Mem)
<1>1. \A S \in SUBSET Mem : \A x \in S : ny[x] = nx[x]
  OBVIOUS
<1> QED BY <1>1 DEF Queue

\* The links of the tasks outside S are untouched.
SameOutside(S, nx, ny) == \A x \in Tasks \ S : ny[x] = nx[x]

\* The list l is what the insertion of t into list i of a family makes of it;
\* hh, ny and M2 are the heads, the links and the members then.
Inserted(I, h, nx, Mem, i, Stop, t, l, hh, ny, M2) ==
    /\ h \in [I -> Tasks \cup {NULL}] /\ nx \in Links /\ i \in I
    /\ Mem \in SUBSET Tasks /\ t \in Tasks \ Mem
    /\ Queue(I, h, nx, Mem)
    /\ l = Insert(ListOf(h[i], nx), t, Stop)
    /\ hh = [h EXCEPT ![i] = l.head] /\ ny = l.next /\ M2 = Mem \cup {t}

\* Insertion adds the task to the members and touches no other queue.
LEMMA InsertQueue ==
    ASSUME NEW I, NEW h, NEW nx, NEW Mem, NEW i, NEW Stop, NEW t, NEW l,
           NEW hh, NEW ny, NEW M2,
           Inserted(I, h, nx, Mem, i, Stop, t, l, hh, ny, M2)
    PROVE  l.halts /\ Queue(I, hh, ny, M2) /\ SameOutside(M2, nx, ny)
<1> DEFINE l0 == ListOf(h[i], nx)
           c  == CHOOSE x \in StopCells(l0, Stop) : TRUE
           y  == Deref(l0, c)
           n2 == IF c = NULL THEN [nx EXCEPT ![t] = y]
                             ELSE [nx EXCEPT ![t] = y, ![c] = t]
<1> USE DEF Inserted
<1>11. StopCells(l0, Stop) # {}
  BY WalkStops
<1>1. c \in StopCells(l0, Stop)
  BY <1>11
<1>2. c = NULL \/ c \in Mem
  BY <1>1, StopCellInQueue
<1>3. y = (IF c = NULL THEN h[i] ELSE nx[c]) /\ Within(Mem, y)
  <2>1. y = IF c = NULL THEN h[i] ELSE nx[c]
    BY DEF Deref, ListOf
  <2>2. Within(Mem, h[i]) /\ \A x \in Mem : Within(Mem, nx[x])
    BY DEF Queue
  <2> HIDE DEF y, c
  <2> QED BY <1>2, <2>1, <2>2
<1>4. l.halts /\ l.head = (IF c = NULL THEN t ELSE h[i]) /\ l.next = n2
  <2>1. l = Store([l0 EXCEPT !.next[t] = y], c, t)
    BY <1>1 DEF Insert
  <2>2. CASE c = NULL
    BY <2>1, <2>2 DEF Store, ListOf
  <2>3. CASE c # NULL
    BY <2>1, <2>3 DEF Store, ListOf
  <2> QED BY <2>2, <2>3
<1> HIDE DEF c, y, l0
<1>5. \A x \in Tasks : n2[x] = IF x = t THEN y ELSE IF x = c THEN t ELSE nx[x]
  BY <1>2, ListAssumption DEF Links
<1>6. \A j \in I : hh[j] = IF c = NULL /\ j = i THEN t ELSE h[j]
  BY <1>4
<1> HIDE DEF n2
<1>7. Queue(I, hh, n2, Mem \cup {t})
  <2> DEFINE M == Mem \cup {t}
  <2>0. t \notin Mem /\ t # NULL /\ c # t /\ y # t /\ NULL \notin Mem
    BY <1>2, <1>3, ListAssumption DEF Within
  <2>1. \A j \in I : Within(M, hh[j])
    BY <1>6 DEF Queue, Within
  <2>2. \A x \in M : Within(M, n2[x])
    BY <1>3, <1>5 DEF Queue, Within
  <2>3. \A j, m \in I : hh[j] = hh[m] => j = m \/ hh[j] = NULL
    BY <1>6, <2>0 DEF Queue, Within
  <2>4. \A a, b \in M : n2[a] = n2[b] => a = b \/ n2[a] = NULL
    BY <1>2, <1>3, <1>5, <2>0 DEF Queue, Within
  <2>5. \A j \in I, x \in M : hh[j] = NULL \/ hh[j] # n2[x]
    BY <1>2, <1>3, <1>5, <1>6, <2>0 DEF Queue, Within
  <2>6. ASSUME NEW S \in SUBSET M,
               \A j \in I : Within(S, hh[j]),
               \A x \in S : Within(S, n2[x])
        PROVE  S = M
    <3> DEFINE R == S \ {t}
    <3>1. t \in S => Within(R, y)
      BY <1>5, <2>0, <2>6 DEF Within
    <3>2. c = NULL => t \in S
      BY <1>6, <2>0, <2>6 DEF Within
    <3>3. \A j \in I : Within(R, h[j])
      BY <1>3, <1>6, <2>0, <2>6, <3>1, <3>2 DEF Within, Queue
    <3>4. \A x \in R : Within(R, nx[x])
      BY <1>3, <1>5, <2>0, <2>6, <3>1 DEF Within, Queue
    <3>5. R = Mem
      BY <3>3, <3>4 DEF Queue
    <3>6. t \in S
      BY <1>2, <1>5, <2>0, <2>6, <3>2, <3>5 DEF Within
    <3> QED BY <3>5, <3>6
  <2> QED BY <2>1, <2>2, <2>3, <2>4, <2>5, <2>6 DEF Queue
<1>8. \A x \in Tasks \ (Mem \cup {t}) : n2[x] = nx[x]
  BY <1>2, <1>5, ListAssumption
<1> QED BY <1>4, <1>7, <1>8 DEF SameOutside

\* The list l is what the removal of the first task t of list i makes of it.
Popped(I, h, nx, Mem, i, t, l, hh, ny, M2) ==
    /\ h \in [I -> Tasks \cup {NULL}] /\ nx \in Links /\ i \in I
    /\ Mem \in SUBSET Tasks /\ t = h[i] /\ t # NULL
    /\ Queue(I, h, nx, Mem)
    /\ l = Pop(ListOf(t, nx))
    /\ hh = [h EXCEPT ![i] = l.head] /\ ny = l.next /\ M2 = Mem \ {t}

\* Taking the first task off a list removes it from the members.
LEMMA PopQueue ==
    ASSUME NEW I, NEW h, NEW nx, NEW Mem, NEW i, NEW t, NEW l, NEW hh, NEW ny,
           NEW M2, Popped(I, h, nx, Mem, i, t, l, hh, ny, M2)
    PROVE  /\ l.halts /\ t \in Mem /\ ny[t] = NULL
           /\ Queue(I, hh, ny, M2) /\ SameOutside({t}, nx, ny)
<1> USE DEF Popped
<1> DEFINE M  == Mem \ {t}
<1>1. t \in Mem
  BY DEF Queue, Within
<1>2. /\ l.halts /\ l.head = nx[t] /\ l.next[t] = NULL
      /\ \A x \in Tasks \ {t} : l.next[x] = nx[x]
  BY <1>1 DEF Pop, ListOf, Links
<1>3. \A j \in I : hh[j] = IF j = i THEN nx[t] ELSE h[j]
  BY <1>2
<1>4. nx[t] # t
  BY <1>1 DEF Queue
<1>5. \A j \in I : Within(M, hh[j])
  BY <1>1, <1>3, <1>4 DEF Queue, Within
<1>6. \A x \in M : Within(M, nx[x])
  BY <1>1 DEF Queue, Within
<1>7. /\ \A j, m \in I : hh[j] = hh[m] => j = m \/ hh[j] = NULL
      /\ \A j \in I, x \in M : hh[j] = NULL \/ hh[j] # nx[x]
  BY <1>1, <1>3 DEF Queue
<1>8. ASSUME NEW S \in SUBSET M,
             \A j \in I : Within(S, hh[j]),
             \A x \in S : Within(S, nx[x])
      PROVE  S = M
  <2> DEFINE R == S \cup {t}
  <2>1. \A j \in I : Within(R, h[j])
    BY <1>3, <1>8 DEF Within
  <2>2. \A x \in R : Within(R, nx[x])
    BY <1>3, <1>8 DEF Within
  <2>3. R \in SUBSET Mem
    BY <1>1
  <2>4. R = Mem
    BY <2>1, <2>2, <2>3 DEF Queue
  <2> QED BY <2>4
<1>9. Queue(I, hh, nx, M)
  BY <1>5, <1>6, <1>7, <1>8 DEF Queue
<1>10. Queue(I, hh, l.next, M)
  BY <1>2, <1>9, QueueFrame
<1> QED BY <1>1, <1>2, <1>10 DEF SameOutside

\* Searching a queue for a task that is no member changes nothing.
LEMMA UnlinkAbsent ==
    ASSUME NEW I, NEW h, NEW nx \in Links,
           NEW Mem \in SUBSET Tasks, Queue(I, h, nx, Mem),
           NEW i \in I, NEW t \in Tasks \ Mem
    PROVE  Unlink(ListOf(h[i], nx), t) = ListOf(h[i], nx)
<1> DEFINE l == ListOf(h[i], nx)
           c == CHOOSE x \in StopCells(l, {t}) : TRUE
<1>1. c \in StopCells(l, {t})
  BY WalkStops
<1>2. c = NULL \/ c \in Mem
  BY <1>1, StopCellInQueue
<1>3. Within(Mem, Deref(l, c)) /\ t # NULL
  BY <1>2, ListAssumption DEF Deref, ListOf, Queue
<1>4. Deref(l, c) # t
  BY <1>3 DEF Within
<1> QED BY <1>1, <1>4 DEF Unlink

-------------------------------------------------------------------------------
(* Where a walk goes, and which cells an operation writes. *)

\* What a walk visits contains its start and follows the links up to a
\* stopping point.
LEMMA VisitedCloses ==
    ASSUME NEW nx \in Links, NEW f \in Tasks, NEW Stop, ~Ends(f, Stop),
           NEW V, V = Visited(f, nx, Stop)
    PROVE  /\ V \in SUBSET Tasks /\ f \in V
           /\ \A x \in V : Ends(nx[x], Stop) \/ nx[x] \in V
<1> DEFINE C == ClosedSets(nx, Stop)
<1>1. \A S : S \in C <=> /\ S \in SUBSET Tasks
                         /\ \A x \in S : Ends(nx[x], Stop) \/ nx[x] \in S
  BY DEF ClosedSets
<1>2. \A x : x \in V <=> x \in Tasks /\ \A S \in C : f \in S => x \in S
  BY DEF Visited
<1> HIDE DEF C
<1>3. ASSUME NEW x \in V, ~Ends(nx[x], Stop)
      PROVE  nx[x] \in V
  <2>1. nx[x] \in Tasks
    BY <1>2, <1>3 DEF Links, Ends
  <2> QED BY <1>1, <1>2, <1>3, <2>1
<1>4. V \in SUBSET Tasks /\ f \in V
  BY <1>2
<1> QED BY <1>3, <1>4

\* It is the least such set.
LEMMA VisitedLeast ==
    ASSUME NEW nx, NEW f, NEW Stop, ~Ends(f, Stop), NEW S \in SUBSET Tasks,
           f \in S, \A x \in S : Ends(nx[x], Stop) \/ nx[x] \in S
    PROVE  Visited(f, nx, Stop) \subseteq S
BY DEF Visited, ClosedSets

\* It visits no task it would have stopped at.
LEMMA VisitedOutside ==
    ASSUME NEW nx \in Links, NEW f \in Tasks, NEW Stop, ~Ends(f, Stop)
    PROVE  \A x \in Visited(f, nx, Stop) : x \notin Stop
<1> DEFINE V == Visited(f, nx, Stop)
           S == V \ Stop
<1>1. V = Visited(f, nx, Stop)
  OBVIOUS
<1> HIDE DEF V
<1>2. /\ V \in SUBSET Tasks /\ f \in V
      /\ \A x \in V : Ends(nx[x], Stop) \/ nx[x] \in V
  BY <1>1, VisitedCloses
<1>3. S \in SUBSET Tasks /\ f \in S
      /\ \A x \in S : Ends(nx[x], Stop) \/ nx[x] \in S
  BY <1>2 DEF Ends
<1>4. V \subseteq S
  BY <1>1, <1>3, VisitedLeast
<1> QED BY <1>1, <1>4

\* It has one end at most: the tasks from which a walk reaches that end are
\* all the tasks it visits.
LEMMA StopsOnce ==
    ASSUME NEW nx \in Links, NEW f \in Tasks, NEW Stop, ~Ends(f, Stop),
           NEW a \in Visited(f, nx, Stop), Ends(nx[a], Stop),
           NEW b \in Visited(f, nx, Stop), Ends(nx[b], Stop)
    PROVE  a = b
<1> DEFINE V == Visited(f, nx, Stop)
           T == {y \in V : a \in Visited(y, nx, Stop)}
<1>1. V = Visited(f, nx, Stop)
  OBVIOUS
<1>2. /\ V \in SUBSET Tasks /\ f \in V
      /\ \A x \in V : Ends(nx[x], Stop) \/ nx[x] \in V
  BY VisitedCloses
<1>3. \A x \in V : x \in Tasks /\ ~Ends(x, Stop)
  BY <1>2, VisitedOutside, ListAssumption DEF Ends
<1>4. ASSUME NEW y \in T
      PROVE  Ends(nx[y], Stop) \/ nx[y] \in T
  <2> SUFFICES ASSUME ~Ends(nx[y], Stop) PROVE nx[y] \in T
    OBVIOUS
  <2> DEFINE z == nx[y]
             Z == Visited(z, nx, Stop)
  <2>1. y \in V /\ z \in V /\ a \in Visited(y, nx, Stop)
    BY <1>2
  <2>2. z \in Tasks /\ ~Ends(z, Stop) /\ y \in Tasks /\ ~Ends(y, Stop)
    BY <1>3, <2>1
  <2>3. /\ Z \in SUBSET Tasks /\ z \in Z
        /\ \A x \in Z : Ends(nx[x], Stop) \/ nx[x] \in Z
    <3> HIDE DEF z
    <3> QED BY <2>2, VisitedCloses
  <2>4. Visited(y, nx, Stop) \subseteq Z \cup {y}
    <3> HIDE DEF Z
    <3> DEFINE Y == Z \cup {y}
    <3>1. /\ Y \in SUBSET Tasks /\ y \in Y
          /\ \A x \in Y : Ends(nx[x], Stop) \/ nx[x] \in Y
      BY <2>2, <2>3
    <3> HIDE DEF Y
    <3>2. Visited(y, nx, Stop) \subseteq Y
      BY <2>2, <3>1, VisitedLeast
    <3> QED BY <3>2 DEF Y
  <2>5. a # y
    OBVIOUS
  <2>6. a \in Z
    BY <2>1, <2>4, <2>5
  <2> QED BY <2>1, <2>6
<1>5. V \subseteq T
  <2>1. T \in SUBSET Tasks /\ f \in T
    BY <1>2
  <2> HIDE DEF T, V
  <2> QED BY <1>1, <1>4, <2>1, VisitedLeast
<1>6. a \in Visited(b, nx, Stop)
  BY <1>5
<1>7. Visited(b, nx, Stop) \subseteq {b}
  <2>1. b \in Tasks /\ ~Ends(b, Stop)
    BY <1>3
  <2> DEFINE B == {b}
  <2>2. B \in SUBSET Tasks /\ b \in B /\ \A x \in B : Ends(nx[x], Stop) \/ nx[x] \in B
    BY <2>1
  <2> HIDE DEF B
  <2>3. Visited(b, nx, Stop) \subseteq B
    BY <2>1, <2>2, VisitedLeast
  <2> QED BY <2>3 DEF B
<1> QED BY <1>6, <1>7

\* The walk that looks for a task on its way stops at the cell that targets it.
LEMMA WalkFinds ==
    ASSUME NEW nx \in Links, NEW f \in Tasks,
           NEW t \in Visited(f, nx, {}),
           NEW c \in StopCells(ListOf(f, nx), {t})
    PROVE  /\ Deref(ListOf(f, nx), c) = t
           /\ f = t => c = NULL
           /\ f # t => c \in Visited(f, nx, {t}) /\ c \in Tasks /\ c # t
<1>0. ~Ends(f, {}) /\ f # NULL /\ t \in Tasks
  BY ListAssumption DEF Ends, Visited
<1>1. CASE f = t
  BY <1>1 DEF StopCells, ListOf, Ends, Deref
<1>2. CASE f # t
  <2> DEFINE V == Visited(f, nx, {t})
             S == Visited(f, nx, {})
  <2>1. ~Ends(f, {t})
    BY <1>0, <1>2 DEF Ends
  <2>2. c \in V /\ Ends(nx[c], {t})
    BY <2>1 DEF StopCells, ListOf
  <2>3. /\ V \in SUBSET Tasks /\ f \in V
        /\ \A x \in V : Ends(nx[x], {t}) \/ nx[x] \in V
    BY <2>1, VisitedCloses
  <2>4. t \notin V
    BY <2>1, VisitedOutside
  <2>5. \E x \in V : nx[x] = t
    <3> SUFFICES ASSUME \A x \in V : nx[x] # t PROVE FALSE
      OBVIOUS
    <3>1. \A x \in V : Ends(nx[x], {}) \/ nx[x] \in V
      BY <2>3 DEF Ends
    <3>2. S \subseteq V
      <4> HIDE DEF V
      <4> QED BY <1>0, <2>3, <3>1, VisitedLeast
    <3> QED BY <2>4, <3>2
  <2>6. PICK x \in V : nx[x] = t
    BY <2>5
  <2>7. Ends(nx[x], {t})
    BY <2>6 DEF Ends
  <2>8. x = c
    BY <2>1, <2>2, <2>6, <2>7, StopsOnce
  <2>9. c \in Tasks /\ c # NULL /\ c # t
    BY <2>2, <2>3, <2>4, ListAssumption
  <2> QED BY <1>2, <2>2, <2>6, <2>8, <2>9 DEF Deref, ListOf
<1> QED BY <1>1, <1>2

\* Insertion writes two cells: the new task's link and the cell whose target
\* comes behind it.
Between(I, h, nx, Mem, i, Stop, t, l, c, y) ==
    /\ \/ c = NULL
       \/ c \in Visited(h[i], nx, Stop) /\ c \in Mem /\ c \notin Stop
    /\ y = IF c = NULL THEN h[i] ELSE nx[c]
    /\ Within(Mem, y) /\ Ends(y, Stop)
    /\ l.head = IF c = NULL THEN t ELSE h[i]
    /\ \A x \in Tasks : l.next[x] = IF x = t THEN y ELSE IF x = c THEN t ELSE nx[x]

LEMMA InsertLinks ==
    ASSUME NEW I, NEW h, NEW nx, NEW Mem, NEW i, NEW Stop, NEW t, NEW l,
           NEW hh, NEW ny, NEW M2,
           Inserted(I, h, nx, Mem, i, Stop, t, l, hh, ny, M2)
    PROVE  \E c, y : Between(I, h, nx, Mem, i, Stop, t, l, c, y)
<1> DEFINE l0 == ListOf(h[i], nx)
           c  == CHOOSE x \in StopCells(l0, Stop) : TRUE
           y  == Deref(l0, c)
<1> USE DEF Inserted
<1>1. c \in StopCells(l0, Stop)
  <2>1. StopCells(l0, Stop) # {}
    BY WalkStops
  <2> QED BY <2>1
<1>2. c = NULL \/ c \in Mem
  BY <1>1, StopCellInQueue
<1>3. y = (IF c = NULL THEN h[i] ELSE nx[c]) /\ Within(Mem, y)
  <2>1. y = IF c = NULL THEN h[i] ELSE nx[c]
    BY DEF Deref, ListOf
  <2>2. Within(Mem, h[i]) /\ \A x \in Mem : Within(Mem, nx[x])
    BY DEF Queue
  <2> HIDE DEF y, c
  <2> QED BY <1>2, <2>1, <2>2
<1>4. Ends(y, Stop)
  <2>1. l0 \in List
    BY ListOfType
  <2> HIDE DEF l0, c
  <2> QED BY <1>1, <2>1, StopCellsType
<1>5. c # NULL => c \in Visited(h[i], nx, Stop) /\ c \notin Stop
  <2>1. c # NULL => c \in Visited(h[i], nx, Stop) /\ ~Ends(h[i], Stop)
    BY <1>1 DEF StopCells, ListOf
  <2>2. ~Ends(h[i], Stop) => h[i] \in Tasks
    BY DEF Ends
  <2> HIDE DEF c
  <2> QED BY <2>1, <2>2, VisitedOutside
<1>6. l = Store([l0 EXCEPT !.next[t] = y], c, t)
  BY <1>1 DEF Insert
<1>7. /\ l.head = IF c = NULL THEN t ELSE h[i]
      /\ l.next = IF c = NULL THEN [nx EXCEPT ![t] = y]
                  ELSE [nx EXCEPT ![t] = y, ![c] = t]
  <2>1. CASE c = NULL
    BY <1>6, <2>1 DEF Store, ListOf
  <2>2. CASE c # NULL
    BY <1>6, <2>2 DEF Store, ListOf
  <2> QED BY <2>1, <2>2
<1> HIDE DEF c, y, l0
<1>8. \A x \in Tasks : l.next[x] = IF x = t THEN y ELSE IF x = c THEN t ELSE nx[x]
  BY <1>2, <1>7, ListAssumption DEF Links
<1>9. Between(I, h, nx, Mem, i, Stop, t, l, c, y)
  BY <1>2, <1>3, <1>4, <1>5, <1>7, <1>8 DEF Between
<1> QED BY <1>9

\* The list l is what the removal of t, which is on list i, makes of it.
Unlinked(I, h, nx, Mem, i, t, l, hh, ny, M2) ==
    /\ h \in [I -> Tasks \cup {NULL}] /\ nx \in Links /\ i \in I
    /\ Mem \in SUBSET Tasks /\ t \in Visited(h[i], nx, {})
    /\ Queue(I, h, nx, Mem)
    /\ l = Unlink(ListOf(h[i], nx), t)
    /\ hh = [h EXCEPT ![i] = l.head] /\ ny = l.next /\ M2 = Mem \ {t}

\* Its predecessor c (NULL: the head) now targets the task behind it.
Bypassed(h, nx, Mem, i, t, l, c) ==
    /\ t \in Mem /\ t # NULL /\ c # t
    /\ c = NULL \/ c \in Mem
    /\ l.halts /\ l.next[t] = NULL
    /\ IF c = NULL THEN h[i] = t /\ l.head = nx[t]
                   ELSE nx[c] = t /\ l.next[c] = nx[t] /\ l.head = h[i]
    /\ \A x \in Tasks : x # t /\ x # c => l.next[x] = nx[x]

LEMMA UnlinkLinks ==
    ASSUME NEW I, NEW h, NEW nx, NEW Mem, NEW i, NEW t, NEW l, NEW hh, NEW ny,
           NEW M2, Unlinked(I, h, nx, Mem, i, t, l, hh, ny, M2)
    PROVE  \E c : Bypassed(h, nx, Mem, i, t, l, c)
<1> DEFINE l0 == ListOf(h[i], nx)
           c  == CHOOSE x \in StopCells(l0, {t}) : TRUE
<1> USE DEF Unlinked
<1>1. c \in StopCells(l0, {t})
  <2>1. StopCells(l0, {t}) # {}
    BY WalkStops
  <2> QED BY <2>1
<1>2. c = NULL \/ c \in Mem
  BY <1>1, StopCellInQueue
<1>3. h[i] # NULL
  BY DEF Visited, Ends
<1>4. h[i] \in Tasks /\ ~Ends(h[i], {})
  BY <1>3 DEF Ends
<1>5. t \in Mem /\ t \in Tasks /\ t # NULL
  <2>1. Visited(h[i], nx, {}) \subseteq Mem
    BY <1>4, VisitedMembers
  <2> QED BY <2>1, ListAssumption
<1>6. /\ Deref(l0, c) = t
      /\ h[i] = t => c = NULL
      /\ h[i] # t => c \in Tasks /\ c # t
  <2> HIDE DEF c
  <2> QED BY <1>1, <1>4, WalkFinds
<1>7. l = Store(Store(l0, c, nx[t]), t, NULL)
  <2>1. l0.next = nx
    BY DEF ListOf
  <2> HIDE DEF l0
  <2> QED BY <1>1, <1>6, <2>1 DEF Unlink, l0
<1> HIDE DEF c
<1>8. CASE c = NULL
  <2>1. l = [head |-> nx[t], next |-> [nx EXCEPT ![t] = NULL], halts |-> TRUE]
    BY <1>5, <1>7, <1>8 DEF Store, ListOf
  <2>2. h[i] = t
    BY <1>6, <1>8 DEF Deref, ListOf
  <2> QED BY <1>5, <1>8, <2>1, <2>2 DEF Bypassed, Links
<1>9. CASE c # NULL
  <2>1. l = [head |-> h[i], next |-> [nx EXCEPT ![c] = nx[t], ![t] = NULL],
             halts |-> TRUE]
    BY <1>5, <1>7, <1>9 DEF Store, ListOf
  <2>2. nx[c] = t /\ c \in Mem /\ c # t /\ c \in Tasks
    BY <1>2, <1>6, <1>9 DEF Deref, ListOf
  <2> QED BY <1>5, <1>9, <2>1, <2>2 DEF Bypassed, Links
<1> QED BY <1>8, <1>9

\* Removal from anywhere in a list takes the task from the members and
\* touches no other queue.
LEMMA UnlinkQueue ==
    ASSUME NEW I, NEW h, NEW nx, NEW Mem, NEW i, NEW t, NEW l, NEW hh, NEW ny,
           NEW M2, Unlinked(I, h, nx, Mem, i, t, l, hh, ny, M2)
    PROVE  /\ l.halts /\ t \in Mem /\ ny[t] = NULL
           /\ Queue(I, hh, ny, M2) /\ SameOutside(Mem, nx, ny)
<1>1. PICK c : Bypassed(h, nx, Mem, i, t, l, c)
  BY UnlinkLinks
<1> USE DEF Unlinked
<1>2. /\ t \in Mem /\ t # NULL /\ c # t /\ NULL \notin Mem
      /\ c = NULL \/ c \in Mem
      /\ c = NULL => h[i] = t
      /\ c # NULL => nx[c] = t
  BY <1>1, ListAssumption DEF Bypassed
<1>3. /\ \A x \in Mem : ny[x] = IF x = t THEN NULL ELSE IF x = c THEN nx[t] ELSE nx[x]
      /\ \A j \in I : hh[j] = IF c = NULL /\ j = i THEN nx[t] ELSE h[j]
      /\ \A x \in Tasks \ Mem : ny[x] = nx[x]
      /\ l.halts /\ ny[t] = NULL
  BY <1>1, ListAssumption DEF Bypassed
<1>4. /\ \A j \in I : Within(Mem, h[j])
      /\ \A x \in Mem : Within(Mem, nx[x])
      /\ \A j, m \in I : h[j] = h[m] => j = m \/ h[j] = NULL
      /\ \A x, y \in Mem : nx[x] = nx[y] => x = y \/ nx[x] = NULL
      /\ \A j \in I, x \in Mem : h[j] = NULL \/ h[j] # nx[x]
      /\ \A S \in SUBSET Mem :
            /\ \A j \in I : Within(S, h[j])
            /\ \A x \in S : Within(S, nx[x])
            => S = Mem
  BY DEF Queue
<1>5. nx[t] # t
  BY <1>2, <1>4
<1>6. i \in I /\ M2 = Mem \ {t}
  OBVIOUS
<1>7. /\ \A j \in I : h[j] = t => c = NULL /\ j = i
      /\ \A x \in Mem : nx[x] = t => x = c
  BY <1>2, <1>4, <1>6
<1> HIDE DEF Unlinked
<1>8. \A j \in I : Within(M2, hh[j])
  BY <1>2, <1>3, <1>4, <1>5, <1>6, <1>7 DEF Within
<1>9. \A x \in M2 : Within(M2, ny[x])
  BY <1>2, <1>3, <1>4, <1>5, <1>6, <1>7 DEF Within
<1>10. \A j, m \in I : hh[j] = hh[m] => j = m \/ hh[j] = NULL
  BY <1>2, <1>3, <1>4
<1>11. \A x, y \in M2 : ny[x] = ny[y] => x = y \/ ny[x] = NULL
  BY <1>2, <1>3, <1>4, <1>6
<1>12. \A j \in I, x \in M2 : hh[j] = NULL \/ hh[j] # ny[x]
  BY <1>2, <1>3, <1>4, <1>6
<1>13. ASSUME NEW S \in SUBSET M2,
              \A j \in I : Within(S, hh[j]),
              \A x \in S : Within(S, ny[x])
       PROVE  S = M2
  <2> DEFINE R == IF c = NULL \/ c \in S THEN S \cup {t} ELSE S
  <2>1. R \in SUBSET Mem
    BY <1>2, <1>6
  <2>2. \A j \in I : Within(R, h[j])
    BY <1>2, <1>3, <1>7, <1>13 DEF Within
  <2>3. \A x \in R : Within(R, nx[x])
    BY <1>2, <1>3, <1>5, <1>6, <1>7, <1>13 DEF Within
  <2>4. R = Mem
    <3> HIDE DEF R
    <3> QED BY <1>4, <2>1, <2>2, <2>3
  <2> QED BY <1>6, <2>4
<1>14. Queue(I, hh, ny, M2)
  BY <1>8, <1>9, <1>10, <1>11, <1>12, <1>13 DEF Queue
<1> QED BY <1>2, <1>3, <1>14 DEF SameOutside

-------------------------------------------------------------------------------
(* The order of a list. *)

\* Along the links the rank never decreases.
Sorted(M, nx, rank) == \A x \in M : nx[x] = NULL \/ rank[x] <= rank[nx[x]]

\* A list is a family of one.
One(h) == [i \in {NULL} |-> h]

\* The first task of a sorted list has the least rank.
LEMMA HeadLeast ==
    ASSUME NEW h, NEW nx, NEW M \in SUBSET Tasks, NEW rank \in [Tasks -> Nat],
           Queue({NULL}, One(h), nx, M), Sorted(M, nx, rank), h # NULL
    PROVE  h \in M /\ \A x \in M : rank[h] <= rank[x]
<1> DEFINE S == {x \in M : rank[h] <= rank[x]}
<1>1. One(h)[NULL] = h
  BY DEF One
<1>2. h \in M
  BY <1>1 DEF Queue, Within
<1>3. \A x \in M : rank[x] \in Nat
  OBVIOUS
<1>4. Within(S, h)
  BY <1>2, <1>3 DEF Within
<1>5. ASSUME NEW x \in S PROVE Within(S, nx[x])
  <2>1. nx[x] = NULL \/ (nx[x] \in M /\ rank[x] <= rank[nx[x]])
    BY DEF Queue, Within, Sorted
  <2> QED BY <1>2, <1>3, <2>1 DEF Within
<1>6. S = M
  <2>1. S \in SUBSET M
    OBVIOUS
  <2> HIDE DEF S
  <2> QED BY <1>1, <1>4, <1>5, <2>1 DEF Queue
<1> QED BY <1>2, <1>6

\* Insertion in front of the first task of a greater rank keeps the order,
LEMMA InsertSorted ==
    ASSUME NEW I, NEW h, NEW nx, NEW Mem, NEW i, NEW Stop, NEW t, NEW l,
           NEW hh, NEW ny, NEW M2, NEW rank \in [Tasks -> Nat],
           Inserted(I, h, nx, Mem, i, Stop, t, l, hh, ny, M2),
           Stop = {x \in Tasks : rank[x] > rank[t]},
           Sorted(Mem, nx, rank)
    PROVE  Sorted(M2, ny, rank)
<1>1. PICK c, y : Between(I, h, nx, Mem, i, Stop, t, l, c, y)
  BY InsertLinks
<1>2. /\ c = NULL \/ (c \in Mem /\ c \notin Stop)
      /\ Within(Mem, y) /\ Ends(y, Stop)
      /\ \A x \in Tasks : l.next[x] = IF x = t THEN y ELSE IF x = c THEN t ELSE nx[x]
  BY <1>1 DEF Between
<1>3. Mem \in SUBSET Tasks /\ t \in Tasks /\ t \notin Mem /\ ny = l.next
      /\ M2 = Mem \cup {t}
  BY DEF Inserted
<1>4. \A x \in Tasks : rank[x] \in Nat
  OBVIOUS
<1>5. c = NULL \/ rank[c] <= rank[t]
  BY <1>2, <1>3, <1>4
<1>6. y = NULL \/ rank[t] <= rank[y]
  BY <1>2, <1>3, <1>4 DEF Ends, Within
<1> QED BY <1>2, <1>3, <1>5, <1>6, ListAssumption DEF Sorted

\* and so does removal, from the front or from anywhere.
LEMMA PopSorted ==
    ASSUME NEW I, NEW h, NEW nx, NEW Mem, NEW i, NEW t, NEW l, NEW hh, NEW ny,
           NEW M2, NEW rank,
           Popped(I, h, nx, Mem, i, t, l, hh, ny, M2), Sorted(Mem, nx, rank)
    PROVE  Sorted(M2, ny, rank)
<1>1. SameOutside({t}, nx, ny)
  BY PopQueue
<1> QED BY <1>1 DEF SameOutside, Popped, Sorted

LEMMA UnlinkSorted ==
    ASSUME NEW I, NEW h, NEW nx, NEW Mem, NEW i, NEW t, NEW l, NEW hh, NEW ny,
           NEW M2, NEW rank \in [Tasks -> Nat],
           Unlinked(I, h, nx, Mem, i, t, l, hh, ny, M2), Sorted(Mem, nx, rank)
    PROVE  Sorted(M2, ny, rank)
<1>1. PICK c : Bypassed(h, nx, Mem, i, t, l, c)
  BY UnlinkLinks
<1>2. /\ Mem \in SUBSET Tasks /\ M2 = Mem \ {t} /\ ny = l.next
      /\ \A x \in Mem : nx[x] = NULL \/ nx[x] \in Mem
  BY DEF Unlinked, Queue, Within
<1>3. /\ t \in Mem /\ t # NULL /\ c # t
      /\ c = NULL \/ (c \in Mem /\ nx[c] = t /\ ny[c] = nx[t])
      /\ \A x \in Mem : x # t /\ x # c => ny[x] = nx[x]
  BY <1>1, <1>2 DEF Bypassed
<1>4. \A x \in Tasks : rank[x] \in Nat
  OBVIOUS
<1> QED BY <1>2, <1>3, <1>4, ListAssumption DEF Sorted

\* Every member is on the list of its own level.
Leveled(I, h, nx, Mem, level) ==
    /\ \A i \in I : h[i] = NULL \/ level[h[i]] = i
    /\ \A x \in Mem : nx[x] = NULL \/ level[nx[x]] = level[x]

\* x is met on a walk along list i of a leveled family.
MetOn(I, h, nx, Mem, level, i, Stop, x) ==
    /\ nx \in Links /\ Mem \in SUBSET Tasks /\ i \in I
    /\ Queue(I, h, nx, Mem) /\ Leveled(I, h, nx, Mem, level)
    /\ x \in Visited(h[i], nx, Stop)

\* A walk along list i visits tasks of level i only,
LEMMA LevelVisited ==
    ASSUME NEW I, NEW h, NEW nx, NEW Mem, NEW level, NEW i, NEW Stop, NEW x,
           MetOn(I, h, nx, Mem, level, i, Stop, x)
    PROVE  level[x] = i
<1> USE DEF MetOn
<1>0. ~Ends(h[i], Stop)
  BY DEF Visited
<1> DEFINE S == {z \in Mem : level[z] = i}
<1>1. h[i] \in S
  BY <1>0 DEF Queue, Within, Ends, Leveled
<1>2. S \in SUBSET Tasks /\ \A z \in S : Ends(nx[z], Stop) \/ nx[z] \in S
  BY DEF Queue, Within, Ends, Leveled
<1> HIDE DEF S
<1>3. Visited(h[i], nx, Stop) \subseteq S
  BY <1>0, <1>1, <1>2, VisitedLeast
<1> QED BY <1>3 DEF S

\* and finds all of them.
LEMMA LevelWalk ==
    ASSUME NEW I, NEW h, NEW nx \in Links, NEW Mem \in SUBSET Tasks, NEW level,
           Queue(I, h, nx, Mem), Leveled(I, h, nx, Mem, level)
    PROVE  /\ \A i \in I : \A x \in Visited(h[i], nx, {}) : level[x] = i
           /\ \A x \in Mem : \E i \in I : level[x] = i /\ x \in Visited(h[i], nx, {})
<1>1. ASSUME NEW i \in I, NEW x \in Visited(h[i], nx, {})
      PROVE  level[x] = i
  <2>1. MetOn(I, h, nx, Mem, level, i, {}, x)
    BY <1>1 DEF MetOn
  <2> QED BY <2>1, LevelVisited
<1>2. ASSUME NEW x \in Mem
      PROVE  \E i \in I : level[x] = i /\ x \in Visited(h[i], nx, {})
  <2>1. PICK i \in I : x \in Visited(h[i], nx, {})
    BY VisitedQueue
  <2> QED BY <1>1, <2>1
<1> QED BY <1>1, <1>2

\* Insertion into the list of the task's own level, and removal, keep that.
LEMMA InsertLeveled ==
    ASSUME NEW I, NEW h, NEW nx, NEW Mem, NEW i, NEW Stop, NEW t, NEW l,
           NEW hh, NEW ny, NEW M2, NEW level, level[t] = i,
           Inserted(I, h, nx, Mem, i, Stop, t, l, hh, ny, M2),
           Leveled(I, h, nx, Mem, level)
    PROVE  Leveled(I, hh, ny, M2, level)
<1>1. PICK c, y : Between(I, h, nx, Mem, i, Stop, t, l, c, y)
  BY InsertLinks
<1>2. /\ Mem \in SUBSET Tasks /\ t \in Tasks /\ t \notin Mem /\ ny = l.next
      /\ M2 = Mem \cup {t} /\ nx \in Links /\ i \in I /\ Queue(I, h, nx, Mem)
      /\ \A j \in I : hh[j] = IF j = i THEN l.head ELSE h[j]
  BY DEF Inserted
<1>3. /\ c = NULL \/ (c \in Mem /\ c \in Visited(h[i], nx, Stop))
      /\ y = IF c = NULL THEN h[i] ELSE nx[c]
      /\ l.head = IF c = NULL THEN t ELSE h[i]
      /\ \A x \in Tasks : l.next[x] = IF x = t THEN y ELSE IF x = c THEN t ELSE nx[x]
  BY <1>1 DEF Between
<1>4. c = NULL \/ level[c] = i
  <2> SUFFICES ASSUME c # NULL PROVE level[c] = i
    OBVIOUS
  <2>1. c \in Visited(h[i], nx, Stop)
    BY <1>3
  <2>2. Queue(I, h, nx, Mem) /\ nx \in Links /\ Mem \in SUBSET Tasks /\ i \in I
    BY <1>2
  <2>3. MetOn(I, h, nx, Mem, level, i, Stop, c)
    BY <2>1, <2>2 DEF MetOn
  <2> QED BY <2>3, LevelVisited
<1>5. y = NULL \/ level[y] = i
  BY <1>2, <1>3, <1>4 DEF Leveled
<1>6. \A j \in I : hh[j] = NULL \/ level[hh[j]] = j
  BY <1>2, <1>3 DEF Leveled
<1>7. ASSUME NEW x \in M2
      PROVE  ny[x] = NULL \/ level[ny[x]] = level[x]
  <2>1. ny[x] = IF x = t THEN y ELSE IF x = c THEN t ELSE nx[x]
    BY <1>2, <1>3
  <2>2. CASE x = t
    BY <1>5, <2>1, <2>2
  <2>3. CASE x # t /\ x = c
    <3>1. x # NULL
      BY <1>2, <2>3, ListAssumption
    <3> QED BY <1>4, <2>1, <2>3, <3>1
  <2>4. CASE x # t /\ x # c
    BY <1>2, <2>1, <2>4 DEF Leveled
  <2> QED BY <2>2, <2>3, <2>4
<1> QED BY <1>6, <1>7 DEF Leveled

LEMMA PopLeveled ==
    ASSUME NEW I, NEW h, NEW nx, NEW Mem, NEW i, NEW t, NEW l, NEW hh, NEW ny,
           NEW M2, NEW level, Popped(I, h, nx, Mem, i, t, l, hh, ny, M2),
           Leveled(I, h, nx, Mem, level)
    PROVE  Leveled(I, hh, ny, M2, level)
<1>1. t \in Mem /\ SameOutside({t}, nx, ny)
  BY PopQueue
<1>2. /\ Mem \in SUBSET Tasks /\ M2 = Mem \ {t} /\ i \in I /\ h[i] = t
      /\ \A j \in I : hh[j] = IF j = i THEN nx[t] ELSE h[j]
  <2>1. l.head = nx[t]
    BY DEF Popped, Pop, ListOf
  <2> QED BY <2>1 DEF Popped
<1>3. t # NULL
  BY DEF Popped
<1> QED BY <1>1, <1>2, <1>3 DEF Leveled, SameOutside

LEMMA UnlinkLeveled ==
    ASSUME NEW I, NEW h, NEW nx, NEW Mem, NEW i, NEW t, NEW l, NEW hh, NEW ny,
           NEW M2, NEW level, Unlinked(I, h, nx, Mem, i, t, l, hh, ny, M2),
           Leveled(I, h, nx, Mem, level)
    PROVE  Leveled(I, hh, ny, M2, level)
<1>1. PICK c : Bypassed(h, nx, Mem, i, t, l, c)
  BY UnlinkLinks
<1>2. /\ Mem \in SUBSET Tasks /\ M2 = Mem \ {t} /\ ny = l.next /\ i \in I
      /\ \A j \in I : hh[j] = IF j = i THEN l.head ELSE h[j]
  BY DEF Unlinked
<1>3. /\ t \in Mem /\ t # NULL /\ c # t
      /\ c = NULL \/ (c \in Mem /\ nx[c] = t /\ ny[c] = nx[t] /\ l.head = h[i])
      /\ c # NULL \/ (h[i] = t /\ l.head = nx[t])
      /\ \A x \in Mem : x # t /\ x # c => ny[x] = nx[x]
  BY <1>1, <1>2 DEF Bypassed
<1>4. \A j \in I : hh[j] = NULL \/ level[hh[j]] = j
  BY <1>2, <1>3 DEF Leveled
<1>5. ASSUME NEW x \in M2
      PROVE  ny[x] = NULL \/ level[ny[x]] = level[x]
  <2>1. x \in Mem /\ x # t /\ x # NULL
    BY <1>2, ListAssumption
  <2>2. \A u \in Mem : nx[u] = NULL \/ level[nx[u]] = level[u]
    BY DEF Leveled
  <2>3. CASE x = c
    <3>1. nx[x] = t /\ ny[x] = nx[t]
      BY <1>3, <2>1, <2>3
    <3> QED BY <1>3, <2>1, <2>2, <3>1
  <2>4. CASE x # c
    BY <1>3, <2>1, <2>2, <2>4
  <2> QED BY <2>3, <2>4
<1> QED BY <1>4, <1>5 DEF Leveled

-------------------------------------------------------------------------------
\* The order of the natural numbers as a relation, for the library.
Less == {xy \in Nat \X Nat : xy[1] < xy[2]}

\* A set of numbers that is not empty has a least element.
LEMMA LeastNumber ==
    ASSUME NEW S \in SUBSET Nat, S # {}
    PROVE  \E m \in S : \A n \in S : m <= n
<1>1. IsWellFoundedOn(Less, Nat)
  BY NatLessThanWellFounded DEF OpToRel, Less
<1>2. \E x \in S : \A y \in S : ~(<<y, x>> \in Less)
  BY <1>1, WFMin, Zenon
<1>3. \A x, y \in Nat : x < y => <<x, y>> \in Less
  BY DEF Less
<1>4. PICK x \in S : \A y \in S : ~(<<y, x>> \in Less)
  BY <1>2
<1>5. \A y \in S : ~(y < x)
  BY <1>3, <1>4
<1> QED BY <1>5
===============================================================================
