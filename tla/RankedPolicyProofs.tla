-------------------------- MODULE RankedPolicyProofs --------------------------
(***************************************************************************)
(* Tasks of one priority that never yield take turns: RankedPolicy         *)
(* implements RoundRobin for every number of tasks and every quantum.      *)
(*                                                                         *)
(* The queue is the waiting tasks by the time of their last tick, and then *)
(* by slot.  Its place in the queue tells each task from the others; the   *)
(* choice of task_search_in_table is the first, and the task that leaves   *)
(* has ticked since all the others did, so that it goes to the end.        *)
(***************************************************************************)
EXTENDS RankedPolicy, TaskSearchProofs, SequenceTheorems

(* By the ranks r: who comes sooner, the tasks of S that stand before t,   *)
(* the place of t, and the queue.                                          *)
Sooner(r, t, u) == r[t] < r[u] \/ (r[t] = r[u] /\ t < u)
InFront(r, S, t) == {u \in S : Sooner(r, u, t)}
Place(r, S, t) == 1 + Cardinality(InFront(r, S, t))
Queue(r, S) == [n \in 1 .. Cardinality(S) |-> CHOOSE t \in S : Place(r, S, t) = n]

LEMMA WaitingIsQueue == Waiting = Queue(rank, Tasks \ {cur})
BY Zenon DEF Waiting, Queue, Place, InFront, Before, Sooner

LEMMA WaitingThen == Waiting' = Queue(rank', Tasks \ {cur'})
BY Zenon DEF Waiting, Queue, Place, InFront, Before, Sooner

LEMMA TasksAreFinite ==
  ASSUME NEW r, NEW S \in SUBSET Tasks
  PROVE  /\ IsFiniteSet(S) /\ Cardinality(S) \in Nat
         /\ \A t : IsFiniteSet(InFront(r, S, t)) /\ Cardinality(InFront(r, S, t)) \in Nat
                   /\ InFront(r, S, t) \in SUBSET S
<1>1. IsFiniteSet(S)
  BY TasksFinite, FS_Subset
<1>2. \A t : InFront(r, S, t) \in SUBSET S
  BY DEF InFront
<1>3. \A t : IsFiniteSet(InFront(r, S, t))
  BY <1>1, <1>2, FS_Subset
<1>. QED  BY <1>1, <1>2, <1>3, FS_CardinalityType

(* Sooner is a strict total order.                                         *)
LEMMA SoonerOrder ==
  ASSUME NEW r \in [Tasks -> Int], NEW t \in Tasks, NEW u \in Tasks, NEW v \in Tasks
  PROVE  /\ ~Sooner(r, t, t)
         /\ Sooner(r, t, u) => ~Sooner(r, u, t)
         /\ Sooner(r, t, u) /\ Sooner(r, u, v) => Sooner(r, t, v)
         /\ t = u \/ Sooner(r, t, u) \/ Sooner(r, u, t)
<1>1. t \in Int /\ u \in Int /\ v \in Int /\ r[t] \in Int /\ r[u] \in Int /\ r[v] \in Int
  BY NumTasksAssumption DEF Tasks
<1>. QED  BY <1>1 DEF Sooner

(* A later task has a later place.                                         *)
LEMMA PlaceOrder ==
  ASSUME NEW r \in [Tasks -> Int], NEW S \in SUBSET Tasks, NEW t \in S, NEW u \in S
  PROVE  /\ Place(r, S, t) \in 1 .. Cardinality(S)
         /\ Sooner(r, t, u) => Place(r, S, t) < Place(r, S, u)
         /\ Place(r, S, t) = Place(r, S, u) => t = u
<1>1. ASSUME NEW v \in S, NEW w \in S, Sooner(r, v, w)
      PROVE  Place(r, S, v) < Place(r, S, w)
  <2>1. InFront(r, S, v) \in SUBSET InFront(r, S, w)
    BY <1>1, SoonerOrder DEF InFront
  <2>2. v \in InFront(r, S, w) /\ v \notin InFront(r, S, v)
    BY <1>1, SoonerOrder DEF InFront
  <2>3. IsFiniteSet(InFront(r, S, w)) /\ Cardinality(InFront(r, S, w)) \in Nat
        /\ Cardinality(InFront(r, S, v)) \in Nat
    BY TasksAreFinite
  <2>4. /\ Cardinality(InFront(r, S, v)) <= Cardinality(InFront(r, S, w))
        /\ Cardinality(InFront(r, S, w)) = Cardinality(InFront(r, S, v)) => InFront(r, S, w) = InFront(r, S, v)
    BY <2>1, <2>3, FS_Subset
  <2>. QED  BY <2>2, <2>3, <2>4 DEF Place
<1>2. Place(r, S, t) \in 1 .. Cardinality(S)
  <2>1. InFront(r, S, t) \in SUBSET (S \ {t})
    BY SoonerOrder DEF InFront
  <2>2. IsFiniteSet(S) /\ Cardinality(S) \in Nat
    BY TasksAreFinite
  <2>3. IsFiniteSet(S \ {t}) /\ Cardinality(S \ {t}) = Cardinality(S) - 1
    BY <2>2, FS_RemoveElement
  <2>4. Cardinality(InFront(r, S, t)) <= Cardinality(S) - 1
    BY <2>1, <2>3, FS_Subset
  <2>5. Cardinality(InFront(r, S, t)) \in Nat
    BY TasksAreFinite
  <2>. QED  BY <2>2, <2>4, <2>5 DEF Place
<1>3. Place(r, S, t) = Place(r, S, u) => t = u
  <2>1. t # u => Sooner(r, t, u) \/ Sooner(r, u, t)
    BY SoonerOrder
  <2>2. Place(r, S, t) \in Int /\ Place(r, S, u) \in Int
    BY TasksAreFinite DEF Place
  <2>. QED  BY <1>1, <2>1, <2>2
<1>. QED  BY <1>1, <1>2, <1>3

(* Every place is somebody's: the queue lists S.                           *)
LEMMA QueueElement ==
  ASSUME NEW r \in [Tasks -> Int], NEW S \in SUBSET Tasks, NEW n \in 1 .. Cardinality(S)
  PROVE  /\ Queue(r, S)[n] \in S /\ Place(r, S, Queue(r, S)[n]) = n
         /\ \A t \in S : Place(r, S, t) = n => Queue(r, S)[n] = t
<1>. DEFINE f == [t \in S |-> Place(r, S, t)]
            m == Cardinality(S)
<1>1. IsFiniteSet(S) /\ m \in Nat
  BY TasksAreFinite
<1>2. f \in Injection(S, 1 .. m)
  <2>1. \A t \in S : Place(r, S, t) \in 1 .. m
    BY PlaceOrder
  <2>2. \A t, u \in S : Place(r, S, t) = Place(r, S, u) => t = u
    BY PlaceOrder
  <2>. QED  BY <2>1, <2>2 DEF Injection, IsInjective
<1>3. IsFiniteSet(1 .. m) /\ Cardinality(1 .. m) = m
  <2>1. 1 \in Int /\ m \in Int
    BY <1>1
  <2>2. IsFiniteSet(1 .. m) /\ Cardinality(1 .. m) = IF 1 > m THEN 0 ELSE m - 1 + 1
    BY <2>1, FS_Interval
  <2>. QED  BY <1>1, <2>2
<1>4. f \in Surjection(S, 1 .. m)
  <2>. HIDE DEF f, m
  <2>1. Cardinality(S) = Cardinality(1 .. m) <=> f \in Surjection(S, 1 .. m)
    BY <1>2, <1>3, FS_Injection
  <2>. QED  BY <1>3, <2>1 DEF m
<1>5. \E t \in S : Place(r, S, t) = n
  BY <1>4 DEF Surjection
<1>6. Queue(r, S)[n] = CHOOSE t \in S : Place(r, S, t) = n
  BY DEF Queue
<1>7. Queue(r, S)[n] \in S /\ Place(r, S, Queue(r, S)[n]) = n
  BY <1>5, <1>6
<1>. QED  BY <1>7, PlaceOrder

LEMMA QueueIsSeq ==
  ASSUME NEW r \in [Tasks -> Int], NEW S \in SUBSET Tasks
  PROVE  Queue(r, S) \in Seq(S) /\ Len(Queue(r, S)) = Cardinality(S)
<1>1. Cardinality(S) \in Nat
  BY TasksAreFinite
<1>2. \A n \in 1 .. Cardinality(S) : Queue(r, S)[n] \in S
  BY QueueElement
<1>3. Queue(r, S) = [n \in 1 .. Cardinality(S) |-> Queue(r, S)[n]]
  BY DEF Queue
<1>. QED  BY <1>1, <1>2, <1>3

(* The task before all the others is the first in the queue; when it       *)
(* leaves everybody moves up, and somebody after all the others comes last.*)
LEMMA QueueHead ==
  ASSUME NEW r \in [Tasks -> Int], NEW S \in SUBSET Tasks, NEW s \in S,
         \A t \in S \ {s} : Sooner(r, s, t)
  PROVE  Queue(r, S) # <<>> /\ Head(Queue(r, S)) = s /\ Place(r, S, s) = 1
<1>1. InFront(r, S, s) = {}
  <2>1. \A t \in S : ~Sooner(r, t, s)
    BY SoonerOrder
  <2>. QED  BY <2>1 DEF InFront
<1>2. Place(r, S, s) = 1
  BY <1>1, FS_EmptySet DEF Place
<1>3. Place(r, S, s) \in 1 .. Cardinality(S)
  BY PlaceOrder
<1>4. 1 \in 1 .. Cardinality(S) /\ Queue(r, S)[1] = s
  BY <1>2, <1>3, QueueElement, TasksAreFinite
<1>5. Queue(r, S) \in Seq(S) /\ Len(Queue(r, S)) = Cardinality(S)
  BY QueueIsSeq
<1>. QED  BY <1>2, <1>4, <1>5

LEMMA QueueTail ==
  ASSUME NEW r \in [Tasks -> Int], NEW S \in SUBSET Tasks, NEW s \in S,
         \A t \in S \ {s} : Sooner(r, s, t)
  PROVE  Queue(r, S \ {s}) = Tail(Queue(r, S))
<1>. DEFINE R == S \ {s}
            m == Cardinality(S)
<1>1. IsFiniteSet(S) /\ m \in Nat \ {0} /\ Cardinality(R) = m - 1
  <2>1. IsFiniteSet(S) /\ m \in Nat
    BY TasksAreFinite
  <2>2. Cardinality(R) = m - 1
    BY <2>1, FS_RemoveElement
  <2>3. m # 0
    BY <2>1, FS_EmptySet
  <2>. QED  BY <2>1, <2>2, <2>3
<1>2. \A t \in R : Place(r, R, t) = Place(r, S, t) - 1
  <2>. SUFFICES ASSUME NEW t \in R PROVE Place(r, R, t) = Place(r, S, t) - 1
    OBVIOUS
  <2>1. InFront(r, R, t) = InFront(r, S, t) \ {s} /\ s \in InFront(r, S, t)
    BY DEF InFront
  <2>2. IsFiniteSet(InFront(r, S, t)) /\ Cardinality(InFront(r, S, t)) \in Nat
    BY TasksAreFinite
  <2>3. Cardinality(InFront(r, S, t) \ {s}) = Cardinality(InFront(r, S, t)) - 1
    BY <2>1, <2>2, FS_RemoveElement
  <2>. QED
    <3>1. Cardinality(InFront(r, R, t)) = Cardinality(InFront(r, S, t)) - 1
      BY <2>1, <2>3
    <3>. QED  BY <2>2, <3>1 DEF Place
<1>3. /\ Queue(r, S) \in Seq(S) /\ Len(Queue(r, S)) = m
      /\ Queue(r, R) \in Seq(R) /\ Len(Queue(r, R)) = m - 1
  BY <1>1, QueueIsSeq
<1>4. ASSUME NEW n \in 1 .. m - 1 PROVE Queue(r, R)[n] = Queue(r, S)[n + 1]
  <2>1. n \in 1 .. Cardinality(R) /\ n + 1 \in 1 .. Cardinality(S)
    BY <1>1
  <2>2. Queue(r, R)[n] \in R /\ Place(r, R, Queue(r, R)[n]) = n
    <3>. HIDE DEF R
    <3>1. R \in SUBSET Tasks
      BY DEF R
    <3>. QED  BY <2>1, <3>1, QueueElement
  <2>3. Place(r, S, Queue(r, R)[n]) = n + 1
    <3>. HIDE DEF R
    <3>1. Place(r, R, Queue(r, R)[n]) = Place(r, S, Queue(r, R)[n]) - 1
      BY <1>2, <2>2
    <3>2. Place(r, S, Queue(r, R)[n]) \in Int
      BY TasksAreFinite DEF Place
    <3>. QED  BY <2>2, <3>1, <3>2
  <2>4. \A t \in S : Place(r, S, t) = n + 1 => Queue(r, S)[n + 1] = t
    BY <2>1, QueueElement
  <2>. QED  BY <2>2, <2>3, <2>4
<1>. HIDE DEF R, m
<1>5. /\ Tail(Queue(r, S)) \in Seq(S) /\ Len(Tail(Queue(r, S))) = m - 1
      /\ \A n \in 1 .. m - 1 : Tail(Queue(r, S))[n] = Queue(r, S)[n + 1]
  <2>1. Queue(r, S) # <<>>
    BY <1>1, <1>3
  <2>. QED  BY <1>3, <2>1, HeadTailProperties
<1>6. Queue(r, R) \in Seq(S)
  BY <1>3 DEF R
<1>7. Queue(r, R) = Tail(Queue(r, S))
  BY <1>3, <1>4, <1>5, <1>6, SeqEqual
<1>. QED  BY <1>7 DEF R

LEMMA QueueAppend ==
  ASSUME NEW r \in [Tasks -> Int], NEW S \in SUBSET Tasks, NEW c \in Tasks \ S,
         \A t \in S : Sooner(r, t, c)
  PROVE  Queue(r, S \cup {c}) = Append(Queue(r, S), c)
<1>. DEFINE R == S \cup {c}
            m == Cardinality(S)
<1>1. IsFiniteSet(S) /\ m \in Nat /\ Cardinality(R) = m + 1 /\ R \in SUBSET Tasks
  <2>1. IsFiniteSet(S) /\ m \in Nat
    BY TasksAreFinite
  <2>. QED  BY <2>1, FS_AddElement
<1>2. \A t \in S : InFront(r, R, t) = InFront(r, S, t)
  <2>1. \A t \in S : ~Sooner(r, c, t)
    BY SoonerOrder
  <2>. QED  BY <2>1 DEF InFront
<1>3. InFront(r, R, c) = S
  <2>1. ~Sooner(r, c, c)
    BY SoonerOrder
  <2>. QED  BY <2>1 DEF InFront
<1>4. (\A t \in S : Place(r, R, t) = Place(r, S, t)) /\ Place(r, R, c) = m + 1
  BY <1>1, <1>2, <1>3 DEF Place
<1>5. /\ Queue(r, S) \in Seq(S) /\ Len(Queue(r, S)) = m
      /\ Queue(r, R) \in Seq(R) /\ Len(Queue(r, R)) = m + 1
  BY <1>1, QueueIsSeq
<1>. HIDE DEF R, m
<1>6. ASSUME NEW n \in 1 .. m PROVE Queue(r, R)[n] = Queue(r, S)[n]
  <2>1. n \in 1 .. Cardinality(R) /\ n \in 1 .. Cardinality(S)
    BY <1>1 DEF m
  <2>2. Queue(r, S)[n] \in S /\ Place(r, S, Queue(r, S)[n]) = n
    BY <2>1, QueueElement
  <2>3. Place(r, R, Queue(r, S)[n]) = n /\ Queue(r, S)[n] \in R
    BY <1>4, <2>2 DEF R
  <2>. QED  BY <1>1, <2>1, <2>3, QueueElement
<1>7. Queue(r, R)[m + 1] = c
  <2>1. m + 1 \in 1 .. Cardinality(R) /\ c \in R
    BY <1>1 DEF R
  <2>. QED  BY <1>1, <1>4, <2>1, QueueElement
<1>8. /\ Append(Queue(r, S), c) \in Seq(R) /\ Len(Append(Queue(r, S), c)) = m + 1
      /\ \A n \in 1 .. m : Append(Queue(r, S), c)[n] = Queue(r, S)[n]
      /\ Append(Queue(r, S), c)[m + 1] = c
  <2>1. Queue(r, S) \in Seq(R) /\ c \in R
    BY <1>5 DEF R
  <2>. QED  BY <1>5, <2>1, AppendProperties
<1>9. \A n \in 1 .. m + 1 : Queue(r, R)[n] = Append(Queue(r, S), c)[n]
  BY <1>1, <1>6, <1>7, <1>8
<1>10. Queue(r, R) = Append(Queue(r, S), c)
  BY <1>5, <1>8, <1>9, SeqEqual
<1>. QED  BY <1>10 DEF R

-----------------------------------------------------------------------------
(* The tasks have one quantum.                                             *)
EqualPriorities == \E q \in Nat \ {0} : Priority = [t \in Tasks |-> q]

(* A task that waits has a whole quantum; the one that runs asks for the   *)
(* switch when its ticks are gone and, once it has had a tick, is the one  *)
(* that had the last.                                                      *)
TurnInv ==
  /\ cur \in Tasks \cup {Boot}
  /\ ticks \in [Tasks -> 0 .. Priority[1]]
  /\ rank \in [Tasks -> 0 .. NumTasks - 1]
  /\ \A t \in Tasks \ {cur} : ticks[t] = Priority[1]
  /\ cur # Boot => /\ resched <=> ticks[cur] = 0
                   /\ ticks[cur] < Priority[1] => \A t \in Tasks \ {cur} : rank[t] < rank[cur]

(* What RoundRobin sees.                                                   *)
TurnCur == IF Alone THEN cur ELSE Boot
TurnQueue == IF Alone THEN Waiting ELSE [n \in Tasks |-> n]
TurnLeft == IF ~Alone THEN 1
            ELSE IF cur = Boot THEN (IF resched THEN 0 ELSE 1) ELSE ticks[cur]

LEMMA TurnView ==
  /\ RR!Tick <=> TurnLeft > 0 /\ TurnLeft' = TurnLeft - 1 /\ UNCHANGED <<TurnCur, TurnQueue>>
  /\ RR!Rotate <=> /\ TurnLeft = 0
                   /\ TurnCur' = Head(TurnQueue)
                   /\ TurnQueue' = IF TurnCur = 0 THEN Tail(TurnQueue)
                                   ELSE Append(Tail(TurnQueue), TurnCur)
                   /\ TurnLeft' = Priority[1]
  /\ RR!Init <=> TurnCur = 0 /\ TurnQueue = [n \in 1 .. NumTasks |-> n] /\ TurnLeft = 1
  /\ UNCHANGED <<TurnCur, TurnQueue, TurnLeft>> => UNCHANGED RR!rrvars
<1>1. RR!Tick <=> TurnLeft > 0 /\ TurnLeft' = TurnLeft - 1 /\ UNCHANGED <<TurnCur, TurnQueue>>
  BY Zenon DEF RR!Tick, TurnCur, TurnQueue, TurnLeft
<1>2. RR!Rotate <=> /\ TurnLeft = 0
                    /\ TurnCur' = Head(TurnQueue)
                    /\ TurnQueue' = IF TurnCur = 0 THEN Tail(TurnQueue)
                                    ELSE Append(Tail(TurnQueue), TurnCur)
                    /\ TurnLeft' = Priority[1]
  BY Zenon DEF RR!Rotate, TurnCur, TurnQueue, TurnLeft
<1>3. RR!Init <=> TurnCur = 0 /\ TurnQueue = [n \in 1 .. NumTasks |-> n] /\ TurnLeft = 1
  BY Zenon DEF RR!Init, TurnCur, TurnQueue, TurnLeft
<1>4. UNCHANGED <<TurnCur, TurnQueue, TurnLeft>> => UNCHANGED RR!rrvars
  BY Zenon DEF RR!rrvars, TurnCur, TurnQueue, TurnLeft
<1>. QED  BY <1>1, <1>2, <1>3, <1>4

LEMMA Quantum ==
  ASSUME EqualPriorities
  PROVE  1 \in Tasks /\ Priority[1] \in Nat \ {0} /\ Priority = [t \in Tasks |-> Priority[1]]
BY NumTasksAssumption DEF EqualPriorities, Tasks

(* The queue depends on the order of the tasks that wait only.             *)
LEMMA QueueKept ==
  ASSUME NEW r \in [Tasks -> Int], NEW r2 \in [Tasks -> Int], NEW S \in SUBSET Tasks,
         \A t, u \in S : Sooner(r, t, u) <=> Sooner(r2, t, u)
  PROVE  Queue(r2, S) = Queue(r, S)
<1>1. \A t \in S : InFront(r2, S, t) = InFront(r, S, t)
  BY DEF InFront
<1>2. ASSUME NEW n \in 1 .. Cardinality(S) PROVE Queue(r2, S)[n] = Queue(r, S)[n]
  <2>1. Queue(r, S)[n] \in S /\ Place(r, S, Queue(r, S)[n]) = n
    BY QueueElement
  <2>2. Place(r2, S, Queue(r, S)[n]) = n
    BY <1>1, <2>1 DEF Place
  <2>. QED  BY <2>1, <2>2, QueueElement
<1>3. /\ Queue(r, S) = [n \in 1 .. Cardinality(S) |-> Queue(r, S)[n]]
      /\ Queue(r2, S) = [n \in 1 .. Cardinality(S) |-> Queue(r2, S)[n]]
  BY DEF Queue
<1>. QED  BY <1>2, <1>3

LEMMA TickTurns ==
  ASSUME EqualPriorities, Alone, TurnInv, Tick
  PROVE  TurnInv' /\ RR!Tick
<1>. USE NumTasksAssumption, Quantum
<1>1. CASE cur = Boot
  <2>1. ~resched /\ resched' = TRUE /\ UNCHANGED <<cur, ticks, rank, yielders>>
    BY <1>1 DEF Tick
  <2>2. Waiting' = Waiting
    BY <2>1 DEF Waiting, Before
  <2>3. TurnInv'
    BY <1>1, <2>1 DEF TurnInv
  <2>4. TurnLeft = 1 /\ TurnLeft' = 0 /\ TurnCur' = TurnCur /\ TurnQueue' = TurnQueue
    BY <1>1, <2>1, <2>2 DEF TurnLeft, TurnCur, TurnQueue, Alone
  <2>. QED  BY <2>3, <2>4, TurnView
<1>2. CASE cur # Boot
  <2>. DEFINE later == [rank EXCEPT ![cur] = NumTasks]
  <2>1. /\ ~resched /\ rank' = RankOf(later) /\ ticks' = [ticks EXCEPT ![cur] = ticks[cur] - 1]
        /\ resched' = (ticks'[cur] = 0) /\ UNCHANGED <<cur, yielders>>
    BY <1>2 DEF Tick
  <2>2. cur \in Tasks /\ later \in [Tasks -> Int] /\ later[cur] = NumTasks
        /\ \A t \in Tasks \ {cur} : later[t] = rank[t] /\ rank[t] < NumTasks
    BY <1>2 DEF TurnInv
  <2>3. \A t, u \in Tasks : rank'[t] < rank'[u] <=> later[t] < later[u]
    <3>. HIDE DEF later
    <3>. QED  BY <2>1, <2>2, RankOrder
  <2>4. rank' \in [Tasks -> 0 .. NumTasks - 1]
    <3>. HIDE DEF later
    <3>1. \A t \in Tasks : Cardinality(Below(later, t)) \in 0 .. NumTasks - 1
      BY <2>2, BelowFinite
    <3>. QED  BY <2>1, <3>1 DEF RankOf, Below
  <2>5. \A t \in Tasks \ {cur} : rank'[t] < rank'[cur]
    <3>. HIDE DEF later
    <3>. QED  BY <2>2, <2>3
  <2>6. Waiting' = Waiting
    <3>1. ASSUME NEW t \in Tasks \ {cur}, NEW u \in Tasks \ {cur}
          PROVE  Sooner(rank, t, u) <=> Sooner(rank', t, u)
      <4>. HIDE DEF later
      <4>1. /\ rank'[t] < rank'[u] <=> rank[t] < rank[u]
            /\ rank'[u] < rank'[t] <=> rank[u] < rank[t]
        BY <2>2, <2>3
      <4>2. rank'[t] \in Int /\ rank'[u] \in Int /\ rank[t] \in Int /\ rank[u] \in Int
        BY <2>4 DEF TurnInv
      <4>. QED  BY <4>1, <4>2 DEF Sooner
    <3>2. rank \in [Tasks -> Int] /\ rank' \in [Tasks -> Int] /\ Tasks \ {cur} \in SUBSET Tasks
      BY <2>4 DEF TurnInv
    <3>3. Queue(rank', Tasks \ {cur}) = Queue(rank, Tasks \ {cur})
      BY <3>1, <3>2, QueueKept
    <3>. QED  BY <2>1, <3>3, WaitingThen, WaitingIsQueue
  <2>7. ticks[cur] \in 1 .. Priority[1] /\ ticks'[cur] = ticks[cur] - 1
        /\ ticks' \in [Tasks -> 0 .. Priority[1]]
    BY <1>2, <2>1, <2>2 DEF TurnInv
  <2>8. \A t \in Tasks \ {cur} : ticks'[t] = Priority[1]
    BY <2>1, <2>2 DEF TurnInv
  <2>9. TurnInv'
    BY <1>2, <2>1, <2>2, <2>4, <2>5, <2>7, <2>8 DEF TurnInv
  <2>10. TurnLeft = ticks[cur] /\ TurnLeft' = ticks[cur] - 1 /\ TurnCur' = TurnCur
         /\ TurnQueue' = TurnQueue
    BY <1>2, <2>1, <2>6, <2>7 DEF TurnLeft, TurnCur, TurnQueue, Alone
  <2>. QED  BY <2>7, <2>9, <2>10, TurnView
<1>. QED  BY <1>1, <1>2

(* The choice is the task before all the others: the head of the queue.    *)
LEMMA ScheduleTurns ==
  ASSUME EqualPriorities, Alone, TurnInv, Schedule
  PROVE  TurnInv' /\ RR!Rotate
<1>. USE NumTasksAssumption, Quantum
<1>. DEFINE S == Tasks \ {cur}
            s == Search(cur, ticks, rank)
<1>1. /\ resched /\ cur' = s /\ s # NULL
      /\ ticks' = Refilled(ticks, cur, Priority)
      /\ resched' = FALSE /\ UNCHANGED <<rank, yielders>>
  BY DEF Schedule
<1>2. rank \in [Tasks -> Int]
  BY DEF TurnInv
<1>3. s \in S /\ \A t \in S \ {s} : Sooner(rank, s, t)
  <2>1. PICK other \in S : TRUE
    <3>1. IsScan(Scan(cur, ticks, rank), NumTasks, cur, ticks, rank)
      BY ScanDef
    <3>2. s \in Tasks \cup {NULL}
      BY <3>1, SearchDef DEF IsScan, Tasks
    <3>3. s \in Tasks
      BY <1>1, <3>2
    <3>4. CASE NumTasks = 1 /\ cur = 1
      <4>1. s = IF Wins(1, NULL, cur, ticks, rank) THEN 1 ELSE NULL
        BY <3>1, <3>4, SearchDef DEF IsScan
      <4>. QED  BY <1>1, <3>4, <4>1 DEF Wins
    <3>5. CASE cur # 1
      BY <3>5
    <3>6. CASE NumTasks > 1 /\ cur = 1
      <4>1. 2 \in S
        BY <3>6 DEF Tasks
      <4>. QED  BY <4>1
    <3>. QED  BY <3>4, <3>5, <3>6
  <2>2. (\A t \in Tasks : rank[t] \in Int) /\ (\A t \in Tasks \ {cur} : ticks[t] = Priority[1])
        /\ Priority[1] \in Int
    BY DEF TurnInv
  <2>. QED  BY <2>1, <2>2, SearchOldest DEF Sooner
<1>. HIDE DEF s
<1>4. /\ Head(Waiting) = s
      /\ Waiting = Queue(rank, S) /\ Queue(rank, S \ {s}) = Tail(Waiting)
  <2>1. S \in SUBSET Tasks
    OBVIOUS
  <2>. HIDE DEF S
  <2>2. Head(Queue(rank, S)) = s
    BY <1>2, <1>3, <2>1, QueueHead
  <2>3. Queue(rank, S \ {s}) = Tail(Queue(rank, S))
    BY <1>2, <1>3, <2>1, QueueTail
  <2>. QED  BY <2>2, <2>3, WaitingIsQueue DEF S
<1>5. Waiting' = Queue(rank, Tasks \ {s})
  BY <1>1, WaitingThen
<1>6. /\ ticks' \in [Tasks -> 0 .. Priority[1]]
      /\ \A t \in Tasks : ticks'[t] = IF t = cur /\ ticks[t] = 0 THEN Priority[1] ELSE ticks[t]
  BY <1>1 DEF TurnInv, Refilled
<1>7. \A t \in Tasks : ticks'[t] = Priority[1]
  <2>1. \A t \in Tasks : t # cur => ticks[t] = Priority[1]
    BY DEF TurnInv
  <2>2. cur \in Tasks => ticks[cur] = 0
    BY <1>1 DEF TurnInv, Tasks, Boot
  <2>. QED  BY <1>6, <2>1, <2>2
<1>8. TurnInv'
  BY <1>1, <1>3, <1>6, <1>7 DEF TurnInv
<1>9. TurnLeft = 0 /\ TurnLeft' = Priority[1] /\ TurnCur' = Head(TurnQueue)
  <2>1. Alone' /\ cur' \in Tasks /\ cur' # Boot /\ cur' = s
    BY <1>1, <1>3 DEF Alone, Tasks, Boot
  <2>2. TurnCur' = Head(TurnQueue)
    BY <1>4, <2>1 DEF TurnCur, TurnQueue
  <2>3. TurnLeft' = Priority[1]
    BY <1>7, <2>1 DEF TurnLeft
  <2>4. TurnLeft = 0
    BY <1>1 DEF TurnInv, TurnLeft
  <2>. QED  BY <2>2, <2>3, <2>4
<1>10. CASE cur = Boot
  <2>1. S = Tasks /\ S \ {s} = Tasks \ {s}
    BY <1>10 DEF Tasks, Boot
  <2>2. Waiting' = Tail(Waiting)
    BY <1>4, <1>5, <2>1
  <2>3. TurnCur = 0 /\ TurnQueue' = Tail(TurnQueue)
    <3>1. Alone'
      BY <1>1 DEF Alone
    <3>. QED  BY <1>10, <2>2, <3>1 DEF TurnCur, TurnQueue, Boot
  <2>. QED  BY <1>8, <1>9, <2>3, TurnView
<1>11. CASE cur # Boot
  <2>1. cur \in Tasks \ (S \ {s}) /\ Tasks \ {s} = (S \ {s}) \cup {cur} /\ S \ {s} \in SUBSET Tasks
    BY <1>3, <1>11 DEF TurnInv
  <2>2. \A t \in S \ {s} : Sooner(rank, t, cur)
    BY <1>1, <1>11 DEF TurnInv, Sooner
  <2>3. Queue(rank, (S \ {s}) \cup {cur}) = Append(Queue(rank, S \ {s}), cur)
    <3>. HIDE DEF S
    <3>1. cur \in Tasks \ (S \ {s})
      BY <2>1
    <3>2. S \ {s} \in SUBSET Tasks
      BY <2>1
    <3>. HIDE DEF s
    <3>. QED  BY <1>2, <2>2, <3>1, <3>2, QueueAppend, Zenon
  <2>4. Waiting' = Append(Tail(Waiting), cur)
    BY <1>4, <1>5, <2>1, <2>3
  <2>5. TurnCur = cur /\ TurnCur # 0 /\ TurnQueue' = Append(Tail(TurnQueue), TurnCur)
    <3>1. Alone'
      BY <1>1 DEF Alone
    <3>. QED  BY <1>11, <2>4, <3>1 DEF TurnCur, TurnQueue, Boot
  <2>. QED  BY <1>8, <1>9, <2>5, TurnView
<1>. QED  BY <1>10, <1>11

LEMMA TurnsInit ==
  ASSUME EqualPriorities, Init
  PROVE  TurnInv /\ RR!Init
<1>. USE NumTasksAssumption, Quantum
<1>1. /\ cur = Boot /\ ticks = Priority /\ rank = [t \in Tasks |-> 0] /\ resched = FALSE
  BY DEF Init
<1>2. TurnInv
  BY <1>1 DEF TurnInv, Tasks
<1>3. Waiting = [n \in 1 .. NumTasks |-> n]
  <2>1. rank \in [Tasks -> Int] /\ Tasks \ {cur} = Tasks
    BY <1>1 DEF Tasks, Boot
  <2>2. \A t \in Tasks : InFront(rank, Tasks, t) = 1 .. t - 1
    BY <1>1 DEF InFront, Sooner, Tasks
  <2>3. ASSUME NEW t \in Tasks PROVE Place(rank, Tasks, t) = t
    <3>1. t - 1 \in Int /\ t - 1 >= 0
      BY DEF Tasks
    <3>2. Cardinality(1 .. t - 1) = IF 1 > t - 1 THEN 0 ELSE t - 1 - 1 + 1
      BY <3>1, FS_Interval
    <3>3. Cardinality(1 .. t - 1) = t - 1
      BY <3>1, <3>2
    <3>4. t \in Int
      BY DEF Tasks
    <3>. QED  BY <2>2, <3>3, <3>4 DEF Place
  <2>4. Cardinality(Tasks) = NumTasks
    BY TasksFinite
  <2>5. \A n \in 1 .. NumTasks : Queue(rank, Tasks)[n] = n
    BY <2>1, <2>3, <2>4, QueueElement DEF Tasks
  <2>6. Queue(rank, Tasks) = [n \in 1 .. NumTasks |-> Queue(rank, Tasks)[n]]
    BY <2>4 DEF Queue
  <2>. QED  BY <2>1, <2>5, <2>6, WaitingIsQueue
<1>4. TurnCur = 0 /\ TurnLeft = 1 /\ TurnQueue = [n \in 1 .. NumTasks |-> n]
  <2>1. TurnCur = 0 /\ TurnLeft = 1
    BY <1>1 DEF TurnCur, TurnLeft, Boot
  <2>2. TurnQueue = [n \in 1 .. NumTasks |-> n]
    <3>1. CASE Alone
      BY <1>3, <3>1 DEF TurnQueue
    <3>2. CASE ~Alone
      BY <3>2 DEF TurnQueue, Tasks
    <3>. QED  BY <3>1, <3>2
  <2>. QED  BY <2>1, <2>2
<1>. QED  BY <1>2, <1>4, TurnView

LEMMA NextTurns ==
  ASSUME EqualPriorities, Alone => TurnInv, [Next]_vars
  PROVE  (Alone => TurnInv)' /\ [RR!Next]_(RR!rrvars)
<1>1. yielders' = yielders /\ (Alone' <=> Alone)
  BY DEF Next, Tick, Yield, Schedule, vars, Alone
<1>2. CASE ~Alone
  BY <1>1, <1>2, TurnView DEF TurnCur, TurnQueue, TurnLeft
<1>3. CASE Alone /\ UNCHANGED vars
  <2>1. UNCHANGED <<cur, ticks, rank, resched, yielders>>
    BY <1>3 DEF vars
  <2>2. Waiting' = Waiting
    BY <2>1 DEF Waiting, Before
  <2>3. TurnInv'
    BY <1>3, <2>1 DEF TurnInv
  <2>. QED  BY <1>1, <2>1, <2>2, <2>3, TurnView DEF TurnCur, TurnQueue, TurnLeft
<1>4. CASE Alone /\ Tick
  BY <1>4, TickTurns DEF RR!Next
<1>5. CASE Alone /\ Schedule
  BY <1>5, ScheduleTurns DEF RR!Next
<1>. QED  BY <1>2, <1>3, <1>4, <1>5 DEF Next, Yield, Alone

(* Tasks of one priority that do not yield get a quantum each, in the same *)
(* order for ever: nobody is passed over and nobody is served twice.       *)
THEOREM EqualTasksTakeTurns ==
  ASSUME EqualPriorities
  PROVE  Spec => ImplementsRoundRobin
<1>1. Init => (Alone => TurnInv) /\ RR!Init
  BY TurnsInit
<1>2. (Alone => TurnInv) /\ [Next]_vars => (Alone => TurnInv)' /\ [RR!Next]_(RR!rrvars)
  BY NextTurns
<1>. QED  BY <1>1, <1>2, PTL DEF Spec, ImplementsRoundRobin, RR!Spec
=============================================================================
