----------------------------- MODULE PoolProofs -----------------------------
(***************************************************************************)
(* Proofs about the two pools: ConnectionPool, for any finite sets of      *)
(* threads and of connections and any pool size, and, in the second half,  *)
(* ObjectPool, for any finite set of callers and any limits.               *)
(***************************************************************************)
EXTENDS ConnectionPool, ObjectPool, FiniteSetTheorems, TLAPS

(* The threads that will put a connection into the queue.                  *)
Enqueuing == {t \in Threads : where[t] = "enqueue"}

(* The queue has room for every connection that is about to be put there.  *)
RoomReserved ==
  maxSize = 0 \/ Cardinality(pool) + Cardinality(Enqueuing) <= maxSize

(* A thread carries a connection exactly between the two changes.          *)
ArgInTransit == \A t \in Threads : arg[t] \in Conns <=> t \in Between

(* Every connection is in at most one place.                               *)
OnePlace ==
  /\ pool \cap closed = {} /\ pool \cap refused = {} /\ closed \cap refused = {}
  /\ \A t \in Threads :
       /\ arg[t] \notin pool \cup closed \cup refused
       /\ held[t] \cap (pool \cup closed \cup refused) = {}
       /\ \A u \in Threads : arg[u] \notin held[t]
       /\ \A u \in Threads : t # u =>
            /\ held[t] \cap held[u] = {}
            /\ arg[t] = arg[u] => arg[t] = NoConn

Shape ==
  /\ pool \in SUBSET Conns /\ closed \in SUBSET Conns /\ refused \in SUBSET Conns
  /\ count \in Int
  /\ maxSize \in {0, DefaultPoolSize}
  /\ where   \in [Threads -> Locations]
  /\ arg  \in [Threads -> Conns \cup {NoConn}]
  /\ held \in [Threads -> SUBSET Conns]

Inv == Shape /\ ArgInTransit /\ OnePlace /\ CountIsExact /\ RoomReserved

USE ThreadsAssumption, ConnsAssumption, SizeAssumption

-----------------------------------------------------------------------------
LEMMA Finite ==
  ASSUME Shape
  PROVE  /\ IsFiniteSet(pool) /\ IsFiniteSet(closed)
         /\ IsFiniteSet(Between) /\ IsFiniteSet(Enqueuing)
         /\ Cardinality(pool) \in Nat /\ Cardinality(closed) \in Nat
         /\ Cardinality(Between) \in Nat /\ Cardinality(Enqueuing) \in Nat
<1>1. IsFiniteSet(pool) /\ IsFiniteSet(closed)
  BY FS_Subset DEF Shape
<1>2. Between \in SUBSET Threads /\ Enqueuing \in SUBSET Threads
  BY DEF Between, Enqueuing
<1>3. IsFiniteSet(Between) /\ IsFiniteSet(Enqueuing)
  BY <1>2, FS_Subset
<1> QED
  BY <1>1, <1>3, FS_CardinalityType

(* How the two sets of threads follow the program counter of one of them.  *)
LEMMA PcMoves ==
  ASSUME Shape, NEW t \in Threads, NEW l \in Locations, where' = [where EXCEPT ![t] = l]
  PROVE  /\ Between' = IF l \in {"taken", "enqueue", "undo"}
                       THEN Between \cup {t} ELSE Between \ {t}
         /\ Enqueuing' = IF l = "enqueue"
                         THEN Enqueuing \cup {t} ELSE Enqueuing \ {t}
  BY DEF Shape, Between, Enqueuing

LEMMA Counting ==
  ASSUME NEW S, IsFiniteSet(S), NEW x
  PROVE  /\ x \notin S => Cardinality(S \cup {x}) = Cardinality(S) + 1
         /\ x \in S => Cardinality(S \ {x}) = Cardinality(S) - 1
         /\ x \notin S => S \ {x} = S
         /\ x \in S => S \cup {x} = S
  BY FS_AddElement, FS_RemoveElement

-----------------------------------------------------------------------------
LEMMA InitInv == CInit => Inv
<1> SUFFICES ASSUME CInit PROVE Inv
  OBVIOUS
<1>1. Shape /\ ArgInTransit /\ OnePlace
  BY DEF CInit, Shape, ArgInTransit, OnePlace, Between, Locations
<1>2. Between = {} /\ Enqueuing = {} /\ pool = {} /\ closed = {}
  BY DEF CInit, Between, Enqueuing
<1>3. Cardinality({}) = 0
  BY FS_EmptySet
<1> QED
  BY <1>1, <1>2, <1>3 DEF CInit, Inv, CountIsExact, RoomReserved

(* Where the connections are.                                              *)
LEMMA PlacesStep ==
  ASSUME Inv, NEW t \in Threads, Step(t)
  PROVE  Shape' /\ ArgInTransit' /\ OnePlace'
<1> USE DEF Inv, Shape, ArgInTransit, OnePlace, Between, Locations
<1>1. CASE RentDequeue(t)
  BY <1>1 DEF RentDequeue, MayRent
<1>2. CASE RentDecrement(t)
  BY <1>2 DEF RentDecrement, HandOver
<1>3. CASE RentMiss(t)
  BY <1>3 DEF RentMiss, MayRent
<1>4. CASE RentActivate(t)
  <2>1. PICK c \in Conns \ Known : held' = [held EXCEPT ![t] = @ \cup {c}]
    BY <1>4 DEF RentActivate
  <2>2. /\ c \notin pool \cup closed \cup refused
        /\ \A u \in Threads : c \notin held[u] /\ c # arg[u]
    BY <2>1 DEF Known
  <2>3. /\ UNCHANGED <<pool, count, maxSize, arg, closed, refused>>
        /\ where[t] = "activate" /\ where' = [where EXCEPT ![t] = "ready"]
    BY <1>4 DEF RentActivate
  <2>4. Shape' /\ ArgInTransit'
    BY <2>1, <2>3
  <2>5. OnePlace'
    BY <2>1, <2>2, <2>3
  <2> QED
    BY <2>4, <2>5
<1>5. CASE RentThrows(t)
  BY <1>5 DEF RentThrows
<1>6. CASE ReturnIncrement(t)
  BY <1>6 DEF ReturnIncrement
<1>7. CASE ReturnEnqueue(t)
  BY <1>7 DEF ReturnEnqueue
<1>8. CASE ReturnUndo(t)
  BY <1>8 DEF ReturnUndo
<1>9. CASE Dispose(t) \/ DrainEnd(t)
  BY <1>9 DEF Dispose, DrainEnd
<1>10. CASE DrainOne(t)
  BY <1>10 DEF DrainOne
<1> QED
  BY <1>1, <1>2, <1>3, <1>4, <1>5, <1>6, <1>7, <1>8, <1>9, <1>10 DEF Step

(* What the counter counts.                                                *)
LEMMA CountStep ==
  ASSUME Inv, NEW t \in Threads, Step(t)
  PROVE  CountIsExact' /\ RoomReserved'
<1>0. Shape /\ CountIsExact /\ RoomReserved
  BY DEF Inv
<1>1. /\ IsFiniteSet(pool) /\ IsFiniteSet(closed)
      /\ IsFiniteSet(Between) /\ IsFiniteSet(Enqueuing)
      /\ Cardinality(pool) \in Nat /\ Cardinality(closed) \in Nat
      /\ Cardinality(Between) \in Nat /\ Cardinality(Enqueuing) \in Nat
      /\ count \in Int /\ maxSize \in Nat /\ DefaultPoolSize \in Nat
  BY <1>0, Finite DEF Shape
<1>2. /\ t \in Between <=> where[t] \in {"taken", "enqueue", "undo"}
      /\ t \in Enqueuing <=> where[t] = "enqueue"
  BY DEF Between, Enqueuing
<1> USE DEF CountIsExact, RoomReserved
<1>3. CASE RentDequeue(t)
  <2>1. PICK c \in pool : pool' = pool \ {c}
    BY <1>3 DEF RentDequeue
  <2>2. Cardinality(pool') = Cardinality(pool) - 1
    BY <1>1, <2>1, Counting
  <2>3. Between' = Between \cup {t} /\ Enqueuing' = Enqueuing \ {t}
    BY <1>0, <1>3, PcMoves DEF RentDequeue, Locations
  <2>4. t \notin Between /\ t \notin Enqueuing
    BY <1>2, <1>3 DEF RentDequeue, MayRent
  <2>5. /\ Cardinality(Between') = Cardinality(Between) + 1
        /\ Enqueuing' = Enqueuing
    BY <1>1, <2>3, <2>4, Counting
  <2>6. UNCHANGED <<count, maxSize, closed>>
    BY <1>3 DEF RentDequeue
  <2> QED
    BY <1>0, <1>1, <2>2, <2>5, <2>6
<1>4. CASE RentDecrement(t) \/ ReturnUndo(t)
  <2>1. Between' = Between \ {t} /\ Enqueuing' = Enqueuing \ {t}
    BY <1>0, <1>4, PcMoves DEF RentDecrement, HandOver, ReturnUndo, Locations
  <2>2. t \in Between /\ t \notin Enqueuing
    BY <1>2, <1>4 DEF RentDecrement, ReturnUndo
  <2>3. Cardinality(Between') = Cardinality(Between) - 1 /\ Enqueuing' = Enqueuing
    BY <1>1, <2>1, <2>2, Counting
  <2>4. count' = count - 1 /\ UNCHANGED <<pool, maxSize, closed>>
    BY <1>4 DEF RentDecrement, ReturnUndo
  <2> QED
    BY <1>0, <1>1, <2>3, <2>4
<1>5. CASE RentMiss(t) \/ RentActivate(t) \/ RentThrows(t)
  <2>1. Between' = Between \ {t} /\ Enqueuing' = Enqueuing \ {t}
    BY <1>0, <1>5, PcMoves DEF RentMiss, RentActivate, RentThrows, Locations
  <2>2. t \notin Between /\ t \notin Enqueuing
    BY <1>2, <1>5 DEF RentMiss, MayRent, RentActivate, RentThrows
  <2>3. Between' = Between /\ Enqueuing' = Enqueuing
    BY <2>1, <2>2
  <2>4. UNCHANGED <<count, pool, maxSize, closed>>
    BY <1>5 DEF RentMiss, RentActivate, RentThrows
  <2> QED
    BY <1>0, <2>3, <2>4
<1>6. CASE ReturnIncrement(t)
  <2>1. /\ Between' = Between \cup {t}
        /\ Enqueuing' = IF Fits(count + 1) THEN Enqueuing \cup {t}
                                          ELSE Enqueuing \ {t}
    BY <1>0, <1>6, PcMoves DEF ReturnIncrement, Locations
  <2>2. t \notin Between /\ t \notin Enqueuing
    BY <1>2, <1>6 DEF ReturnIncrement
  <2>3. Cardinality(Between') = Cardinality(Between) + 1
    BY <1>1, <2>1, <2>2, Counting
  <2>4. count' = count + 1 /\ UNCHANGED <<pool, maxSize, closed>>
    BY <1>6 DEF ReturnIncrement
  <2>5. CountIsExact'
    BY <1>0, <1>1, <2>3, <2>4
  <2>6. CASE Fits(count + 1)
    <3>1. Cardinality(Enqueuing') = Cardinality(Enqueuing) + 1
      BY <1>1, <2>1, <2>2, <2>6, Counting
    <3>2. Enqueuing \in SUBSET Between
      BY DEF Enqueuing, Between
    <3>3. Cardinality(Enqueuing) <= Cardinality(Between)
      BY <1>1, <3>2, FS_Subset
    <3> QED
      BY <1>0, <1>1, <2>4, <2>5, <2>6, <3>1, <3>3 DEF Fits
  <2>7. CASE ~ Fits(count + 1)
    BY <1>0, <2>1, <2>2, <2>4, <2>5, <2>7
  <2> QED
    BY <2>6, <2>7
<1>7. CASE ReturnEnqueue(t)
  <2>1. arg[t] \in Conns /\ arg[t] \notin pool
    BY <1>2, <1>7 DEF ReturnEnqueue, Inv, ArgInTransit, OnePlace
  <2>2. pool' = pool \cup {arg[t]} /\ UNCHANGED <<count, maxSize, closed>>
    BY <1>7 DEF ReturnEnqueue
  <2>3. Cardinality(pool') = Cardinality(pool) + 1
    BY <1>1, <2>1, <2>2, Counting
  <2>4. Between' = Between \ {t} /\ Enqueuing' = Enqueuing \ {t}
    BY <1>0, <1>7, PcMoves DEF ReturnEnqueue, Locations
  <2>5. t \in Between /\ t \in Enqueuing
    BY <1>2, <1>7 DEF ReturnEnqueue
  <2>6. /\ Cardinality(Between') = Cardinality(Between) - 1
        /\ Cardinality(Enqueuing') = Cardinality(Enqueuing) - 1
    BY <1>1, <2>4, <2>5, Counting
  <2> QED
    BY <1>0, <1>1, <2>2, <2>3, <2>6
<1>8. CASE Dispose(t) \/ DrainEnd(t)
  <2>1. Between' = Between \ {t} /\ Enqueuing' = Enqueuing \ {t}
    BY <1>0, <1>8, PcMoves DEF Dispose, DrainEnd, Locations
  <2>2. t \notin Between /\ t \notin Enqueuing
    BY <1>2, <1>8 DEF Dispose, DrainEnd
  <2>3. Between' = Between /\ Enqueuing' = Enqueuing
    BY <2>1, <2>2
  <2>4. UNCHANGED <<count, pool, closed>> /\ maxSize' \in {0, maxSize}
    BY <1>8 DEF Dispose, DrainEnd
  <2> QED
    BY <1>0, <2>3, <2>4
<1>9. CASE DrainOne(t)
  <2>1. PICK c \in pool : pool' = pool \ {c} /\ closed' = closed \cup {c}
    BY <1>9 DEF DrainOne
  <2>2. c \notin closed
    BY <2>1 DEF Inv, OnePlace
  <2>3. /\ Cardinality(pool') = Cardinality(pool) - 1
        /\ Cardinality(closed') = Cardinality(closed) + 1
    BY <1>1, <2>1, <2>2, Counting
  <2>4. UNCHANGED <<count, maxSize>> /\ Between' = Between /\ Enqueuing' = Enqueuing
    BY <1>9 DEF DrainOne, Between, Enqueuing
  <2> QED
    BY <1>0, <1>1, <2>3, <2>4
<1> QED
  BY <1>3, <1>4, <1>5, <1>6, <1>7, <1>8, <1>9 DEF Step

LEMMA Inductive == CSpec => []Inv
<1>1. Inv /\ [CNext]_cVars => Inv'
  <2>1. ASSUME Inv, UNCHANGED cVars PROVE Inv'
    BY <2>1 DEF cVars, Inv, Shape, ArgInTransit, OnePlace, CountIsExact,
                RoomReserved, Between, Enqueuing
  <2> QED
    BY <2>1, PlacesStep, CountStep DEF CNext, Inv
<1> QED
  BY InitInv, <1>1, PTL DEF CSpec

-----------------------------------------------------------------------------
(* The counter is exact at every moment, up to the steps in between.       *)
THEOREM CounterNeverDrifts == CSpec => []CountIsExact
  BY Inductive, PTL DEF Inv

(* Every variable keeps its type; in particular the assertion of Rent that *)
(* the counter is not negative holds whatever the other threads do.        *)
THEOREM TypeCorrect == CSpec => []PoolTypes
<1>1. Inv => PoolTypes
  <2> SUFFICES ASSUME Inv PROVE count \in 0..(Cardinality(Conns) + Cardinality(Threads))
    BY DEF Inv, Shape, PoolTypes
  <2>1. Shape /\ CountIsExact /\ pool \cap closed = {}
    BY DEF Inv, OnePlace
  <2>2. /\ Cardinality(pool) \in Nat /\ Cardinality(closed) \in Nat
        /\ Cardinality(Between) \in Nat /\ IsFiniteSet(pool) /\ IsFiniteSet(closed)
    BY <2>1, Finite
  <2>3. Cardinality(pool \cup closed) = Cardinality(pool) + Cardinality(closed)
    <3>1. Cardinality(pool \cap closed) = 0
      BY <2>1, FS_EmptySet
    <3> QED
      <4>1. Cardinality(pool \cup closed)
              = Cardinality(pool) + Cardinality(closed) - Cardinality(pool \cap closed)
        BY <2>2, FS_Union
      <4> QED
        BY <4>1, <3>1, <2>2
  <2>4. pool \cup closed \in SUBSET Conns /\ Between \in SUBSET Threads
    BY <2>1 DEF Shape, Between
  <2>5. /\ Cardinality(pool \cup closed) <= Cardinality(Conns)
        /\ Cardinality(Between) <= Cardinality(Threads)
    BY <2>4, FS_Subset
  <2>6. Cardinality(Conns) \in Nat /\ Cardinality(Threads) \in Nat
    BY FS_CardinalityType
  <2> QED
    BY <2>1, <2>2, <2>3, <2>5, <2>6 DEF CountIsExact
<1> QED
  BY Inductive, <1>1, PTL

(* The queue holds at most _maxSize connections, so the assertion of       *)
(* Return holds: every thread about to enqueue has reserved its room.      *)
THEOREM PoolBound == CSpec => []PoolIsBounded
<1>1. Inv => PoolIsBounded
  <2> SUFFICES ASSUME Inv PROVE PoolIsBounded
    OBVIOUS
  <2>1. /\ Cardinality(pool) \in Nat /\ Cardinality(Enqueuing) \in Nat
        /\ maxSize \in Nat
    BY Finite DEF Inv, Shape
  <2> QED
    BY <2>1 DEF Inv, RoomReserved, PoolIsBounded
<1> QED
  BY Inductive, <1>1, PTL

(* No connection is rented to two threads, pooled or closed while rented.  *)
THEOREM ExclusiveRent == CSpec => []RentIsExclusive
<1>1. Inv => RentIsExclusive
  BY DEF Inv, OnePlace, RentIsExclusive
<1> QED
  BY Inductive, <1>1, PTL

-----------------------------------------------------------------------------
(***************************************************************************)
(* The object pool.                                                        *)
(***************************************************************************)
Incrementing == {t \in Callers : at[t] = "increment"}
Creating     == {t \in Callers : at[t] = "create"}

Made == (1..made) \cup {NoObject}

ObjectShape ==
  /\ isTaked \in BOOLEAN
  /\ queue \in Seq(Made)
  /\ tryNewObject \in Nat /\ made \in Nat
  /\ at \in [Callers -> ObjectLocations]
  /\ obj \in [Callers -> Made]
  /\ throws \in [Callers -> BOOLEAN]

(* A thread that has passed the comparison may still increment: this is    *)
(* how far the limit can be passed.                                        *)
WithinLimit ==
  /\ MinSize <= made
  /\ made + Cardinality(Creating) <= tryNewObject
  /\ tryNewObject + Cardinality(Incrementing)
       <= MinSize + MaxSize + Cardinality(Callers)

(* Up to the moment it has an object, a thread has none and no exception.  *)
EmptyHanded ==
  \A t \in Callers :
    at[t] \in {"idle", "increment", "create", "enterTake", "take"}
      => obj[t] = NoObject /\ ~ throws[t]

LockIsTaken == \A t \in Callers : InLock(t) => isTaked

(* Each object is in one place of the queue or with one thread.            *)
PooledOnce ==
  /\ \A i, j \in DOMAIN queue : queue[i] = queue[j] /\ queue[i] # NoObject => i = j
  /\ \A t \in Callers : OnItsWay(t) =>
       /\ \A i \in DOMAIN queue : queue[i] # obj[t]
       /\ \A u \in Callers : OnItsWay(u) /\ obj[u] = obj[t] => t = u
  /\ \A o \in 1..made :
       \/ \E i \in DOMAIN queue : queue[i] = o
       \/ \E t \in Callers : OnItsWay(t) /\ obj[t] = o

LockInv == LockIsTaken /\ QueueIsGuarded /\ LostByEmptyQueueOnly

ObjectInv == ObjectShape /\ WithinLimit /\ EmptyHanded /\ LockInv /\ PooledOnce

LEMMA ObjectInit == OInit => ObjectInv
<1> SUFFICES ASSUME OInit PROVE ObjectInv
  OBVIOUS
<1> USE SizesAssumption, NoObjectAssumption
<1>1. ObjectShape
  <2>1. queue \in Seq(Made)
    BY DEF OInit, Made
  <2> QED
    BY <2>1 DEF OInit, ObjectShape, ObjectLocations, Made
<1>2. WithinLimit
  <2>1. Creating = {} /\ Incrementing = {}
    BY DEF OInit, Creating, Incrementing
  <2>2. Cardinality({}) = 0 /\ Cardinality(Callers) \in Nat
    BY CallersAssumption, FS_EmptySet, FS_CardinalityType
  <2> QED
    BY <2>1, <2>2 DEF OInit, WithinLimit
<1>3. EmptyHanded /\ LockInv
  BY DEF OInit, EmptyHanded, LockInv, LockIsTaken, QueueIsGuarded,
         LostByEmptyQueueOnly, InLock
<1>4. PooledOnce
  <2>1. DOMAIN queue = 1..made /\ \A i \in 1..made : queue[i] = i
    BY DEF OInit
  <2>2. \A t \in Callers : ~ OnItsWay(t)
    BY DEF OInit, OnItsWay
  <2> QED
    BY <2>1, <2>2 DEF PooledOnce
<1> QED
  BY <1>1, <1>2, <1>3, <1>4 DEF ObjectInv

(* The types, and that a thread has nothing before it is given something.  *)
LEMMA ObjectShapeStep ==
  ASSUME ObjectInv, NEW t \in Callers, Compare(t) \/ Call(t) \/ Finish(t)
  PROVE  ObjectShape' /\ EmptyHanded'
<1> USE DEF ObjectInv, ObjectShape, EmptyHanded, ObjectLocations, Made, Goto
<1>1. CASE Compare(t)
  BY <1>1 DEF Compare
<1>2. CASE Increment(t)
  BY <1>2 DEF Increment
<1>3. CASE Create(t)
  <2>1. made' = made + 1 /\ obj' = [obj EXCEPT ![t] = made + 1]
    BY <1>3 DEF Create
  <2>2. queue' = queue /\ Made \in SUBSET Made'
    BY <1>3, <2>1 DEF Create
  <2>3. queue' \in Seq(Made')
    BY <2>2
  <2> QED
    BY <1>3, <2>1, <2>3 DEF Create
<1>4. CASE CreateThrows(t)
  BY <1>4 DEF CreateThrows
<1>5. CASE Enter(t)
  BY <1>5 DEF Enter
<1>6. CASE Leave(t)
  BY <1>6 DEF Leave
<1>7. CASE Dequeue(t)
  <2>1. queue' \in Seq(Made) /\ Head(queue) \in Made
    BY <1>7 DEF Dequeue
  <2> QED
    BY <1>7, <2>1 DEF Dequeue
<1>8. CASE DequeueThrows(t)
  BY <1>8 DEF DequeueThrows
<1>9. CASE Enqueue(t)
  <2>1. queue' \in Seq(Made)
    BY <1>9 DEF Enqueue
  <2> QED
    BY <1>9, <2>1 DEF Enqueue
<1>10. CASE Finish(t)
  BY <1>10 DEF Finish
<1> QED
  BY <1>1, <1>2, <1>3, <1>4, <1>5, <1>6, <1>7, <1>8, <1>9, <1>10 DEF Call

(* How far the limit of the pool can be passed.                            *)
LEMMA WithinLimitStep ==
  ASSUME ObjectInv, NEW t \in Callers, Compare(t) \/ Call(t) \/ Finish(t)
  PROVE  WithinLimit'
<1>0. /\ IsFiniteSet(Creating) /\ IsFiniteSet(Incrementing)
      /\ Cardinality(Creating) \in Nat /\ Cardinality(Incrementing) \in Nat
      /\ Cardinality(Callers) \in Nat
      /\ Cardinality(Creating') \in Nat /\ Cardinality(Incrementing') \in Nat
      /\ Cardinality(Incrementing') <= Cardinality(Callers)
  <2>1. /\ Creating \in SUBSET Callers /\ Incrementing \in SUBSET Callers
        /\ Creating' \in SUBSET Callers /\ Incrementing' \in SUBSET Callers
    BY DEF Creating, Incrementing
  <2> QED
    BY <2>1, CallersAssumption, FS_Subset, FS_CardinalityType
<1>1. /\ ObjectShape /\ WithinLimit /\ made \in Nat /\ tryNewObject \in Nat
      /\ MinSize \in Nat /\ MaxSize \in Nat
  BY SizesAssumption DEF ObjectInv, ObjectShape
<1>2. /\ t \in Creating <=> at[t] = "create"
      /\ t \in Incrementing <=> at[t] = "increment"
  BY DEF Creating, Incrementing
(* How the two sets follow the program counter.                            *)
<1>3. ASSUME NEW l \in ObjectLocations, Goto(t, l)
      PROVE  /\ Creating' = IF l = "create" THEN Creating \cup {t} ELSE Creating \ {t}
             /\ Incrementing' = IF l = "increment" THEN Incrementing \cup {t}
                                ELSE Incrementing \ {t}
  BY <1>1, <1>3 DEF ObjectShape, Goto, Creating, Incrementing
<1>4. CASE Compare(t)
  <2>1. tryNewObject' = tryNewObject /\ made' = made /\ at[t] = "idle"
    BY <1>4 DEF Compare
  <2>2. CASE tryNewObject < MaxSize
    <3>1. Creating' = Creating \ {t}
      BY <1>3, <1>4, <2>2 DEF Compare, ObjectLocations
    <3>2. Cardinality(Creating') = Cardinality(Creating)
      BY <1>0, <1>2, <2>1, <3>1, Counting
    <3> QED
      BY <1>0, <1>1, <2>1, <2>2, <3>2 DEF WithinLimit
  <2>3. CASE ~ (tryNewObject < MaxSize)
    <3>1. Creating' = Creating \ {t} /\ Incrementing' = Incrementing \ {t}
      BY <1>3, <1>4, <2>3 DEF Compare, ObjectLocations
    <3>2. Creating' = Creating /\ Incrementing' = Incrementing
      BY <1>2, <2>1, <3>1
    <3> QED
      BY <1>1, <2>1, <3>2 DEF WithinLimit
  <2> QED
    BY <2>2, <2>3
<1>5. CASE Increment(t)
  <2>1. Creating' = Creating \cup {t} /\ Incrementing' = Incrementing \ {t}
    BY <1>3, <1>5 DEF Increment, ObjectLocations
  <2>2. /\ Cardinality(Creating') = Cardinality(Creating) + 1
        /\ Cardinality(Incrementing') = Cardinality(Incrementing) - 1
    BY <1>0, <1>2, <1>5, <2>1, Counting DEF Increment
  <2>3. tryNewObject' = tryNewObject + 1 /\ made' = made
    BY <1>5 DEF Increment
  <2> QED
    BY <1>0, <1>1, <2>2, <2>3 DEF WithinLimit
<1>6. CASE Create(t) \/ CreateThrows(t)
  <2>1. Creating' = Creating \ {t} /\ Incrementing' = Incrementing \ {t}
    BY <1>3, <1>6 DEF Create, CreateThrows, ObjectLocations
  <2>2. /\ Cardinality(Creating') = Cardinality(Creating) - 1
        /\ Incrementing' = Incrementing
    BY <1>0, <1>2, <1>6, <2>1, Counting DEF Create, CreateThrows
  <2>3. tryNewObject' = tryNewObject /\ made' \in {made, made + 1}
    BY <1>6 DEF Create, CreateThrows
  <2> QED
    BY <1>0, <1>1, <2>2, <2>3 DEF WithinLimit
<1>7. CASE Enter(t) \/ Leave(t) \/ Dequeue(t) \/ DequeueThrows(t) \/ Enqueue(t)
             \/ Finish(t)
  <2> USE DEF Enter, Leave, Dequeue, DequeueThrows, Enqueue, Finish
  <2>1. PICK l \in ObjectLocations \ {"create", "increment"} : Goto(t, l)
    BY <1>7 DEF ObjectLocations
  <2>2. at[t] # "create" /\ at[t] # "increment"
    BY <1>7
  <2>3. Creating' = Creating \ {t} /\ Incrementing' = Incrementing \ {t}
    BY <1>3, <2>1
  <2>4. Creating' = Creating /\ Incrementing' = Incrementing
    BY <1>2, <2>2, <2>3
  <2>5. tryNewObject' = tryNewObject /\ made' = made
    BY <1>7
  <2> QED
    BY <1>1, <2>4, <2>5 DEF WithinLimit
<1> QED
  BY <1>4, <1>5, <1>6, <1>7 DEF Call

(* The spin lock.  A thread that leaves it by an exception stays behind    *)
(* with the lock taken and the queue empty, and no step changes either.    *)
LEMMA LockStep ==
  ASSUME ObjectInv, NEW t \in Callers, Compare(t) \/ Call(t) \/ Finish(t)
  PROVE  LockInv'
<1> USE DEF ObjectInv, ObjectShape, EmptyHanded, Goto, LockInv, LockIsTaken,
            QueueIsGuarded, LostByEmptyQueueOnly, InLock, ObjectLocations, Free
<1>1. CASE Compare(t)
  BY <1>1 DEF Compare
<1>2. CASE Increment(t)
  BY <1>2 DEF Increment
<1>3. CASE Create(t) \/ CreateThrows(t)
  BY <1>3 DEF Create, CreateThrows
<1>4. CASE Enter(t)
  BY <1>4 DEF Enter
<1>5. CASE Leave(t)
  BY <1>5 DEF Leave
<1>6. CASE Dequeue(t)
  BY <1>6 DEF Dequeue
<1>7. CASE DequeueThrows(t)
  BY <1>7 DEF DequeueThrows
<1>8. CASE Enqueue(t)
  BY <1>8 DEF Enqueue
<1>9. CASE Finish(t)
  BY <1>9 DEF Finish
<1> QED
  BY <1>1, <1>2, <1>3, <1>4, <1>5, <1>6, <1>7, <1>8, <1>9 DEF Call

(* Where the objects are.                                                  *)
LEMMA PooledStep ==
  ASSUME ObjectInv, NEW t \in Callers, Compare(t) \/ Call(t) \/ Finish(t)
  PROVE  PooledOnce'
<1> USE NoObjectAssumption
<1>0. /\ queue \in Seq(Made) /\ made \in Nat /\ at \in [Callers -> ObjectLocations]
      /\ obj \in [Callers -> Made] /\ PooledOnce /\ EmptyHanded
  BY DEF ObjectInv, ObjectShape
(* A step that neither moves nor makes an object.                          *)
<1>1. ASSUME UNCHANGED <<queue, made, obj>>,
             \A u \in Callers : OnItsWay(u)' <=> OnItsWay(u)
      PROVE  PooledOnce'
  BY <1>0, <1>1 DEF PooledOnce
<1>2. CASE Compare(t) \/ Increment(t) \/ CreateThrows(t) \/ Enter(t) \/ DequeueThrows(t)
  <2>1. UNCHANGED <<queue, made, obj>>
    BY <1>2 DEF Compare, Increment, CreateThrows, Enter, DequeueThrows
  <2>2. \A u \in Callers : OnItsWay(u)' <=> OnItsWay(u)
    BY <1>0, <1>2 DEF Compare, Increment, CreateThrows, Enter, DequeueThrows,
                      OnItsWay, EmptyHanded, Goto
  <2> QED
    BY <1>1, <2>1, <2>2
<1>3. CASE Leave(t)
  <2>1. UNCHANGED <<queue, made, obj>>
    BY <1>3 DEF Leave
  <2>2. \A u \in Callers : OnItsWay(u)' <=> OnItsWay(u)
    BY <1>0, <1>3 DEF Leave, OnItsWay, Goto
  <2> QED
    BY <1>1, <2>1, <2>2
<1>4. CASE Finish(t)
  <2>1. UNCHANGED <<queue, made>>
    BY <1>4 DEF Finish
  <2>2. \A u \in Callers : /\ OnItsWay(u)' <=> OnItsWay(u)
                           /\ OnItsWay(u) => obj'[u] = obj[u]
    BY <1>0, <1>4 DEF Finish, OnItsWay, Goto
  <2>3. \A u \in Callers : OnItsWay(u)' => obj'[u] = obj[u]
    BY <2>2
  <2>4. ASSUME NEW u \in Callers, OnItsWay(u)'
        PROVE  /\ \A i \in DOMAIN queue : queue[i] # obj'[u]
               /\ \A v \in Callers : OnItsWay(v)' /\ obj'[v] = obj'[u] => u = v
    BY <1>0, <2>2, <2>3, <2>4 DEF PooledOnce
  <2>5. ASSUME NEW o \in 1..made, NEW u \in Callers, OnItsWay(u), obj[u] = o
        PROVE  \E v \in Callers : OnItsWay(v)' /\ obj'[v] = o
    BY <2>2, <2>5
  <2> QED
    BY <1>0, <2>1, <2>4, <2>5 DEF PooledOnce
<1>5. CASE Create(t)
  <2>1. /\ made' = made + 1 /\ obj' = [obj EXCEPT ![t] = made + 1]
        /\ queue' = queue /\ at[t] = "create" /\ at' = [at EXCEPT ![t] = "enterPut"]
    BY <1>5 DEF Create, Goto
  <2>2. /\ OnItsWay(t)' /\ obj'[t] = made' /\ ~ OnItsWay(t)
        /\ \A u \in Callers : u # t => /\ OnItsWay(u)' <=> OnItsWay(u)
                                       /\ obj'[u] = obj[u]
    BY <1>0, <2>1 DEF OnItsWay
  <2>3. /\ \A i \in DOMAIN queue : queue[i] # made'
        /\ \A u \in Callers : obj[u] # made'
    BY <1>0, <2>1 DEF Made
  <2>4. \A o \in 1..made' : o \in 1..made \/ o = made'
    BY <1>0, <2>1
  <2> QED
    BY <1>0, <2>1, <2>2, <2>3, <2>4 DEF PooledOnce
<1>6. CASE Dequeue(t)
  <2>1. /\ queue # <<>> /\ queue' = Tail(queue) /\ obj' = [obj EXCEPT ![t] = Head(queue)]
        /\ at[t] = "take" /\ at' = [at EXCEPT ![t] = "leaveTake"] /\ made' = made
    BY <1>6 DEF Dequeue, Goto
  <2>2. /\ Head(queue) = queue[1] /\ 1 \in DOMAIN queue
        /\ \A i \in DOMAIN queue' : i + 1 \in DOMAIN queue /\ queue'[i] = queue[i + 1]
                                   /\ i + 1 # 1
        /\ \A i \in DOMAIN queue : i = 1 \/ (i - 1 \in DOMAIN queue' /\ queue'[i - 1] = queue[i])
    BY <1>0, <2>1, SMTT(25)
  <2>3. /\ obj'[t] = queue[1] /\ ~ OnItsWay(t)
        /\ OnItsWay(t)' <=> queue[1] # NoObject
        /\ \A u \in Callers : u # t => /\ OnItsWay(u)' <=> OnItsWay(u)
                                       /\ obj'[u] = obj[u]
    BY <1>0, <2>1, <2>2 DEF OnItsWay
  <2>4. \A i, j \in DOMAIN queue' :
          queue'[i] = queue'[j] /\ queue'[i] # NoObject => i = j
    <3>1. SUFFICES ASSUME NEW i \in DOMAIN queue', NEW j \in DOMAIN queue',
                          queue'[i] = queue'[j], queue'[i] # NoObject
                   PROVE  i = j
      OBVIOUS
    <3>2. i + 1 = j + 1
      BY <1>0, <2>2, <3>1 DEF PooledOnce
    <3>3. i \in Int /\ j \in Int
      BY <1>0, <2>1
    <3> QED
      BY <3>2, <3>3
  <2>5. ASSUME NEW u \in Callers, OnItsWay(u)'
        PROVE  /\ \A i \in DOMAIN queue' : queue'[i] # obj'[u]
               /\ \A v \in Callers : OnItsWay(v)' /\ obj'[v] = obj'[u] => u = v
    BY <1>0, <2>2, <2>3, <2>5 DEF PooledOnce
  <2>6. ASSUME NEW o \in 1..made
        PROVE  \/ \E i \in DOMAIN queue' : queue'[i] = o
               \/ \E u \in Callers : OnItsWay(u)' /\ obj'[u] = o
    <3>1. o # NoObject
      BY <1>0
    <3>2. CASE \E i \in DOMAIN queue : queue[i] = o
      BY <2>2, <2>3, <3>1, <3>2
    <3>3. CASE \E u \in Callers : OnItsWay(u) /\ obj[u] = o
      BY <2>3, <3>3
    <3> QED
      BY <1>0, <3>2, <3>3 DEF PooledOnce
  <2> QED
    BY <2>1, <2>4, <2>5, <2>6 DEF PooledOnce
<1>7. CASE Enqueue(t)
  <2>1. /\ queue' = Append(queue, obj[t]) /\ UNCHANGED <<made, obj>>
        /\ at[t] = "put" /\ at' = [at EXCEPT ![t] = "leavePut"]
    BY <1>7 DEF Enqueue, Goto
  <2> DEFINE last == Len(queue) + 1
  <2>2. /\ DOMAIN queue' = (DOMAIN queue) \cup {last} /\ last \notin DOMAIN queue
        /\ queue'[last] = obj[t]
        /\ \A i \in DOMAIN queue : queue'[i] = queue[i]
    BY <1>0, <2>1
  <2>3. /\ OnItsWay(t) <=> obj[t] # NoObject
        /\ ~ OnItsWay(t)'
        /\ \A u \in Callers : u # t => (OnItsWay(u)' <=> OnItsWay(u))
    BY <1>0, <2>1 DEF OnItsWay
  <2> HIDE DEF last
  <2>4. ASSUME NEW i \in DOMAIN queue', NEW j \in DOMAIN queue',
               queue'[i] = queue'[j], queue'[i] # NoObject
        PROVE  i = j
    BY <1>0, <2>2, <2>3, <2>4 DEF PooledOnce
  <2>5. ASSUME NEW u \in Callers, OnItsWay(u)'
        PROVE  /\ OnItsWay(u) /\ u # t
               /\ \A i \in DOMAIN queue' : queue'[i] # obj[u]
               /\ \A v \in Callers : OnItsWay(v)' /\ obj[v] = obj[u] => u = v
    <3>1. OnItsWay(u) /\ u # t
      BY <2>3, <2>5
    <3>2. obj[t] # obj[u]
      BY <1>0, <2>3, <3>1 DEF PooledOnce, OnItsWay
    <3> QED
      BY <1>0, <2>2, <2>3, <3>1, <3>2 DEF PooledOnce
  <2>6. ASSUME NEW o \in 1..made
        PROVE  \/ \E i \in DOMAIN queue' : queue'[i] = o
               \/ \E u \in Callers : OnItsWay(u)' /\ obj[u] = o
    BY <1>0, <2>2, <2>3 DEF PooledOnce
  <2> QED
    BY <2>1, <2>4, <2>5, <2>6 DEF PooledOnce
<1> QED
  BY <1>2, <1>3, <1>4, <1>5, <1>6, <1>7 DEF Call

LEMMA ObjectInductive == OSpec => []ObjectInv
<1>1. ObjectInv /\ [ONext]_oVars => ObjectInv'
  <2>1. ASSUME ObjectInv, UNCHANGED oVars PROVE ObjectInv'
    BY <2>1 DEF oVars, ObjectInv, ObjectShape, Made, WithinLimit, Creating,
                Incrementing, EmptyHanded, LockInv, LockIsTaken, QueueIsGuarded,
                LostByEmptyQueueOnly, InLock, PooledOnce, OnItsWay
  <2> QED
    BY <2>1, ObjectShapeStep, WithinLimitStep, LockStep, PooledStep
       DEF ONext, ObjectInv
<1> QED
  BY ObjectInit, <1>1, PTL DEF OSpec

(* The types, a queue with one user at a time, and a spin lock that is     *)
(* lost only to a thread that found the queue empty.                       *)
THEOREM SpinLock == OSpec => []SpinLockHolds
<1>1. ObjectInv => SpinLockHolds
  <2> SUFFICES ASSUME ObjectInv PROVE ObjectTypes
    BY DEF ObjectInv, LockInv, SpinLockHolds
  <2>1. Creating \in SUBSET Callers /\ Incrementing \in SUBSET Callers
    BY DEF Creating, Incrementing
  <2>2. /\ Cardinality(Creating) \in Nat /\ Cardinality(Incrementing) \in Nat
        /\ Cardinality(Callers) \in Nat
    BY <2>1, CallersAssumption, FS_Subset, FS_CardinalityType
  <2>3. /\ made \in MinSize..(MinSize + MaxSize + Cardinality(Callers))
        /\ tryNewObject \in MinSize..(MinSize + MaxSize + Cardinality(Callers))
    BY <2>2, SizesAssumption DEF ObjectInv, ObjectShape, WithinLimit
  <2>4. Made \in SUBSET (Objects \cup {NoObject})
    BY <2>2, <2>3, SizesAssumption DEF Made, Objects
  <2> QED
    BY <2>3, <2>4 DEF ObjectInv, ObjectShape, ObjectTypes
<1> QED
  BY ObjectInductive, <1>1, PTL

(* No object is pooled twice, and none that no caller uses is lost: while  *)
(* a caller has one, it is either in the queue or on its way there.        *)
THEOREM ObjectsAreOnce == OSpec => []EveryObjectIsOnce
<1>1. ObjectInv => EveryObjectIsOnce
  <2> DEFINE places(o)  == {i \in DOMAIN queue : queue[i] = o}
             holders(o) == {t \in Callers : OnItsWay(t) /\ obj[t] = o}
  <2> SUFFICES ASSUME ObjectInv, NEW o \in 1..made
               PROVE  Cardinality(places(o)) + Cardinality(holders(o)) = 1
    BY DEF EveryObjectIsOnce
  <2>1. Cardinality({}) = 0 /\ \A x : Cardinality({x}) = 1
    BY FS_EmptySet, FS_Singleton
  <2>2. o # NoObject
    BY NoObjectAssumption DEF ObjectInv, ObjectShape
  <2>3. CASE \E i \in DOMAIN queue : queue[i] = o
    <3>1. PICK i \in DOMAIN queue : queue[i] = o
      BY <2>3
    <3>2. places(o) = {i} /\ holders(o) = {}
      BY <2>2, <3>1 DEF ObjectInv, PooledOnce
    <3>3. Cardinality(places(o)) = 1 /\ Cardinality(holders(o)) = 0
      BY <2>1, <3>2
    <3> QED
      BY <3>3
  <2>4. CASE \E t \in Callers : OnItsWay(t) /\ obj[t] = o
    <3>1. PICK t \in Callers : OnItsWay(t) /\ obj[t] = o
      BY <2>4
    <3>2. places(o) = {} /\ holders(o) = {t}
      BY <3>1 DEF ObjectInv, PooledOnce
    <3>3. Cardinality(places(o)) = 0 /\ Cardinality(holders(o)) = 1
      BY <2>1, <3>2
    <3> QED
      BY <3>3
  <2> QED
    BY <2>3, <2>4 DEF ObjectInv, PooledOnce
<1> QED
  BY ObjectInductive, <1>1, PTL
=============================================================================
