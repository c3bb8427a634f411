--------------------------- MODULE ConnectionPool ---------------------------
(***************************************************************************)
(* Jy.RabbitMQ/ConnectionBuilder/ConnectionPool.cs: the broker connections *)
(* that publishers and consumers rent, and give back, without a lock: a    *)
(* concurrent queue and, next to it, an interlocked counter.  The two are  *)
(* changed one after the other, so between them they disagree.             *)
(*                                                                         *)
(* The queue is a set: which of the pooled connections comes out first     *)
(* makes no difference to what is stated here.  A thread may hold several  *)
(* rented connections, as RequestPublish does.                             *)
(***************************************************************************)
EXTENDS Integers, FiniteSets

CONSTANTS
  Threads,
  Conns,            \* the connections the activator may ever open
  NoConn,           \* a thread carries no connection into or out of the pool
  DefaultPoolSize,
  MaxHeld           \* the connections one thread rents at a time

ASSUME ThreadsAssumption == IsFiniteSet(Threads)
ASSUME ConnsAssumption   == IsFiniteSet(Conns) /\ NoConn \notin Conns
ASSUME SizeAssumption    == DefaultPoolSize \in Nat \ {0} /\ MaxHeld \in Nat

VARIABLES
  pool,     \* _pool: the connections waiting to be rented
  count,    \* _count
  maxSize,  \* _maxSize
  where,       \* where each thread is in Rent, Return or Dispose
  arg,      \* arg[t]: the connection on its way in or out of the pool
  held,     \* held[t]: the connections t has rented
  closed,   \* the connections Dispose has closed
  refused   \* those Return did not take: still open, and nobody's

cVars == <<pool, count, maxSize, where, arg, held, closed, refused>>

Locations ==
  {"ready", "activate", "taken", "enqueue", "undo", "draining"}

(* The threads between a change of the queue and that of the counter.      *)
Between == {t \in Threads : where[t] \in {"taken", "enqueue", "undo"}}

PoolTypes ==
  /\ pool    \in SUBSET Conns
  /\ count   \in 0..(Cardinality(Conns) + Cardinality(Threads))
  /\ maxSize \in {0, DefaultPoolSize}
  /\ where      \in [Threads -> Locations]
  /\ arg     \in [Threads -> Conns \cup {NoConn}]
  /\ held    \in [Threads -> SUBSET Conns]
  /\ closed  \in SUBSET Conns
  /\ refused \in SUBSET Conns

CInit ==
  /\ pool    = {}
  /\ count   = 0
  /\ maxSize = DefaultPoolSize
  /\ where      = [t \in Threads |-> "ready"]
  /\ arg     = [t \in Threads |-> NoConn]
  /\ held    = [t \in Threads |-> {}]
  /\ closed  = {}
  /\ refused = {}

(* The connections that some place still refers to.                        *)
Known ==
  {c \in Conns : \/ c \in pool \cup closed \cup refused
                \/ \E t \in Threads : c \in held[t] \/ c = arg[t]}

-----------------------------------------------------------------------------
(***************************************************************************)
(* Rent: take a connection from the queue, then count it out; or open one. *)
(***************************************************************************)
MayRent(t) == where[t] = "ready" /\ Cardinality(held[t]) < MaxHeld

(* a slip: the connection is looked at but stays in the queue *)
RentPeek(t) ==
  /\ MayRent(t)
  /\ \E c \in pool : arg' = [arg EXCEPT ![t] = c]
  /\ where' = [where EXCEPT ![t] = "taken"]
  /\ UNCHANGED <<pool, count, maxSize, held, closed, refused>>

RentDequeue(t) ==
  /\ MayRent(t)
  /\ \E c \in pool : pool' = pool \ {c} /\ arg' = [arg EXCEPT ![t] = c]
  /\ where' = [where EXCEPT ![t] = "taken"]
  /\ UNCHANGED <<count, maxSize, held, closed, refused>>

(* The connection in arg[t] is now t's.                                    *)
HandOver(t) ==
  /\ held' = [held EXCEPT ![t] = @ \cup {arg[t]}]
  /\ arg'  = [arg EXCEPT ![t] = NoConn]
  /\ where'   = [where EXCEPT ![t] = "ready"]

(* a slip: the connection is not counted out *)
RentNotCounted(t) ==
  /\ where[t] = "taken"
  /\ HandOver(t)
  /\ UNCHANGED <<pool, count, maxSize, closed, refused>>

RentDecrement(t) ==
  /\ where[t] = "taken"
  /\ count' = count - 1
  /\ HandOver(t)
  /\ UNCHANGED <<pool, maxSize, closed, refused>>

RentMiss(t) ==
  /\ MayRent(t)
  /\ pool = {}
  /\ where' = [where EXCEPT ![t] = "activate"]
  /\ UNCHANGED <<pool, count, maxSize, arg, held, closed, refused>>

(* A connection nobody has had; all of those are alike.                    *)
RentActivate(t) ==
  /\ where[t] = "activate"
  /\ Conns \ Known # {}
  /\ held' = [held EXCEPT ![t] = @ \cup {CHOOSE c \in Conns \ Known : TRUE}]
  /\ where' = [where EXCEPT ![t] = "ready"]
  /\ UNCHANGED <<pool, count, maxSize, arg, closed, refused>>

(* The broker does not answer: CreateConnection throws.                    *)
RentThrows(t) ==
  /\ where[t] = "activate"
  /\ where' = [where EXCEPT ![t] = "ready"]
  /\ UNCHANGED <<pool, count, maxSize, arg, held, closed, refused>>

(***************************************************************************)
(* Return: count the connection in, then put it in the queue; or, when     *)
(* that is one too many, count it out again.                               *)
(***************************************************************************)
(* a slip: the bound is checked before the increment *)
FitsBefore(n) == n - 1 <= maxSize

Fits(n) == n <= maxSize

ReturnIncrement(t) ==
  /\ where[t] = "ready"
  /\ \E c \in held[t] :
       /\ held' = [held EXCEPT ![t] = @ \ {c}]
       /\ arg'  = [arg EXCEPT ![t] = c]
  /\ count' = count + 1
  /\ where' = [where EXCEPT ![t] = IF Fits(count + 1) THEN "enqueue" ELSE "undo"]
  /\ UNCHANGED <<pool, maxSize, closed, refused>>

ReturnEnqueue(t) ==
  /\ where[t] = "enqueue"
  /\ pool' = pool \cup {arg[t]}
  /\ arg'  = [arg EXCEPT ![t] = NoConn]
  /\ where'   = [where EXCEPT ![t] = "ready"]
  /\ UNCHANGED <<count, maxSize, held, closed, refused>>

(* The callers ignore the false, and nobody closes the connection.         *)
ReturnUndo(t) ==
  /\ where[t] = "undo"
  /\ count'   = count - 1
  /\ refused' = refused \cup {arg[t]}
  /\ arg'     = [arg EXCEPT ![t] = NoConn]
  /\ where'      = [where EXCEPT ![t] = "ready"]
  /\ UNCHANGED <<pool, maxSize, held, closed>>

(***************************************************************************)
(* Dispose: nothing fits any more, then close what the queue holds.        *)
(***************************************************************************)
Dispose(t) ==
  /\ where[t] = "ready"
  /\ maxSize' = 0
  /\ where' = [where EXCEPT ![t] = "draining"]
  /\ UNCHANGED <<pool, count, arg, held, closed, refused>>

DrainOne(t) ==
  /\ where[t] = "draining"
  /\ \E c \in pool : pool' = pool \ {c} /\ closed' = closed \cup {c}
  /\ UNCHANGED <<count, maxSize, where, arg, held, refused>>

DrainEnd(t) ==
  /\ where[t] = "draining"
  /\ pool = {}
  /\ where' = [where EXCEPT ![t] = "ready"]
  /\ UNCHANGED <<pool, count, maxSize, arg, held, closed, refused>>

Step(t) ==
  \/ RentDequeue(t) \/ RentDecrement(t) \/ RentMiss(t) \/ RentActivate(t)
  \/ RentThrows(t) \/ ReturnIncrement(t) \/ ReturnEnqueue(t) \/ ReturnUndo(t)
  \/ Dispose(t) \/ DrainOne(t) \/ DrainEnd(t)

CNext == \E t \in Threads : Step(t)

CSpec == CInit /\ [][CNext]_cVars

-----------------------------------------------------------------------------
(***************************************************************************)
(* Properties.                                                             *)
(***************************************************************************)

(* The counter and the queue, changed one after the other by every thread, *)
(* never drift apart: what they differ by is what is between the two       *)
(* changes, and what Dispose took out without counting.  The counter is    *)
(* therefore never negative, as Debug.Assert(_count >= 0) of Rent expects, *)
(* which reads it again while other threads change it.                     *)
CountIsExact ==
  count = Cardinality(pool) + Cardinality(Between) + Cardinality(closed)

(* Debug.Assert(_maxSize == 0 || _pool.Count <= _maxSize) of Return, and   *)
(* so at every moment, though the queue itself is not bounded.             *)
PoolIsBounded == maxSize = 0 \/ Cardinality(pool) <= maxSize

(* A rented connection is rented to one thread, is not rented again before *)
(* it is back, and is not one that Dispose closed.                         *)
RentIsExclusive ==
  \A t \in Threads :
    /\ held[t] \cap (pool \cup closed \cup refused) = {}
    /\ \A u \in Threads : t # u => held[t] \cap held[u] = {}
=============================================================================
