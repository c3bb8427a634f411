----------------------------- MODULE ObjectPool -----------------------------
(***************************************************************************)
(* Jy.Cache/ObjectPool.cs: the pool the cache client keeps its redis       *)
(* databases in.  GetObject makes a new object while the pool is below its *)
(* limit and takes one from the queue otherwise, and in either case puts   *)
(* the object (back) into the queue before it returns it.  The queue is    *)
(* guarded by a spin lock.                                                 *)
(***************************************************************************)
EXTENDS Integers, FiniteSets, Sequences

CONSTANTS
  Callers,     \* the callers of GetObject
  MinSize,     \* the objects the constructor makes
  MaxSize,     \* maxSize
  NoObject,    \* default(T)
  FuncFails    \* whether func() may throw

ASSUME CallersAssumption  == IsFiniteSet(Callers)
ASSUME SizesAssumption    == MinSize \in Nat \ {0} /\ MaxSize \in Nat \ {0}
ASSUME NoObjectAssumption == NoObject \notin Nat
ASSUME FailsAssumption    == FuncFails \in BOOLEAN

VARIABLES
  isTaked,        \* the spin lock is taken
  queue,          \* the pooled objects, numbered as they are made
  tryNewObject,   \* how many objects were asked for, the constructor's included
  made,           \* how many were made
  at,             \* where each thread is in GetObject
  obj,            \* obj[t]: the local t
  throws          \* throws[t]: an exception is on its way through the finally

oVars == <<isTaked, queue, tryNewObject, made, at, obj, throws>>

ObjectLocations ==
  {"idle", "increment", "create", "enterTake", "take", "leaveTake",
   "enterPut", "put", "leavePut", "using", "thrown"}

Objects == 1..(MinSize + MaxSize + Cardinality(Callers))

ObjectTypes ==
  /\ isTaked \in BOOLEAN
  /\ queue \in Seq(Objects \cup {NoObject})
  /\ tryNewObject \in MinSize..(MinSize + MaxSize + Cardinality(Callers))
  /\ made \in MinSize..(MinSize + MaxSize + Cardinality(Callers))
  /\ at \in [Callers -> ObjectLocations]
  /\ obj \in [Callers -> Objects \cup {NoObject}]
  /\ throws \in [Callers -> BOOLEAN]

OInit ==
  /\ isTaked = FALSE
  /\ queue = [i \in 1..MinSize |-> i]
  /\ tryNewObject = MinSize
  /\ made = MinSize
  /\ at = [t \in Callers |-> "idle"]
  /\ obj = [t \in Callers |-> NoObject]
  /\ throws = [t \in Callers |-> FALSE]

Goto(t, l) == at' = [at EXCEPT ![t] = l]

(* if (tryNewObject < maxSize), read on its own, before the increment.     *)
Compare(t) ==
  /\ at[t] = "idle"
  /\ Goto(t, IF tryNewObject < MaxSize THEN "increment" ELSE "enterTake")
  /\ UNCHANGED <<isTaked, queue, tryNewObject, made, obj, throws>>

Increment(t) ==
  /\ at[t] = "increment"
  /\ tryNewObject' = tryNewObject + 1
  /\ Goto(t, "create")
  /\ UNCHANGED <<isTaked, queue, made, obj, throws>>

Create(t) ==
  /\ at[t] = "create"
  /\ made' = made + 1
  /\ obj' = [obj EXCEPT ![t] = made + 1]
  /\ Goto(t, "enterPut")
  /\ UNCHANGED <<isTaked, queue, tryNewObject, throws>>

(* func() throws: the finally will put default(T) into the queue.          *)
CreateThrows(t) ==
  /\ FuncFails /\ at[t] = "create"
  /\ throws' = [throws EXCEPT ![t] = TRUE]
  /\ Goto(t, "enterPut")
  /\ UNCHANGED <<isTaked, queue, tryNewObject, made, obj>>

Free == ~ isTaked

(* Enter, Interlocked.Exchange, once it finds the lock free.               *)
Enter(t) ==
  /\ at[t] \in {"enterTake", "enterPut"} /\ Free
  /\ isTaked' = TRUE
  /\ Goto(t, IF at[t] = "enterTake" THEN "take" ELSE "put")
  /\ UNCHANGED <<queue, tryNewObject, made, obj, throws>>

(* a slip: Leave is forgotten when an exception passes *)
LeaveUnlessThrows(t) ==
  /\ at[t] \in {"leaveTake", "leavePut"}
  /\ isTaked' = (throws[t] /\ isTaked)
  /\ Goto(t, IF at[t] = "leaveTake" THEN "enterPut"
             ELSE IF throws[t] THEN "thrown" ELSE "using")
  /\ UNCHANGED <<queue, tryNewObject, made, obj, throws>>

Leave(t) ==
  /\ at[t] \in {"leaveTake", "leavePut"}
  /\ isTaked' = FALSE
  /\ Goto(t, IF at[t] = "leaveTake" THEN "enterPut"
             ELSE IF throws[t] THEN "thrown" ELSE "using")
  /\ UNCHANGED <<queue, tryNewObject, made, obj, throws>>

(* a slip: the object is read and left in the queue *)
Peek(t) ==
  /\ at[t] = "take" /\ queue # <<>>
  /\ obj' = [obj EXCEPT ![t] = Head(queue)]
  /\ Goto(t, "leaveTake")
  /\ UNCHANGED <<isTaked, queue, tryNewObject, made, throws>>

Dequeue(t) ==
  /\ at[t] = "take" /\ queue # <<>>
  /\ obj' = [obj EXCEPT ![t] = Head(queue)]
  /\ queue' = Tail(queue)
  /\ Goto(t, "leaveTake")
  /\ UNCHANGED <<isTaked, tryNewObject, made, throws>>

(* Dequeue throws on an empty queue: Leave is skipped, and the finally     *)
(* waits for the lock its own thread has taken.                            *)
DequeueThrows(t) ==
  /\ at[t] = "take" /\ queue = <<>>
  /\ throws' = [throws EXCEPT ![t] = TRUE]
  /\ Goto(t, "enterPut")
  /\ UNCHANGED <<isTaked, queue, tryNewObject, made, obj>>

Enqueue(t) ==
  /\ at[t] = "put"
  /\ queue' = Append(queue, obj[t])
  /\ Goto(t, "leavePut")
  /\ UNCHANGED <<isTaked, tryNewObject, made, obj, throws>>

(* The caller is through with the object.                                  *)
Finish(t) ==
  /\ at[t] \in {"using", "thrown"}
  /\ Goto(t, "idle")
  /\ obj' = [obj EXCEPT ![t] = NoObject]
  /\ throws' = [throws EXCEPT ![t] = FALSE]
  /\ UNCHANGED <<isTaked, queue, tryNewObject, made>>

Call(t) ==
  \/ Increment(t) \/ Create(t) \/ CreateThrows(t) \/ Enter(t) \/ Leave(t)
  \/ Dequeue(t) \/ DequeueThrows(t) \/ Enqueue(t)

ONext == \E t \in Callers : Compare(t) \/ Call(t) \/ Finish(t)

OSpec == OInit /\ [][ONext]_oVars

-----------------------------------------------------------------------------
(***************************************************************************)
(* Properties.                                                             *)
(***************************************************************************)
InLock(t) == at[t] \in {"take", "leaveTake", "put", "leavePut"}

(* The queue, a plain Queue<T>, is touched by one thread at a time, even   *)
(* when a thread has died of an exception inside the spin lock.            *)
QueueIsGuarded ==
  \A t, u \in Callers : InLock(t) /\ InLock(u) => t = u

(* The spin lock is lost (taken, with nobody inside) in one way only: by a *)
(* thread that found the queue empty and waits, empty-handed, for the lock *)
(* it holds.  An object maker that throws does not do that.                *)
LostByEmptyQueueOnly ==
  isTaked /\ (\A t \in Callers : ~ InLock(t))
    => /\ queue = <<>>
       /\ \E t \in Callers : at[t] = "enterPut" /\ throws[t] /\ obj[t] = NoObject

(* On its way between the queue and the thread that will put it there.     *)
OnItsWay(t) ==
  at[t] \in {"leaveTake", "enterPut", "put"} /\ obj[t] # NoObject

(* What the spin lock of GetObject is for: the queue is touched by one     *)
(* thread at a time, and the lock is lost only to a thread that found the  *)
(* queue empty.                                                            *)
SpinLockHolds == ObjectTypes /\ QueueIsGuarded /\ LostByEmptyQueueOnly

(* The caller works with o.                                                *)
Uses(t, o) == at[t] = "using" /\ obj[t] = o

(* No object is pooled twice, not even while a caller takes or puts it,    *)
(* and none is lost: one that no caller uses is in the queue or on its way *)
(* there.  Whether it is in the queue while it is used is left open.       *)
EveryObjectIsOnce ==
  \A o \in 1..made :
    LET pooled  == Cardinality({i \in DOMAIN queue : queue[i] = o})
        carried == Cardinality({t \in Callers : OnItsWay(t) /\ obj[t] = o})
    IN  /\ pooled + carried <= 1
        /\ pooled + carried = 1 \/ \E t \in Callers : Uses(t, o)

(* What the comment on GetObject says, that an object goes back into the   *)
(* pool after its caller has executed: then no two callers use one object. *)
(* The code puts it back before it returns it.                             *)
OneUserPerObject ==
  \A t, u \in Callers, o \in 1..made : Uses(t, o) /\ Uses(u, o) => t = u

=============================================================================
