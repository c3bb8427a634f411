------------------------------ MODULE Redlock ------------------------------
(***************************************************************************)
(* Jy.DistributedLock/Redlock.cs: a lock on one resource kept on N redis   *)
(* masters.  Lock tries to SET NX the resource under a fresh random value  *)
(* on every master in turn; it owns the lock when a majority accepted and  *)
(* some of the time-to-live is left, and takes its keys back otherwise.    *)
(*                                                                         *)
(* Time is kept as countdowns: a key carries the time it still has, an     *)
(* attempt carries what is left of its validity, and Tick takes one unit   *)
(* off every countdown.  Nothing ties a client to the clock: it may take   *)
(* any number of ticks between two commands and before it unlocks.         *)
(***************************************************************************)
EXTENDS Integers, FiniteSets, TLC

CONSTANTS
  N,            \* the number of redis masters
  Clients,      \* the callers of Lock
  Guids,        \* the values CreateUniqueLockId may draw
  NoKey,        \* what a master answers for a resource that is not locked
  TTL,          \* the time-to-live of a key
  Drift,        \* the clock drift Lock takes off the validity
  RetryCount    \* DefaultRetryCount

ASSUME NAssumption     == N \in Nat \ {0}
ASSUME TTLAssumption   == TTL \in Nat /\ Drift \in Nat /\ Drift < TTL
ASSUME RetryAssumption == RetryCount \in Nat \ {0}
ASSUME NoKeyAssumption == NoKey \notin Guids

VARIABLES
  key,      \* key[m]: the value stored for the resource on master m
  ttl,      \* ttl[m]: the time that key still has
  pc,       \* where each client is in Lock and Unlock
  val,      \* val[c]: the unique value of the client's call of Lock
  at,       \* at[c]: the master the client visits next
  got,      \* got[c]: the masters that accepted; the code keeps its size, n
  left,     \* left[c]: validity left to the attempt, or to the lock held
  tries     \* tries[c]: currentRetry

vars == <<key, ttl, pc, val, at, got, left, tries>>

Masters == 1..N

(* a slip: half of the masters is enough *)
QuorumHalf == N \div 2

Quorum == (N \div 2) + 1

Locations == {"idle", "locking", "undoing", "waiting", "held", "unlocking"}

TypeOK ==
  /\ key   \in [Masters -> Guids \cup {NoKey}]
  /\ ttl   \in [Masters -> 0..TTL]
  /\ pc    \in [Clients -> Locations]
  /\ val   \in [Clients -> Guids \cup {NoKey}]
  /\ at    \in [Clients -> 1..(N + 1)]
  /\ got   \in [Clients -> SUBSET Masters]
  /\ left  \in [Clients -> 0..(TTL - Drift)]
  /\ tries \in [Clients -> 0..RetryCount]

Init ==
  /\ key   = [m \in Masters |-> NoKey]
  /\ ttl   = [m \in Masters |-> 0]
  /\ pc    = [c \in Clients |-> "idle"]
  /\ val   = [c \in Clients |-> NoKey]
  /\ at    = [c \in Clients |-> 1]
  /\ got   = [c \in Clients |-> {}]
  /\ left  = [c \in Clients |-> 0]
  /\ tries = [c \in Clients |-> 0]

(***************************************************************************)
(* Redis, as the client library shows it.  A command either is answered,   *)
(* or throws; one that throws may have been applied all the same.  A key   *)
(* lives for the time-to-live it was given, less at most the drift.        *)
(***************************************************************************)
(* slips: SET without NX; SET without a time-to-live (one that never ends) *)
SetAlways(m, v) ==
  /\ key' = [key EXCEPT ![m] = v]
  /\ \E t \in (TTL - Drift)..TTL : ttl' = [ttl EXCEPT ![m] = t]

SetForEver(m, v) ==
  /\ key[m] = NoKey
  /\ key' = [key EXCEPT ![m] = v]
  /\ ttl' = [ttl EXCEPT ![m] = 0]

SetIfNotExists(m, v) ==
  /\ key[m] = NoKey
  /\ key' = [key EXCEPT ![m] = v]
  /\ \E t \in (TTL - Drift)..TTL : ttl' = [ttl EXCEPT ![m] = t]

(* a slip: the unlock script without its comparison *)
DeleteAlways(m, v) ==
  /\ key' = [key EXCEPT ![m] = NoKey]
  /\ ttl' = [ttl EXCEPT ![m] = 0]

DeleteIfEqual(m, v) ==
  IF key[m] = v
  THEN /\ key' = [key EXCEPT ![m] = NoKey]
       /\ ttl' = [ttl EXCEPT ![m] = 0]
  ELSE UNCHANGED <<key, ttl>>

(* One unit of time goes by: keys whose time is up are gone.               *)
Tick ==
  /\ key'  = [m \in Masters |-> IF ttl[m] = 1 THEN NoKey ELSE key[m]]
  /\ ttl'  = [m \in Masters |-> IF ttl[m] = 0 THEN 0 ELSE ttl[m] - 1]
  /\ left' = [c \in Clients |-> IF left[c] = 0 THEN 0 ELSE left[c] - 1]
  /\ UNCHANGED <<pc, val, at, got, tries>>

(***************************************************************************)
(* Lock.                                                                   *)
(***************************************************************************)

(* Values that still mean something to a client or a master.  A Guid is    *)
(* never drawn twice; here it may be drawn again once no trace of it is    *)
(* left, which nobody can tell from a new one.                             *)
InUse == {key[m] : m \in Masters} \cup {val[c] : c \in Clients}

BeginAttempt(c) ==
  /\ pc'   = [pc EXCEPT ![c] = "locking"]
  /\ at'   = [at EXCEPT ![c] = 1]
  /\ got'  = [got EXCEPT ![c] = {}]
  /\ left' = [left EXCEPT ![c] = TTL - Drift]

Lock(c) ==
  /\ pc[c] = "idle"
  /\ \E v \in Guids \ InUse : val' = [val EXCEPT ![c] = v]
  /\ tries' = [tries EXCEPT ![c] = 1]
  /\ BeginAttempt(c)
  /\ UNCHANGED <<key, ttl>>

(* The master accepts and says so; or the key is there already, or the     *)
(* command throws, applied or not, and none of these counts.               *)
LockInstance(c) ==
  /\ pc[c] = "locking" /\ at[c] \in Masters
  /\ at' = [at EXCEPT ![c] = @ + 1]
  /\ \/ /\ SetIfNotExists(at[c], val[c])
        /\ \/ got' = [got EXCEPT ![c] = @ \cup {at[c]}]
           \/ UNCHANGED got
     \/ UNCHANGED <<key, ttl, got>>
  /\ UNCHANGED <<pc, val, left, tries>>

LockTaken(c) ==
  /\ pc[c] = "locking" /\ at[c] = N + 1
  /\ Cardinality(got[c]) >= Quorum /\ left[c] > 0
  /\ pc' = [pc EXCEPT ![c] = "held"]
  /\ UNCHANGED <<key, ttl, val, at, got, left, tries>>

LockRefused(c) ==
  /\ pc[c] = "locking" /\ at[c] = N + 1
  /\ ~ (Cardinality(got[c]) >= Quorum /\ left[c] > 0)
  /\ pc'   = [pc EXCEPT ![c] = "undoing"]
  /\ at'   = [at EXCEPT ![c] = 1]
  /\ got'  = [got EXCEPT ![c] = {}]
  /\ left' = [left EXCEPT ![c] = 0]
  /\ UNCHANGED <<key, ttl, val, tries>>

(***************************************************************************)
(* UnlockInstance, called over all masters by a failed attempt ("undoing", *)
(* followed by the sleep of retry) and by Unlock.  An exception ends the   *)
(* loop where it is.                                                       *)
(***************************************************************************)
AfterUnlock(c) == IF pc[c] = "undoing" THEN "waiting" ELSE "idle"

(* A call that is over keeps no value.                                     *)
Forget(c, next) ==
  /\ pc'  = [pc EXCEPT ![c] = next]
  /\ val' = IF next = "idle" THEN [val EXCEPT ![c] = NoKey] ELSE val
  /\ at'  = [at EXCEPT ![c] = 1]
  /\ got' = [got EXCEPT ![c] = {}]
  /\ left' = [left EXCEPT ![c] = 0]

(* a slip: the loop stops one master short *)
UnlockInstanceShort(c) ==
  /\ pc[c] \in {"undoing", "unlocking"}
  /\ DeleteIfEqual(at[c], val[c])
  /\ IF at[c] < N - 1
     THEN /\ at' = [at EXCEPT ![c] = @ + 1]
          /\ UNCHANGED <<pc, val, got, left>>
     ELSE Forget(c, AfterUnlock(c))
  /\ UNCHANGED tries

UnlockInstance(c) ==
  /\ pc[c] \in {"undoing", "unlocking"}
  /\ DeleteIfEqual(at[c], val[c])
  /\ IF at[c] < N
     THEN /\ at' = [at EXCEPT ![c] = @ + 1]
          /\ UNCHANGED <<pc, val, got, left>>
     ELSE Forget(c, AfterUnlock(c))
  /\ UNCHANGED tries

UnlockThrows(c) ==
  /\ pc[c] \in {"undoing", "unlocking"}
  /\ DeleteIfEqual(at[c], val[c]) \/ UNCHANGED <<key, ttl>>
  /\ Forget(c, AfterUnlock(c))
  /\ UNCHANGED tries

(* retry: sleep, then try again under the same value, or give up.          *)
Retry(c) ==
  /\ pc[c] = "waiting" /\ tries[c] < RetryCount
  /\ tries' = [tries EXCEPT ![c] = @ + 1]
  /\ BeginAttempt(c)
  /\ UNCHANGED <<key, ttl, val>>

GiveUp(c) ==
  /\ pc[c] = "waiting" /\ tries[c] = RetryCount
  /\ Forget(c, "idle")
  /\ UNCHANGED <<key, ttl, tries>>

(***************************************************************************)
(* The caller.                                                             *)
(***************************************************************************)
Unlock(c) ==
  /\ pc[c] = "held"
  /\ pc' = [pc EXCEPT ![c] = "unlocking"]
  /\ at' = [at EXCEPT ![c] = 1]
  /\ UNCHANGED <<key, ttl, val, got, left, tries>>

(* RunLock has no finally: a handler that throws leaves the lock behind.   *)
HandlerThrows(c) ==
  /\ pc[c] = "held"
  /\ Forget(c, "idle")
  /\ UNCHANGED <<key, ttl, tries>>

Step(c) ==
  \/ Lock(c) \/ LockInstance(c) \/ LockTaken(c) \/ LockRefused(c)
  \/ UnlockInstance(c) \/ UnlockThrows(c) \/ Retry(c) \/ GiveUp(c)
  \/ Unlock(c) \/ HandlerThrows(c)

Next == Tick \/ \E c \in Clients : Step(c)

Spec == Init /\ [][Next]_vars

(* Clocks run, and a client that is inside Lock or Unlock keeps going: its *)
(* commands are answered or throw.  Nothing makes a caller lock or unlock. *)
Fairness ==
  /\ WF_vars(Tick)
  /\ \A c \in Clients :
       WF_vars(pc[c] \notin {"idle", "held"} /\ Step(c))

FairSpec == Spec /\ Fairness

-----------------------------------------------------------------------------
(***************************************************************************)
(* Properties.                                                             *)
(***************************************************************************)

(* c was told that it owns the lock, and its validity period still runs.   *)
Valid(c) == pc[c] = "held" /\ left[c] > 0

(* Two clients are never inside the validity period of the same lock,      *)
(* whatever commands failed and however slow the clients are.              *)
MutualExclusion == \A c, d \in Clients : Valid(c) /\ Valid(d) => c = d

(* A key goes away because its own time is up or because the call that set *)
(* it deletes it: a slow client never unlocks its successor's lock.        *)
OnlyOwnerDeletes ==
  [][\A m \in Masters :
       key[m] # NoKey /\ key'[m] # key[m] =>
         \/ ttl[m] = 1 /\ ttl'[m] = 0
         \/ \E c \in Clients : /\ pc[c] \in {"undoing", "unlocking"}
                               /\ val[c] = key[m]]_vars

(* While c is inside its validity period a majority of the masters holds   *)
(* its value, and none of those keys expires before the period ends.       *)
ValidMeansMajority ==
  \A c \in Clients :
    Valid(c) =>
      Cardinality({m \in Masters : key[m] = val[c] /\ ttl[m] >= left[c]})
        >= Quorum

(* An Unlock, or the taking back of a failed attempt, that no exception    *)
(* cut short leaves no key of that call on any master.                     *)
ReleaseIsWhole ==
  [][\A c \in Clients :
       UnlockInstance(c) /\ pc'[c] # pc[c] =>
         \A m \in Masters : key'[m] # val[c]]_vars

(* A key that its owner lost track of is not there for ever: every key     *)
(* that is set is gone some time later.                                    *)
EveryKeyGoes ==
  \A m \in Masters, v \in Guids : key[m] = v ~> key[m] # v

(* Redlock implements the promise of TtlLock.                              *)
Owners == {c \in Clients : Valid(c)}

Promise == INSTANCE TtlLock WITH owners <- Owners

Implements == Promise!TLSpec

(* The clients are alike, and so are the guids.                            *)
Symmetry == Permutations(Guids) \cup Permutations(Clients)

=============================================================================
