--------------------------- MODULE RedlockProofs ---------------------------
(***************************************************************************)
(* Proofs about Redlock, for any number of masters, clients and retries,   *)
(* any time-to-live and any drift below it.                                *)
(***************************************************************************)
EXTENDS Redlock, FiniteSetTheorems, TLAPS

(* A call in progress has a value, and no two calls have the same.         *)
OwnValues ==
  /\ \A c \in Clients : val[c] # NoKey <=> pc[c] # "idle"
  /\ \A c, d \in Clients : val[c] = val[d] /\ val[c] # NoKey => c = d

(* A master without a key has none that could expire.                      *)
NoTimeWithoutKey == \A m \in Masters : key[m] = NoKey => ttl[m] = 0

(* While validity is left, the masters that accepted hold the call's value *)
(* for at least that time.                                                 *)
Backed ==
  \A c \in Clients : \A m \in got[c] :
    pc[c] \in {"locking", "held"} /\ left[c] > 0
      => key[m] = val[c] /\ ttl[m] >= left[c]

HeldByQuorum ==
  \A c \in Clients : pc[c] = "held" => Cardinality(got[c]) >= Quorum

(* The masters an unlocking loop has passed hold the call's value no more. *)
Swept ==
  \A c \in Clients :
    pc[c] \in {"undoing", "unlocking"} =>
      /\ at[c] \in Masters
      /\ \A m \in Masters : m < at[c] => key[m] # val[c]

Inv ==
  TypeOK /\ OwnValues /\ NoTimeWithoutKey /\ Backed /\ HeldByQuorum /\ Swept

USE NAssumption, TTLAssumption, RetryAssumption, NoKeyAssumption

-----------------------------------------------------------------------------
(* Two majorities of the masters meet.                                     *)
LEMMA QuorumsMeet ==
  ASSUME NEW S \in SUBSET Masters, NEW T \in SUBSET Masters,
         Cardinality(S) >= Quorum, Cardinality(T) >= Quorum
  PROVE  S \cap T # {}
<1>1. IsFiniteSet(Masters) /\ Cardinality(Masters) = N
  BY FS_Interval DEF Masters
<1>2. /\ IsFiniteSet(S) /\ IsFiniteSet(T) /\ IsFiniteSet(S \cap T)
      /\ Cardinality(S \cup T) <= N
  BY <1>1, FS_Subset
<1>3. /\ Cardinality(S) \in Nat /\ Cardinality(T) \in Nat
      /\ Cardinality(S \cup T) \in Nat /\ Cardinality(S \cap T) \in Nat
  BY <1>2, FS_Subset, <1>1, FS_CardinalityType
<1>4. Cardinality(S \cup T)
        = Cardinality(S) + Cardinality(T) - Cardinality(S \cap T)
  BY <1>2, FS_Union
<1>5. Cardinality(S) + Cardinality(T) > N
  BY <1>3 DEF Quorum
<1>6. Cardinality(S \cap T) # 0
  BY <1>2, <1>3, <1>4, <1>5
<1> QED
  BY <1>6, FS_EmptySet

(* What the steps of a call do to the masters.                             *)
LEMMA SetKeepsOthers ==
  ASSUME TypeOK, NEW n \in Masters, NEW v \in Guids, SetIfNotExists(n, v)
  PROVE  /\ key' \in [Masters -> Guids \cup {NoKey}]
         /\ ttl' \in [Masters -> 0..TTL]
         /\ key[n] = NoKey /\ key'[n] = v /\ ttl'[n] >= TTL - Drift
         /\ \A m \in Masters : m # n => key'[m] = key[m] /\ ttl'[m] = ttl[m]
  BY DEF TypeOK, SetIfNotExists

LEMMA DeleteKeepsOthers ==
  ASSUME TypeOK, NoTimeWithoutKey, NEW n \in Masters, NEW v \in Guids,
         DeleteIfEqual(n, v) \/ UNCHANGED <<key, ttl>>
  PROVE  /\ key' \in [Masters -> Guids \cup {NoKey}]
         /\ ttl' \in [Masters -> 0..TTL]
         /\ NoTimeWithoutKey'
         /\ \A m \in Masters : key[m] # v => key'[m] = key[m] /\ ttl'[m] = ttl[m]
         /\ \A m \in Masters : key'[m] \in {key[m], NoKey}
         /\ DeleteIfEqual(n, v) => key'[n] # v
  BY DEF TypeOK, NoTimeWithoutKey, DeleteIfEqual

-----------------------------------------------------------------------------
LEMMA InitInv == Init => Inv
  BY DEF Init, Inv, TypeOK, OwnValues, NoTimeWithoutKey, Backed, HeldByQuorum,
         Swept, Locations

LEMMA TickInv == Inv /\ Tick => Inv'
<1> SUFFICES ASSUME Inv, Tick PROVE Inv'
  OBVIOUS
<1>1. TypeOK' /\ OwnValues' /\ NoTimeWithoutKey' /\ HeldByQuorum' /\ Swept'
  BY DEF Inv, Tick, TypeOK, OwnValues, NoTimeWithoutKey, HeldByQuorum, Swept
<1>2. ASSUME NEW c \in Clients, NEW m \in got'[c],
             pc'[c] \in {"locking", "held"}, left'[c] > 0
      PROVE  key'[m] = val'[c] /\ ttl'[m] >= left'[c]
  <2>1. m \in Masters /\ left[c] \in 0..(TTL - Drift) /\ ttl[m] \in 0..TTL
    BY <1>2 DEF Inv, TypeOK, Tick
  <2>2. left'[c] = left[c] - 1 /\ left[c] > 1
    BY <1>2, <2>1 DEF Tick, Inv, TypeOK
  <2>3. key[m] = val[c] /\ ttl[m] >= left[c]
    BY <1>2, <2>2, <2>1 DEF Inv, Backed, Tick
  <2> QED
    BY <2>1, <2>2, <2>3 DEF Tick
<1> QED
  BY <1>1, <1>2 DEF Inv, Backed

LEMMA LockInv == ASSUME Inv, NEW c \in Clients, Lock(c) PROVE Inv'
<1> PICK v \in Guids \ InUse : val' = [val EXCEPT ![c] = v]
  BY DEF Lock
<1> USE DEF Lock, BeginAttempt
<1>1. TypeOK'
  BY DEF Inv, TypeOK, Locations
<1>2. OwnValues'
  BY DEF Inv, TypeOK, OwnValues, InUse
<1>3. NoTimeWithoutKey' /\ HeldByQuorum'
  BY DEF Inv, TypeOK, NoTimeWithoutKey, HeldByQuorum
<1>4. Backed'
  BY DEF Inv, TypeOK, Backed
<1>5. Swept'
  BY DEF Inv, TypeOK, Swept
<1> QED
  BY <1>1, <1>2, <1>3, <1>4, <1>5 DEF Inv

LEMMA LockInstanceInv == ASSUME Inv, NEW c \in Clients, LockInstance(c) PROVE Inv'
<1> DEFINE n == at[c]
<1>1. /\ n \in Masters /\ val[c] \in Guids /\ pc[c] = "locking"
      /\ left[c] \in 0..(TTL - Drift)
  BY DEF LockInstance, Inv, TypeOK, OwnValues
<1>2. UNCHANGED <<pc, val, left, tries>> /\ at' = [at EXCEPT ![c] = n + 1]
  BY DEF LockInstance
<1>a. n + 1 \in 1..(N + 1)
  BY <1>1 DEF Masters
<1>b. at' \in [Clients -> 1..(N + 1)]
  BY <1>2, <1>a DEF Inv, TypeOK
<1>3. CASE UNCHANGED <<key, ttl, got>>
  <2>1. TypeOK' /\ OwnValues' /\ NoTimeWithoutKey' /\ HeldByQuorum'
    BY <1>b, <1>2, <1>3 DEF Inv, TypeOK, OwnValues, NoTimeWithoutKey, HeldByQuorum
  <2>2. Backed'
    BY <1>2, <1>3 DEF Inv, Backed
  <2>3. Swept'
    BY <1>1, <1>2, <1>3 DEF Inv, TypeOK, Swept
  <2> QED
    BY <2>1, <2>2, <2>3 DEF Inv
<1>4. CASE /\ SetIfNotExists(n, val[c])
           /\ got' = [got EXCEPT ![c] = @ \cup {n}] \/ got' = got
  <2>1. /\ key' \in [Masters -> Guids \cup {NoKey}]
        /\ ttl' \in [Masters -> 0..TTL]
        /\ key[n] = NoKey /\ key'[n] = val[c] /\ ttl'[n] >= TTL - Drift
        /\ \A m \in Masters : m # n => key'[m] = key[m] /\ ttl'[m] = ttl[m]
    BY <1>1, <1>4, SetKeepsOthers DEF Inv
  <2>2. TypeOK'
    BY <1>1, <1>2, <1>b, <1>4, <2>1 DEF Inv, TypeOK
  <2>3. OwnValues' /\ NoTimeWithoutKey'
    BY <1>1, <1>2, <2>1 DEF Inv, OwnValues, NoTimeWithoutKey
  <2>4. ASSUME NEW d \in Clients, NEW m \in got'[d],
               pc'[d] \in {"locking", "held"}, left'[d] > 0
        PROVE  key'[m] = val'[d] /\ ttl'[m] >= left'[d]
    <3>1. CASE d = c /\ m = n
      BY <3>1, <1>1, <1>2, <2>1, <2>2 DEF TypeOK
    <3>2. CASE ~ (d = c /\ m = n)
      <4>1. m \in got[d] /\ m \in Masters
        BY <3>2, <1>4, <2>4 DEF Inv, TypeOK
      <4>2. key[m] = val[d] /\ ttl[m] >= left[d]
        BY <4>1, <2>4, <1>2 DEF Inv, Backed
      <4>3. m # n
        BY <4>2, <2>1, <2>4, <1>2 DEF Inv, OwnValues
      <4> QED
        BY <4>1, <4>2, <4>3, <2>1, <1>2
    <3> QED
      BY <3>1, <3>2
  <2>5. HeldByQuorum'
    BY <1>1, <1>2, <1>4 DEF Inv, TypeOK, HeldByQuorum
  <2>6. Swept'
    BY <1>1, <1>2, <2>1 DEF Inv, TypeOK, Swept, OwnValues
  <2> QED
    BY <2>2, <2>3, <2>4, <2>5, <2>6 DEF Inv, Backed
<1> QED
  BY <1>3, <1>4 DEF LockInstance

LEMMA LockTakenInv == ASSUME Inv, NEW c \in Clients, LockTaken(c) PROVE Inv'
  BY DEF LockTaken, Inv, TypeOK, OwnValues, NoTimeWithoutKey, Backed,
         HeldByQuorum, Swept, Locations

LEMMA LockRefusedInv == ASSUME Inv, NEW c \in Clients, LockRefused(c) PROVE Inv'
  BY SMTT(25) DEF LockRefused, Inv, TypeOK, OwnValues, NoTimeWithoutKey, Backed,
         HeldByQuorum, Swept, Locations, Masters

(* Both ways an unlocking step ends: the loop goes on, or the call does.   *)
LEMMA UnlockInv ==
  ASSUME Inv, NEW c \in Clients, UnlockInstance(c) \/ UnlockThrows(c)
  PROVE  Inv'
<1> DEFINE n == at[c]
<1>1. n \in Masters /\ val[c] \in Guids /\ pc[c] \in {"undoing", "unlocking"}
  BY DEF UnlockInstance, UnlockThrows, Inv, TypeOK, OwnValues, Swept
<1>2. /\ key' \in [Masters -> Guids \cup {NoKey}]
      /\ ttl' \in [Masters -> 0..TTL]
      /\ NoTimeWithoutKey'
      /\ \A m \in Masters :
           key[m] # val[c] => key'[m] = key[m] /\ ttl'[m] = ttl[m]
      /\ \A m \in Masters : key'[m] \in {key[m], NoKey}
      /\ DeleteIfEqual(n, val[c]) => key'[n] # val[c]
  BY <1>1, DeleteKeepsOthers DEF UnlockInstance, UnlockThrows, Inv
<1>3. UNCHANGED tries
  BY DEF UnlockInstance, UnlockThrows
<1>4. CASE /\ DeleteIfEqual(n, val[c]) /\ n < N
           /\ at' = [at EXCEPT ![c] = @ + 1] /\ UNCHANGED <<pc, val, got, left>>
  <2>a. n + 1 \in Masters /\ n + 1 \in 1..(N + 1)
    BY <1>1, <1>4 DEF Masters
  <2>b. at' = [at EXCEPT ![c] = n + 1]
    BY <1>4
  <2>1. TypeOK' /\ OwnValues' /\ HeldByQuorum'
    BY <1>2, <1>3, <1>4, <2>a, <2>b DEF Inv, TypeOK, OwnValues, HeldByQuorum
  <2>2. Backed'
    BY <1>1, <1>2, <1>4 DEF Inv, TypeOK, Backed, OwnValues
  <2>3. ASSUME NEW d \in Clients, pc'[d] \in {"undoing", "unlocking"}
        PROVE  /\ at'[d] \in Masters
               /\ \A m \in Masters : m < at'[d] => key'[m] # val'[d]
    <3>1. CASE d # c
      BY <3>1, <2>3, <1>2, <1>4 DEF Inv, TypeOK, Swept, OwnValues
    <3>2. CASE d = c
      <4>1. at'[d] = n + 1 /\ val'[d] = val[c]
        BY <3>2, <2>b, <1>4 DEF Inv, TypeOK
      <4>2. ASSUME NEW m \in Masters, m < n + 1 PROVE key'[m] # val[c]
        <5>1. m < n \/ m = n
          BY <4>2, <1>1 DEF Masters
        <5>2. m < n => key[m] # val[c]
          BY <1>1 DEF Inv, Swept
        <5> QED
          BY <5>1, <5>2, <1>2, <1>4
      <4> QED
        BY <4>1, <4>2, <2>a
    <3> QED
      BY <3>1, <3>2
  <2> QED
    BY <1>2, <2>1, <2>2, <2>3 DEF Inv, Swept
<1>5. CASE Forget(c, AfterUnlock(c))
  <2> USE DEF Forget, AfterUnlock
  <2>1. TypeOK' /\ OwnValues' /\ HeldByQuorum'
    BY <1>1, <1>2, <1>3, <1>5
       DEF Inv, TypeOK, OwnValues, HeldByQuorum, Locations
  <2>2. Backed'
    BY <1>1, <1>2, <1>5 DEF Inv, TypeOK, Backed, OwnValues
  <2>3. Swept'
    BY <1>1, <1>2, <1>5 DEF Inv, TypeOK, Swept, OwnValues
  <2> QED
    BY <1>2, <2>1, <2>2, <2>3 DEF Inv
<1> QED
  BY <1>1, <1>4, <1>5 DEF UnlockInstance, UnlockThrows

LEMMA RetryInv == ASSUME Inv, NEW c \in Clients, Retry(c) PROVE Inv'
  BY DEF Retry, BeginAttempt, Inv, TypeOK, OwnValues, NoTimeWithoutKey, Backed,
         HeldByQuorum, Swept, Locations

(* GiveUp and HandlerThrows: the call is forgotten, the keys stay.         *)
LEMMA AbandonInv ==
  ASSUME Inv, NEW c \in Clients, GiveUp(c) \/ HandlerThrows(c)
  PROVE  Inv'
<1>1. Forget(c, "idle") /\ UNCHANGED <<key, ttl, tries>>
  BY DEF GiveUp, HandlerThrows
<1> USE DEF Forget
<1>2. TypeOK'
  BY <1>1 DEF Inv, TypeOK, Locations
<1>3. OwnValues'
  BY <1>1 DEF Inv, TypeOK, OwnValues
<1>4. NoTimeWithoutKey' /\ Backed'
  BY <1>1 DEF Inv, TypeOK, NoTimeWithoutKey, Backed
<1>5. HeldByQuorum' /\ Swept'
  BY <1>1 DEF Inv, TypeOK, HeldByQuorum, Swept
<1> QED
  BY <1>2, <1>3, <1>4, <1>5 DEF Inv

LEMMA UnlockStartInv == ASSUME Inv, NEW c \in Clients, Unlock(c) PROVE Inv'
<1>1. 1 \in Masters /\ \A m \in Masters : ~ (m < 1)
  BY DEF Masters
<1>2. TypeOK' /\ OwnValues' /\ NoTimeWithoutKey'
  BY DEF Unlock, Inv, TypeOK, OwnValues, NoTimeWithoutKey, Locations
<1>3. Backed' /\ HeldByQuorum'
  BY DEF Unlock, Inv, TypeOK, Backed, HeldByQuorum
<1>4. Swept'
  BY <1>1 DEF Unlock, Inv, TypeOK, Swept
<1> QED
  BY <1>2, <1>3, <1>4 DEF Inv

LEMMA NextInv == Inv /\ [Next]_vars => Inv'
<1> SUFFICES ASSUME Inv, [Next]_vars PROVE Inv'
  OBVIOUS
<1>1. CASE Tick
  BY <1>1, TickInv
<1>2. ASSUME NEW c \in Clients, Step(c) PROVE Inv'
  BY <1>2, LockInv, LockInstanceInv, LockTakenInv, LockRefusedInv, UnlockInv,
     RetryInv, AbandonInv, UnlockStartInv DEF Step
<1>3. CASE UNCHANGED vars
  BY <1>3 DEF vars, Inv, TypeOK, OwnValues, NoTimeWithoutKey, Backed,
              HeldByQuorum, Swept
<1> QED
  BY <1>1, <1>2, <1>3 DEF Next

LEMMA Inductive == Spec => []Inv
  BY InitInv, NextInv, PTL DEF Spec
-----------------------------------------------------------------------------
(* Every variable keeps its type.                                          *)
THEOREM TypeCorrect == Spec => []TypeOK
  BY Inductive, PTL DEF Inv

(* Inside its validity period a client's value is on a majority of the     *)
(* masters, with no less time than the client counts on.                   *)
LEMMA InvMajority == Inv => ValidMeansMajority
<1> SUFFICES ASSUME Inv, NEW c \in Clients, Valid(c)
             PROVE  Cardinality({m \in Masters : key[m] = val[c] /\ ttl[m] >= left[c]})
                      >= Quorum
  BY DEF ValidMeansMajority
<1> DEFINE M == {m \in Masters : key[m] = val[c] /\ ttl[m] >= left[c]}
<1>1. got[c] \in SUBSET M /\ M \in SUBSET Masters
  BY DEF Inv, TypeOK, Backed, Valid
<1>2. IsFiniteSet(M)
  <2>1. IsFiniteSet(Masters)
    BY FS_Interval DEF Masters
  <2> QED
    BY <1>1, <2>1, FS_Subset
<1>3. Cardinality(got[c]) <= Cardinality(M)
  BY <1>1, <1>2, FS_Subset
<1>4. Cardinality(got[c]) >= Quorum
  BY DEF Inv, HeldByQuorum, Valid
<1>5. Cardinality(got[c]) \in Nat /\ Cardinality(M) \in Nat
  BY <1>1, <1>2, FS_Subset, FS_CardinalityType
<1> QED
  BY <1>3, <1>4, <1>5 DEF Quorum

THEOREM MajorityBacksTheOwner == Spec => []ValidMeansMajority
  BY Inductive, InvMajority, PTL

(* Two validity periods never overlap: their majorities would share a      *)
(* master, whose key would be both values.                                 *)
LEMMA InvExclusion == Inv => MutualExclusion
<1> SUFFICES ASSUME Inv, NEW c \in Clients, NEW d \in Clients, Valid(c), Valid(d)
             PROVE  c = d
  BY DEF MutualExclusion
<1>1. /\ got[c] \in SUBSET Masters /\ got[d] \in SUBSET Masters
      /\ Cardinality(got[c]) >= Quorum /\ Cardinality(got[d]) >= Quorum
  BY DEF Inv, TypeOK, HeldByQuorum, Valid
<1>2. PICK m \in Masters : m \in got[c] /\ m \in got[d]
  BY <1>1, QuorumsMeet
<1>3. key[m] = val[c] /\ key[m] = val[d] /\ val[c] # NoKey
  BY <1>2 DEF Inv, Backed, OwnValues, Valid
<1> QED
  BY <1>3 DEF Inv, OwnValues

THEOREM Exclusion == Spec => []MutualExclusion
  BY Inductive, InvExclusion, PTL
-----------------------------------------------------------------------------
(* A key goes away by its own expiry or by the call that set it.           *)
THEOREM DeletesAreOwn == Spec => OnlyOwnerDeletes
<1>1. ASSUME Inv, [Next]_vars, NEW m \in Masters, key[m] # NoKey, key'[m] # key[m]
      PROVE  \/ ttl[m] = 1 /\ ttl'[m] = 0
             \/ \E c \in Clients : /\ pc[c] \in {"undoing", "unlocking"}
                                   /\ val[c] = key[m]
  <2>1. CASE Tick
    BY <1>1, <2>1 DEF Tick, Inv, TypeOK
  <2>2. ASSUME NEW c \in Clients, LockInstance(c) PROVE FALSE
    <3>1. at[c] \in Masters /\ val[c] \in Guids
      BY <2>2, <1>1 DEF LockInstance, Inv, TypeOK, OwnValues
    <3>2. CASE SetIfNotExists(at[c], val[c])
      BY <3>1, <3>2, <1>1, SetKeepsOthers DEF Inv
    <3> QED
      BY <3>2, <2>2, <1>1 DEF LockInstance
  <2>3. ASSUME NEW c \in Clients, UnlockInstance(c) \/ UnlockThrows(c)
        PROVE  pc[c] \in {"undoing", "unlocking"} /\ val[c] = key[m]
    <3>1. at[c] \in Masters /\ val[c] \in Guids /\ pc[c] \in {"undoing", "unlocking"}
      BY <2>3, <1>1 DEF UnlockInstance, UnlockThrows, Inv, TypeOK, OwnValues, Swept
    <3>2. key[m] # val[c] => key'[m] = key[m]
      BY <3>1, <2>3, <1>1, DeleteKeepsOthers DEF UnlockInstance, UnlockThrows, Inv
    <3> QED
      BY <3>1, <3>2, <1>1
  <2>4. ASSUME NEW c \in Clients,
               \/ Lock(c) \/ LockTaken(c) \/ LockRefused(c) \/ Retry(c)
               \/ GiveUp(c) \/ HandlerThrows(c) \/ Unlock(c)
        PROVE  FALSE
    BY <2>4, <1>1 DEF Lock, LockTaken, LockRefused, Retry, GiveUp,
                      HandlerThrows, Unlock
  <2> QED
    BY <1>1, <2>1, <2>2, <2>3, <2>4 DEF Next, Step, vars
<1>2. Inv /\ [Next]_vars =>
        [\A m \in Masters :
           key[m] # NoKey /\ key'[m] # key[m] =>
             \/ ttl[m] = 1 /\ ttl'[m] = 0
             \/ \E c \in Clients : /\ pc[c] \in {"undoing", "unlocking"}
                                   /\ val[c] = key[m]]_vars
  BY <1>1
<1> QED
  BY Inductive, <1>2, PTL DEF Spec, OnlyOwnerDeletes

(* An unlocking loop that ran to its end leaves no key of its call.        *)
THEOREM WholeRelease == Spec => ReleaseIsWhole
<1>1. ASSUME Inv, NEW c \in Clients, UnlockInstance(c), pc'[c] # pc[c],
             NEW m \in Masters
      PROVE  key'[m] # val[c]
  <2>1. /\ at[c] \in Masters /\ val[c] \in Guids
        /\ \A k \in Masters : k < at[c] => key[k] # val[c]
    BY <1>1 DEF UnlockInstance, Inv, TypeOK, OwnValues, Swept
  <2>2. /\ \A k \in Masters : key'[k] \in {key[k], NoKey}
        /\ key'[at[c]] # val[c]
    BY <2>1, <1>1, DeleteKeepsOthers DEF UnlockInstance, Inv
  <2>3. at[c] = N
    BY <2>1, <1>1 DEF UnlockInstance, Masters
  <2>4. m < at[c] \/ m = at[c]
    BY <2>3 DEF Masters
  <2> QED
    BY <2>1, <2>2, <2>4
<1>2. Inv /\ [Next]_vars =>
        [\A c \in Clients :
           UnlockInstance(c) /\ pc'[c] # pc[c] =>
             \A m \in Masters : key'[m] # val[c]]_vars
  BY <1>1
<1> QED
  BY Inductive, <1>2, PTL DEF Spec, ReleaseIsWhole

-----------------------------------------------------------------------------
(* Redlock implements TtlLock: a step takes the lock when nobody is inside *)
(* a validity period, ends the only such period, or changes neither.       *)
THEOREM Refinement == Spec => Implements
<1>1. Init => Promise!TLInit
  BY DEF Init, Promise!TLInit, Owners, Valid
<1>2. ASSUME Inv, [Next]_vars, MutualExclusion, Inv', MutualExclusion'
      PROVE  [Promise!TLNext]_Owners
  <2> SUFFICES ASSUME Owners' # Owners PROVE Promise!TLNext
    OBVIOUS
  <2>1. ASSUME NEW c \in Clients, c \in Owners' PROVE Owners' = {c}
    BY <2>1, <1>2 DEF MutualExclusion, Owners
  <2>2. ASSUME NEW c \in Clients, c \in Owners PROVE Owners = {c}
    BY <2>2, <1>2 DEF MutualExclusion, Owners
  <2>3. CASE \E c \in Clients : LockTaken(c)
    <3> PICK c \in Clients : LockTaken(c)
      BY <2>3
    <3>1. c \in Owners' /\ c \notin Owners
      BY <1>2 DEF LockTaken, Owners, Valid, Inv, TypeOK
    <3>2. \A d \in Clients : d # c => (d \in Owners' <=> d \in Owners)
      BY <1>2 DEF LockTaken, Owners, Valid, Inv, TypeOK
    <3>3. Owners = {}
      BY <3>1, <3>2, <2>1 DEF Owners
    <3> QED
      BY <3>1, <3>3, <2>1 DEF Promise!TLNext, Promise!Acquire
  <2>4. CASE ~ \E c \in Clients : LockTaken(c)
    <3>1. Owners' \subseteq Owners
      <4>1. ASSUME NEW c \in Clients, Valid(c)' PROVE Valid(c)
        <5>1. CASE Tick
          BY <5>1, <4>1, <1>2 DEF Tick, Valid, Inv, TypeOK
        <5>2. ASSUME NEW d \in Clients, Step(d) PROVE Valid(c)
          BY <5>2, <4>1, <2>4, <1>2
             DEF Step, Lock, LockInstance, LockRefused, UnlockInstance,
                 UnlockThrows, Retry, GiveUp, Unlock, HandlerThrows,
                 BeginAttempt, Forget, AfterUnlock, Valid, Inv, TypeOK
        <5>3. CASE UNCHANGED vars
          BY <5>3, <4>1 DEF vars, Valid
        <5> QED
          BY <5>1, <5>2, <5>3, <1>2 DEF Next
      <4> QED
        BY <4>1 DEF Owners
    <3>2. PICK c \in Clients : c \in Owners /\ c \notin Owners'
      BY <3>1 DEF Owners
    <3>3. Owners' = Owners \ {c}
      BY <3>1, <3>2, <2>2
    <3> QED
      BY <3>2, <3>3 DEF Promise!TLNext, Promise!Leave
  <2> QED
    BY <2>3, <2>4
<1>3. Inv => MutualExclusion
  BY InvExclusion
<1> QED
  BY Inductive, <1>1, <1>2, <1>3, PTL DEF Spec, Implements, Promise!TLSpec
=============================================================================
