------------------------------ MODULE TtlLock ------------------------------
(***************************************************************************)
(* What a distributed lock promises its callers, with no redis in sight:   *)
(* at any moment at most one client is inside the period for which it was  *)
(* told that the lock is its own.  A client enters that period when Lock   *)
(* returns true and leaves it when it gives the lock back, when it dies on *)
(* an exception, or when the period runs out under it.                     *)
(***************************************************************************)

CONSTANT Clients        \* the callers of Lock

VARIABLE owners         \* the clients whose validity period is running

TLTypeOK == owners \in SUBSET Clients

TLInit == owners = {}

(* Lock returned true: nobody else may be inside a validity period.        *)
Acquire(c) ==
  /\ owners = {}
  /\ owners' = {c}

(* The validity period of c ends, for whatever reason.                     *)
Leave(c) ==
  /\ c \in owners
  /\ owners' = owners \ {c}

TLNext == \E c \in Clients : Acquire(c) \/ Leave(c)

TLSpec == TLInit /\ [][TLNext]_owners

(* Two clients are never inside their validity periods together.           *)
AtMostOneOwner == \A c, d \in owners : c = d
=============================================================================
