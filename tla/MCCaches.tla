------------------------------ MODULE MCCaches ------------------------------
(* The redis caches and the pools: the ring that finds the server for a    *)
(* key, with three servers of two points each, two of which share a point, *)
(* among seven hashes on either side of zero; the list of roles; the       *)
(* entries of the tokens of one user; the pool of the redis clients and    *)
(* the pool of the broker's connections, with three threads each.  part,   *)
(* chosen at the start, is the one that runs; the others stay where they   *)
(* are.                                                                    *)
EXTENDS HashRing, RoleListCache, TokenStore, ConnectionPool, ObjectPool, TLC

CONSTANTS n1, n2, n3

VARIABLE part

MCHashes == -2..4

MCPoints == (n1 :> {-1, 2}) @@ (n2 :> {0, 2}) @@ (n3 :> {1, 3})

MCKetamaPoints == (n1 :> {0, 4}) @@ (n2 :> {1, 3}) @@ (n3 :> {2, 3})

OneUser == [t \in Tokens |-> CHOOSE u \in Users : TRUE]

MCInit ==
  /\ part \in {"ring", "list", "tokens", "connections", "objects"}
  /\ Init /\ (part = "ring" \/ hash = 0)
  /\ LInit /\ (part = "list" \/ db = {})
  /\ TInit /\ (part = "tokens" \/ \A u \in Users : roleIds[u] = CHOOSE r \in RoleIds : TRUE)
  /\ CInit
  /\ OInit

MCNext ==
  /\ UNCHANGED part
  /\ \/ part = "ring"   /\ Next  /\ UNCHANGED <<lVars, tVars, cVars, oVars>>
     \/ part = "list"   /\ LNext /\ UNCHANGED <<vars, tVars, cVars, oVars>>
     \/ part = "tokens" /\ TNext /\ UNCHANGED <<vars, lVars, cVars, oVars>>
     \/ part = "connections" /\ CNext /\ UNCHANGED <<vars, lVars, tVars, oVars>>
     \/ part = "objects"     /\ ONext /\ UNCHANGED <<vars, lVars, tVars, cVars>>

MCSpec == MCInit /\ [][MCNext]_<<part, vars, lVars, tVars, cVars, oVars>>

Symmetry == Permutations(Tokens) \cup Permutations(Tabs)
=============================================================================
