------------------------------ MODULE HashRing ------------------------------
(***************************************************************************)
(* The two consistent hashes of Jy.Utility/Node, which choose a server for *)
(* a key:                                                                  *)
(*   HashAlgorithms/ConsistentHash.cs, a ring that servers are added to    *)
(*     and removed from, with its sorted keys in an array next to it and a *)
(*     binary search, by which the cache client finds its redis server;    *)
(*   KetamaNodeLocator.cs, a ring that is built anew from the list of      *)
(*     servers for every look-up, by which CallServer finds a registered   *)
(*     service and ConnectionHelper a shard.                               *)
(*                                                                         *)
(* A server is on the ring with its virtual nodes; the hash functions are  *)
(* constants, and two servers may collide.  ConsistentHash hashes          *)
(* node.GetHashCode(), the hash code of the string "host:port", which      *)
(* .NET Core seeds anew in every process: Points are those of the process  *)
(* the ring is in.  Ketama hashes the server's name with MD5: KetamaPoints *)
(* are the same in every process.  The keys of the ring are sets of        *)
(* integers, positions count from zero as in the code.  Neither class is   *)
(* used by one thread while another changes it; GetItemNode is cut at the  *)
(* rounds of its loop.                                                     *)
(***************************************************************************)
EXTENDS Integers, FiniteSets, Sequences

CONSTANTS
  Nodes,        \* the servers
  Hashes,       \* what a key or a virtual node can hash to
  Points,       \* Points[n]: n's virtual nodes on this process's ring
  KetamaPoints  \* KetamaPoints[n]: n's virtual nodes on every Ketama ring

ASSUME HashAssumption   == Hashes \subseteq Int
ASSUME PointsAssumption ==
  \A n \in Nodes : Points[n] \subseteq Hashes /\ IsFiniteSet(Points[n])
ASSUME KetamaAssumption ==
  \A n \in Nodes : KetamaPoints[n] \subseteq Hashes /\ IsFiniteSet(KetamaPoints[n])

VARIABLES
  added,   \* the servers on the ring, in the order they were added last
  ring,    \* _ring: from keys to servers
  keys,    \* _nodeKeysInRing: its keys in order; none before the first Add
  pc,      \* where GetItemNode is
  hash,    \* hashOfItem
  begin,
  end      \* the position it answers when it has found one

search == <<pc, hash, begin, end>>
vars   == <<added, ring, keys, search>>

NodeSet == {added[i] : i \in DOMAIN added}

(* keys[i] of the code.                                                    *)
Key(i) == keys[i + 1]

(* The array that holds the numbers of K in order, Keys.ToArray(), as a    *)
(* set of one.                                                             *)
Ordered(K) ==
  {s \in [1..Cardinality(K) -> K] :
     /\ \A k \in K : \E i \in DOMAIN s : s[i] = k
     /\ \A i, j \in DOMAIN s : i < j => s[i] < s[j]}

Init ==
  /\ added = <<>>
  /\ ring  = [k \in {} |-> {}]
  /\ keys  = <<>>
  /\ pc    = "idle"
  /\ hash  \in Hashes
  /\ begin = 0
  /\ end   = 0

-----------------------------------------------------------------------------
(***************************************************************************)
(* The ring of ConsistentHash.                                             *)
(***************************************************************************)

(* a slip: a point that is taken stays with its owner *)
AddNodeTryAdd(r, n) ==
  [k \in DOMAIN r \cup Points[n] |-> IF k \in DOMAIN r THEN r[k] ELSE n]

(* Every virtual node is written over whatever was there.                  *)
AddNode(r, n) ==
  [k \in DOMAIN r \cup Points[n] |-> IF k \in Points[n] THEN n ELSE r[k]]

(* a slip: one virtual node too few *)
RemoveNodeButOne(r, n) ==
  [k \in DOMAIN r \ (Points[n] \ {CHOOSE k \in Points[n] : TRUE}) |-> r[k]]

(* Whatever is at the virtual nodes' places goes, whosesoever it is.       *)
RemoveNode(r, n) == [k \in DOMAIN r \ Points[n] |-> r[k]]

(* The servers without n, in their order.                                  *)
Others(n) ==
  IF n \notin NodeSet THEN added
  ELSE LET i == CHOOSE i \in DOMAIN added : added[i] = n
       IN  [j \in 1..(Len(added) - 1) |-> added[IF j < i THEN j ELSE j + 1]]

(* Initialize is this for one server after the other.                      *)
Add(n) ==
  /\ pc # "search"
  /\ ring' = AddNode(ring, n)
  /\ keys' \in Ordered(DOMAIN ring')
  /\ added' = Append(Others(n), n)
  /\ pc' = "idle"
  /\ UNCHANGED <<hash, begin, end>>

Remove(n) ==
  /\ pc # "search"
  /\ ring' = RemoveNode(ring, n)
  /\ keys' \in Ordered(DOMAIN ring')
  /\ added' = Others(n)
  /\ pc' = "idle"
  /\ UNCHANGED <<hash, begin, end>>

-----------------------------------------------------------------------------
(***************************************************************************)
(* GetItemNode and GetClockwiseNearestNode.                                *)
(***************************************************************************)

(* Outside the ring's range is position 0.                                 *)
Outside(h) == Key(Len(keys) - 1) < h \/ Key(0) > h

(* There is no array before the first Add, and no last key once the last   *)
(* server has been removed; either way it throws.                          *)
GetItemNode(h) ==
  /\ pc # "search"
  /\ hash' = h
  /\ begin' = 0
  /\ IF keys = <<>> THEN pc' = "thrown" /\ end' = 0
     ELSE IF Outside(h) THEN pc' = "found" /\ end' = 0
     ELSE pc' = "search" /\ end' = Len(keys) - 1
  /\ UNCHANGED <<added, ring, keys>>

(* The condition of the loop.                                              *)
Loops == end - begin > 1

(* a slip: > for >= *)
NarrowPast ==
  /\ pc = "search" /\ Loops
  /\ LET mid == (end + begin) \div 2
     IN  IF Key(mid) > hash THEN end' = mid /\ UNCHANGED begin
                            ELSE begin' = mid /\ UNCHANGED end
  /\ UNCHANGED <<added, ring, keys, pc, hash>>

(* One round of the loop.                                                  *)
Narrow ==
  /\ pc = "search" /\ Loops
  /\ LET mid == (end + begin) \div 2
     IN  IF Key(mid) >= hash THEN end' = mid /\ UNCHANGED begin
                             ELSE begin' = mid /\ UNCHANGED end
  /\ UNCHANGED <<added, ring, keys, pc, hash>>

Found ==
  /\ pc = "search" /\ ~ Loops
  /\ pc' = "found"
  /\ UNCHANGED <<added, ring, keys, hash, begin, end>>

(* The server GetItemNode returns.                                         *)
ItemNode == ring[Key(end)]

Next ==
  \/ \E n \in Nodes : Add(n) \/ Remove(n)
  \/ \E h \in Hashes : GetItemNode(h)
  \/ Narrow
  \/ Found

Spec == Init /\ [][Next]_vars

-----------------------------------------------------------------------------
(***************************************************************************)
(* KetamaNodeLocator.                                                      *)
(***************************************************************************)

(* The points P of one server after the other, each written over whatever  *)
(* was there.                                                              *)
Placed(P, list) ==
  LET At(k)   == {i \in DOMAIN list : k \in P[list[i]]}
      Last(k) == CHOOSE i \in At(k) : \A j \in At(k) : j <= i
  IN  [k \in UNION {P[list[i]] : i \in DOMAIN list} |-> list[Last(k)]]

(* The constructor.                                                        *)
KetamaNodes(list) == Placed(KetamaPoints, list)

First(K) == CHOOSE k \in K : \A j \in K : k <= j

(* a slip: the key's remainder, and from there clockwise *)
GetNodeForKeyRemainder(nodes, h) ==
  LET tailMap == {k \in DOMAIN nodes : k > h % Cardinality(DOMAIN nodes)}
  IN  nodes[First(IF tailMap = {} THEN DOMAIN nodes ELSE tailMap)]

(* a slip: the key itself is not looked for *)
GetNodeForKeyAbove(nodes, h) ==
  LET tailMap == {k \in DOMAIN nodes : k > h}
  IN  nodes[First(IF tailMap = {} THEN DOMAIN nodes ELSE tailMap)]

(* The key itself, or the first above it, or the first of all.             *)
GetNodeForKey(nodes, h) ==
  LET tailMap == {k \in DOMAIN nodes : k > h}
  IN  IF h \in DOMAIN nodes THEN nodes[h]
      ELSE nodes[First(IF tailMap = {} THEN DOMAIN nodes ELSE tailMap)]

-----------------------------------------------------------------------------
(***************************************************************************)
(* Properties.                                                             *)
(***************************************************************************)
TypeOK ==
  /\ added \in Seq(Nodes)
  /\ DOMAIN ring \subseteq Hashes
  /\ \A k \in DOMAIN ring : ring[k] \in Nodes
  /\ keys  \in Ordered(DOMAIN ring)
  /\ pc    \in {"idle", "search", "found", "thrown"}
  /\ hash  \in Hashes
  /\ begin \in Nat
  /\ end   \in Nat

(* The key that follows h clockwise on a ring with the keys K.             *)
Clockwise(K, h) ==
  First(IF \E k \in K : k >= h THEN {k \in K : k >= h} ELSE K)

(* The hash of the smallest key passes both comparisons at the start, and  *)
(* the search never looks at position 0: the answer is the second key.     *)
AtFirstKey(h) == Len(keys) > 1 /\ h = Key(0)

(* Whatever the ring and wherever the middle falls, the search finds the   *)
(* key that follows the hash clockwise; the hash of the smallest key finds *)
(* the one after it.                                                       *)
FindsClockwise ==
  pc = "found" =>
    Key(end) = IF AtFirstKey(hash) THEN Key(1) ELSE Clockwise(DOMAIN ring, hash)

(* A point of several servers.                                             *)
Shared(P, k) ==
  \E m, n \in Nodes : m # n /\ k \in P[m] /\ k \in P[n]

(* Within a process, the ring that servers come to and go from stays the   *)
(* one built anew from the servers that are there: no point of a removed   *)
(* server stays or comes back, and every point answers with the server     *)
(* that was added last.  What may be missing are points of several         *)
(* servers: they go with the first of them that goes.                      *)
RingIsRebuilt ==
  LET rebuilt == Placed(Points, added)
  IN  /\ \A k \in DOMAIN ring : k \in DOMAIN rebuilt /\ ring[k] = rebuilt[k]
      /\ \A k \in DOMAIN rebuilt \ DOMAIN ring : Shared(Points, k)

(* A server that has been removed is never answered again, and no server   *)
(* is answered that was not added.                                         *)
AnswersAServer ==
  pc = "found" => ItemNode \in NodeSet

(* The servers that are there, in whatever order they may be listed.       *)
Listings == {f \in [DOMAIN added -> NodeSet] : {f[i] : i \in DOMAIN f} = NodeSet}

(* Two processes that locate a service or a shard among the same servers   *)
(* (KetamaNodeLocator) find the same one for a key, in whatever order      *)
(* ZooKeeper or the configuration lists the servers to them, unless the    *)
(* key falls on a point of several.  Nothing of the kind is claimed of     *)
(* ConsistentHash, whose points differ from process to process.            *)
ProcessesAgree ==
  added # <<>> =>
    \A list \in Listings, h \in Hashes :
      LET ours == KetamaNodes(added)
      IN  \/ GetNodeForKey(KetamaNodes(list), h) = GetNodeForKey(ours, h)
          \/ Shared(KetamaPoints, Clockwise(DOMAIN ours, h))

(* On the Ketama ring a shard or a server that comes takes identities over *)
(* and leaves the others where they were; one that goes hands on its own   *)
(* and no others.                                                          *)
MovesOnlyItsOwn ==
  [][\A n \in Nodes : added' # added /\ (Add(n) \/ Remove(n)) =>
       \A h \in Hashes :
         added # <<>> /\ added' # <<>> =>
           LET was == GetNodeForKey(KetamaNodes(added), h)
               is  == GetNodeForKey(KetamaNodes(added'), h)
           IN  was = is \/ n \in {was, is}]_vars

=============================================================================
