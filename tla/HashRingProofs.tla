--------------------------- MODULE HashRingProofs ---------------------------
(***************************************************************************)
(* Proofs about HashRing, for any servers, any hashes and any finite sets  *)
(* of points of either kind.                                               *)
(***************************************************************************)
EXTENDS HashRing, FiniteSetTheorems, WellFoundedInduction, TLAPS

USE HashAssumption, PointsAssumption

(* The sorted array is that of the ring, and the positions are its own.    *)
Shape ==
  /\ added \in Seq(Nodes)
  /\ \A i, j \in DOMAIN added : i # j => added[i] # added[j]
  /\ DOMAIN ring \subseteq Hashes /\ IsFiniteSet(DOMAIN ring)
  /\ keys \in Ordered(DOMAIN ring)
  /\ pc \in {"idle", "search", "found", "thrown"}
  /\ hash \in Hashes /\ begin \in Nat /\ end \in Nat

(* Every point on the ring belongs to a server that is there, and is one   *)
(* of the server's own.                                                    *)
Owned ==
  \A k \in DOMAIN ring : ring[k] \in NodeSet /\ k \in Points[ring[k]]

(* The hash is above begin and not above end, but for the one of the       *)
(* smallest key, which keeps begin at 0.                                   *)
Bracketed ==
  pc = "search" =>
    /\ begin <= end /\ end < Len(keys)
    /\ Len(keys) > 1 => begin < end
    /\ hash <= Key(end)
    /\ Key(begin) < hash \/ (begin = 0 /\ Key(0) = hash)

InRange == pc = "found" => end < Len(keys)

Inv == Shape /\ Owned /\ Bracketed /\ InRange /\ FindsClockwise

-----------------------------------------------------------------------------
(* What the array of a finite set of hashes is.                            *)
LEMMA OrderedKeys ==
  ASSUME NEW K \in SUBSET Hashes, IsFiniteSet(K), NEW s \in Ordered(K)
  PROVE  /\ s \in Seq(Int) /\ Len(s) = Cardinality(K) /\ Len(s) \in Nat
         /\ DOMAIN s = 1..Len(s)
         /\ \A i \in 1..Len(s) : s[i] \in K
         /\ \A k \in K : \E i \in 1..Len(s) : s[i] = k
         /\ \A i, j \in 1..Len(s) : i < j => s[i] < s[j]
<1>1. Cardinality(K) \in Nat
  BY FS_CardinalityType
<1>2. s \in [1..Cardinality(K) -> K]
  BY DEF Ordered
<1>3. DOMAIN s = 1..Len(s) /\ Len(s) = Cardinality(K) /\ s \in Seq(K)
  BY <1>1, <1>2
<1>4. \A i \in 1..Len(s) : s[i] \in K /\ s[i] \in Int
  BY <1>2, <1>3, HashAssumption
<1>5. s \in [1..Len(s) -> Int] /\ Len(s) \in Nat
  BY <1>1, <1>2, <1>3, <1>4
<1>6. s \in Seq(Int)
  BY <1>5
<1> QED
  BY <1>1, <1>2, <1>3, <1>6 DEF Ordered

(* A key at or above the hash, with every smaller key below the hash, is   *)
(* the one clockwise of it.                                                *)
LEMMA ClockwiseIs ==
  ASSUME NEW K \in SUBSET Int, NEW h \in Int, NEW k \in K, k >= h,
         \A j \in K : j < k => j < h
  PROVE  Clockwise(K, h) = k
<1> DEFINE A == {j \in K : j >= h}
<1>1. Clockwise(K, h) = CHOOSE x \in A : \A j \in A : x <= j
  BY DEF Clockwise, First
<1>2. k \in A /\ \A j \in A : k <= j
  OBVIOUS
<1>3. \A x \in A : (\A j \in A : x <= j) => x = k
  BY <1>2
<1> QED
  BY <1>1, <1>2, <1>3

(* Past the last key it is the first of all.                               *)
LEMMA ClockwiseWraps ==
  ASSUME NEW K \in SUBSET Int, NEW h \in Int, NEW k \in K,
         \A j \in K : j < h, \A j \in K : k <= j
  PROVE  Clockwise(K, h) = k
<1>0. \A j \in K : ~ (j >= h)
  OBVIOUS
<1>1. Clockwise(K, h) = CHOOSE x \in K : \A j \in K : x <= j
  BY <1>0 DEF Clockwise, First
<1>2. \A x \in K : (\A j \in K : x <= j) => x = k
  OBVIOUS
<1> QED
  BY <1>1, <1>2

LEMMA KeysAre ==
  ASSUME Shape
  PROVE  /\ keys \in Seq(Int) /\ Len(keys) \in Nat /\ DOMAIN keys = 1..Len(keys)
         /\ DOMAIN ring \subseteq Int /\ hash \in Int
         /\ \A i \in 1..Len(keys) : keys[i] \in DOMAIN ring
         /\ \A k \in DOMAIN ring : \E i \in 1..Len(keys) : keys[i] = k
         /\ \A i, j \in 1..Len(keys) : i < j => keys[i] < keys[j]
<1> USE DEF Shape
<1>1. DOMAIN ring \in SUBSET Hashes
  OBVIOUS
<1> QED
  BY <1>1, OrderedKeys

(* What is left when a server is taken out of the list.                    *)
LEMMA OthersAre ==
  ASSUME NEW n \in Nodes, added \in Seq(Nodes),
         \A i, j \in DOMAIN added : i # j => added[i] # added[j]
  PROVE  /\ Others(n) \in Seq(Nodes)
         /\ \A i, j \in DOMAIN Others(n) : i # j => Others(n)[i] # Others(n)[j]
         /\ {Others(n)[i] : i \in DOMAIN Others(n)} = NodeSet \ {n}
<1>1. CASE n \notin NodeSet
  <2>1. Others(n) = added
    BY <1>1 DEF Others
  <2> QED
    BY <1>1, <2>1 DEF NodeSet
<1>2. CASE n \in NodeSet
  <2> DEFINE i == CHOOSE i \in DOMAIN added : added[i] = n
             R == [j \in 1..(Len(added) - 1) |-> added[IF j < i THEN j ELSE j + 1]]
  <2>1. Others(n) = R
    BY <1>2 DEF Others
  <2>2. i \in 1..Len(added) /\ added[i] = n
    BY <1>2 DEF NodeSet
  <2> HIDE DEF i
  <2>3. \A j \in 1..(Len(added) - 1) :
          /\ (IF j < i THEN j ELSE j + 1) \in 1..Len(added)
          /\ (IF j < i THEN j ELSE j + 1) # i
    BY <2>2
  <2>4. R \in Seq(Nodes) /\ DOMAIN R = 1..(Len(added) - 1)
    BY <2>2, <2>3
  <2>5. \A j, k \in DOMAIN R : j # k => R[j] # R[k]
    BY <2>2, <2>3, <2>4
  <2>6. {R[j] : j \in DOMAIN R} \subseteq NodeSet \ {n}
    BY <2>2, <2>3, <2>4 DEF NodeSet
  <2>7. ASSUME NEW m \in NodeSet \ {n} PROVE m \in {R[j] : j \in DOMAIN R}
    <3>1. PICK k \in 1..Len(added) : added[k] = m
      BY DEF NodeSet
    <3>2. k # i
      BY <2>2, <3>1
    <3>3. CASE k < i
      <4>1. k \in DOMAIN R /\ R[k] = m
        BY <2>2, <2>4, <3>1, <3>3
      <4> QED
        BY <4>1
    <3>4. CASE k > i
      <4>1. k - 1 \in DOMAIN R /\ R[k - 1] = m
        BY <2>2, <2>4, <3>1, <3>4
      <4> QED
        BY <4>1
    <3> QED
      BY <2>2, <3>2, <3>3, <3>4
  <2> QED
    BY <2>1, <2>4, <2>5, <2>6, <2>7
<1> QED
  BY <1>1, <1>2

-----------------------------------------------------------------------------
LEMMA InitInv == Init => Inv
<1> SUFFICES ASSUME Init PROVE Inv
  OBVIOUS
<1> USE DEF Init
<1>1. DOMAIN ring = {} /\ IsFiniteSet(DOMAIN ring) /\ Cardinality(DOMAIN ring) = 0
  BY FS_EmptySet
<1>2. keys \in Ordered(DOMAIN ring)
  BY <1>1 DEF Ordered
<1> QED
  BY <1>1, <1>2 DEF Inv, Shape, Owned, Bracketed, InRange, FindsClockwise

LEMMA AddInv ==
  ASSUME Inv, NEW n \in Nodes, Add(n)
  PROVE  Inv'
<1> USE DEF Inv, Shape
<1>1. /\ Others(n) \in Seq(Nodes)
      /\ \A i, j \in DOMAIN Others(n) : i # j => Others(n)[i] # Others(n)[j]
      /\ {Others(n)[i] : i \in DOMAIN Others(n)} = NodeSet \ {n}
  BY OthersAre
<1>2. added' = Append(Others(n), n)
  BY DEF Add
<1>3. /\ added' \in Seq(Nodes)
      /\ \A i, j \in DOMAIN added' : i # j => added'[i] # added'[j]
      /\ NodeSet' = NodeSet \cup {n}
  <2> DEFINE o == Others(n)
  <2>1. /\ added' \in Seq(Nodes) /\ DOMAIN added' = 1..(Len(o) + 1)
        /\ added'[Len(o) + 1] = n /\ \A i \in DOMAIN o : added'[i] = o[i]
        /\ DOMAIN o = 1..Len(o)
    BY <1>1, <1>2
  <2>2. \A i \in DOMAIN o : o[i] # n
    BY <1>1
  <2> HIDE DEF o
  <2>3. \A i, j \in DOMAIN added' : i # j => added'[i] # added'[j]
    BY <1>1, <2>1, <2>2 DEF o
  <2>4. NodeSet' = {o[i] : i \in DOMAIN o} \cup {n}
    BY <1>1, <2>1, SMTT(25) DEF NodeSet, o
  <2> QED
    BY <1>1, <2>1, <2>3, <2>4 DEF o
<1>4. /\ DOMAIN ring' = DOMAIN ring \cup Points[n]
      /\ \A k \in DOMAIN ring' : ring'[k] = IF k \in Points[n] THEN n ELSE ring[k]
  BY DEF Add, AddNode
<1>5. DOMAIN ring' \subseteq Hashes /\ IsFiniteSet(DOMAIN ring')
  <2>1. Points[n] \subseteq Hashes /\ IsFiniteSet(Points[n])
    BY PointsAssumption
  <2>2. IsFiniteSet(DOMAIN ring \cup Points[n])
    BY <2>1, FS_Union
  <2> QED
    BY <1>4, <2>1, <2>2
<1>6. Shape'
  BY <1>3, <1>5 DEF Add
<1>7. Owned'
  BY <1>3, <1>4 DEF Owned
<1> QED
  BY <1>6, <1>7 DEF Add, Bracketed, InRange, FindsClockwise

LEMMA RemoveInv ==
  ASSUME Inv, NEW n \in Nodes, Remove(n)
  PROVE  Inv'
<1> USE DEF Inv, Shape
<1>1. /\ added' \in Seq(Nodes)
      /\ \A i, j \in DOMAIN added' : i # j => added'[i] # added'[j]
      /\ NodeSet' = NodeSet \ {n}
  BY OthersAre DEF Remove, NodeSet
<1>2. /\ DOMAIN ring' = DOMAIN ring \ Points[n]
      /\ \A k \in DOMAIN ring' : ring'[k] = ring[k]
  BY DEF Remove, RemoveNode
<1>3. DOMAIN ring' \subseteq Hashes /\ IsFiniteSet(DOMAIN ring')
  BY <1>2, FS_Subset
<1>4. Shape'
  BY <1>1, <1>3 DEF Remove
<1>5. Owned'
  BY <1>1, <1>2 DEF Owned
<1> QED
  BY <1>4, <1>5 DEF Remove, Bracketed, InRange, FindsClockwise

(* The two comparisons at the start.                                       *)
LEMMA GetItemNodeInv ==
  ASSUME Inv, NEW h \in Hashes, GetItemNode(h)
  PROVE  Inv'
<1> USE DEF Inv
<1>1. UNCHANGED <<added, ring, keys>> /\ hash' = h /\ begin' = 0
  BY DEF GetItemNode
<1>2. /\ keys \in Seq(Int) /\ Len(keys) \in Nat /\ DOMAIN keys = 1..Len(keys)
      /\ DOMAIN ring \subseteq Int /\ h \in Int
      /\ \A i \in 1..Len(keys) : keys[i] \in DOMAIN ring
      /\ \A k \in DOMAIN ring : \E i \in 1..Len(keys) : keys[i] = k
      /\ \A i, j \in 1..Len(keys) : i < j => keys[i] < keys[j]
  BY KeysAre
<1>3. Shape'
  BY <1>1, <1>2 DEF Shape, GetItemNode
<1>4. Owned'
  BY <1>1 DEF Owned, NodeSet
<1>5. CASE keys = <<>>
  BY <1>1, <1>3, <1>4, <1>5 DEF GetItemNode, Bracketed, InRange, FindsClockwise
<1>6. CASE keys # <<>> /\ Outside(h)
  <2>1. pc' = "found" /\ end' = 0 /\ Len(keys) > 0
    BY <1>2, <1>6 DEF GetItemNode
  <2>2. keys[1] \in DOMAIN ring /\ \A k \in DOMAIN ring : keys[1] <= k
    BY <1>2, <2>1
  <2>3. Clockwise(DOMAIN ring, h) = keys[1] /\ keys[1] # h
    <3>1. CASE keys[Len(keys)] < h
      <4>1. \A k \in DOMAIN ring : k <= keys[Len(keys)]
        BY <1>2, <2>1
      <4>2. \A k \in DOMAIN ring : k < h
        BY <1>2, <2>1, <3>1, <4>1
      <4> QED
        BY <1>2, <2>2, <4>2, ClockwiseWraps
    <3>2. CASE keys[1] > h
      <4>1. keys[1] >= h /\ \A k \in DOMAIN ring : k < keys[1] => k < h
        BY <1>2, <2>2, <3>2
      <4> QED
        BY <1>2, <2>2, <3>2, <4>1, ClockwiseIs
    <3> QED
      BY <1>2, <1>6, <2>1, <3>1, <3>2 DEF Outside, Key
  <2>4. FindsClockwise'
    BY <1>1, <2>1, <2>3 DEF FindsClockwise, AtFirstKey, Key
  <2> QED
    BY <1>1, <1>3, <1>4, <2>1, <2>4 DEF Bracketed, InRange
<1>7. CASE keys # <<>> /\ ~ Outside(h)
  <2>1. pc' = "search" /\ end' = Len(keys) - 1 /\ Len(keys) > 0
    BY <1>2, <1>7 DEF GetItemNode
  <2>2. keys[1] <= h /\ h <= keys[Len(keys)]
    BY <1>2, <1>7, <2>1 DEF Outside, Key
  <2>3. Bracketed'
    BY <1>1, <1>2, <2>1, <2>2 DEF Bracketed, Key
  <2> QED
    BY <1>1, <1>3, <1>4, <2>1, <2>3 DEF InRange, FindsClockwise
<1> QED
  BY <1>5, <1>6, <1>7

LEMMA NarrowInv ==
  ASSUME Inv, Narrow
  PROVE  Inv'
<1> USE DEF Inv
<1>1. UNCHANGED <<added, ring, keys, pc, hash>> /\ pc = "search" /\ end - begin > 1
  BY DEF Narrow, Loops
<1>2. /\ keys \in Seq(Int) /\ Len(keys) \in Nat /\ hash \in Int
      /\ \A i \in 1..Len(keys) : keys[i] \in Int
  BY KeysAre
<1>3. begin \in Nat /\ end \in Nat /\ end < Len(keys) /\ hash <= Key(end)
  BY <1>1 DEF Shape, Bracketed
<1> DEFINE mid == (end + begin) \div 2
<1>4. mid \in Nat /\ begin < mid /\ mid < end
  BY <1>1, <1>3
<1>5. Key(mid) \in Int
  BY <1>2, <1>3, <1>4 DEF Key
<1>6. IF Key(mid) >= hash THEN end' = mid /\ begin' = begin
                          ELSE begin' = mid /\ end' = end
  BY DEF Narrow
<1> HIDE DEF mid
<1>7. begin' \in Nat /\ end' \in Nat
  BY <1>3, <1>4, <1>6
<1>8. /\ begin' < end' /\ end' < Len(keys)
      /\ hash <= Key(end')
      /\ Key(begin') < hash \/ (begin' = 0 /\ Key(0) = hash)
  <2>1. Key(begin) < hash \/ (begin = 0 /\ Key(0) = hash)
    BY <1>1 DEF Bracketed
  <2>2. CASE Key(mid) >= hash
    BY <1>2, <1>3, <1>4, <1>5, <1>6, <2>1, <2>2
  <2>3. CASE ~ (Key(mid) >= hash)
    <3>1. begin' = mid /\ end' = end /\ Key(mid) < hash
      BY <1>2, <1>5, <1>6, <2>3
    <3> QED
      BY <1>3, <1>4, <3>1
  <2> QED
    BY <2>2, <2>3
<1>9. Bracketed'
  BY <1>1, <1>7, <1>8 DEF Bracketed, Key
<1> QED
  BY <1>1, <1>7, <1>9 DEF Shape, Owned, NodeSet, InRange, FindsClockwise

(* The loop is over: begin and end are neighbours, or there is one key.    *)
LEMMA FoundInv ==
  ASSUME Inv, Found
  PROVE  Inv'
<1> USE DEF Inv
<1>1. /\ UNCHANGED <<added, ring, keys, hash, begin, end>>
      /\ pc = "search" /\ pc' = "found" /\ ~ (end - begin > 1)
  BY DEF Found, Loops
<1>2. /\ keys \in Seq(Int) /\ Len(keys) \in Nat /\ DOMAIN keys = 1..Len(keys)
      /\ DOMAIN ring \subseteq Int /\ hash \in Int
      /\ \A i \in 1..Len(keys) : keys[i] \in DOMAIN ring
      /\ \A k \in DOMAIN ring : \E i \in 1..Len(keys) : keys[i] = k
      /\ \A i, j \in 1..Len(keys) : i < j => keys[i] < keys[j]
  BY KeysAre
<1>3. /\ begin \in Nat /\ end \in Nat
      /\ begin <= end /\ end < Len(keys)
      /\ Len(keys) > 1 => begin < end
      /\ hash <= keys[end + 1]
      /\ keys[begin + 1] < hash \/ (begin = 0 /\ keys[1] = hash)
  BY <1>1 DEF Shape, Bracketed, Key
<1>4. CASE AtFirstKey(hash)
  <2>1. Len(keys) > 1 /\ keys[1] = hash
    BY <1>4 DEF AtFirstKey, Key
  <2>2. begin = 0
    BY <1>2, <1>3, <2>1
  <2>3. end = 1
    BY <1>1, <1>3, <2>1, <2>2
  <2> QED
    BY <1>1, <1>4, <2>1, <2>3 DEF Shape, Owned, NodeSet, Bracketed, InRange,
                                  FindsClockwise, AtFirstKey, Key
<1>5. CASE ~ AtFirstKey(hash)
  <2>1. \A k \in DOMAIN ring : k < keys[end + 1] => k < hash
    <3> SUFFICES ASSUME NEW k \in DOMAIN ring, k < keys[end + 1] PROVE k < hash
      OBVIOUS
    <3>1. PICK i \in 1..Len(keys) : keys[i] = k
      BY <1>2
    <3>2. i < end + 1
      <4>1. end + 1 \in 1..Len(keys) /\ keys[end + 1] \in Int /\ keys[i] \in Int
        BY <1>2, <1>3, <3>1
      <4>2. end + 1 < i => keys[end + 1] < keys[i]
        BY <1>2, <4>1
      <4> QED
        BY <1>3, <3>1, <4>1, <4>2
    <3>3. Len(keys) > 1 /\ end = begin + 1
      BY <1>1, <1>2, <1>3, <3>1, <3>2, SMTT(25)
    <3>4. keys[begin + 1] < hash
      BY <1>3, <1>5, <3>3 DEF AtFirstKey, Key
    <3>5. keys[i] <= keys[begin + 1]
      BY <1>2, <1>3, <3>1, <3>2, <3>3
    <3> QED
      BY <1>2, <1>3, <3>1, <3>4, <3>5, SMTT(25)
  <2>2. keys[end + 1] \in DOMAIN ring
    BY <1>2, <1>3
  <2>3. Clockwise(DOMAIN ring, hash) = keys[end + 1]
    BY <1>2, <1>3, <2>1, <2>2, ClockwiseIs
  <2> QED
    BY <1>1, <1>3, <1>5, <2>3 DEF Shape, Owned, NodeSet, Bracketed, InRange,
                                  FindsClockwise, AtFirstKey, Key
<1> QED
  BY <1>4, <1>5

LEMMA StepInv == Inv /\ [Next]_vars => Inv'
<1> SUFFICES ASSUME Inv, [Next]_vars PROVE Inv'
  OBVIOUS
<1>1. CASE UNCHANGED vars
  BY <1>1 DEF Inv, Shape, Owned, NodeSet, Bracketed, InRange, FindsClockwise,
              AtFirstKey, Key, vars, search
<1>2. CASE Next
  BY <1>2, AddInv, RemoveInv, GetItemNodeInv, NarrowInv, FoundInv DEF Next
<1> QED
  BY <1>1, <1>2

LEMMA Invariance == Spec => []Inv
  BY InitInv, StepInv, PTL DEF Spec

-----------------------------------------------------------------------------
(* Whatever servers come and go, the sorted array is that of the ring, and *)
(* the search stays among its positions.                                   *)
THEOREM TypeCorrect == Spec => []TypeOK
<1>1. Inv => TypeOK
  BY DEF Inv, Shape, Owned, NodeSet, TypeOK
<1> QED
  BY <1>1, Invariance, PTL

(* The binary search finds the key that follows the hash clockwise, or for *)
(* the hash of the smallest of several keys the second.                    *)
THEOREM SearchFinds == Spec => []FindsClockwise
<1>1. Inv => FindsClockwise
  BY DEF Inv
<1> QED
  BY <1>1, Invariance, PTL

(* A found key is on the ring, and its server among those that are there.  *)
THEOREM OnlyServersAnswer == Spec => []AnswersAServer
<1>1. Inv => AnswersAServer
  <2> SUFFICES ASSUME Inv, pc = "found" PROVE ItemNode \in NodeSet
    BY DEF AnswersAServer
  <2>1. Key(end) \in DOMAIN ring
    BY KeysAre DEF Inv, Shape, InRange, Key
  <2> QED
    BY <2>1 DEF Inv, Owned, ItemNode
<1> QED
  BY <1>1, Invariance, PTL

-----------------------------------------------------------------------------
(* A set of naturals has a smallest, a finite set of hashes a first one:   *)
(* that with the fewest below it.                                          *)
LEMMA NatMin ==
  ASSUME NEW T \in SUBSET Nat, T # {}
  PROVE  \E x \in T : \A y \in T : x <= y
<1>1. \E x \in T : \A y \in T : ~ (<<y, x>> \in OpToRel(<, Nat))
  BY NatLessThanWellFounded, WFMin, Zenon
<1>2. \A x, y \in Nat : y < x => <<y, x>> \in OpToRel(<, Nat)
  BY DEF OpToRel
<1>3. PICK x \in T : \A y \in T : ~ (<<y, x>> \in OpToRel(<, Nat))
  BY <1>1
<1>4. \A y \in T : ~ (y < x)
  BY <1>2, <1>3, Zenon
<1>5. \A y \in T : x <= y
  BY <1>4
<1> QED
  BY <1>5

LEMMA FirstIs ==
  ASSUME NEW K \in SUBSET Int, IsFiniteSet(K), K # {}
  PROVE  First(K) \in K /\ \A j \in K : First(K) <= j
<1> DEFINE Below(k) == {j \in K : j < k}
           T == {Cardinality(Below(k)) : k \in K}
<1>1. \A k \in K : IsFiniteSet(Below(k)) /\ Cardinality(Below(k)) \in Nat
  BY FS_Subset, FS_CardinalityType
<1>2. PICK k \in K : \A j \in K : Cardinality(Below(k)) <= Cardinality(Below(j))
  <2>1. T \in SUBSET Nat /\ T # {}
    BY <1>1
  <2>2. \E x \in T : \A y \in T : x <= y
    BY <2>1, NatMin
  <2> QED
    BY <2>2
<1>3. ASSUME NEW j \in K, j < k PROVE FALSE
  <2>1. j \in Int /\ k \in Int /\ \A i \in K : i \in Int /\ (i < j => i < k)
    BY <1>3
  <2>2. Below(j) \subseteq Below(k)
    BY <2>1
  <2>3. j \in Below(k)
    BY <1>3
  <2>4. ~ (j < j)
    BY <2>1
  <2>5. Below(j) # Below(k)
    BY <2>3, <2>4
  <2> HIDE DEF Below
  <2>6. /\ Cardinality(Below(j)) <= Cardinality(Below(k))
        /\ Cardinality(Below(k)) # Cardinality(Below(j))
    BY <1>1, <2>2, <2>5, FS_Subset
  <2>7. Cardinality(Below(j)) = Cardinality(Below(k))
    BY <1>1, <1>2, <2>6
  <2> QED
    BY <2>6, <2>7
<1>4. \A j \in K : k <= j
  BY <1>3
<1> QED
  BY <1>4 DEF First

(* What it is to follow h clockwise on a ring with the keys K.             *)
Follows(K, h, k) ==
  /\ k \in K
  /\ \A j \in K : j >= h => k >= h /\ k <= j
  /\ (\A j \in K : j < h) => \A j \in K : k <= j

LEMMA ClockwiseFollows ==
  ASSUME NEW K \in SUBSET Int, IsFiniteSet(K), K # {}, NEW h \in Int
  PROVE  Follows(K, h, Clockwise(K, h))
<1> DEFINE A == {k \in K : k >= h}
<1>1. CASE A # {}
  <2>1. Clockwise(K, h) = First(A)
    BY <1>1 DEF Clockwise
  <2>2. A \in SUBSET Int /\ IsFiniteSet(A)
    BY FS_Subset
  <2>3. First(A) \in A /\ \A j \in A : First(A) <= j
    BY <1>1, <2>2, FirstIs
  <2>4. PICK c \in K : c = Clockwise(K, h) /\ c >= h /\ \A j \in K : j >= h => c <= j
    BY <2>1, <2>3
  <2>5. ~ \A j \in K : j < h
    BY <2>4
  <2> QED
    BY <2>4, <2>5 DEF Follows
<1>2. CASE A = {}
  <2>1. Clockwise(K, h) = First(K)
    BY <1>2 DEF Clockwise
  <2>2. First(K) \in K /\ \A j \in K : First(K) <= j
    BY FirstIs
  <2> QED
    BY <1>2, <2>1, <2>2 DEF Follows
<1> QED
  BY <1>1, <1>2

(* Two rings that have each other's answer have the same.                  *)
LEMMA FollowsOnce ==
  ASSUME NEW K \in SUBSET Int, NEW J \in SUBSET Int, NEW h \in Int,
         NEW a \in J, NEW b \in K, Follows(K, h, a), Follows(J, h, b)
  PROVE  a = b
<1>1. a \in K /\ b \in J /\ a \in Int /\ b \in Int
  BY DEF Follows
<1>2. a >= h <=> b >= h
  BY <1>1 DEF Follows
<1>3. CASE a >= h
  BY <1>1, <1>2, <1>3 DEF Follows
<1>4. CASE ~ (a >= h)
  <2>1. (\A j \in K : j < h) /\ (\A j \in J : j < h)
    BY <1>1, <1>2, <1>4 DEF Follows
  <2> QED
    BY <1>1, <2>1 DEF Follows
<1> QED
  BY <1>3, <1>4

(* The look-up of KetamaNodeLocator is the key that follows clockwise.     *)
LEMMA GetFollows ==
  ASSUME NEW nodes, DOMAIN nodes \in SUBSET Int, IsFiniteSet(DOMAIN nodes),
         DOMAIN nodes # {}, NEW h \in Int
  PROVE  GetNodeForKey(nodes, h) = nodes[Clockwise(DOMAIN nodes, h)]
<1> DEFINE K == DOMAIN nodes
           c == Clockwise(K, h)
<1>1. Follows(K, h, c)
  BY ClockwiseFollows
<1>2. CASE h \in K
  <2>1. c = h
    BY <1>1, <1>2 DEF Follows
  <2> QED
    BY <1>2, <2>1 DEF GetNodeForKey
<1>3. CASE h \notin K
  <2>1. {k \in K : k > h} = {k \in K : k >= h}
    BY <1>3
  <2>2. c = First(IF {k \in K : k > h} = {} THEN K ELSE {k \in K : k > h})
    BY <2>1 DEF Clockwise
  <2> QED
    BY <1>3, <2>2 DEF GetNodeForKey
<1> QED
  BY <1>2, <1>3

(* The servers in a list.                                                  *)
Listed(list) == {list[i] : i \in DOMAIN list}

(* y is in the list and not before x.                                      *)
Precedes(list, x, y) ==
  \E i, j \in DOMAIN list : i <= j /\ list[i] = x /\ list[j] = y

(* What the lemmas need of the points P.                                   *)
Placeable(P) == \A n \in Nodes : P[n] \subseteq Hashes /\ IsFiniteSet(P[n])

(* A key belongs to the last server in the list that has it as a point.    *)
LEMMA PlacedIs ==
  ASSUME NEW P, Placeable(P), NEW n \in Nat, NEW list \in [1..n -> Nodes]
  PROVE  /\ DOMAIN Placed(P, list) \subseteq Hashes
         /\ IsFiniteSet(DOMAIN Placed(P, list))
         /\ \A i \in 1..n : P[list[i]] \subseteq DOMAIN Placed(P, list)
         /\ \A k \in DOMAIN Placed(P, list) :
              \E i \in 1..n :
                /\ Placed(P, list)[k] = list[i] /\ k \in P[list[i]]
                /\ \A j \in 1..n : k \in P[list[j]] => j <= i
<1> DEFINE At(k)   == {i \in DOMAIN list : k \in P[list[i]]}
           Last(k) == CHOOSE i \in At(k) : \A j \in At(k) : j <= i
           All     == {P[list[i]] : i \in DOMAIN list}
           K       == UNION All
<1>1. DOMAIN list = 1..n /\ \A i \in 1..n : list[i] \in Nodes
  OBVIOUS
<1>2. Placed(P, list) = [k \in K |-> list[Last(k)]]
  BY DEF Placed
<1>3. DOMAIN Placed(P, list) = K
  BY <1>2
<1>4. K \subseteq Hashes /\ \A i \in 1..n : P[list[i]] \subseteq K
  <2>1. \A m \in Nodes : P[m] \subseteq Hashes
    BY DEF Placeable
  <2>2. \A S \in All : S \subseteq Hashes
    BY <1>1, <2>1
  <2>3. K \subseteq Hashes
    BY <2>2
  <2>4. \A i \in 1..n : P[list[i]] \in All
    BY <1>1
  <2> HIDE DEF All
  <2> QED
    BY <2>3, <2>4
<1>5. IsFiniteSet(K)
  <2>0. 1 \in Int /\ n \in Int
    OBVIOUS
  <2>1. IsFiniteSet(1..n)
    BY ONLY <2>0, FS_Interval
  <2> DEFINE f == [i \in 1..n |-> P[list[i]]]
  <2>2. IsFiniteSet(All)
    <3>1. f \in Surjection(1..n, All)
      BY <1>1 DEF Surjection
    <3> QED
      BY <2>1, <3>1, FS_Surjection
  <2>3. \A S \in All : IsFiniteSet(S)
    BY <1>1 DEF Placeable
  <2> QED
    BY <2>2, <2>3, FS_UNION
<1>6. ASSUME NEW k \in K
      PROVE  \E i \in 1..n :
               /\ Placed(P, list)[k] = list[i] /\ k \in P[list[i]]
               /\ \A j \in 1..n : k \in P[list[j]] => j <= i
  <2> DEFINE T == {n - i : i \in At(k)}
  <2>1. At(k) \subseteq 1..n /\ At(k) # {}
    BY <1>1
  <2>2. T \in SUBSET Nat /\ T # {}
    BY <2>1
  <2>3. PICK t \in T : \A u \in T : t <= u
    BY <2>2, NatMin
  <2>4. PICK i \in At(k) : t = n - i
    OBVIOUS
  <2>5. \A j \in At(k) : n - i <= n - j
    BY <2>3, <2>4
  <2>6. \A j \in At(k) : j <= i
    BY <2>1, <2>5
  <2>7. Last(k) \in At(k) /\ \A j \in At(k) : j <= Last(k)
    BY <2>6
  <2>8. Placed(P, list)[k] = list[Last(k)]
    BY <1>2
  <2> HIDE DEF Last
  <2> QED
    BY <1>1, <2>7, <2>8
<1> QED
  BY <1>3, <1>4, <1>5, <1>6

(* Two lists that differ in n only, and have the others in one order, give *)
(* every key to the same server or to n.                                   *)
LEMMA SameButOne ==
  ASSUME NEW P, Placeable(P), NEW n \in Nodes, NEW A \in Seq(Nodes), NEW B \in Seq(Nodes),
         \A i, j \in DOMAIN A : i # j => A[i] # A[j],
         Listed(A) \ {n} = Listed(B) \ {n},
         \A x, y \in Nodes \ {n} : Precedes(B, x, y) => Precedes(A, x, y),
         NEW k
  PROVE  /\ k \in DOMAIN Placed(P, A) =>
              Placed(P, A)[k] = n \/ k \in DOMAIN Placed(P, B)
         /\ k \in DOMAIN Placed(P, B) =>
              Placed(P, B)[k] = n \/ k \in DOMAIN Placed(P, A)
         /\ k \in DOMAIN Placed(P, A) /\ k \in DOMAIN Placed(P, B) =>
              \/ Placed(P, A)[k] = Placed(P, B)[k]
              \/ n \in {Placed(P, A)[k], Placed(P, B)[k]}
<1>1. /\ Len(A) \in Nat /\ DOMAIN A = 1..Len(A) /\ A \in [1..Len(A) -> Nodes]
      /\ Len(B) \in Nat /\ DOMAIN B = 1..Len(B) /\ B \in [1..Len(B) -> Nodes]
  OBVIOUS
<1>2. CASE k \in DOMAIN Placed(P, A) /\ k \in DOMAIN Placed(P, B)
  <2>1. PICK i \in 1..Len(A) :
          /\ Placed(P, A)[k] = A[i] /\ k \in P[A[i]]
          /\ \A j \in 1..Len(A) : k \in P[A[j]] => j <= i
    BY <1>1, <1>2, PlacedIs
  <2>2. PICK j \in 1..Len(B) :
          /\ Placed(P, B)[k] = B[j] /\ k \in P[B[j]]
          /\ \A l \in 1..Len(B) : k \in P[B[l]] => l <= j
    BY <1>1, <1>2, PlacedIs
  <2>3. CASE A[i] # n /\ B[j] # n
    <3>1. A[i] \in Listed(B) /\ B[j] \in Listed(A)
      BY <1>1, <2>3 DEF Listed
    <3>2. Precedes(B, A[i], B[j])
      <4>1. PICK l \in 1..Len(B) : B[l] = A[i]
        BY <1>1, <3>1 DEF Listed
      <4>2. l <= j
        BY <2>1, <2>2, <4>1
      <4> QED
        BY <1>1, <4>1, <4>2 DEF Precedes
    <3>3. Precedes(A, A[i], B[j])
      BY <1>1, <2>3, <3>2
    <3>4. PICK p, q \in 1..Len(A) : p <= q /\ A[p] = A[i] /\ A[q] = B[j]
      BY <1>1, <3>3 DEF Precedes
    <3>5. p = i /\ q <= i
      BY <1>1, <2>1, <2>2, <3>4
    <3>6. q = i
      BY <3>4, <3>5
    <3> QED
      BY <1>2, <2>1, <2>2, <3>4, <3>6
  <2> QED
    BY <1>2, <2>1, <2>2, <2>3
<1>3. CASE k \in DOMAIN Placed(P, A) /\ k \notin DOMAIN Placed(P, B)
  <2>1. PICK i \in 1..Len(A) : Placed(P, A)[k] = A[i] /\ k \in P[A[i]]
    BY <1>1, <1>3, PlacedIs
  <2>2. ASSUME A[i] # n PROVE FALSE
    <3>1. PICK l \in 1..Len(B) : B[l] = A[i]
      BY <1>1, <2>2 DEF Listed
    <3> QED
      BY <1>1, <1>3, <2>1, <3>1, PlacedIs
  <2> QED
    BY <1>3, <2>1, <2>2
<1>4. CASE k \notin DOMAIN Placed(P, A) /\ k \in DOMAIN Placed(P, B)
  <2>1. PICK i \in 1..Len(B) : Placed(P, B)[k] = B[i] /\ k \in P[B[i]]
    BY <1>1, <1>4, PlacedIs
  <2>2. ASSUME B[i] # n PROVE FALSE
    <3>1. PICK l \in 1..Len(A) : A[l] = B[i]
      BY <1>1, <2>2 DEF Listed
    <3> QED
      BY <1>1, <1>4, <2>1, <3>1, PlacedIs
  <2> QED
    BY <1>4, <2>1, <2>2
<1> QED
  BY <1>2, <1>3, <1>4

(* Taking n out of the list keeps the order of the others.                 *)
LEMMA OthersKeepOrder ==
  ASSUME NEW n \in Nodes, added \in Seq(Nodes), NEW x, NEW y,
         Precedes(Others(n), x, y)
  PROVE  Precedes(added, x, y)
<1>1. CASE n \notin NodeSet
  BY <1>1 DEF Others
<1>2. CASE n \in NodeSet
  <2> DEFINE i    == CHOOSE i \in DOMAIN added : added[i] = n
             P(j) == IF j < i THEN j ELSE j + 1
  <2>1. Others(n) = [j \in 1..(Len(added) - 1) |-> added[P(j)]]
    BY <1>2 DEF Others
  <2>2. i \in 1..Len(added)
    BY <1>2 DEF NodeSet
  <2> HIDE DEF i
  <2>3. PICK j, k \in 1..(Len(added) - 1) :
          j <= k /\ added[P(j)] = x /\ added[P(k)] = y
    BY <2>1 DEF Precedes
  <2>4. P(j) \in 1..Len(added) /\ P(k) \in 1..Len(added) /\ P(j) <= P(k)
    BY <2>2, <2>3
  <2> HIDE DEF P
  <2> QED
    BY <2>3, <2>4 DEF Precedes
<1> QED
  BY <1>1, <1>2

(* What a server that comes or goes does to the list.                      *)
LEMMA ListChanges ==
  ASSUME Shape, NEW n \in Nodes, Add(n) \/ Remove(n)
  PROVE  /\ added' \in Seq(Nodes)
         /\ Listed(added) \ {n} = Listed(added') \ {n}
         /\ \A x, y \in Nodes \ {n} : Precedes(added', x, y) => Precedes(added, x, y)
<1> DEFINE o == Others(n)
<1>1. /\ o \in Seq(Nodes) /\ Listed(o) = Listed(added) \ {n}
  BY OthersAre DEF Shape, Listed, NodeSet
<1>2. \A x, y : Precedes(o, x, y) => Precedes(added, x, y)
  BY OthersKeepOrder DEF Shape
<1>3. CASE Remove(n)
  <2>1. added' = o
    BY <1>3 DEF Remove
  <2> HIDE DEF o
  <2> QED
    BY <1>1, <1>2, <2>1
<1>4. CASE Add(n)
  <2>1. added' = Append(o, n)
    BY <1>4 DEF Add
  <2> HIDE DEF o
  <2>2. /\ added' \in Seq(Nodes) /\ DOMAIN added' = 1..(Len(o) + 1) /\ Len(o) \in Nat
        /\ added'[Len(o) + 1] = n /\ DOMAIN o = 1..Len(o)
        /\ \A i \in 1..Len(o) : added'[i] = o[i]
    BY <1>1, <2>1
  <2>3. Listed(added') = Listed(o) \cup {n}
    BY <2>2 DEF Listed
  <2>4. \A x, y \in Nodes \ {n} : Precedes(added', x, y) => Precedes(o, x, y)
    BY <2>2 DEF Precedes
  <2> QED
    BY <1>1, <1>2, <2>2, <2>3, <2>4
<1> QED
  BY <1>3, <1>4

-----------------------------------------------------------------------------
(* The changed ring is the rebuilt one: a server that comes is the last in *)
(* the list, so its points are its own on both.                            *)
LEMMA RebuiltInit == Init => RingIsRebuilt
<1> SUFFICES ASSUME Init PROVE RingIsRebuilt
  OBVIOUS
<1>1. DOMAIN added = {} /\ DOMAIN ring = {}
  BY DEF Init
<1>2. DOMAIN Placed(Points, added) = {}
  BY <1>1 DEF Placed
<1> QED
  BY <1>1, <1>2 DEF RingIsRebuilt

LEMMA RebuiltChange ==
  ASSUME Inv, RingIsRebuilt, NEW n \in Nodes, Add(n) \/ Remove(n)
  PROVE  RingIsRebuilt'
<1>0. Placeable(Points)
  BY DEF Placeable
<1> DEFINE was == Placed(Points, added)
           is  == Placed(Points, added')
<1>1. /\ added \in Seq(Nodes) /\ added' \in Seq(Nodes)
      /\ Len(added) \in Nat /\ DOMAIN added = 1..Len(added)
      /\ Len(added') \in Nat /\ DOMAIN added' = 1..Len(added')
      /\ added \in [1..Len(added) -> Nodes] /\ added' \in [1..Len(added') -> Nodes]
  BY ListChanges DEF Inv, Shape
<1>2. \A k : /\ k \in DOMAIN was => was[k] = n \/ k \in DOMAIN is
             /\ k \in DOMAIN is => is[k] = n \/ k \in DOMAIN was
             /\ k \in DOMAIN was /\ k \in DOMAIN is =>
                  was[k] = is[k] \/ n \in {was[k], is[k]}
  BY <1>1, ListChanges, <1>0, SameButOne DEF Inv, Shape
<1>3. \A k \in DOMAIN was : was[k] \in Nodes /\ k \in Points[was[k]]
  BY <1>1, <1>0, PlacedIs
<1>4. \A k \in DOMAIN is : is[k] \in Nodes /\ k \in Points[is[k]]
  BY <1>1, <1>0, PlacedIs
<1>5. /\ \A k \in DOMAIN ring : k \in DOMAIN was /\ ring[k] = was[k]
      /\ \A k \in DOMAIN was \ DOMAIN ring : Shared(Points, k)
  BY DEF RingIsRebuilt
<1> HIDE DEF was, is
<1>6. CASE Remove(n)
  <2>1. /\ DOMAIN ring' = DOMAIN ring \ Points[n]
        /\ \A k \in DOMAIN ring' : ring'[k] = ring[k]
    BY <1>6 DEF Remove, RemoveNode
  <2>2. \A k \in DOMAIN ring' : k \in DOMAIN is /\ ring'[k] = is[k]
    BY <1>2, <1>3, <1>4, <1>5, <2>1
  <2>3. \A k \in DOMAIN is : is[k] # n
    <3>1. n \notin Listed(added')
      BY OthersAre, <1>6 DEF Remove, Inv, Shape, Listed
    <3> QED
      BY <1>1, <3>1, <1>0, PlacedIs DEF is, Listed
  <2>4. ASSUME NEW k \in DOMAIN is \ DOMAIN ring' PROVE Shared(Points, k)
    <3>1. CASE k \in Points[n]
      BY <1>4, <2>3, <3>1 DEF Shared
    <3>2. CASE k \notin Points[n]
      BY <1>2, <1>5, <2>1, <2>3, <3>2
    <3> QED
      BY <3>1, <3>2
  <2> QED
    BY <2>2, <2>4 DEF RingIsRebuilt, is, Shared
<1>7. CASE Add(n)
  <2>1. /\ DOMAIN ring' = DOMAIN ring \cup Points[n]
        /\ \A k \in DOMAIN ring' : ring'[k] = IF k \in Points[n] THEN n ELSE ring[k]
    BY <1>7 DEF Add, AddNode
  <2>2. Len(added') \in 1..Len(added') /\ added'[Len(added')] = n
    <3>1. Others(n) \in Seq(Nodes)
      BY OthersAre DEF Inv, Shape
    <3> QED
      BY <1>7, <3>1 DEF Add
  <2>3. \A k \in Points[n] : k \in DOMAIN is /\ is[k] = n
    <3> SUFFICES ASSUME NEW k \in Points[n] PROVE k \in DOMAIN is /\ is[k] = n
      OBVIOUS
    <3>1. k \in DOMAIN is
      BY <1>1, <2>2, <1>0, PlacedIs DEF is
    <3>2. PICK i \in 1..Len(added') :
            /\ is[k] = added'[i]
            /\ \A j \in 1..Len(added') : k \in Points[added'[j]] => j <= i
      BY <1>1, <3>1, <1>0, PlacedIs DEF is
    <3>3. Len(added') <= i
      BY <2>2, <3>2
    <3>4. Len(added') \in Nat /\ i \in 1..Len(added')
      BY <1>1
    <3>5. i = Len(added')
      BY <3>3, <3>4
    <3> QED
      BY <2>2, <3>1, <3>2, <3>5
  <2>4. \A k \in DOMAIN ring' : k \in DOMAIN is /\ ring'[k] = is[k]
    BY <1>2, <1>3, <1>4, <1>5, <2>1, <2>3
  <2>5. \A k \in DOMAIN is \ DOMAIN ring' : Shared(Points, k)
    BY <1>2, <1>4, <1>5, <2>1
  <2> QED
    BY <2>4, <2>5 DEF RingIsRebuilt, is, Shared
<1> QED
  BY <1>6, <1>7

LEMMA RebuiltStep == Inv /\ RingIsRebuilt /\ [Next]_vars => RingIsRebuilt'
<1> SUFFICES ASSUME Inv, RingIsRebuilt, [Next]_vars PROVE RingIsRebuilt'
  OBVIOUS
<1>1. CASE UNCHANGED <<added, ring>>
  BY <1>1 DEF RingIsRebuilt, Shared
<1>2. CASE \E n \in Nodes : Add(n) \/ Remove(n)
  BY <1>2, RebuiltChange
<1> QED
  BY <1>1, <1>2 DEF Next, GetItemNode, Narrow, Found, vars

(* The order of the list matters at the points of several servers only.    *)
LEMMA OrderIsNoMatter ==
  ASSUME Inv, added # <<>>, NEW list \in Listings, NEW h \in Hashes
  PROVE  LET ours == KetamaNodes(added)
         IN  \/ GetNodeForKey(KetamaNodes(list), h) = GetNodeForKey(ours, h)
             \/ Shared(KetamaPoints, Clockwise(DOMAIN ours, h))
<1>0. Placeable(KetamaPoints)
  BY KetamaAssumption DEF Placeable
<1> DEFINE nodes == KetamaNodes(list)
           ours  == KetamaNodes(added)
           k     == Clockwise(DOMAIN ours, h)
<1>1. /\ Len(added) \in Nat /\ DOMAIN added = 1..Len(added)
      /\ added \in [1..Len(added) -> Nodes]
      /\ list \in [1..Len(added) -> Nodes] /\ Listed(list) = Listed(added)
  <2>1. added \in Seq(Nodes)
    BY DEF Inv, Shape
  <2>2. /\ Len(added) \in Nat /\ DOMAIN added = 1..Len(added)
        /\ added \in [1..Len(added) -> Nodes]
    BY <2>1
  <2>3. list \in [DOMAIN added -> NodeSet] /\ {list[i] : i \in DOMAIN list} = NodeSet
    BY DEF Listings
  <2>4. NodeSet \subseteq Nodes
    BY <2>2 DEF NodeSet
  <2>5. list \in [1..Len(added) -> Nodes]
    BY <2>2, <2>3, <2>4
  <2>6. Listed(list) = Listed(added)
    BY <2>3 DEF Listed, NodeSet
  <2> QED
    BY <2>2, <2>5, <2>6
<1>2. DOMAIN nodes \in SUBSET Int /\ IsFiniteSet(DOMAIN nodes) /\ h \in Int
  BY <1>0, <1>1, PlacedIs DEF KetamaNodes
<1>3. DOMAIN nodes = DOMAIN ours
  <2>3. DOMAIN list = 1..Len(added)
    BY <1>1
  <2>1. ASSUME NEW j \in DOMAIN nodes PROVE j \in DOMAIN ours
    <3>1. PICK i \in 1..Len(added) : j \in KetamaPoints[list[i]]
      BY <1>0, <1>1, PlacedIs DEF KetamaNodes
    <3>2. PICK l \in 1..Len(added) : added[l] = list[i]
      BY <1>1, <2>3 DEF Listed
    <3> QED
      BY <1>0, <1>1, <3>1, <3>2, PlacedIs DEF KetamaNodes
  <2>2. ASSUME NEW j \in DOMAIN ours PROVE j \in DOMAIN nodes
    <3>1. PICK i \in 1..Len(added) : j \in KetamaPoints[added[i]]
      BY <1>0, <1>1, PlacedIs DEF KetamaNodes
    <3>2. PICK l \in 1..Len(added) : list[l] = added[i]
      BY <1>1, <2>3 DEF Listed
    <3> QED
      BY <1>0, <1>1, <3>1, <3>2, PlacedIs DEF KetamaNodes
  <2> QED
    BY <2>1, <2>2
<1>4. CASE DOMAIN nodes = {}
  <2>1. nodes = ours
    BY <1>3, <1>4 DEF KetamaNodes, Placed
  <2>2. h \notin DOMAIN nodes /\ {j \in DOMAIN nodes : j > h} = {}
        /\ {j \in DOMAIN nodes : j >= h} = {}
    BY <1>4
  <2> QED
    BY <2>1, <2>2 DEF GetNodeForKey, Clockwise
<1>5. CASE DOMAIN nodes # {}
  <2>1. /\ GetNodeForKey(nodes, h) = nodes[k] /\ k \in DOMAIN nodes
        /\ GetNodeForKey(ours, h) = ours[k]
    BY <1>2, <1>3, <1>5, GetFollows, ClockwiseFollows DEF Follows
  <2>2. nodes[k] \in Nodes /\ k \in KetamaPoints[nodes[k]]
    BY <1>0, <1>1, <2>1, PlacedIs DEF KetamaNodes
  <2>3. ours[k] \in Nodes /\ k \in KetamaPoints[ours[k]]
    BY <1>0, <1>1, <1>3, <2>1, PlacedIs DEF KetamaNodes
  <2> HIDE DEF k, nodes, ours
  <2>4. nodes[k] = ours[k] \/ Shared(KetamaPoints, k)
    BY <2>2, <2>3 DEF Shared
  <2> QED
    BY <2>1, <2>4 DEF k, nodes, ours
<1> QED
  BY <1>4, <1>5

(* A change of n answers with the same server as before, or with n.        *)
LEMMA ChangeMoves ==
  ASSUME Inv, NEW n \in Nodes, Add(n) \/ Remove(n), NEW h \in Hashes
  PROVE  LET was == GetNodeForKey(KetamaNodes(added), h)
             is  == GetNodeForKey(KetamaNodes(added'), h)
         IN  was = is \/ n \in {was, is}
<1>0. Placeable(KetamaPoints)
  BY KetamaAssumption DEF Placeable
<1> DEFINE A == KetamaNodes(added)
           B == KetamaNodes(added')
           a == Clockwise(DOMAIN A, h)
           b == Clockwise(DOMAIN B, h)
<1>1. /\ added \in Seq(Nodes) /\ added' \in Seq(Nodes)
      /\ Len(added) \in Nat /\ Len(added') \in Nat
      /\ added \in [1..Len(added) -> Nodes] /\ added' \in [1..Len(added') -> Nodes]
  BY ListChanges DEF Inv, Shape
<1>2. \A k : /\ k \in DOMAIN A => A[k] = n \/ k \in DOMAIN B
             /\ k \in DOMAIN B => B[k] = n \/ k \in DOMAIN A
             /\ k \in DOMAIN A /\ k \in DOMAIN B =>
                  A[k] = B[k] \/ n \in {A[k], B[k]}
  BY <1>0, <1>1, ListChanges, SameButOne DEF Inv, Shape, KetamaNodes
<1>3. /\ DOMAIN A \in SUBSET Int /\ IsFiniteSet(DOMAIN A)
      /\ DOMAIN B \in SUBSET Int /\ IsFiniteSet(DOMAIN B) /\ h \in Int
  BY <1>0, <1>1, PlacedIs DEF KetamaNodes
<1>4. DOMAIN A # {} => GetNodeForKey(A, h) = A[a] /\ Follows(DOMAIN A, h, a)
  BY <1>3, GetFollows, ClockwiseFollows
<1>5. DOMAIN B # {} => GetNodeForKey(B, h) = B[b] /\ Follows(DOMAIN B, h, b)
  BY <1>3, GetFollows, ClockwiseFollows
<1>6. DOMAIN A = {} /\ DOMAIN B = {} => A = B
  BY DEF KetamaNodes, Placed
<1> HIDE DEF A, B, a, b
<1>7. GetNodeForKey(A, h) = GetNodeForKey(B, h)
        \/ n \in {GetNodeForKey(A, h), GetNodeForKey(B, h)}
  <2>1. CASE DOMAIN A # {} /\ DOMAIN B # {}
    <3>1. a \in DOMAIN A /\ b \in DOMAIN B
      BY <1>4, <1>5, <2>1 DEF Follows
    <3>2. a \in DOMAIN B /\ b \in DOMAIN A => a = b
      BY <1>3, <1>4, <1>5, <2>1, FollowsOnce
    <3> QED
      BY <1>2, <1>4, <1>5, <2>1, <3>1, <3>2
  <2>2. CASE DOMAIN A = {} /\ DOMAIN B # {}
    BY <1>2, <1>5, <2>2 DEF Follows
  <2>3. CASE DOMAIN A # {} /\ DOMAIN B = {}
    BY <1>2, <1>4, <2>3 DEF Follows
  <2> QED
    BY <1>6, <2>1, <2>2, <2>3
<1> QED
  BY <1>7 DEF A, B

-----------------------------------------------------------------------------
(* Whatever servers came and went: the changed ring is the rebuilt one,    *)
(* but for points of several servers.                                      *)
THEOREM ChangesRebuild == Spec => []RingIsRebuilt
  BY Invariance, RebuiltInit, RebuiltStep, PTL DEF Spec

(* Whatever the servers and in whatever order they are listed, two Ketama  *)
(* rings give a key to the same one, but at points of several servers.     *)
THEOREM ProcessesFindTheSame == Spec => []ProcessesAgree
<1>1. Inv => ProcessesAgree
  BY OrderIsNoMatter DEF ProcessesAgree
<1> QED
  BY <1>1, Invariance, PTL

(* A server that comes or goes moves keys to or from itself only, however  *)
(* many servers and points there are, and wherever they collide.           *)
THEOREM ChangesAreLocal == Spec => MovesOnlyItsOwn
<1>1. Inv /\ [Next]_vars =>
        [\A n \in Nodes : added' # added /\ (Add(n) \/ Remove(n)) =>
           \A h \in Hashes :
             added # <<>> /\ added' # <<>> =>
               LET was == GetNodeForKey(KetamaNodes(added), h)
                   is  == GetNodeForKey(KetamaNodes(added'), h)
               IN  was = is \/ n \in {was, is}]_vars
  BY ChangeMoves
<1> QED
  BY <1>1, Invariance, PTL DEF Spec, MovesOnlyItsOwn

=============================================================================
