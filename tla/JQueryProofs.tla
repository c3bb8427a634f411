---------------------------- MODULE JQueryProofs ----------------------------
(***************************************************************************)
(* Proofs about jQuery.  A list of callbacks: for any functions, any       *)
(* options, and any number of calls of add and fireWith, whatever the      *)
(* functions of the list do to it while it fires.  Requests: for any       *)
(* finite number of them, whatever the page does in its events and         *)
(* callbacks.  Events: for any branch, any number of handlers and any      *)
(* number of events, whatever the handlers add, remove and trigger.        *)
(* Deferreds: for any number of them, chained by then, pipe and when as    *)
(* they may be, and thenables of others that call back as they like.       *)
(***************************************************************************)
EXTENDS Callbacks, Ajax, Events, Deferreds, FiniteSetTheorems, TLAPS

Values  == Nat \cup {Nothing}
Entries == [fn : Functions, id : Nat]
IdsOf(l) == {l[i].id : i \in DOMAIN l}

Shape ==
  /\ options \in Options
  /\ firing \in BOOLEAN /\ running \in BOOLEAN /\ locked \in BOOLEAN
  /\ fired \in BOOLEAN /\ disabled \in BOOLEAN /\ emptied \in BOOLEAN
  /\ adds \in 0..MaxAdds /\ fires \in Nat /\ firingIndex \in Nat
  /\ memory \in Values /\ heard \in [1..MaxAdds -> Values]
  /\ list \in Seq(Entries) /\ queue \in Seq(Nat)

(* Which of the flags go together.                                         *)
Phases ==
  /\ running => firing /\ (disabled \/ memory # Nothing)
  /\ ~firing => queue = <<>>
  /\ locked => queue = <<>>
  /\ firing => fired
  /\ options.once /\ fired => locked
  /\ disabled => locked /\ list = <<>> /\ memory = Nothing

(* For a calls of add and n of fireWith: what was told has been fired, and *)
(* nothing was told to an entry before it was added.                       *)
TellsTheFired(m, h, a, n) ==
  /\ m # Nothing => m <= n
  /\ \A e \in 1..MaxAdds : /\ h[e] # Nothing => h[e] <= n
                           /\ e > a => h[e] = Nothing

(* The values of the queue are in the order they were fired in, and later  *)
(* than what was told.                                                     *)
Later(q, m, h, n) ==
  \A j \in 1..Len(q) :
    /\ q[j] <= n
    /\ m # Nothing => m < q[j]
    /\ \A e \in 1..MaxAdds : h[e] # Nothing => h[e] < q[j]
    /\ \A i \in 1..(j - 1) : q[i] < q[j]

(* The entries of a list are of different calls of add.                    *)
AddedOnce(l, a) ==
  /\ \A i \in 1..Len(l) : l[i].id \in 1..a
  /\ \A i, j \in 1..Len(l) : l[i].id = l[j].id => i = j

(* The entries up to the i-th have heard m, the others have not.           *)
HeardUpTo(l, i, m, h) == \A j \in 1..Len(l) : j <= i <=> h[l[j].id] = m

(* Who is not on the list any more, and was not taken off it, has heard m. *)
RestHeard(l, m, h, a, g) ==
  \A e \in 1..a : e \in g \/ e \in IdsOf(l) \/ h[e] = m

(* As long as the list was not emptied by one of its functions.            *)
Told ==
  /\ running => HeardUpTo(list, firingIndex, memory, heard)
  /\ running /\ ~disabled => firingIndex <= Len(list)
  /\ ~firing /\ memory # Nothing => HeardUpTo(list, Len(list), memory, heard)
  /\ options.once /\ memory # Nothing /\ (running \/ ~firing) =>
       RestHeard(list, memory, heard, adds, gone)
  /\ options.once /\ ~locked =>
       \A e \in 1..adds : e \in gone \/ e \in IdsOf(list)

CInv == /\ Shape /\ Phases /\ TellsTheFired(memory, heard, adds, fires)
        /\ Later(queue, memory, heard, fires) /\ AddedOnce(list, adds)
        /\ ~emptied => Told

-----------------------------------------------------------------------------
(* The first value of a queue and the others.                              *)
LEMMA Shifted ==
  ASSUME NEW q \in Seq(Nat), q # <<>>
  PROVE  /\ Len(q) \in Nat /\ 1 \in 1..Len(q) /\ Head(q) = q[1] /\ Head(q) \in Nat
         /\ Tail(q) \in Seq(Nat) /\ Len(Tail(q)) = Len(q) - 1
         /\ \A j \in 1..Len(Tail(q)) : Tail(q)[j] = q[j + 1]
  OBVIOUS

LEMMA OneMore ==
  ASSUME NEW S, NEW s \in Seq(S), NEW x \in S
  PROVE  /\ Append(s, x) \in Seq(S) /\ Len(Append(s, x)) = Len(s) + 1
         /\ Len(s) \in Nat /\ Append(s, x)[Len(s) + 1] = x
         /\ \A i \in 1..Len(s) : Append(s, x)[i] = s[i]
  OBVIOUS

LEMMA ItsIds ==
  ASSUME NEW l \in Seq(Entries)
  PROVE  IdsOf(l) = {l[i].id : i \in 1..Len(l)} /\ Len(l) \in Nat
<1>1. DOMAIN l = 1..Len(l) /\ Len(l) \in Nat
  OBVIOUS
<1> QED
  BY <1>1 DEF IdsOf

(* When the i-th function is called with m, those up to it have heard it,  *)
(* and nothing else changes.                                               *)
LEMMA TellsOne ==
  ASSUME NEW l \in Seq(Entries), NEW i \in 1..Len(l), NEW m \in Nat,
         NEW q \in Seq(Nat), NEW h \in [1..MaxAdds -> Values],
         NEW a \in 0..MaxAdds, NEW n \in Nat,
         TellsTheFired(m, h, a, n), Later(q, m, h, n), AddedOnce(l, a),
         NEW t, t = [h EXCEPT ![l[i].id] = m]
  PROVE  /\ t \in [1..MaxAdds -> Values]
         /\ TellsTheFired(m, t, a, n) /\ Later(q, m, t, n)
<1>1. l[i].id \in 1..MaxAdds /\ l[i].id <= a
  BY CallbackConstants DEF AddedOnce
<1>2. /\ t \in [1..MaxAdds -> Values] /\ m # Nothing
      /\ \A e \in 1..MaxAdds : t[e] = IF e = l[i].id THEN m ELSE h[e]
  BY <1>1, CallbackConstants DEF Values
<1>3. TellsTheFired(m, t, a, n)
  BY <1>1, <1>2 DEF TellsTheFired
<1>4. Later(q, m, t, n)
  BY <1>1, <1>2 DEF Later
<1> QED
  BY <1>2, <1>3, <1>4

LEMMA TellsNext ==
  ASSUME NEW l \in Seq(Entries), NEW i \in 1..Len(l), NEW m \in Nat,
         NEW h \in [1..MaxAdds -> Values], NEW a \in 0..MaxAdds, AddedOnce(l, a),
         HeardUpTo(l, i - 1, m, h), NEW t, t = [h EXCEPT ![l[i].id] = m]
  PROVE  HeardUpTo(l, i, m, t)
<1>1. l[i].id \in 1..MaxAdds /\ l[i].id <= a
  BY CallbackConstants DEF AddedOnce
<1>2. /\ t \in [1..MaxAdds -> Values] /\ m # Nothing
      /\ \A e \in 1..MaxAdds : t[e] = IF e = l[i].id THEN m ELSE h[e]
  BY <1>1, CallbackConstants DEF Values
<1> SUFFICES ASSUME NEW j \in 1..Len(l) PROVE j <= i <=> t[l[j].id] = m
  BY DEF HeardUpTo
<1>3. l[j].id \in 1..MaxAdds /\ (l[j].id = l[i].id => i = j) /\ j \in Nat /\ i \in Nat
  BY CallbackConstants DEF AddedOnce
<1>4. j <= i - 1 <=> h[l[j].id] = m
  BY DEF HeardUpTo
<1> QED
  BY <1>2, <1>3, <1>4

LEMMA TellsTheRest ==
  ASSUME NEW l \in Seq(Entries), NEW i \in 1..Len(l), NEW m \in Nat,
         NEW h \in [1..MaxAdds -> Values], NEW a \in 0..MaxAdds, AddedOnce(l, a),
         NEW g, RestHeard(l, m, h, a, g), NEW t, t = [h EXCEPT ![l[i].id] = m]
  PROVE  RestHeard(l, m, t, a, g)
<1>1. l[i].id \in 1..MaxAdds /\ l[i].id <= a
  BY CallbackConstants DEF AddedOnce
<1>2. /\ t \in [1..MaxAdds -> Values] /\ m # Nothing
      /\ \A e \in 1..MaxAdds : t[e] = IF e = l[i].id THEN m ELSE h[e]
  BY <1>1, CallbackConstants DEF Values
<1> QED
  BY <1>2, CallbackConstants DEF RestHeard

(* No entry has heard the next value yet.                                  *)
LEMMA NextValue ==
  ASSUME NEW l \in Seq(Entries), NEW m \in Values,
         NEW q \in Seq(Nat), q # <<>>, NEW h \in [1..MaxAdds -> Values],
         NEW a \in 0..MaxAdds, NEW n \in Nat,
         TellsTheFired(m, h, a, n), Later(q, m, h, n), AddedOnce(l, a)
  PROVE  /\ Head(q) \in Nat /\ Tail(q) \in Seq(Nat)
         /\ TellsTheFired(Head(q), h, a, n) /\ Later(Tail(q), Head(q), h, n)
         /\ HeardUpTo(l, 0, Head(q), h)
<1> DEFINE v == Head(q)
           r == Tail(q)
<1>1. /\ Len(q) \in Nat /\ 1 \in 1..Len(q) /\ v = q[1] /\ v \in Nat
      /\ r \in Seq(Nat) /\ Len(r) = Len(q) - 1
      /\ \A j \in 1..Len(r) : r[j] = q[j + 1]
  BY Shifted
<1>2. \A e \in 1..MaxAdds : h[e] # Nothing => h[e] < v
  BY <1>1 DEF Later
<1>3. v <= n
  BY <1>1 DEF Later
<1> HIDE DEF v, r
<1>4. TellsTheFired(v, h, a, n)
  BY <1>3 DEF TellsTheFired
<1>5. Later(r, v, h, n)
  <2> SUFFICES ASSUME NEW j \in 1..Len(r)
               PROVE  /\ r[j] <= n /\ v < r[j]
                      /\ \A e \in 1..MaxAdds : h[e] # Nothing => h[e] < r[j]
                      /\ \A i \in 1..(j - 1) : r[i] < r[j]
    BY DEF Later
  <2>1. j + 1 \in 1..Len(q) /\ r[j] = q[j + 1]
    BY <1>1
  <2>2. /\ q[j + 1] <= n
        /\ \A e \in 1..MaxAdds : h[e] # Nothing => h[e] < q[j + 1]
        /\ \A i \in 1..j : q[i] < q[j + 1]
    BY <2>1 DEF Later
  <2>3. \A i \in 1..(j - 1) : i \in 1..Len(r) /\ i + 1 \in 1..j
    BY <1>1
  <2>4. v < r[j]
    <3>1. 1 \in 1..j /\ j \in Nat
      BY <1>1
    <3> QED
      BY <3>1, <1>1, <2>1, <2>2
  <2>5. \A i \in 1..(j - 1) : r[i] < r[j]
    BY <1>1, <2>1, <2>2, <2>3
  <2> QED
    BY <2>1, <2>2, <2>4, <2>5
<1>6. HeardUpTo(l, 0, v, h)
  <2> SUFFICES ASSUME NEW j \in 1..Len(l) PROVE ~(j <= 0) /\ h[l[j].id] # v
    BY DEF HeardUpTo
  <2>1. l[j].id \in 1..MaxAdds
    BY CallbackConstants DEF AddedOnce
  <2>2. h[l[j].id] = Nothing \/ (h[l[j].id] \in Nat /\ h[l[j].id] < v)
    BY <2>1, <1>2 DEF Values
  <2> QED
    BY <2>2, <1>1, CallbackConstants
<1> QED
  BY <1>1, <1>4, <1>5, <1>6 DEF v, r

(* The loop of fire.                                                       *)
LEMMA GoesOn ==
  ASSUME Shape, NEW l \in Seq(Entries), NEW i \in Nat,
         NEW m \in Values, NEW q \in Seq(Nat), NEW k \in BOOLEAN,
         Goes(l, i, m, q, k), locked' = k, fired' = TRUE, UNCHANGED options,
         emptied' = emptied, adds' \in 0..MaxAdds, fires' \in Nat,
         TellsTheFired(m, heard, adds', fires'), Later(q, m, heard, fires'),
         AddedOnce(l, adds'),
         options.once => k, k => q = <<>>,
         disabled => k /\ l = <<>> /\ m = Nothing,
         i < Len(l) => m # Nothing,
         ~emptied /\ m # Nothing => HeardUpTo(l, i, m, heard),
         ~emptied /\ m # Nothing /\ options.once =>
           RestHeard(l, m, heard, adds', gone')
  PROVE  CInv'
<1>0. Len(l) \in Nat
  OBVIOUS
<1>1. ASSUME NEW j \in 1..Len(l), NEW v \in Nat, NEW r \in Seq(Nat), Calls(l, j, v, r),
             TellsTheFired(v, heard, adds', fires'), Later(r, v, heard, fires'),
             ~emptied => HeardUpTo(l, j - 1, v, heard),
             k => r = <<>> /\ v = m
      PROVE  CInv'
  <2>1. heard' = [heard EXCEPT ![l[j].id] = v]
    BY <1>1 DEF Calls
  <2>2. heard \in [1..MaxAdds -> Values]
    BY DEF Shape
  <2>3. /\ heard' \in [1..MaxAdds -> Values]
        /\ TellsTheFired(v, heard', adds', fires') /\ Later(r, v, heard', fires')
    <3> DEFINE a == adds'
               n == fires'
               h == heard
               t == heard'
    <3>1. /\ a \in 0..MaxAdds /\ n \in Nat /\ TellsTheFired(v, h, a, n)
          /\ Later(r, v, h, n) /\ AddedOnce(l, a)
          /\ h \in [1..MaxAdds -> Values] /\ t = [h EXCEPT ![l[j].id] = v]
      BY <1>1, <2>1, <2>2
    <3> HIDE DEF a, n, h, t
    <3>2. t \in [1..MaxAdds -> Values]
      BY <3>1, TellsOne, ZenonT(40)
    <3>3. TellsTheFired(v, t, a, n)
      BY <3>1, TellsOne, Zenon
    <3>4. Later(r, v, t, n)
      BY <3>1, TellsOne, Zenon
    <3> QED
      BY <3>2, <3>3, <3>4 DEF a, n, t
  <2>31. ASSUME HeardUpTo(l, j - 1, v, heard) PROVE HeardUpTo(l, j, v, heard')
    BY <2>31, <2>1, <2>2, TellsNext
  <2>32. ASSUME RestHeard(l, v, heard, adds', gone')
         PROVE  RestHeard(l, v, heard', adds', gone')
    BY <2>32, <2>1, <2>2, TellsTheRest
  <2>4. /\ firing' = TRUE /\ running' = TRUE /\ list' = l /\ firingIndex' = j
        /\ memory' = v /\ queue' = r /\ disabled' = disabled /\ l # <<>> /\ ~disabled
        /\ v # Nothing /\ j \in Nat /\ j <= Len(l)
    BY <1>0, <1>1, CallbackConstants DEF Calls
  <2>5. Shape'
    BY <2>3, <2>4 DEF Shape, Values
  <2>6. Phases'
    BY <1>1, <2>4 DEF Phases
  <2>7. (~emptied => Told)'
    BY <1>1, <2>3, <2>31, <2>32, <2>4 DEF Told
  <2> QED
    BY <2>3, <2>4, <2>5, <2>6, <2>7 DEF CInv
<1>2. CASE i < Len(l)
  <2>1. Calls(l, i + 1, m, q) /\ i + 1 \in 1..Len(l) /\ (i + 1) - 1 = i
    BY <1>0, <1>2 DEF Goes
  <2>2. m \in Nat /\ m # Nothing
    BY <1>2 DEF Values
  <2> QED
    BY <1>1, <2>1, <2>2
<1>3. CASE ~(i < Len(l)) /\ q # <<>> /\ l # <<>>
  <2>1. Calls(l, 1, Head(q), Tail(q)) /\ 1 \in 1..Len(l) /\ 1 - 1 = 0
    BY <1>0, <1>3 DEF Goes
  <2>2. heard \in [1..MaxAdds -> Values]
    BY DEF Shape
  <2>3. /\ Head(q) \in Nat /\ Tail(q) \in Seq(Nat)
        /\ TellsTheFired(Head(q), heard, adds', fires')
        /\ Later(Tail(q), Head(q), heard, fires') /\ HeardUpTo(l, 0, Head(q), heard)
    BY <1>3, <2>2, NextValue
  <2> QED
    BY <1>1, <1>3, <2>1, <2>3
<1>4. CASE ~(i < Len(l)) /\ ~(q # <<>> /\ l # <<>>)
  <2> DEFINE v == IF q = <<>> THEN m ELSE Last(q)
  <2>1. Ends(l, v, k)
    BY <1>4 DEF Goes
  <2>2. /\ v \in Values /\ TellsTheFired(v, heard, adds', fires')
        /\ q = <<>> => v = m
    <3>1. CASE q = <<>>
      BY <3>1
    <3>2. CASE q # <<>>
      <4>1. Len(q) \in 1..Len(q) /\ Last(q) = q[Len(q)] /\ q[Len(q)] \in Nat
        BY <3>2 DEF Last
      <4>2. q[Len(q)] <= fires'
        BY <4>1 DEF Later
      <4> QED
        BY <3>2, <4>1, <4>2 DEF TellsTheFired, Values
    <3> QED
      BY <3>1, <3>2
  <2> HIDE DEF v
  <2>3. /\ firing' = FALSE /\ running' = FALSE /\ firingIndex' = 0 /\ queue' = <<>>
        /\ memory' \in {v, Nothing} /\ list' = (IF k THEN <<>> ELSE l)
        /\ disabled' = (disabled \/ (k /\ memory' = Nothing)) /\ heard' = heard
    BY <2>1 DEF Ends
  <2>4. memory' # Nothing => memory' = v /\ v # Nothing
    BY <2>3
  <2>5. list' \in Seq(Entries) /\ (k => Len(list') = 0) /\ (~k => list' = l)
    BY <2>3
  <2>6. disabled' \in BOOLEAN /\ memory' \in Values
    <3>1. disabled' \in BOOLEAN
      BY <2>3 DEF Shape
    <3> QED
      BY <3>1, <2>2, <2>4 DEF Values
  <2>60. Shape'
    <3>1. queue' \in Seq(Nat)
      BY <2>3
    <3> QED
      BY <3>1, <2>3, <2>5, <2>6 DEF Shape
  <2>7. Phases'
    BY <2>2, <2>3, <2>4 DEF Phases
  <2>8. TellsTheFired(memory', heard', adds', fires')
    BY <2>2, <2>3, <2>4 DEF TellsTheFired
  <2>9. Later(queue', memory', heard', fires') /\ AddedOnce(list', adds')
    BY <2>3, <2>5 DEF Later, AddedOnce
  <2>10. ASSUME ~emptied PROVE Told'
    <3>1. CASE memory' = Nothing
      BY <3>1, <2>3 DEF Told
    <3>2. CASE memory' # Nothing
      <4>1. HeardUpTo(list', Len(list'), memory', heard')
        <5>1. CASE Len(list') = 0
          BY <5>1 DEF HeardUpTo
        <5>2. CASE Len(list') # 0
          <6>1. list' = l /\ v = m /\ heard' = heard /\ memory' = m /\ m # Nothing
            BY <5>2, <3>2, <1>4, <2>2, <2>3, <2>4, <2>5
          <6>2. HeardUpTo(l, i, m, heard)
            BY <6>1, <2>10
          <6> QED
            BY <6>1, <6>2, <1>0, <1>4 DEF HeardUpTo
        <5> QED
          BY <5>1, <5>2
      <4>2. ASSUME options.once PROVE RestHeard(list', memory', heard', adds', gone')
        <5>1. /\ v = m /\ heard' = heard /\ memory' = m /\ m # Nothing
          BY <4>2, <3>2, <2>2, <2>3, <2>4
        <5>2. HeardUpTo(l, i, m, heard) /\ RestHeard(l, m, heard, adds', gone')
          BY <5>1, <4>2, <2>10
        <5>3. \A e \in IdsOf(l) : heard[e] = m
          BY <5>2, <1>0, <1>4, ItsIds DEF HeardUpTo
        <5> QED
          BY <5>1, <5>2, <5>3 DEF RestHeard
      <4> QED
        BY <4>1, <4>2, <2>3 DEF Told
    <3> QED
      BY <3>1, <3>2
  <2> QED
    BY <2>60, <2>7, <2>8, <2>9, <2>10 DEF CInv
<1> QED
  BY <1>2, <1>3, <1>4

-----------------------------------------------------------------------------
(* What stays of n entries keeps its order, so that the entries up to an   *)
(* index are as many fewer as were taken away up to it.                    *)
LEMMA StayingCount ==
  ASSUME NEW n \in Nat, NEW at \in SUBSET (1..n), NEW fi \in Nat
  PROVE  LET c == Cardinality({i \in at : i <= fi}) IN
         /\ c \in 0..fi
         /\ fi <= n => /\ IsFiniteSet((1..fi) \ at)
                       /\ Cardinality((1..fi) \ at) = fi - c
<1> DEFINE C == {i \in at : i <= fi}
<1>1. /\ C \in SUBSET (1..fi) /\ C = (1..fi) \cap at
  <2>1. \A x \in at : x <= fi <=> x \in 1..fi
    OBVIOUS
  <2> QED
    BY <2>1, Zenon
<1>2. IsFiniteSet(1..fi) /\ Cardinality(1..fi) = fi
  BY FS_Interval
<1> HIDE DEF C
<1>3. IsFiniteSet(C) /\ Cardinality(C) <= fi /\ Cardinality(C) \in Nat
  BY <1>1, <1>2, FS_Subset, FS_CardinalityType
<1>4. /\ IsFiniteSet((1..fi) \ at)
      /\ Cardinality((1..fi) \ at) = fi - Cardinality(C)
  BY <1>1, <1>2, FS_Difference
<1> QED
  BY <1>3, <1>4 DEF C

LEMMA Places ==
  ASSUME NEW n \in Nat, NEW at \in SUBSET (1..n), NEW fi \in 0..n, NEW m \in Nat,
         NEW from \in [1..m -> (1..n) \ at],
         \A k \in 1..m : \A j \in 1..(k - 1) : from[j] < from[k],
         (1..n) \ at = Range(from)
  PROVE  LET c == Cardinality({i \in at : i <= fi}) IN
         /\ fi - c <= m
         /\ \A k \in 1..m : k <= fi - c <=> from[k] <= fi
<1> DEFINE c == Cardinality({i \in at : i <= fi})
           S == {k \in 1..m : from[k] <= fi}
           T == (1..fi) \ at
           b == [k \in S |-> from[k]]
<1>1. c \in 0..fi /\ IsFiniteSet(T) /\ Cardinality(T) = fi - c
  <2>1. fi \in Nat /\ fi <= n
    OBVIOUS
  <2> QED
    BY <2>1, StayingCount, Zenon
<1>2. \A k \in 1..m : from[k] \in 1..n /\ from[k] \notin at
  OBVIOUS
<1>3. b \in Injection(S, T)
  <2>1. b \in [S -> T]
    BY <1>2
  <2>2. ASSUME NEW j \in S, NEW k \in S, b[j] = b[k] PROVE j = k
    <3>1. b[j] = from[j] /\ b[k] = from[k] /\ j \in 1..m /\ k \in 1..m
      OBVIOUS
    <3>2. from[j] \in Nat /\ from[k] \in Nat
      BY <3>1, <1>2
    <3>3. ~(j < k) /\ ~(k < j)
      BY <2>2, <3>1, <3>2
    <3> QED
      BY <3>1, <3>3
  <2> QED
    BY <2>1, <2>2 DEF Injection, IsInjective
<1>4. b \in Surjection(S, T)
  <2>1. b \in [S -> T]
    BY <1>2
  <2>2. ASSUME NEW x \in T PROVE \E k \in S : b[k] = x
    <3>1. x \in (1..n) \ at /\ x <= fi
      OBVIOUS
    <3>2. PICK k \in 1..m : from[k] = x
      BY <3>1 DEF Range
    <3> QED
      BY <3>1, <3>2
  <2> QED
    BY <2>1, <2>2 DEF Surjection
<1>5. IsFiniteSet(S) /\ Cardinality(S) = fi - c
  BY <1>1, <1>3, <1>4, FS_Injection
<1>6. ASSUME NEW k \in 1..m PROVE k <= fi - c <=> from[k] <= fi
  <2>1. CASE from[k] <= fi
    <3>1. 1..k \in SUBSET S
      BY <2>1, <1>2
    <3>2. Cardinality(1..k) = k
      BY FS_Interval
    <3> QED
      BY <3>1, <3>2, <2>1, <1>5, FS_Subset
  <2>2. CASE ~(from[k] <= fi)
    <3>1. S \in SUBSET (1..(k - 1))
      <4> SUFFICES ASSUME NEW j \in 1..m, from[j] <= fi PROVE j \in 1..(k - 1)
        OBVIOUS
      <4>1. from[j] \in Nat /\ from[k] \in Nat /\ j \in Nat /\ k \in Nat
        BY <1>2
      <4>2. ~(k < j)
        <5>1. k < j => from[k] < from[j]
          BY <4>1
        <5> QED
          BY <5>1, <4>1, <2>2
      <4>3. k # j
        BY <2>2
      <4> QED
        BY <4>1, <4>2, <4>3
    <3>2. IsFiniteSet(1..(k - 1)) /\ Cardinality(1..(k - 1)) = k - 1
      BY FS_Interval
    <3>3. fi - c <= k - 1
      BY <3>1, <3>2, <1>5, FS_Subset
    <3> QED
      BY <3>3, <2>2, <1>1
  <2> QED
    BY <2>1, <2>2
<1>7. fi - c <= m
  <2>1. S \in SUBSET (1..m) /\ IsFiniteSet(1..m) /\ Cardinality(1..m) = m
    BY FS_Interval
  <2> QED
    BY <2>1, <1>5, FS_Subset
<1> QED
  BY <1>6, <1>7

-----------------------------------------------------------------------------
LEMMA CallbacksStart == CInit => CInv
<1> SUFFICES ASSUME CInit PROVE CInv
  OBVIOUS
<1>1. Shape
  <2>1. <<>> \in Seq(Entries) /\ <<>> \in Seq(Nat)
    OBVIOUS
  <2>2. 0 \in 0..MaxAdds /\ 0 \in Nat /\ Nothing \in Values
    BY CallbackConstants DEF Values
  <2>3. heard \in [1..MaxAdds -> Values]
    BY <2>2 DEF CInit
  <2> QED
    BY <2>1, <2>2, <2>3 DEF CInit, Shape
<1>2. Phases /\ TellsTheFired(memory, heard, adds, fires)
  BY DEF CInit, Phases, TellsTheFired
<1>3. Later(queue, memory, heard, fires) /\ AddedOnce(list, adds)
  BY DEF CInit, Later, AddedOnce
<1>4. Told
  BY DEF CInit, Told
<1> QED
  BY <1>1, <1>2, <1>3, <1>4 DEF CInv

LEMMA ReturnsKeeps ==
  ASSUME CInv, NEW result \in BOOLEAN, Returns(result) PROVE CInv'
<1> USE DEF CInv
<1>1. /\ running /\ firing /\ fired /\ UNCHANGED <<options, locked, fired, adds,
                                            fires, gone, emptied>>
  BY DEF Returns, Phases
<1>2. /\ list \in Seq(Entries) /\ queue \in Seq(Nat) /\ firingIndex \in Nat
      /\ memory \in Values /\ locked \in BOOLEAN /\ Len(list) \in Nat
      /\ locked' = locked /\ fired' = TRUE /\ UNCHANGED options /\ emptied' = emptied
      /\ adds' \in 0..MaxAdds /\ fires' \in Nat /\ Nothing \in Values
      /\ adds' = adds /\ fires' = fires /\ gone' = gone
  BY <1>1 DEF Shape, Values
<1>3. /\ options.once => locked
      /\ locked => queue = <<>>
      /\ disabled => locked /\ list = <<>> /\ memory = Nothing
      /\ disabled \/ memory # Nothing
  BY <1>1 DEF Phases
<1>4. CASE Goes(list, firingIndex, memory, queue, locked)
  <2>1. firingIndex < Len(list) => memory # Nothing
    BY <1>2, <1>3
  <2>2. ~emptied /\ memory # Nothing => HeardUpTo(list, firingIndex, memory, heard)
    BY <1>1 DEF Told
  <2>3. ~emptied /\ memory # Nothing /\ options.once =>
          RestHeard(list, memory, heard, adds', gone')
    BY <1>1 DEF Told
  <2> QED
    BY <1>2, <1>3, <1>4, <2>1, <2>2, <2>3, GoesOn
<1>5. CASE Goes(list, Len(list), Nothing, queue, locked)
  <2>1. TellsTheFired(Nothing, heard, adds', fires')
    BY <1>1 DEF TellsTheFired
  <2>2. Later(queue, Nothing, heard, fires')
    BY <1>1 DEF Later
  <2>3. ~(Len(list) < Len(list))
    BY <1>2
  <2> QED
    BY <1>2, <1>3, <1>5, <2>1, <2>2, <2>3, GoesOn
<1> QED
  BY <1>4, <1>5 DEF Returns

LEMMA FireWithKeeps == ASSUME CInv, fireWith PROVE CInv'
<1> USE DEF CInv
<1>1. /\ fires' = fires + 1 /\ UNCHANGED <<options, adds, gone, emptied>>
      /\ fires \in Nat
  BY DEF fireWith, Shape
<1>2. TellsTheFired(memory, heard, adds, fires')
  BY <1>1, CallbackConstants DEF TellsTheFired, Shape, Values
<1>3. CASE locked
  <2>1. UNCHANGED <<firing, memory, locked, fired, disabled, list, queue,
                    firingIndex, running, heard>>
    BY <1>3 DEF fireWith
  <2>2. queue' = <<>>
    BY <1>3, <2>1 DEF Phases
  <2>3. Shape' /\ Phases' /\ AddedOnce(list', adds') /\ (~emptied => Told)'
    BY <1>1, <2>1 DEF Shape, Phases, Told
  <2>4. Later(queue', memory', heard', fires')
    BY <2>2 DEF Later
  <2> QED
    BY <1>1, <1>2, <2>1, <2>3, <2>4
<1>4. CASE ~locked /\ firing
  <2>1. /\ queue' = Append(queue, fires + 1)
        /\ UNCHANGED <<firing, memory, locked, fired, disabled, list,
                       firingIndex, running, heard>>
    BY <1>4 DEF fireWith
  <2>2. /\ queue \in Seq(Nat) /\ fires + 1 \in Nat /\ Len(queue) \in Nat
        /\ queue' \in Seq(Nat) /\ Len(queue') = Len(queue) + 1
        /\ queue'[Len(queue) + 1] = fires + 1
        /\ \A i \in 1..Len(queue) : queue'[i] = queue[i]
    BY <1>1, <2>1, OneMore DEF Shape
  <2>3. Shape' /\ Phases' /\ AddedOnce(list', adds') /\ (~emptied => Told)'
    BY <1>1, <1>4, <2>1, <2>2 DEF Shape, Phases, Told
  <2>4. Later(queue', memory', heard', fires')
    <3> SUFFICES ASSUME NEW j \in 1..Len(queue')
                 PROVE  /\ queue'[j] <= fires + 1
                        /\ memory # Nothing => memory < queue'[j]
                        /\ \A e \in 1..MaxAdds : heard[e] # Nothing => heard[e] < queue'[j]
                        /\ \A i \in 1..(j - 1) : queue'[i] < queue'[j]
      BY <1>1, <2>1 DEF Later
    <3>1. \A i \in 1..Len(queue) : queue[i] \in Nat /\ queue[i] <= fires
      BY <2>2 DEF Later
    <3>2. CASE j \in 1..Len(queue)
      <4>1. queue'[j] = queue[j] /\ \A i \in 1..(j - 1) : queue'[i] = queue[i]
        BY <3>2, <2>2
      <4>2. /\ queue[j] <= fires
            /\ memory # Nothing => memory < queue[j]
            /\ \A e \in 1..MaxAdds : heard[e] # Nothing => heard[e] < queue[j]
            /\ \A i \in 1..(j - 1) : queue[i] < queue[j]
        BY <3>2 DEF Later
      <4>3. queue[j] <= fires + 1
        BY <3>1, <3>2, <1>1
      <4> QED
        BY <4>1, <4>2, <4>3
    <3>3. CASE j = Len(queue) + 1
      <4>1. queue'[j] = fires + 1
        BY <3>3, <2>2
      <4>2. \A i \in 1..(j - 1) : queue'[i] < queue'[j]
        BY <3>3, <2>2, <3>1, <1>1
      <4> QED
        BY <4>1, <4>2, <1>1, CallbackConstants DEF TellsTheFired, Shape, Values
    <3> QED
      BY <2>2, <3>2, <3>3
  <2> QED
    BY <1>1, <1>2, <2>1, <2>3, <2>4
<1>5. CASE ~locked /\ ~firing
  <2>1. queue = <<>>
    BY <1>5 DEF Phases
  <2>2. fire(list, 0, <<fires + 1>>)
    <3>1. fire(list, 0, Append(queue, fires + 1))
      BY <1>5 DEF fireWith
    <3> QED
      BY <2>1, <3>1
  <2> DEFINE v == fires + 1
  <2>3. /\ Goes(list, 0, v, <<>>, options.once) /\ locked' = options.once
        /\ fired' = TRUE
    <3>1. Head(<<v>>) = v /\ Tail(<<v>>) = <<>>
      OBVIOUS
    <3> QED
      BY <2>2, <3>1 DEF fire
  <2>4. /\ v \in Values /\ v \in Nat /\ v # Nothing /\ list \in Seq(Entries)
        /\ 0 \in Nat /\ <<>> \in Seq(Nat) /\ options.once \in BOOLEAN
        /\ adds' \in 0..MaxAdds /\ fires' \in Nat
    BY <1>1, CallbackConstants DEF Values, Shape, Options
  <2>5. ~disabled
    BY <1>5 DEF Phases
  <2>6. TellsTheFired(v, heard, adds', fires')
    BY <1>1, <1>2 DEF TellsTheFired
  <2>7. Later(<<>>, v, heard, fires')
    BY DEF Later
  <2>8. AddedOnce(list, adds')
    BY <1>1
  <2>9. HeardUpTo(list, 0, v, heard)
    <3> SUFFICES ASSUME NEW j \in 1..Len(list) PROVE ~(j <= 0) /\ heard[list[j].id] # v
      BY DEF HeardUpTo
    <3>1. list[j].id \in 1..MaxAdds
      BY CallbackConstants DEF AddedOnce, Shape
    <3>2. \A e \in 1..MaxAdds : heard[e] \in Values /\ (heard[e] # Nothing => heard[e] <= fires)
      BY DEF TellsTheFired, Shape
    <3> QED
      BY <3>1, <3>2, <1>1, <2>4 DEF Values
  <2>10. ~emptied /\ options.once => RestHeard(list, v, heard, adds', gone')
    BY <1>1, <1>5 DEF Told, RestHeard
  <2> HIDE DEF v
  <2> QED
    BY <1>1, <2>3, <2>4, <2>5, <2>6, <2>7, <2>8, <2>9, <2>10, GoesOn
<1> QED
  BY <1>3, <1>4, <1>5
LEMMA AddKeeps == ASSUME CInv, NEW f \in Functions, add(f) PROVE CInv'
<1> USE DEF CInv
<1> DEFINE id == adds + 1
           entry == [fn |-> f, id |-> id]
           there == \E i \in DOMAIN list : list[i].fn = f
           more == IF options.unique /\ there THEN list ELSE Append(list, entry)
           told == (1..adds) \cup {id}
<1>1. /\ ~disabled /\ adds < MaxAdds /\ adds' = id
      /\ gone' = (IF more = list THEN gone \cup {id} ELSE gone)
      /\ UNCHANGED <<options, fires, emptied>>
  BY DEF add
<1>2. /\ adds \in Nat /\ id \in 1..MaxAdds /\ adds' \in 0..MaxAdds
      /\ 1..adds' = (1..adds) \cup {id} /\ fires' \in Nat
  BY <1>1, CallbackConstants DEF Shape
<1>3. /\ list \in Seq(Entries) /\ entry \in Entries /\ Len(list) \in Nat
      /\ entry.id = id
  BY <1>2 DEF Shape, Entries
<1>4. \/ more = list /\ id \in gone'
      \/ /\ more = Append(list, entry) /\ gone' = gone
  <2>1. CASE options.unique /\ there
    BY <2>1, <1>1
  <2>2. CASE ~(options.unique /\ there)
    <3>1. Append(list, entry) # list
      <4> HIDE DEF entry
      <4>1. Len(Append(list, entry)) = Len(list) + 1
        BY <1>3, OneMore
      <4> QED
        BY <4>1, <1>3
    <3> QED
      BY <2>2, <3>1, <1>1
  <2> QED
    BY <2>1, <2>2
<1>5. /\ more \in Seq(Entries) /\ Len(more) \in Nat
      /\ \A i \in 1..Len(list) : i \in 1..Len(more) /\ more[i] = list[i]
      /\ \/ Len(more) = Len(list) /\ id \in gone'
         \/ /\ Len(more) = Len(list) + 1 /\ more[Len(list) + 1] = entry
            /\ gone' = gone
  <2>1. CASE more = list /\ id \in gone'
    BY <2>1, <1>3
  <2>2. CASE more = Append(list, entry) /\ gone' = gone
    <3> HIDE DEF entry, more
    <3> QED
      BY <2>2, <1>3, OneMore
  <2> QED
    BY <2>1, <2>2, <1>4
<1> HIDE DEF more, entry
<1>6. /\ gone \subseteq gone' /\ IdsOf(list) \subseteq IdsOf(more)
      /\ id \in gone' \cup IdsOf(more)
  <2>1. gone \subseteq gone' /\ IdsOf(list) \subseteq IdsOf(more)
    BY <1>1, <1>3, <1>5, ItsIds
  <2>2. CASE id \in gone'
    BY <2>1, <2>2
  <2>3. CASE Len(more) = Len(list) + 1 /\ more[Len(list) + 1] = entry
    <3>1. Len(list) + 1 \in 1..Len(more)
      BY <2>3, <1>3
    <3> QED
      BY <2>1, <2>3, <3>1, <1>3, <1>5, ItsIds
  <2> QED
    BY <2>2, <2>3, <1>5
<1>7. \A i \in 1..Len(more) : i \in 1..Len(list) \/ (i = Len(list) + 1 /\ more[i] = entry)
  BY <1>3, <1>5
<1>8. AddedOnce(more, adds')
  <2>1. \A i \in 1..Len(list) : list[i].id \in 1..adds /\ list[i].id # id
    BY <1>2 DEF AddedOnce
  <2>2. \A i \in 1..Len(more) : more[i].id \in 1..adds'
    BY <2>1, <1>2, <1>3, <1>5, <1>7
  <2>3. ASSUME NEW i \in 1..Len(more), NEW j \in 1..Len(more), more[i].id = more[j].id
        PROVE  i = j
    BY <2>1, <2>3, <1>3, <1>5, <1>7 DEF AddedOnce
  <2> QED
    BY <2>2, <2>3 DEF AddedOnce
<1>9. heard[id] = Nothing
  BY <1>2 DEF TellsTheFired
<1>10. ASSUME NEW i \in Nat, i <= Len(list), memory # Nothing,
              HeardUpTo(list, i, memory, heard)
       PROVE  HeardUpTo(more, i, memory, heard)
  BY <1>10, <1>3, <1>5, <1>7, <1>9 DEF HeardUpTo
<1>11. ASSUME RestHeard(list, memory, heard, adds, gone)
       PROVE  RestHeard(more, memory, heard, adds', gone')
  BY <1>11, <1>2, <1>6 DEF RestHeard
<1>12. TellsTheFired(memory, heard, adds', fires')
  BY <1>1, <1>2 DEF TellsTheFired
<1>13. CASE memory # Nothing /\ ~firing
  <2>1. queue = <<>>
    BY <1>13 DEF Phases
  <2>2. fire(more, Len(list), <<memory>>)
    <3>1. fire(more, Len(list), Append(queue, memory))
      BY <1>13 DEF add, more, entry
    <3> QED
      BY <2>1, <3>1
  <2>3. /\ Goes(more, Len(list), memory, <<>>, options.once)
        /\ locked' = options.once /\ fired' = TRUE
    <3>1. Head(<<memory>>) = memory /\ Tail(<<memory>>) = <<>>
      OBVIOUS
    <3> QED
      BY <2>2, <3>1 DEF fire
  <2>4. memory \in Values /\ <<>> \in Seq(Nat) /\ options.once \in BOOLEAN
    BY DEF Shape, Options
  <2>5. Later(<<>>, memory, heard, fires')
    BY DEF Later
  <2>6. ~emptied => HeardUpTo(more, Len(list), memory, heard)
    BY <1>3, <1>10, <1>13 DEF Told
  <2>7. ~emptied /\ options.once => RestHeard(more, memory, heard, adds', gone')
    BY <1>11, <1>13 DEF Told
  <2> QED
    BY <1>1, <1>2, <1>3, <1>5, <1>8, <1>12, <1>13, <2>3, <2>4, <2>5, <2>6, <2>7, GoesOn
<1>14. CASE ~(memory # Nothing /\ ~firing)
  <2>1. /\ list' = more
        /\ UNCHANGED <<firing, memory, locked, fired, disabled, queue,
                       firingIndex, running, heard>>
    BY <1>14 DEF add, more, entry
  <2>2. Shape' /\ Phases'
    BY <1>1, <1>2, <1>5, <2>1 DEF Shape, Phases
  <2>3. Later(queue', memory', heard', fires') /\ AddedOnce(list', adds')
    BY <1>1, <1>8, <2>1
  <2>4. ASSUME ~emptied PROVE Told'
    <3>1. ASSUME running
          PROVE  /\ HeardUpTo(more, firingIndex, memory, heard)
                 /\ firingIndex <= Len(more)
      <4>1. memory # Nothing /\ firingIndex <= Len(list) /\ firingIndex \in Nat
        BY <3>1, <2>4, <1>1 DEF Phases, Told, Shape
      <4>2. HeardUpTo(more, firingIndex, memory, heard)
        BY <3>1, <2>4, <4>1, <1>10 DEF Told
      <4> QED
        BY <4>1, <4>2, <1>3, <1>5
    <3>2. options.once /\ ~locked => \A e \in 1..adds' : e \in gone' \/ e \in IdsOf(more)
      BY <2>4, <1>2, <1>6 DEF Told
    <3> QED
      BY <2>1, <2>4, <3>1, <3>2, <1>1, <1>11, <1>14 DEF Told
  <2> QED
    BY <1>1, <1>12, <2>1, <2>2, <2>3, <2>4
<1> QED
  BY <1>13, <1>14
LEMMA RemoveKeeps == ASSUME CInv, NEW f \in Functions, remove(f) PROVE CInv'
<1> USE DEF CInv
<1> DEFINE at == {i \in DOMAIN list : list[i].fn = f}
           n  == Len(list)
           m  == Cardinality(DOMAIN list \ at)
           c  == Cardinality({i \in at : i <= firingIndex})
<1>1. /\ at # {} /\ firingIndex' = firingIndex - c
      /\ gone' = gone \cup {list[i].id : i \in at}
      /\ UNCHANGED <<options, firing, memory, locked, fired, disabled, queue,
                     running, adds, fires, heard, emptied>>
  BY DEF remove
<1>2. /\ list \in Seq(Entries) /\ n \in Nat /\ DOMAIN list = 1..n
      /\ at \in SUBSET (1..n) /\ list # <<>> /\ firingIndex \in Nat
  BY <1>1 DEF Shape
<1>3. PICK from \in [1..m -> (1..n) \ at] :
        /\ \A k \in 1..m : \A j \in 1..(k - 1) : from[j] < from[k]
        /\ (1..n) \ at = Range(from)
        /\ list' = [k \in 1..m |-> list[from[k]]]
  BY <1>2 DEF remove, Drops
<1>4. m \in Nat
  <2> DEFINE stay == DOMAIN list \ at
  <2>1. IsFiniteSet(1..n) /\ stay \in SUBSET (1..n)
    BY <1>2, FS_Interval
  <2> HIDE DEF stay
  <2>2. IsFiniteSet(stay)
    BY <2>1, FS_Subset
  <2>3. Cardinality(stay) \in Nat
    BY <2>2, FS_CardinalityType
  <2> QED
    BY <2>3 DEF stay
<1>5. c \in 0..firingIndex
  BY <1>2, StayingCount
<1> HIDE DEF m, n, c, at
<1>6. /\ list' \in Seq(Entries) /\ Len(list') = m
      /\ \A k \in 1..m : list'[k] = list[from[k]] /\ from[k] \in 1..n /\ from[k] \notin at
  <2>1. \A k \in 1..m : from[k] \in 1..n /\ from[k] \notin at
    BY <1>3
  <2>2. \A i \in 1..n : list[i] \in Entries
    BY <1>2
  <2>3. list' \in [1..m -> Entries]
    BY <1>3, <2>1, <2>2
  <2> QED
    BY <1>3, <1>4, <2>1, <2>3
<1>7. AddedOnce(list', adds')
  <2>1. /\ \A i \in 1..n : list[i].id \in 1..adds
        /\ \A i, j \in 1..n : list[i].id = list[j].id => i = j
    BY DEF AddedOnce, n
  <2>2. \A k \in 1..m : list'[k].id \in 1..adds'
    BY <1>1, <1>6, <2>1
  <2>3. ASSUME NEW j \in 1..m, NEW k \in 1..m, list'[j].id = list'[k].id PROVE j = k
    <3>1. from[j] = from[k]
      BY <2>1, <2>3, <1>6, SMTT(25)
    <3>2. from[j] \in Nat /\ ~(from[j] < from[j])
      BY <1>6, <1>2
    <3>3. ~(j < k) /\ ~(k < j)
      BY <1>3, <1>4, <3>1, <3>2
    <3> QED
      BY <3>3, <1>4
  <2> QED
    BY <2>2, <2>3, <1>6 DEF AddedOnce
<1>8. ASSUME NEW i \in 1..n PROVE list[i].id \in gone' \cup IdsOf(list')
  <2>1. CASE i \in at
    BY <2>1, <1>1
  <2>2. CASE i \notin at
    <3>1. PICK k \in 1..m : from[k] = i
      BY <2>2, <1>3 DEF Range
    <3>2. list'[k].id = list[i].id /\ DOMAIN list' = 1..m
      BY <3>1, <1>6
    <3> QED
      BY <3>1, <3>2 DEF IdsOf
  <2> QED
    BY <2>1, <2>2
<1>9. IdsOf(list) \subseteq gone' \cup IdsOf(list') /\ gone \subseteq gone'
  BY <1>1, <1>2, <1>8 DEF IdsOf
<1>10. ASSUME firingIndex <= n
       PROVE  /\ firingIndex' <= m
              /\ HeardUpTo(list, firingIndex, memory, heard) =>
                   HeardUpTo(list', firingIndex', memory, heard)
  <2>1. firingIndex \in 0..n
    BY <1>2, <1>10
  <2>2. /\ firingIndex - c <= m
        /\ \A k \in 1..m : k <= firingIndex - c <=> from[k] <= firingIndex
    BY <2>1, <1>2, <1>3, <1>4, Places DEF c
  <2> QED
    BY <2>2, <1>1, <1>6 DEF HeardUpTo, n
<1>11. ASSUME HeardUpTo(list, n, memory, heard) PROVE HeardUpTo(list', m, memory, heard)
  <2> SUFFICES ASSUME NEW k \in 1..m PROVE k <= m /\ heard[list'[k].id] = memory
    BY <1>6 DEF HeardUpTo
  <2>1. list'[k] = list[from[k]] /\ from[k] \in 1..n /\ from[k] <= n /\ k <= m
    BY <1>2, <1>4, <1>6
  <2> QED
    BY <2>1, <1>11 DEF HeardUpTo, n
<1>12. Shape' /\ Phases'
  <2>1. firingIndex' \in Nat
    BY <1>1, <1>2, <1>5
  <2>2. ~disabled
    BY <1>2 DEF Phases
  <2> QED
    BY <1>1, <1>6, <2>1, <2>2 DEF Shape, Phases
<1>13. ASSUME ~emptied PROVE Told'
  <2>1. running => /\ HeardUpTo(list', firingIndex', memory, heard)
                   /\ firingIndex' <= m
    BY <1>2, <1>10, <1>13 DEF Told, Phases, n
  <2>2. ~firing /\ memory # Nothing => HeardUpTo(list', m, memory, heard)
    BY <1>11, <1>13 DEF Told, n
  <2>3. options.once /\ memory # Nothing /\ (running \/ ~firing) =>
          RestHeard(list', memory, heard, adds, gone')
    BY <1>9, <1>13 DEF Told, RestHeard
  <2>4. options.once /\ ~locked => \A e \in 1..adds : e \in gone' \/ e \in IdsOf(list')
    BY <1>9, <1>13 DEF Told
  <2> QED
    BY <1>1, <1>6, <2>1, <2>2, <2>3, <2>4 DEF Told
<1> QED
  BY <1>1, <1>7, <1>12, <1>13

LEMMA EmptyKeeps == ASSUME CInv, empty PROVE CInv'
<1> USE DEF CInv
<1>1. /\ list # <<>> /\ list' = <<>> /\ emptied' = (emptied \/ firing)
      /\ gone' = gone \cup {e.id : e \in ToSet(list)}
      /\ UNCHANGED <<options, firing, memory, locked, fired, disabled, queue,
                     firingIndex, running, adds, fires, heard>>
  BY DEF empty
<1>2. list \in Seq(Entries) /\ Len(list) \in Nat /\ DOMAIN list = 1..Len(list)
  BY DEF Shape
<1>3. IdsOf(list) \subseteq gone' /\ gone \subseteq gone'
  BY <1>1, <1>2 DEF IdsOf, ToSet
<1>4. Shape' /\ Phases'
  <2>1. <<>> \in Seq(Entries)
    OBVIOUS
  <2>2. emptied' \in BOOLEAN
    BY <1>1
  <2> QED
    BY <1>1, <2>1, <2>2 DEF Shape, Phases
<1>5. AddedOnce(list', adds')
  BY <1>1 DEF AddedOnce
<1>6. ASSUME ~emptied' PROVE Told'
  <2>1. ~emptied /\ ~firing /\ ~running
    BY <1>1, <1>6 DEF Phases
  <2>2. HeardUpTo(list', Len(list'), memory, heard)
    BY <1>1 DEF HeardUpTo
  <2>3. options.once /\ memory # Nothing => RestHeard(list', memory, heard, adds, gone')
    <3> SUFFICES ASSUME options.once, memory # Nothing, NEW e \in 1..adds
                 PROVE  e \in gone' \/ heard[e] = memory
      BY DEF RestHeard
    <3> QED
      BY <2>1, <1>3 DEF Told, RestHeard
  <2>4. options.once /\ ~locked => \A e \in 1..adds : e \in gone'
    BY <2>1, <1>3 DEF Told
  <2> QED
    BY <1>1, <2>1, <2>2, <2>3, <2>4 DEF Told
<1> QED
  BY <1>1, <1>4, <1>5, <1>6

LEMMA DisableKeeps == ASSUME CInv, disable PROVE CInv'
<1> USE DEF CInv
<1>1. /\ disabled' = TRUE /\ locked' = TRUE /\ list' = <<>> /\ queue' = <<>>
      /\ memory' = Nothing
      /\ UNCHANGED <<options, firing, fired, firingIndex, running, adds, fires,
                     heard, gone, emptied>>
  BY DEF disable
<1>2. <<>> \in Seq(Entries) /\ <<>> \in Seq(Nat)
  OBVIOUS
<1>3. Shape' /\ Phases'
  BY <1>1, <1>2 DEF Shape, Phases, Values
<1>4. TellsTheFired(memory', heard', adds', fires')
  BY <1>1 DEF TellsTheFired
<1>5. Later(queue', memory', heard', fires') /\ AddedOnce(list', adds') /\ Told'
  BY <1>1 DEF Later, AddedOnce, Told, HeardUpTo
<1> QED
  BY <1>3, <1>4, <1>5

LEMMA LockKeeps == ASSUME CInv, lock PROVE CInv'
<1> USE DEF CInv
<1>1. /\ locked' = TRUE /\ queue' = <<>>
      /\ UNCHANGED <<options, firing, memory, fired, firingIndex, running, adds,
                     fires, heard, gone, emptied>>
  BY DEF lock
<1>2. <<>> \in Seq(Entries) /\ <<>> \in Seq(Nat)
  OBVIOUS
<1>3. Later(queue', memory', heard', fires')
  BY <1>1 DEF Later
<1>4. CASE memory = Nothing /\ ~firing
  <2>1. disabled' = TRUE /\ list' = <<>>
    BY <1>4 DEF lock
  <2>2. Shape' /\ Phases'
    BY <1>1, <1>2, <1>4, <2>1 DEF Shape, Phases
  <2>3. AddedOnce(list', adds') /\ (~emptied => Told)'
    BY <1>1, <1>4, <2>1 DEF AddedOnce, Told, Phases
  <2> QED
    BY <1>1, <1>3, <2>2, <2>3
<1>5. CASE ~(memory = Nothing /\ ~firing)
  <2>1. UNCHANGED <<disabled, list>>
    BY <1>5 DEF lock
  <2>2. Shape' /\ Phases'
    BY <1>1, <1>2, <2>1 DEF Shape, Phases
  <2>3. (~emptied => Told)'
    BY <1>1, <2>1 DEF Told
  <2> QED
    BY <1>1, <1>3, <2>1, <2>2, <2>3
<1> QED
  BY <1>4, <1>5

LEMMA CallbacksStep == CInv /\ [CNext]_cVars => CInv'
<1> SUFFICES ASSUME CInv, [CNext]_cVars PROVE CInv'
  OBVIOUS
<1>1. CASE Throws
  <2>1. /\ running' = FALSE /\ running
        /\ UNCHANGED <<options, firing, memory, locked, fired, disabled, list,
                       queue, firingIndex, adds, fires, heard, gone, emptied>>
    BY <1>1 DEF Throws
  <2>2. Shape' /\ Phases' /\ (~emptied => Told)'
    BY <2>1 DEF CInv, Shape, Phases, Told
  <2> QED
    BY <2>1, <2>2 DEF CInv
<1>2. CASE UNCHANGED cVars
  BY <1>2 DEF cVars, CInv, Shape, Phases, Told
<1> QED
  BY <1>1, <1>2, ReturnsKeeps, FireWithKeeps, AddKeeps, RemoveKeeps, EmptyKeeps,
     DisableKeeps, LockKeeps DEF CNext

(* However the functions of a list use it while it fires, exactly the      *)
(* entries up to the index have heard its value, and a list that rests has *)
(* told its memory to everyone who was not taken off it.                   *)
THEOREM NobodyIsSkipped == CSpec => []EveryoneHearsOnce
<1>1. CInv => EveryoneHearsOnce
  <2> SUFFICES ASSUME CInv, ~emptied PROVE EveryoneHearsOnce
    BY DEF EveryoneHearsOnce
  <2>1. /\ Told /\ Len(list) \in Nat /\ DOMAIN list = 1..Len(list)
        /\ AddedOnce(list, adds)
    BY DEF CInv, Shape
  <2>2. running => \A i \in DOMAIN list : i <= firingIndex <=> heard[list[i].id] = memory
    BY <2>1 DEF Told, HeardUpTo
  <2>3. ASSUME ~firing, memory # Nothing, NEW e \in 1..adds,
               (e \notin gone /\ options.once) \/ e \in {x.id : x \in ToSet(list)}
        PROVE  heard[e] = memory
    <3>1. \A i \in 1..Len(list) : heard[list[i].id] = memory
      <4>1. \A i \in 1..Len(list) : i <= Len(list)
        BY <2>1
      <4> QED
        BY <4>1, <2>1, <2>3 DEF Told, HeardUpTo
    <3>2. {x.id : x \in ToSet(list)} = IdsOf(list)
      BY <2>1 DEF ToSet, IdsOf
    <3>3. \A x \in IdsOf(list) : heard[x] = memory
      BY <3>1, <2>1 DEF IdsOf
    <3>4. options.once => e \in gone \/ e \in IdsOf(list) \/ heard[e] = memory
      BY <2>1, <2>3 DEF Told, RestHeard
    <3> QED
      BY <3>2, <3>3, <3>4, <2>3
  <2> QED
    BY <2>2, <2>3 DEF EveryoneHearsOnce
<1> QED
  BY <1>1, CallbacksStart, CallbacksStep, PTL DEF CSpec
-----------------------------------------------------------------------------
(* The variables of a request.                                             *)
Variables == [started : BOOLEAN, given : BOOLEAN, global : BOOLEAN,
              timeout : BOOLEAN, dataType : DataTypes,
              completed : {"undefined", "no", "yes"}, transport : BOOLEAN,
              timer : BOOLEAN, xhr : {"none", "open", "quiet"}, added : BOOLEAN,
              state : {"pending", "resolved", "rejected"}, status : Statuses,
              told : Nat, completes : Nat]

(* A frame at one of these is a request that is not sent yet, and at one   *)
(* of those a done() that has not counted down.                            *)
Opening == {"ajaxStart", "beforeSend", "ajaxSend"}
Ending  == {"settle", "complete"}
Frames  == [r : Requests, at : Opening \cup Ending \cup {"ajaxStop"}]

(* What is true of every request.                                          *)
RequestOk(q) ==
  /\ ~q.started => q.completed = "undefined" /\ ~q.given /\ ~q.timer /\ q.xhr = "none"
  /\ q.given => q.started
  /\ q.told = IF q.completed = "yes" /\ q.added THEN 1 ELSE 0
  /\ q.completes <= q.told
  /\ (q.state = "pending") = (q.completed # "yes")
  /\ q.completed = "yes" => ~q.timer /\ ~q.transport
  /\ q.xhr = "open" => q.transport

(* What is true of a frame, its request being q: it is sent over a         *)
(* transport, and a done() under way is of a settled request that no       *)
(* exception has left.                                                     *)
FrameOk(f, q, left) ==
  /\ q.started
  /\ f.at \in Opening => q.xhr = "none"
  /\ f.at = "ajaxSend" => q.completed = "yes" \/ q.transport
  /\ f.at \in Ending => q.completed = "yes" /\ f.r \notin left
  /\ f.at = "settle" => q.completes = 0

FramesOk(fr, rq, left) == \A i \in 1..Len(fr) : FrameOk(fr[i], rq[fr[i].r], left)

(* A request is being sent once, and has at most one done() under way.     *)
SamePart(a, b) == \/ a \in Opening /\ b \in Opening
                  \/ a \in Ending /\ b \in Ending

PartsOnce(fr) ==
  \A i, j \in 1..Len(fr) :
    fr[i].r = fr[j].r /\ SamePart(fr[i].at, fr[j].at) => i = j

IsOpening(fr, r)  == \E i \in 1..Len(fr) : fr[i].r = r /\ fr[i].at \in Opening
IsEnding(fr, r)   == \E i \in 1..Len(fr) : fr[i].r = r /\ fr[i].at \in Ending
IsSettling(fr, r) == \E i \in 1..Len(fr) : fr[i].r = r /\ fr[i].at = "settle"

(* complete is called, or will be, or an exception has prevented it.       *)
CompletesOrLeft(r, q, fr, left) ==
  q.completed = "yes" /\ q.added /\ q.completes = 0 => r \in left \/ IsSettling(fr, r)

OfRequest(r, q, fr, left) == /\ RequestOk(q) /\ CompletesOrLeft(r, q, fr, left)
                             /\ r \in left => q.completed = "yes"

(* A request that is under way.                                            *)
UnderWay(r, q, fr, left) ==
  q.started /\ q.global /\ (q.completed # "yes" \/ r \in left \/ IsEnding(fr, r))

AjaxShape ==
  /\ req \in [Requests -> Variables] /\ frames \in Seq(Frames)
  /\ cut \in SUBSET Requests

AInv == /\ AjaxShape
        /\ \A r \in Requests : OfRequest(r, req[r], frames, cut)
        /\ FramesOk(frames, req, cut) /\ PartsOnce(frames)
        /\ active = Cardinality(Counted)
-----------------------------------------------------------------------------
(* One frame more, and one less.                                           *)
LEMMA Pushed ==
  ASSUME NEW fr \in Seq(Frames), NEW f \in Frames, NEW rq, NEW left,
         FramesOk(fr, rq, left), PartsOnce(fr), FrameOk(f, rq[f.r], left),
         f.at \in Ending => ~IsEnding(fr, f.r),
         f.at \in Opening => ~IsOpening(fr, f.r)
  PROVE  /\ Append(fr, f) \in Seq(Frames)
         /\ FramesOk(Append(fr, f), rq, left) /\ PartsOnce(Append(fr, f))
<1> DEFINE l == Append(fr, f)
           n == Len(fr)
<1>1. /\ l \in Seq(Frames) /\ Len(l) = n + 1 /\ n \in Nat /\ l[n + 1] = f
      /\ \A i \in 1..n : l[i] = fr[i]
  BY OneMore
<1> HIDE DEF l
<1>2. \A i \in 1..Len(l) : (i \in 1..n /\ l[i] = fr[i]) \/ (i = n + 1 /\ l[i] = f)
  BY <1>1
<1>3. FramesOk(l, rq, left)
  BY <1>2 DEF FramesOk
<1>4. PartsOnce(l)
  BY <1>2 DEF PartsOnce, IsEnding, IsOpening, SamePart
<1> QED
  BY <1>1, <1>3, <1>4 DEF l

LEMMA EndingsOfMore ==
  ASSUME NEW fr \in Seq(Frames), NEW f \in Frames
  PROVE  \A r : /\ IsEnding(Append(fr, f), r) <=>
                     IsEnding(fr, r) \/ (f.r = r /\ f.at \in Ending)
                /\ IsSettling(Append(fr, f), r) <=>
                     IsSettling(fr, r) \/ (f.r = r /\ f.at = "settle")
<1> SUFFICES ASSUME NEW r
             PROVE  /\ IsEnding(Append(fr, f), r) <=>
                         IsEnding(fr, r) \/ (f.r = r /\ f.at \in Ending)
                    /\ IsSettling(Append(fr, f), r) <=>
                         IsSettling(fr, r) \/ (f.r = r /\ f.at = "settle")
  OBVIOUS
<1> DEFINE l == Append(fr, f)
           n == Len(fr)
<1>1. /\ Len(l) = n + 1 /\ n \in Nat /\ l[n + 1] = f
      /\ \A i \in 1..n : l[i] = fr[i]
  BY OneMore
<1> HIDE DEF l
<1>2. /\ \A i \in 1..Len(l) : (i \in 1..n /\ l[i] = fr[i]) \/ (i = n + 1 /\ l[i] = f)
      /\ \A i \in 1..n : i \in 1..Len(l) /\ l[i] = fr[i]
      /\ n + 1 \in 1..Len(l) /\ l[n + 1] = f
  BY <1>1
<1>3. IsEnding(l, r) <=> IsEnding(fr, r) \/ (f.r = r /\ f.at \in Ending)
  BY <1>2 DEF IsEnding
<1>4. IsSettling(l, r) <=> IsSettling(fr, r) \/ (f.r = r /\ f.at = "settle")
  BY <1>2 DEF IsSettling
<1> QED
  BY <1>3, <1>4 DEF l

LEMMA OneLess ==
  ASSUME NEW S, NEW s \in Seq(S), s # <<>>
  PROVE  /\ Front(s) \in Seq(S) /\ Last(s) \in S /\ s = Append(Front(s), Last(s))
<1>1. Len(s) \in Nat \ {0} /\ \A i \in 1..Len(s) : s[i] \in S
  OBVIOUS
<1>2. Last(s) = s[Len(s)] /\ Front(s) = SubSeq(s, 1, Len(s) - 1)
  BY DEF Last, Front
<1>3. /\ Front(s) \in Seq(S) /\ Len(Front(s)) = Len(s) - 1
      /\ \A i \in 1..(Len(s) - 1) : Front(s)[i] = s[i]
  <2>1. /\ Front(s) \in Seq(S) /\ DOMAIN Front(s) = 1..(Len(s) - 1)
        /\ \A i \in 1..(Len(s) - 1) : Front(s)[i] = s[i]
    BY <1>1, <1>2
  <2>2. DOMAIN Front(s) = 1..Len(Front(s)) /\ Len(Front(s)) \in Nat
    BY <2>1
  <2> QED
    BY <1>1, <2>1, <2>2
<1>4. Last(s) \in S
  BY <1>1, <1>2
<1> DEFINE l == Front(s)
           x == Last(s)
<1>5. /\ Append(l, x) \in Seq(S) /\ Len(Append(l, x)) = Len(l) + 1
      /\ Append(l, x)[Len(l) + 1] = x
      /\ \A i \in 1..Len(l) : Append(l, x)[i] = l[i]
  BY <1>3, <1>4, OneMore
<1>6. \A i \in 1..Len(s) : i \in 1..(Len(s) - 1) \/ i = Len(s)
  BY <1>1
<1> HIDE DEF l, x
<1>7. /\ Len(Append(l, x)) = Len(s)
      /\ \A i \in 1..Len(s) : Append(l, x)[i] = s[i]
  BY <1>1, <1>2, <1>3, <1>5, <1>6 DEF l, x
<1>8. s = Append(l, x)
  BY <1>5, <1>7
<1> QED
  BY <1>3, <1>4, <1>8 DEF l, x

LEMMA Popped ==
  ASSUME NEW fr \in Seq(Frames), fr # <<>>, NEW rq, NEW left,
         FramesOk(fr, rq, left), PartsOnce(fr)
  PROVE  /\ Front(fr) \in Seq(Frames) /\ Last(fr) \in Frames
         /\ FramesOk(Front(fr), rq, left) /\ PartsOnce(Front(fr))
         /\ FrameOk(Last(fr), rq[Last(fr).r], left)
         /\ Last(fr).at \in Ending => ~IsEnding(Front(fr), Last(fr).r)
         /\ Last(fr).at \in Opening => ~IsOpening(Front(fr), Last(fr).r)
         /\ \A r : /\ IsEnding(fr, r) <=> \/ IsEnding(Front(fr), r)
                                          \/ Last(fr).r = r /\ Last(fr).at \in Ending
                   /\ IsSettling(fr, r) <=> \/ IsSettling(Front(fr), r)
                                            \/ Last(fr).r = r /\ Last(fr).at = "settle"
<1> DEFINE l == Front(fr)
           f == Last(fr)
           n == Len(l)
<1>1. l \in Seq(Frames) /\ f \in Frames /\ fr = Append(l, f)
  BY OneLess
<1> HIDE DEF l, f
<1>2. /\ Len(fr) = n + 1 /\ n \in Nat /\ fr[n + 1] = f
      /\ \A i \in 1..n : fr[i] = l[i]
  BY <1>1, OneMore
<1>3. n + 1 \in 1..Len(fr) /\ \A i \in 1..n : i \in 1..Len(fr) /\ i # n + 1
  BY <1>2
<1>4. FramesOk(l, rq, left) /\ FrameOk(f, rq[f.r], left)
  BY <1>2, <1>3 DEF FramesOk
<1>5. PartsOnce(l)
  BY <1>2, <1>3 DEF PartsOnce
<1>6. /\ f.at \in Ending => ~IsEnding(l, f.r)
      /\ f.at \in Opening => ~IsOpening(l, f.r)
  BY <1>2, <1>3 DEF PartsOnce, IsEnding, IsOpening, SamePart
<1>7. \A r : /\ IsEnding(fr, r) <=> IsEnding(l, r) \/ (f.r = r /\ f.at \in Ending)
             /\ IsSettling(fr, r) <=> IsSettling(l, r) \/ (f.r = r /\ f.at = "settle")
  BY <1>1, EndingsOfMore
<1> QED
  BY <1>1, <1>4, <1>5, <1>6, <1>7 DEF l, f

LEMMA SettlesAreEndings == \A fr, r : IsSettling(fr, r) => IsEnding(fr, r)
  BY DEF IsSettling, IsEnding, Ending

(* A request that has not ended has no done() under way, and one that is   *)
(* on its way or was not started is not being sent.                        *)
LEMMA NoFrameOf ==
  ASSUME NEW fr, NEW rq, NEW left, FramesOk(fr, rq, left), NEW r
  PROVE  /\ rq[r].completed # "yes" \/ r \in left => ~IsEnding(fr, r)
         /\ ~rq[r].started => ~IsOpening(fr, r)
<1>1. \A i \in 1..Len(fr) : FrameOk(fr[i], rq[fr[i].r], left)
  BY DEF FramesOk
<1> QED
  BY <1>1 DEF IsEnding, IsOpening, FrameOk

(* The request of some frames goes on.                                     *)
LEMMA Changed ==
  ASSUME NEW fr \in Seq(Frames), NEW rq \in [Requests -> Variables], NEW left,
         FramesOk(fr, rq, left), NEW r \in Requests, NEW w,
         NEW rq2, rq2 = [rq EXCEPT ![r] = w],
         rq[r].started => w.started,
         rq[r].completed = "yes" => w.completed = "yes",
         w.completed = "yes" \/ (rq[r].transport => w.transport) \/ ~IsOpening(fr, r),
         (rq[r].xhr = "none" => w.xhr = "none") \/ ~IsOpening(fr, r),
         w.completes = rq[r].completes \/ ~IsSettling(fr, r)
  PROVE  FramesOk(fr, rq2, left)
<1> SUFFICES ASSUME NEW i \in 1..Len(fr) PROVE FrameOk(fr[i], rq2[fr[i].r], left)
  BY DEF FramesOk
<1>1. fr[i] \in Frames /\ FrameOk(fr[i], rq[fr[i].r], left)
  BY DEF FramesOk
<1>2. fr[i].r \in Requests
  BY <1>1 DEF Frames
<1>3. CASE fr[i].r # r
  BY <1>1, <1>2, <1>3
<1>4. CASE fr[i].r = r
  <2>1. rq2[fr[i].r] = w
    BY <1>4
  <2>2. fr[i].at \in Opening => IsOpening(fr, r)
    BY <1>4 DEF IsOpening
  <2>3. fr[i].at = "settle" => IsSettling(fr, r)
    BY <1>4 DEF IsSettling
  <2>4. fr[i].at = "ajaxSend" => fr[i].at \in Opening
    BY DEF Opening
  <2> QED
    BY <2>1, <2>2, <2>3, <2>4, <1>1, <1>4 DEF FrameOk
<1> QED
  BY <1>3, <1>4
-----------------------------------------------------------------------------
(* Variables of one request change, and the same requests are under way.   *)
LEMMA SameUnderWay ==
  ASSUME AInv, AjaxShape', UNCHANGED active,
         \A p \in Requests : UnderWay(p, req'[p], frames', cut')
                               <=> UnderWay(p, req[p], frames, cut)
  PROVE  active' = Cardinality(Counted')
<1>1. /\ DOMAIN frames = 1..Len(frames) /\ DOMAIN frames' = 1..Len(frames')
  BY DEF AInv, AjaxShape
<1>2. Counted = {p \in Requests : UnderWay(p, req[p], frames, cut)}
  BY <1>1 DEF Counted, UnderWay, IsEnding, Ending
<1>3. Counted' = {p \in Requests : UnderWay(p, req'[p], frames', cut')}
  BY <1>1 DEF Counted, UnderWay, IsEnding, Ending
<1>4. Counted' = Counted
  BY <1>2, <1>3
<1> QED
  BY <1>4 DEF AInv

LEMMA RequestGoesOn ==
  ASSUME AInv, NEW r \in Requests, NEW w \in Variables,
         req' = [req EXCEPT ![r] = w], frames' \in Seq(Frames),
         FramesOk(frames', req', cut), PartsOnce(frames'),
         \A p \in Requests \ {r} : /\ IsEnding(frames', p) <=> IsEnding(frames, p)
                                   /\ IsSettling(frames, p) => IsSettling(frames', p),
         OfRequest(r, w, frames', cut),
         UnderWay(r, w, frames', cut) <=> UnderWay(r, req[r], frames, cut),
         UNCHANGED <<active, cut>>
  PROVE  AInv'
<1>1. /\ req' \in [Requests -> Variables] /\ req'[r] = w
      /\ \A p \in Requests \ {r} : req'[p] = req[p]
  BY DEF AInv, AjaxShape
<1>2. AjaxShape'
  BY <1>1 DEF AInv, AjaxShape
<1>3. ASSUME NEW p \in Requests PROVE OfRequest(p, req'[p], frames', cut)
  <2>1. CASE p = r
    BY <1>1, <2>1
  <2>2. CASE p # r
    <3>1. OfRequest(p, req[p], frames, cut) /\ req'[p] = req[p]
      BY <1>1, <2>2 DEF AInv
    <3>2. IsSettling(frames, p) => IsSettling(frames', p)
      BY <2>2
    <3> QED
      BY <3>1, <3>2 DEF OfRequest, CompletesOrLeft
  <2> QED
    BY <2>1, <2>2
<1>4. ASSUME NEW p \in Requests
      PROVE  UnderWay(p, req'[p], frames', cut') <=> UnderWay(p, req[p], frames, cut)
  <2>1. CASE p = r
    BY <1>1, <2>1
  <2>2. CASE p # r
    BY <1>1, <2>2 DEF UnderWay
  <2> QED
    BY <2>1, <2>2
<1>5. active' = Cardinality(Counted')
  BY <1>2, <1>4, SameUnderWay
<1> QED
  BY <1>2, <1>3, <1>5 DEF AInv

(* What done() makes of a request.                                         *)
Done(q, w) ==
  /\ w \in Variables /\ w.completed = "yes" /\ ~w.timer /\ ~w.transport
  /\ w.state # "pending" /\ w.told = IF q.added THEN q.told + 1 ELSE q.told
  /\ w.started = q.started /\ w.given = q.given /\ w.global = q.global
  /\ w.xhr = q.xhr /\ w.added = q.added /\ w.completes = q.completes

LEMMA DoneOf ==
  ASSUME NEW q \in Variables, NEW status \in Statuses, NEW success \in BOOLEAN,
         NEW w, w = [q EXCEPT !.completed = "yes", !.timer = FALSE,
                      !.transport = FALSE, !.status = status,
                      !.state = IF success THEN "resolved" ELSE "rejected",
                      !.told = IF q.added THEN @ + 1 ELSE @]
  PROVE  Done(q, w)
<1> DEFINE state == IF success THEN "resolved" ELSE "rejected"
           told == IF q.added THEN q.told + 1 ELSE q.told
<1>1. /\ state \in {"resolved", "rejected"} /\ told \in Nat
  BY DEF Variables
<1>2. w = [q EXCEPT !.completed = "yes", !.timer = FALSE, !.transport = FALSE,
             !.status = status, !.state = state, !.told = told]
  BY DEF Variables
<1> HIDE DEF state, told
<1>3. /\ w \in Variables /\ w.completed = "yes" /\ w.timer = FALSE
      /\ w.transport = FALSE /\ w.state = state /\ w.told = told
      /\ w.started = q.started /\ w.given = q.given /\ w.global = q.global
      /\ w.xhr = q.xhr /\ w.added = q.added /\ w.completes = q.completes
  BY <1>1, <1>2, ZenonT(40) DEF Variables
<1> QED
  BY <1>1, <1>3 DEF Done, told

(* done() of a request that nothing of its transport will answer; the      *)
(* calls in rest end the same requests as those under way.                 *)
LEMMA DoneKeeps ==
  ASSUME AInv, NEW r \in Requests, NEW q \in Variables, NEW rest \in Seq(Frames),
         NEW status \in Statuses, NEW success \in BOOLEAN,
         RequestOk(q), q.started, q.completed = req[r].completed,
         q.completes = req[r].completes, q.added = req[r].added,
         q.global = req[r].global, q.transport = req[r].transport,
         req[r].started, q.xhr # "open",
         (req[r].xhr = "none" => q.xhr = "none") \/ ~IsOpening(rest, r),
         FramesOk(rest, req, cut), PartsOnce(rest),
         \A p : /\ IsEnding(rest, p) <=> IsEnding(frames, p)
                /\ IsSettling(rest, p) <=> IsSettling(frames, p),
         done(r, q, status, success, rest), UNCHANGED <<active, cut>>
  PROVE  AInv'
<1>1. /\ req \in [Requests -> Variables] /\ frames \in Seq(Frames)
      /\ OfRequest(r, req[r], frames, cut) /\ req[r] \in Variables
  BY DEF AInv, AjaxShape
<1>2. CASE q.completed = "yes"
  <2>1. frames' = rest /\ req' = [req EXCEPT ![r] = q]
    BY <1>2 DEF done
  <2>2. FramesOk(rest, req', cut)
    BY <1>1, <1>2, <2>1, Changed
  <2>3. OfRequest(r, q, frames', cut)
    BY <1>1, <2>1 DEF OfRequest, CompletesOrLeft
  <2>4. UnderWay(r, q, frames', cut) <=> UnderWay(r, req[r], frames, cut)
    BY <2>1 DEF UnderWay
  <2> QED
    BY <2>1, <2>2, <2>3, <2>4, RequestGoesOn
<1>3. CASE q.completed # "yes"
  <2> DEFINE w == [q EXCEPT !.completed = "yes", !.timer = FALSE,
                     !.transport = FALSE, !.status = status,
                     !.state = IF success THEN "resolved" ELSE "rejected",
                     !.told = IF q.added THEN @ + 1 ELSE @]
             f == [r |-> r, at |-> "settle"]
  <2>1. req' = [req EXCEPT ![r] = w] /\ frames' = Append(rest, f)
    BY <1>3 DEF done
  <2>2. Done(q, w)
    BY DoneOf
  <2>3. f \in Frames /\ f.r = r /\ f.at = "settle"
    BY DEF Frames, Ending
  <2> HIDE DEF w, f
  <2>4. /\ RequestOk(w) /\ w.started /\ w.completed = "yes" /\ w.completes = 0
        /\ w \in Variables /\ w.global = q.global /\ w.xhr = q.xhr
    <3>1. q.told = 0 /\ q.completes <= q.told /\ q.completes \in Nat
      BY <1>3 DEF RequestOk, Variables
    <3>2. q.completes = 0
      BY <3>1
    <3>3. w.told = IF w.added THEN 1 ELSE 0
      BY <2>2, <3>1 DEF Done
    <3> QED
      BY <2>2, <3>2, <3>3 DEF Done, RequestOk
  <2>5. r \notin cut /\ ~IsEnding(rest, r) /\ ~IsSettling(rest, r)
    BY <1>1, <1>3, NoFrameOf, SettlesAreEndings DEF OfRequest
  <2>6. FramesOk(rest, req', cut)
    BY <1>1, <1>3, <2>1, <2>4, <2>5, Changed
  <2>7. req'[f.r] = w
    BY <1>1, <2>1, <2>3
  <2>8. FrameOk(f, req'[f.r], cut)
    BY <2>3, <2>4, <2>5, <2>7 DEF FrameOk, Opening
  <2>9. /\ Append(rest, f) \in Seq(Frames) /\ FramesOk(Append(rest, f), req', cut)
        /\ PartsOnce(Append(rest, f))
    BY <2>3, <2>5, <2>6, <2>8, Pushed DEF Opening
  <2>10. \A p : /\ IsEnding(frames', p) <=>
                     IsEnding(rest, p) \/ (f.r = p /\ f.at \in Ending)
                /\ IsSettling(frames', p) <=>
                     IsSettling(rest, p) \/ (f.r = p /\ f.at = "settle")
    BY <2>1, <2>3, EndingsOfMore
  <2>11. IsSettling(frames', r) /\ IsEnding(frames', r)
    BY <2>3, <2>10 DEF Ending
  <2>12. OfRequest(r, w, frames', cut)
    BY <2>4, <2>11 DEF OfRequest, CompletesOrLeft
  <2>13. UnderWay(r, w, frames', cut) <=> UnderWay(r, req[r], frames, cut)
    BY <1>3, <2>4, <2>11 DEF UnderWay
  <2> QED
    BY <2>1, <2>3, <2>4, <2>9, <2>10, <2>12, <2>13, RequestGoesOn
<1> QED
  BY <1>2, <1>3
-----------------------------------------------------------------------------
LEMMA SilencedOf ==
  ASSUME NEW q \in Variables, RequestOk(q)
  PROVE  /\ Silenced(q) \in Variables /\ RequestOk(Silenced(q))
         /\ Silenced(q).xhr # "open"
         /\ q.xhr = "none" => Silenced(q).xhr = "none"
         /\ Silenced(q).started = q.started /\ Silenced(q).completed = q.completed
         /\ Silenced(q).completes = q.completes /\ Silenced(q).added = q.added
         /\ Silenced(q).global = q.global /\ Silenced(q).transport = q.transport
<1> DEFINE xhr == IF q.xhr = "open" THEN "quiet" ELSE q.xhr
           w == Silenced(q)
<1>1. /\ xhr \in {"none", "open", "quiet"} /\ xhr # "open"
      /\ q.xhr = "none" => xhr = "none"
  BY DEF Variables
<1>2. w = [q EXCEPT !.xhr = xhr]
  BY DEF Silenced, Variables
<1> HIDE DEF xhr, w
<1>3. /\ w \in Variables /\ w.xhr = xhr /\ w.started = q.started
      /\ w.given = q.given /\ w.timer = q.timer /\ w.completed = q.completed
      /\ w.completes = q.completes /\ w.added = q.added /\ w.told = q.told
      /\ w.state = q.state /\ w.global = q.global /\ w.transport = q.transport
  BY <1>1, <1>2 DEF Variables
<1>4. RequestOk(w)
  BY <1>1, <1>3 DEF RequestOk
<1> QED
  BY <1>1, <1>3, <1>4 DEF w

LEMMA AbortKeeps ==
  ASSUME AInv, NEW r \in Requests, NEW rest \in Seq(Frames), req[r].started,
         FramesOk(rest, req, cut), PartsOnce(rest),
         \A p : /\ IsEnding(rest, p) <=> IsEnding(frames, p)
                /\ IsSettling(rest, p) <=> IsSettling(frames, p),
         abort(r, rest), UNCHANGED <<active, cut>>
  PROVE  AInv'
<1>1. req[r] \in Variables /\ RequestOk(req[r])
  BY DEF AInv, AjaxShape, OfRequest
<1> DEFINE q == IF req[r].transport THEN Silenced(req[r]) ELSE req[r]
<1>2. /\ q \in Variables /\ RequestOk(q) /\ q.xhr # "open"
      /\ req[r].xhr = "none" => q.xhr = "none"
      /\ q.started /\ q.completed = req[r].completed
      /\ q.completes = req[r].completes /\ q.added = req[r].added
      /\ q.global = req[r].global /\ q.transport = req[r].transport
  <2>1. CASE req[r].transport
    BY <1>1, <2>1, SilencedOf
  <2>2. CASE ~req[r].transport
    BY <1>1, <2>2 DEF RequestOk
  <2> QED
    BY <2>1, <2>2
<1>3. done(r, q, 0, FALSE, rest) /\ 0 \in Statuses /\ FALSE \in BOOLEAN
  BY DEF abort, Statuses
<1> HIDE DEF q
<1> QED
  BY <1>2, <1>3, DoneKeeps

LEMMA ThePagesAborts ==
  ASSUME AInv, NEW r \in Requests, Abort(r) \/ Timeout(r) PROVE AInv'
<1>1. /\ frames \in Seq(Frames) /\ FramesOk(frames, req, cut) /\ PartsOnce(frames)
      /\ RequestOk(req[r])
  BY DEF AInv, AjaxShape, OfRequest
<1>2. /\ abort(r, frames) /\ UNCHANGED <<active, cut>> /\ req[r].started
  BY <1>1 DEF Abort, Timeout, RequestOk
<1> QED
  BY <1>1, <1>2, AbortKeeps

LEMMA AnswerKeeps ==
  ASSUME AInv, NEW r \in Requests, NEW s \in Statuses, NEW c \in ContentTypes,
         NEW v \in BOOLEAN, Answer(r, s, c, v)
  PROVE  AInv'
<1>1. /\ frames \in Seq(Frames) /\ FramesOk(frames, req, cut) /\ PartsOnce(frames)
      /\ RequestOk(req[r]) /\ req[r] \in Variables /\ frames = <<>>
      /\ req[r].started /\ UNCHANGED <<active, cut>>
  BY DEF AInv, AjaxShape, OfRequest, Answer, RequestOk
<1> DEFINE q == Silenced(req[r])
           success == IsSuccess(r, s, c, v)
<1>2. done(r, q, s, success, frames) /\ success \in BOOLEAN
  BY <1>1 DEF Answer, IsSuccess
<1>3. /\ q \in Variables /\ RequestOk(q) /\ q.xhr # "open"
      /\ req[r].xhr = "none" => q.xhr = "none"
      /\ q.started /\ q.completed = req[r].completed
      /\ q.completes = req[r].completes /\ q.added = req[r].added
      /\ q.global = req[r].global /\ q.transport = req[r].transport
  BY <1>1, SilencedOf
<1> HIDE DEF q, success
<1> QED
  BY <1>1, <1>2, <1>3, DoneKeeps

(* The call on top and the others.                                         *)
LEMMA TopAndRest ==
  ASSUME AInv, frames # <<>>
  PROVE  /\ Rest \in Seq(Frames) /\ Top \in Frames
         /\ Top.r \in Requests /\ req[Top.r] \in Variables
         /\ OfRequest(Top.r, req[Top.r], frames, cut)
         /\ FramesOk(Rest, req, cut) /\ PartsOnce(Rest)
         /\ FrameOk(Top, req[Top.r], cut)
         /\ Top.at \in Ending => ~IsEnding(Rest, Top.r)
         /\ Top.at \in Opening => ~IsOpening(Rest, Top.r)
         /\ \A r : /\ IsEnding(frames, r) <=>
                        IsEnding(Rest, r) \/ (Top.r = r /\ Top.at \in Ending)
                   /\ IsSettling(frames, r) <=>
                        IsSettling(Rest, r) \/ (Top.r = r /\ Top.at = "settle")
<1>1. /\ frames \in Seq(Frames) /\ FramesOk(frames, req, cut) /\ PartsOnce(frames)
  BY DEF AInv, AjaxShape
<1>2. Top \in Frames
  BY <1>1, Popped DEF Top
<1>3. Top.r \in Requests
  BY <1>2 DEF Frames
<1>4. req[Top.r] \in Variables /\ OfRequest(Top.r, req[Top.r], frames, cut)
  BY <1>3 DEF AInv, AjaxShape
<1> QED
  BY <1>1, <1>3, <1>4, Popped DEF Top, Rest
(* Another call takes the place of the one on top.                         *)
LEMMA TopReplaced ==
  ASSUME AInv, frames # <<>>, NEW w \in Variables, NEW f \in Frames, f.r = Top.r,
         req' = [req EXCEPT ![Top.r] = w], frames' = Append(Rest, f),
         UNCHANGED <<active, cut>>,
         FramesOk(Rest, req', cut), FrameOk(f, w, cut),
         SamePart(f.at, Top.at), OfRequest(Top.r, w, frames', cut),
         w.started = req[Top.r].started, w.global = req[Top.r].global,
         w.completed = req[Top.r].completed
  PROVE  AInv'
<1> DEFINE r == Top.r
<1>1. /\ Rest \in Seq(Frames) /\ r \in Requests /\ PartsOnce(Rest)
      /\ Top.at \in Ending => ~IsEnding(Rest, r)
      /\ Top.at \in Opening => ~IsOpening(Rest, r)
      /\ \A p : /\ IsEnding(frames, p) <=>
                     IsEnding(Rest, p) \/ (r = p /\ Top.at \in Ending)
                /\ IsSettling(frames, p) <=>
                     IsSettling(Rest, p) \/ (r = p /\ Top.at = "settle")
  BY TopAndRest
<1>2. req'[r] = w
  BY <1>1 DEF AInv, AjaxShape
<1>3. /\ f.at \in Ending <=> Top.at \in Ending
      /\ f.at \in Opening <=> Top.at \in Opening
  BY DEF SamePart, Opening, Ending
<1> HIDE DEF r
<1>4. r = f.r /\ r = Top.r
  BY DEF r
<1>5. /\ frames' \in Seq(Frames) /\ FramesOk(frames', req', cut) /\ PartsOnce(frames')
  BY <1>1, <1>2, <1>3, <1>4, Pushed
<1>6. \A p : /\ IsEnding(frames', p) <=>
                  IsEnding(Rest, p) \/ (f.r = p /\ f.at \in Ending)
             /\ IsSettling(frames', p) <=>
                  IsSettling(Rest, p) \/ (f.r = p /\ f.at = "settle")
  BY <1>1, EndingsOfMore
<1>7. \A p \in Requests \ {r} : /\ IsEnding(frames', p) <=> IsEnding(frames, p)
                                /\ IsSettling(frames, p) => IsSettling(frames', p)
  BY <1>1, <1>4, <1>6
<1>8. UnderWay(r, w, frames', cut) <=> UnderWay(r, req[r], frames, cut)
  BY <1>1, <1>3, <1>4, <1>6 DEF UnderWay
<1> QED
  BY <1>1, <1>4, <1>5, <1>7, <1>8, RequestGoesOn

LEMMA AfterStartKeeps == ASSUME AInv, AfterStart PROVE AInv'
<1> DEFINE r == Top.r
           q == req[r]
           w == [q EXCEPT !.given = TRUE]
           f == [r |-> r, at |-> "beforeSend"]
<1>1. /\ frames # <<>> /\ Top.at = "ajaxStart" /\ frames' = Append(Rest, f)
      /\ req' = [req EXCEPT ![r] = w] /\ UNCHANGED <<active, cut>>
  BY DEF AfterStart
<1>2. /\ Rest \in Seq(Frames) /\ r \in Requests /\ q \in Variables
      /\ OfRequest(r, q, frames, cut) /\ FramesOk(Rest, req, cut)
      /\ FrameOk(Top, q, cut) /\ q.started /\ q.xhr = "none"
      /\ \A p : IsSettling(frames, p) <=>
                  IsSettling(Rest, p) \/ (r = p /\ Top.at = "settle")
  BY <1>1, TopAndRest DEF FrameOk, Opening
<1>3. f \in Frames /\ f.r = r /\ f.at = "beforeSend"
  BY <1>2 DEF Frames, Opening
<1>4. /\ w \in Variables /\ w.given = TRUE /\ w.started = q.started
      /\ w.timer = q.timer /\ w.completed = q.completed /\ w.xhr = q.xhr
      /\ w.completes = q.completes /\ w.added = q.added /\ w.told = q.told
      /\ w.state = q.state /\ w.global = q.global /\ w.transport = q.transport
  BY <1>2 DEF Variables
<1> HIDE DEF q, w, f
<1>5. FramesOk(Rest, req', cut)
  <2>1. req \in [Requests -> Variables] /\ q = req[r]
    BY DEF AInv, AjaxShape, q
  <2> QED
    BY <1>1, <1>2, <1>4, <2>1, Changed, ZenonT(40)
<1>6. FrameOk(f, w, cut) /\ SamePart(f.at, Top.at)
  BY <1>1, <1>2, <1>3, <1>4 DEF FrameOk, SamePart, Opening, Ending
<1>7. \A p : IsSettling(frames', p) <=>
               IsSettling(Rest, p) \/ (f.r = p /\ f.at = "settle")
  BY <1>1, <1>2, <1>3, EndingsOfMore
<1>8. OfRequest(r, w, frames', cut)
  <2>1. RequestOk(w)
    BY <1>2, <1>4 DEF OfRequest, RequestOk
  <2>2. IsSettling(frames, r) => IsSettling(frames', r)
    BY <1>1, <1>2, <1>7
  <2> QED
    BY <1>2, <1>4, <2>1, <2>2 DEF OfRequest, CompletesOrLeft
<1> QED
  BY <1>1, <1>3, <1>4, <1>5, <1>6, <1>8, TopReplaced DEF q
(* The top of the calls is not a done(): the others end the same requests. *)
LEMMA SameEndings ==
  ASSUME AInv, frames # <<>>, Top.at \notin Ending
  PROVE  \A p : /\ IsEnding(Rest, p) <=> IsEnding(frames, p)
                /\ IsSettling(Rest, p) <=> IsSettling(frames, p)
  BY TopAndRest DEF Ending

LEMMA AfterBeforeSendKeeps ==
  ASSUME AInv, NEW result \in BOOLEAN, AfterBeforeSend(result) PROVE AInv'
<1> DEFINE r == Top.r
           q == req[r]
           w == [q EXCEPT !.added = TRUE, !.transport = TRUE]
           f == [r |-> r, at |-> "ajaxSend"]
<1>1. /\ frames # <<>> /\ Top.at = "beforeSend" /\ UNCHANGED <<active, cut>>
  BY DEF AfterBeforeSend
<1>2. /\ Rest \in Seq(Frames) /\ r \in Requests /\ q \in Variables
      /\ OfRequest(r, q, frames, cut) /\ FramesOk(Rest, req, cut) /\ PartsOnce(Rest)
      /\ FrameOk(Top, q, cut) /\ q.started /\ q.xhr = "none"
      /\ \A p : IsSettling(frames, p) <=>
                  IsSettling(Rest, p) \/ (r = p /\ Top.at = "settle")
  BY <1>1, TopAndRest DEF FrameOk, Opening
<1>3. CASE abort(r, Rest)
  <2>1. Top.at \notin Ending
    BY <1>1 DEF Ending
  <2> QED
    BY <1>1, <1>2, <1>3, <2>1, SameEndings, AbortKeeps
<1>4. CASE /\ q.completed # "yes" /\ req' = [req EXCEPT ![r] = w]
           /\ frames' = Append(Rest, f)
  <2>1. f \in Frames /\ f.r = r /\ f.at = "ajaxSend"
    BY <1>2 DEF Frames, Opening
  <2>2. /\ w \in Variables /\ w.added = TRUE /\ w.transport = TRUE
        /\ w.given = q.given /\ w.started = q.started
        /\ w.timer = q.timer /\ w.completed = q.completed /\ w.xhr = q.xhr
        /\ w.completes = q.completes /\ w.told = q.told
        /\ w.state = q.state /\ w.global = q.global
    BY <1>2 DEF Variables
  <2> HIDE DEF q, w, f
  <2>3. FramesOk(Rest, req', cut)
    <3>1. req \in [Requests -> Variables] /\ q = req[r]
      BY DEF AInv, AjaxShape, q
    <3> QED
      BY <1>2, <1>4, <2>2, <3>1, Changed, ZenonT(40)
  <2>4. FrameOk(f, w, cut) /\ SamePart(f.at, Top.at)
    BY <1>1, <1>2, <2>1, <2>2 DEF FrameOk, SamePart, Opening, Ending
  <2>5. OfRequest(r, w, frames', cut)
    <3>1. RequestOk(w)
      BY <1>2, <1>4, <2>2 DEF OfRequest, RequestOk
    <3> QED
      BY <1>2, <1>4, <2>2, <3>1 DEF OfRequest, CompletesOrLeft
  <2> QED
    BY <1>1, <1>4, <2>1, <2>2, <2>3, <2>4, <2>5, TopReplaced DEF q
<1> QED
  BY <1>3, <1>4 DEF AfterBeforeSend

LEMMA AfterSendKeeps == ASSUME AInv, AfterSend PROVE AInv'
<1> DEFINE r == Top.r
           q == req[r]
           w == [q EXCEPT !.timer = q.timeout, !.completed = "no", !.xhr = "open"]
<1>1. /\ frames # <<>> /\ Top.at = "ajaxSend" /\ UNCHANGED <<active, cut>>
  BY DEF AfterSend
<1>2. /\ Rest \in Seq(Frames) /\ r \in Requests /\ q \in Variables
      /\ OfRequest(r, q, frames, cut) /\ FramesOk(Rest, req, cut) /\ PartsOnce(Rest)
      /\ FrameOk(Top, q, cut) /\ q.started /\ q.xhr = "none"
      /\ q.completed = "yes" \/ q.transport
      /\ ~IsOpening(Rest, r)
  BY <1>1, TopAndRest DEF FrameOk, Opening
<1>3. \A p : /\ IsEnding(Rest, p) <=> IsEnding(frames, p)
             /\ IsSettling(Rest, p) <=> IsSettling(frames, p)
  <2>1. Top.at \notin Ending
    BY <1>1 DEF Ending
  <2> QED
    BY <1>1, <2>1, SameEndings
<1>4. req \in [Requests -> Variables] /\ q = req[r] /\ RequestOk(q)
  BY <1>2 DEF AInv, AjaxShape, OfRequest
<1>5. CASE frames' = Rest /\ UNCHANGED req
  <2>1. req' = [req EXCEPT ![r] = q]
    BY <1>4, <1>5
  <2>2. OfRequest(r, q, frames', cut)
    BY <1>2, <1>3, <1>5 DEF OfRequest, CompletesOrLeft
  <2>3. UnderWay(r, q, frames', cut) <=> UnderWay(r, req[r], frames, cut)
    BY <1>3, <1>5 DEF UnderWay
  <2> HIDE DEF q
  <2>4. FramesOk(frames', req', cut)
    BY <1>2, <1>5
  <2> QED
    BY <1>1, <1>2, <1>3, <1>5, <2>1, <2>2, <2>3, <2>4, RequestGoesOn
<1>6. CASE q.completed # "yes" /\ done(r, q, 0, FALSE, Rest)
  <2>1. 0 \in Statuses /\ FALSE \in BOOLEAN
    BY DEF Statuses
  <2> HIDE DEF q
  <2>2. q.xhr # "open"
    BY <1>2
  <2> QED
    BY <1>1, <1>2, <1>3, <1>4, <1>6, <2>1, <2>2, DoneKeeps
<1>7. CASE q.completed # "yes" /\ frames' = Rest /\ req' = [req EXCEPT ![r] = w]
  <2>1. /\ w \in Variables /\ w.completed = "no" /\ w.xhr = "open"
        /\ w.started = q.started /\ w.given = q.given /\ w.added = q.added
        /\ w.completes = q.completes /\ w.told = q.told
        /\ w.state = q.state /\ w.global = q.global /\ w.transport = q.transport
    BY <1>2 DEF Variables
  <2> HIDE DEF q, w
  <2>2. FramesOk(frames', req', cut)
    BY <1>2, <1>4, <1>7, <2>1, Changed
  <2>3. RequestOk(w) /\ r \notin cut
    BY <1>2, <1>4, <1>7, <2>1 DEF OfRequest, RequestOk
  <2>4. OfRequest(r, w, frames', cut)
    BY <2>1, <2>3 DEF OfRequest, CompletesOrLeft
  <2>5. UnderWay(r, w, frames', cut) <=> UnderWay(r, req[r], frames, cut)
    BY <1>4, <1>7, <2>1 DEF UnderWay
  <2> QED
    BY <1>1, <1>2, <1>3, <1>7, <2>1, <2>2, <2>4, <2>5, RequestGoesOn
<1> QED
  BY <1>5, <1>6, <1>7 DEF AfterSend

LEMMA AfterSettleKeeps == ASSUME AInv, AfterSettle PROVE AInv'
<1> DEFINE r == Top.r
           q == req[r]
           completes == IF q.added THEN q.completes + 1 ELSE q.completes
           w == [q EXCEPT !.completes = completes]
           f == [r |-> r, at |-> "complete"]
<1>1. /\ frames # <<>> /\ Top.at = "settle" /\ frames' = Append(Rest, f)
      /\ UNCHANGED <<active, cut>>
  BY DEF AfterSettle
<1>2. /\ Rest \in Seq(Frames) /\ r \in Requests /\ q \in Variables
      /\ OfRequest(r, q, frames, cut) /\ FramesOk(Rest, req, cut)
      /\ q.started /\ q.completed = "yes" /\ r \notin cut /\ q.completes = 0
      /\ ~IsEnding(Rest, r)
  BY <1>1, TopAndRest DEF FrameOk, Ending
<1>3. f \in Frames /\ f.r = r /\ f.at = "complete"
  BY <1>2 DEF Frames, Ending
<1>4. completes = (IF q.added THEN 1 ELSE 0) /\ completes \in Nat
  BY <1>2
<1>5. req' = [req EXCEPT ![r] = w]
  BY DEF AfterSettle
<1> HIDE DEF completes
<1>6. /\ w \in Variables /\ w.completes = completes
      /\ w.given = q.given /\ w.started = q.started
      /\ w.timer = q.timer /\ w.completed = q.completed /\ w.xhr = q.xhr
      /\ w.added = q.added /\ w.told = q.told
      /\ w.state = q.state /\ w.global = q.global /\ w.transport = q.transport
  BY <1>2, <1>4 DEF Variables
<1> HIDE DEF q, w, f
<1>7. FramesOk(Rest, req', cut)
  <2>1. req \in [Requests -> Variables] /\ q = req[r]
    BY DEF AInv, AjaxShape, q
  <2>2. ~IsSettling(Rest, r)
    BY <1>2, SettlesAreEndings
  <2> QED
    BY <1>2, <1>5, <1>6, <2>1, <2>2, Changed
<1>8. FrameOk(f, w, cut) /\ SamePart(f.at, Top.at)
  BY <1>1, <1>2, <1>3, <1>6 DEF FrameOk, SamePart, Opening, Ending
<1>9. OfRequest(r, w, frames', cut)
  <2>1. RequestOk(w)
    BY <1>2, <1>4, <1>6 DEF OfRequest, RequestOk
  <2> QED
    BY <1>2, <1>4, <1>6, <2>1 DEF OfRequest, CompletesOrLeft
<1> QED
  BY <1>1, <1>3, <1>5, <1>6, <1>7, <1>8, <1>9, TopReplaced DEF q
(* A global request is counted, and counted down.                          *)
LEMMA CountedThen ==
  ASSUME AInv, AjaxShape'
  PROVE  /\ Counted = {p \in Requests : UnderWay(p, req[p], frames, cut)}
         /\ Counted' = {p \in Requests : UnderWay(p, req'[p], frames', cut')}
         /\ IsFiniteSet(Counted) /\ active \in Nat
<1>1. DOMAIN frames = 1..Len(frames) /\ DOMAIN frames' = 1..Len(frames')
  BY DEF AInv, AjaxShape
<1>2. Counted = {p \in Requests : UnderWay(p, req[p], frames, cut)}
  BY <1>1 DEF Counted, UnderWay, IsEnding, Ending
<1>3. Counted' = {p \in Requests : UnderWay(p, req'[p], frames', cut')}
  BY <1>1 DEF Counted, UnderWay, IsEnding, Ending
<1>4. IsFiniteSet(Counted)
  BY AjaxConstants, FS_Subset DEF Counted
<1>5. active \in Nat
  BY <1>4, FS_CardinalityType DEF AInv
<1> QED
  BY <1>2, <1>3, <1>4, <1>5

LEMMA AjaxKeeps ==
  ASSUME AInv, NEW r \in Requests, NEW g \in BOOLEAN, NEW t \in BOOLEAN,
         NEW d \in DataTypes, ajax(r, g, t, d)
  PROVE  AInv'
<1> DEFINE q == req[r]
           given == ~(g /\ active = 0)
           at == IF g /\ active = 0 THEN "ajaxStart" ELSE "beforeSend"
           w == [q EXCEPT !.started = TRUE, !.global = g, !.given = given,
                          !.timeout = t, !.dataType = d]
           f == [r |-> r, at |-> at]
<1>1. /\ ~q.started /\ req' = [req EXCEPT ![r] = w] /\ frames' = Append(frames, f)
      /\ active' = (IF g THEN active + 1 ELSE active) /\ UNCHANGED cut
  BY DEF ajax
<1>2. /\ q \in Variables /\ OfRequest(r, q, frames, cut)
      /\ req \in [Requests -> Variables] /\ frames \in Seq(Frames)
      /\ FramesOk(frames, req, cut) /\ PartsOnce(frames)
  BY DEF AInv, AjaxShape
<1>3. given \in BOOLEAN /\ at \in Opening /\ at # "ajaxSend"
  BY DEF Opening
<1> HIDE DEF given, at
<1>4. /\ w \in Variables /\ w.started = TRUE /\ w.global = g
      /\ w.timer = q.timer /\ w.completed = q.completed /\ w.xhr = q.xhr
      /\ w.added = q.added /\ w.told = q.told /\ w.completes = q.completes
      /\ w.state = q.state /\ w.transport = q.transport
  BY <1>2, <1>3, ZenonT(40) DEF Variables
<1>5. f \in Frames /\ f.r = r /\ f.at = at
  BY <1>3 DEF Frames
<1>6. q = req[r]
  OBVIOUS
<1> HIDE DEF q, w, f
<1>7. /\ q.completed = "undefined" /\ q.xhr = "none" /\ r \notin cut
  BY <1>1, <1>2 DEF OfRequest, RequestOk
<1>8. ~IsEnding(frames, r) /\ ~IsOpening(frames, r)
  BY <1>1, <1>2, <1>6, <1>7, NoFrameOf
<1>9. FramesOk(frames, req', cut)
  BY <1>1, <1>2, <1>4, <1>6, Changed
<1>10. /\ req'[r] = w /\ \A p \in Requests \ {r} : req'[p] = req[p]
       /\ req' \in [Requests -> Variables]
  BY <1>1, <1>2, <1>4
<1>11. FrameOk(f, req'[f.r], cut)
  BY <1>3, <1>4, <1>5, <1>7, <1>10 DEF FrameOk, Opening, Ending
<1>12. /\ frames' \in Seq(Frames) /\ FramesOk(frames', req', cut) /\ PartsOnce(frames')
  BY <1>1, <1>2, <1>5, <1>8, <1>9, <1>11, Pushed
<1>13. AjaxShape'
  BY <1>1, <1>10, <1>12 DEF AInv, AjaxShape
<1>14. \A p : /\ IsEnding(frames', p) <=> IsEnding(frames, p)
              /\ IsSettling(frames', p) <=> IsSettling(frames, p)
  <2>1. f.at \notin Ending /\ f.at # "settle"
    BY <1>3, <1>5 DEF Opening, Ending
  <2> QED
    BY <1>1, <1>2, <1>5, <2>1, EndingsOfMore
<1>15. ASSUME NEW p \in Requests PROVE OfRequest(p, req'[p], frames', cut')
  <2>1. CASE p = r
    <3>1. RequestOk(w)
      BY <1>1, <1>2, <1>4, <1>7 DEF OfRequest, RequestOk
    <3> QED
      BY <1>1, <1>4, <1>7, <1>10, <2>1, <3>1 DEF OfRequest, CompletesOrLeft
  <2>2. CASE p # r
    <3>1. OfRequest(p, req[p], frames, cut) /\ req'[p] = req[p]
      BY <1>10, <2>2 DEF AInv
    <3> QED
      BY <1>1, <1>14, <3>1 DEF OfRequest, CompletesOrLeft
  <2> QED
    BY <2>1, <2>2
<1>16. /\ ~UnderWay(r, req[r], frames, cut)
       /\ UnderWay(r, req'[r], frames', cut') <=> g
  BY <1>1, <1>4, <1>6, <1>7, <1>10 DEF UnderWay
<1>17. \A p \in Requests \ {r} :
         UnderWay(p, req'[p], frames', cut') <=> UnderWay(p, req[p], frames, cut)
  BY <1>1, <1>10, <1>14 DEF UnderWay
<1>18. active' = Cardinality(Counted')
  <2>1. /\ Counted = {p \in Requests : UnderWay(p, req[p], frames, cut)}
        /\ Counted' = {p \in Requests : UnderWay(p, req'[p], frames', cut')}
        /\ IsFiniteSet(Counted) /\ active \in Nat
    BY <1>13, CountedThen
  <2>2. r \notin Counted /\ Counted' = IF g THEN Counted \cup {r} ELSE Counted
    BY <1>16, <1>17, <2>1
  <2>3. active = Cardinality(Counted)
    BY DEF AInv
  <2>4. Cardinality(Counted \cup {r}) = Cardinality(Counted) + 1
    BY <2>1, <2>2, FS_AddElement
  <2> QED
    BY <1>1, <2>2, <2>3, <2>4
<1> QED
  BY <1>1, <1>12, <1>13, <1>15, <1>18 DEF AInv

LEMMA AfterCompleteKeeps == ASSUME AInv, AfterComplete PROVE AInv'
<1> DEFINE r == Top.r
           q == req[r]
           f == [r |-> r, at |-> "ajaxStop"]
<1>1. /\ frames # <<>> /\ Top.at = "complete" /\ UNCHANGED <<req, cut>>
      /\ active' = (IF q.global THEN active - 1 ELSE active)
      /\ frames' = Append(Rest, f) \/ frames' = Rest
  BY DEF AfterComplete
<1>2. /\ Rest \in Seq(Frames) /\ r \in Requests
      /\ FramesOk(Rest, req, cut) /\ PartsOnce(Rest)
      /\ q.started /\ q.completed = "yes" /\ r \notin cut /\ ~IsEnding(Rest, r)
      /\ \A p : /\ IsEnding(frames, p) <=> IsEnding(Rest, p) \/ r = p
                /\ IsSettling(frames, p) <=> IsSettling(Rest, p)
  BY <1>1, TopAndRest DEF FrameOk, Ending
<1>3. f \in Frames /\ f.r = r /\ f.at = "ajaxStop"
  BY <1>2 DEF Frames
<1>4. q = req[r]
  OBVIOUS
<1> HIDE DEF q, f
<1>5. /\ frames' \in Seq(Frames) /\ FramesOk(frames', req, cut) /\ PartsOnce(frames')
      /\ \A p : /\ IsEnding(frames', p) <=> IsEnding(Rest, p)
                /\ IsSettling(frames', p) <=> IsSettling(Rest, p)
  <2>1. CASE frames' = Rest
    BY <1>2, <2>1
  <2>2. CASE frames' = Append(Rest, f)
    <3>1. f.at \notin Ending /\ f.at \notin Opening /\ f.at # "settle"
      BY <1>3 DEF Opening, Ending
    <3>2. FrameOk(f, req[f.r], cut)
      BY <1>2, <1>3, <1>4, <3>1 DEF FrameOk, Opening
    <3>3. /\ frames' \in Seq(Frames) /\ FramesOk(frames', req, cut) /\ PartsOnce(frames')
      BY <1>2, <1>3, <2>2, <3>1, <3>2, Pushed
    <3>4. \A p : /\ IsEnding(frames', p) <=> IsEnding(Rest, p)
                 /\ IsSettling(frames', p) <=> IsSettling(Rest, p)
      BY <1>2, <1>3, <2>2, <3>1, EndingsOfMore
    <3> QED
      BY <3>3, <3>4
  <2> QED
    BY <1>1, <2>1, <2>2
<1>6. AjaxShape'
  BY <1>1, <1>5 DEF AInv, AjaxShape
<1>7. ASSUME NEW p \in Requests PROVE OfRequest(p, req'[p], frames', cut')
  <2>1. OfRequest(p, req[p], frames, cut)
    BY DEF AInv
  <2> QED
    BY <1>1, <1>2, <1>5, <2>1 DEF OfRequest, CompletesOrLeft
<1>8. /\ UnderWay(r, req[r], frames, cut) <=> q.global
      /\ ~UnderWay(r, req'[r], frames', cut')
  BY <1>1, <1>2, <1>4, <1>5 DEF UnderWay
<1>9. \A p \in Requests \ {r} :
        UnderWay(p, req'[p], frames', cut') <=> UnderWay(p, req[p], frames, cut)
  BY <1>1, <1>2, <1>5 DEF UnderWay
<1>10. active' = Cardinality(Counted')
  <2>1. /\ Counted = {p \in Requests : UnderWay(p, req[p], frames, cut)}
        /\ Counted' = {p \in Requests : UnderWay(p, req'[p], frames', cut')}
        /\ IsFiniteSet(Counted) /\ active \in Nat
    BY <1>6, CountedThen
  <2>2. active = Cardinality(Counted)
    BY DEF AInv
  <2>3. CASE q.global
    <3>1. r \in Counted /\ Counted' = Counted \ {r}
      BY <1>2, <1>8, <1>9, <2>1, <2>3
    <3>2. Cardinality(Counted \ {r}) = Cardinality(Counted) - 1
      BY <2>1, <3>1, FS_RemoveElement
    <3> QED
      BY <1>1, <2>2, <2>3, <3>1, <3>2
  <2>4. CASE ~q.global
    <3>1. Counted' = Counted
      BY <1>2, <1>8, <1>9, <2>1, <2>4
    <3> QED
      BY <1>1, <2>2, <2>4, <3>1
  <2> QED
    BY <2>3, <2>4
<1> QED
  BY <1>1, <1>5, <1>6, <1>7, <1>10 DEF AInv

LEMMA AfterStopKeeps == ASSUME AInv, AfterStop PROVE AInv'
<1>1. /\ frames # <<>> /\ Top.at = "ajaxStop" /\ frames' = Rest
      /\ UNCHANGED <<req, active, cut>>
  BY DEF AfterStop
<1>2. Rest \in Seq(Frames) /\ FramesOk(Rest, req, cut) /\ PartsOnce(Rest)
  BY <1>1, TopAndRest
<1>3. \A p : /\ IsEnding(Rest, p) <=> IsEnding(frames, p)
             /\ IsSettling(Rest, p) <=> IsSettling(frames, p)
  BY <1>1, SameEndings DEF Ending
<1>4. AjaxShape'
  BY <1>1, <1>2 DEF AInv, AjaxShape
<1>5. \A p \in Requests : OfRequest(p, req'[p], frames', cut')
  BY <1>1, <1>3 DEF AInv, OfRequest, CompletesOrLeft
<1>6. active' = Cardinality(Counted')
  <2>1. \A p \in Requests : UnderWay(p, req'[p], frames', cut')
                              <=> UnderWay(p, req[p], frames, cut)
    BY <1>1, <1>3 DEF UnderWay
  <2> QED
    BY <1>1, <1>4, <2>1, SameUnderWay
<1> QED
  BY <1>1, <1>2, <1>4, <1>5, <1>6 DEF AInv

LEMMA PageThrowsKeeps == ASSUME AInv, PageThrows PROVE AInv'
<1>1. /\ frames' = <<>> /\ UNCHANGED <<req, active>>
      /\ cut' = cut \cup {f.r : f \in {x \in ToSet(frames) : x.at \in {"settle", "complete"}}}
  BY DEF PageThrows
<1>2. /\ frames \in Seq(Frames) /\ DOMAIN frames = 1..Len(frames)
      /\ \A i \in 1..Len(frames) : frames[i] \in Frames /\ FrameOk(frames[i], req[frames[i].r], cut)
  BY DEF AInv, AjaxShape, FramesOk
<1>3. \A p : p \in cut' <=> p \in cut \/ IsEnding(frames, p)
  BY <1>1, <1>2 DEF ToSet, IsEnding, Ending
<1>4. \A p : IsEnding(frames, p) => p \in Requests /\ req[p].completed = "yes"
  BY <1>2 DEF IsEnding, Frames, FrameOk
<1>5. /\ frames' \in Seq(Frames) /\ FramesOk(frames', req', cut') /\ PartsOnce(frames')
      /\ \A p : ~IsEnding(frames', p)
  <2>1. frames' \in Seq(Frames) /\ Len(frames') = 0 /\ \A i : i \notin 1..Len(frames')
    BY <1>1
  <2> QED
    BY <2>1 DEF FramesOk, PartsOnce, IsEnding
<1>6. AjaxShape'
  BY <1>1, <1>3, <1>4, <1>5 DEF AInv, AjaxShape
<1>7. ASSUME NEW p \in Requests PROVE OfRequest(p, req'[p], frames', cut')
  <2>1. OfRequest(p, req[p], frames, cut)
    BY DEF AInv
  <2>2. IsSettling(frames, p) => IsEnding(frames, p)
    BY SettlesAreEndings
  <2> QED
    BY <1>1, <1>3, <1>4, <2>1, <2>2 DEF OfRequest, CompletesOrLeft
<1>8. active' = Cardinality(Counted')
  <2>1. \A p \in Requests : UnderWay(p, req'[p], frames', cut')
                              <=> UnderWay(p, req[p], frames, cut)
    BY <1>1, <1>3, <1>5 DEF UnderWay
  <2> QED
    BY <1>1, <1>6, <2>1, SameUnderWay
<1> QED
  BY <1>5, <1>6, <1>7, <1>8 DEF AInv

LEMMA AjaxStarts == AInit => AInv
<1> SUFFICES ASSUME AInit PROVE AInv
  OBVIOUS
<1>1. NoRequest \in Variables /\ RequestOk(NoRequest) /\ ~NoRequest.started
  BY DEF NoRequest, Variables, RequestOk, DataTypes, Statuses
<1>2. /\ req = [r \in Requests |-> NoRequest] /\ frames = <<>> /\ active = 0 /\ cut = {}
  BY DEF AInit
<1>3. frames \in Seq(Frames) /\ \A i : i \notin 1..Len(frames)
  BY <1>2
<1>4. AjaxShape /\ FramesOk(frames, req, cut) /\ PartsOnce(frames)
  BY <1>1, <1>2, <1>3 DEF AjaxShape, FramesOk, PartsOnce
<1>5. \A r \in Requests : OfRequest(r, req[r], frames, cut)
  BY <1>1, <1>2 DEF OfRequest, CompletesOrLeft, RequestOk
<1>6. Counted = {}
  BY <1>1, <1>2 DEF Counted
<1> QED
  BY <1>2, <1>4, <1>5, <1>6, FS_EmptySet DEF AInv

LEMMA AjaxStep == AInv /\ [ANext]_aVars => AInv'
<1> SUFFICES ASSUME AInv, [ANext]_aVars PROVE AInv'
  OBVIOUS
<1>1. CASE UNCHANGED aVars
  BY <1>1 DEF aVars, AInv, AjaxShape, Counted
<1> QED
  BY <1>1, AjaxKeeps, AnswerKeeps, ThePagesAborts, AfterStartKeeps,
     AfterBeforeSendKeeps, AfterSendKeeps, AfterSettleKeeps, AfterCompleteKeeps,
     AfterStopKeeps, PageThrowsKeeps DEF ANext

(* However answers, timeouts, aborts and the page's code meet, also when   *)
(* that code asks, aborts or throws inside the calls it gets, done() runs  *)
(* once for a request, calls its callbacks in order, leaves nothing that   *)
(* could fire, and active counts the requests under way.                   *)
THEOREM RequestsEnd == ASpec => []RequestsEndOnce
<1>1. AInv => RequestsEndOnce
  <2> SUFFICES ASSUME AInv PROVE RequestsEndOnce
    OBVIOUS
  <2>1. ASSUME NEW r \in Requests
        PROVE  LET q == req[r] IN
               /\ q.completes <= q.told /\ q.told <= 1
               /\ (q.state = "pending") = (q.completed # "yes")
               /\ q.completed = "yes" => ~q.timer /\ q.xhr # "open" /\ ~q.transport
               /\ frames = <<>> /\ r \notin cut /\ q.completed = "yes" /\ q.added =>
                    q.completes = 1
    <3>1. /\ req[r] \in Variables /\ RequestOk(req[r])
          /\ CompletesOrLeft(r, req[r], frames, cut)
      BY DEF AInv, AjaxShape, OfRequest
    <3>2. req[r].told \in Nat /\ req[r].completes \in Nat /\ req[r].told <= 1
      BY <3>1 DEF Variables, RequestOk
    <3>3. frames = <<>> => ~IsSettling(frames, r)
      BY DEF IsSettling
    <3>4. ASSUME frames = <<>>, r \notin cut, req[r].completed = "yes", req[r].added
          PROVE  req[r].completes = 1
      <4>1. req[r].told = 1 /\ req[r].completes # 0 /\ req[r].completes <= 1
        BY <3>1, <3>3, <3>4 DEF RequestOk, CompletesOrLeft
      <4> QED
        BY <3>2, <4>1
    <3> QED
      BY <3>1, <3>2, <3>4 DEF RequestOk
  <2> QED
    BY <2>1 DEF RequestsEndOnce, AInv
<1> QED
  BY <1>1, AjaxStarts, AjaxStep, PTL DEF ASpec
-----------------------------------------------------------------------------
(******************************** events ***********************************)
Handlers    == [id : 1..MaxHandlers, selector : {Direct} \cup Elements,
                namespace : Namespaces, one : BOOLEAN]
Lists       == [list : Seq(Handlers), delegateCount : Nat]
DueHandlers == [at : Elements, of : Elements, h : Handlers]
Dispatches  == [target : Elements, namespace : Namespaces, path : Seq(Elements),
                queue : Seq(DueHandlers), at : Nat, running : 0..MaxHandlers,
                stopped : BOOLEAN, immediate : BOOLEAN]

HasId(l, id) == \E i \in 1..Len(l) : l[i].id = id

(* The delegated handlers come first, and every handler once.              *)
InOrder(of) ==
  /\ of \in Lists /\ of.delegateCount <= Len(of.list)
  /\ \A i \in 1..Len(of.list) :
       of.list[i].selector # Direct <=> i <= of.delegateCount
  /\ \A i, j \in 1..Len(of.list) : of.list[i].id = of.list[j].id => i = j

(* A handler of one() that is there has not run.                           *)
NotRunYet(l, once, n, r) ==
  \A i \in 1..Len(l) : /\ l[i].id <= n /\ (l[i].one <=> l[i].id \in once)
                       /\ l[i].one => r[l[i].id] = 0

(* A handler that waits in a queue is on no other element than the one it  *)
(* came from, and if it is of one() and has run, it was overtaken.         *)
QueueOk(q, hs, once, n, r, over) ==
  /\ \A i \in 1..Len(q) :
       /\ q[i].h.id <= n /\ (q[i].h.one <=> q[i].h.id \in once)
       /\ q[i].h.one /\ r[q[i].h.id] > 0 => q[i].h.id \in over
       /\ \A e \in Elements : HasId(hs[e].list, q[i].h.id) => e = q[i].of
  /\ \A i, j \in 1..Len(q) : q[i].h.id = q[j].h.id => i = j

EShape ==
  /\ handlers \in [Elements -> Lists] /\ listening \in [Elements -> BOOLEAN]
  /\ dispatches \in Seq(Dispatches) /\ added \in 0..MaxHandlers
  /\ ran \in [1..MaxHandlers -> Nat] /\ ones \in SUBSET (1..added)

ElementOk(e) ==
  /\ InOrder(handlers[e]) /\ NotRunYet(handlers[e].list, ones, added, ran)
  /\ listening[e] <=> handlers[e].list # <<>>

OnOneElement(hs) ==
  \A e, f \in Elements : \A id \in 1..MaxHandlers :
    HasId(hs[e].list, id) /\ HasId(hs[f].list, id) => e = f

RunsOk ==
  \A id \in 1..MaxHandlers : /\ id > added => ran[id] = 0
                             /\ id \in ones /\ ran[id] > 1 => id \in overtaken

(* Every handler is on one list at most, in its place there, and one of    *)
(* one() only until it runs; those that wait to be run are as QueueOk says. *)
EInv ==
  /\ EShape /\ (\A e \in Elements : ElementOk(e)) /\ OnOneElement(handlers) /\ RunsOk
  /\ \A i \in 1..Len(dispatches) :
       QueueOk(dispatches[i].queue, handlers, ones, added, ran, overtaken)
-----------------------------------------------------------------------------
LEMMA Joined ==
  ASSUME NEW S, NEW b \in Seq(S), NEW c \in Seq(S), NEW bc, bc = b \o c
  PROVE  /\ bc \in Seq(S) /\ Len(bc) = Len(b) + Len(c)
         /\ \A i \in 1..Len(b) : bc[i] = b[i]
         /\ \A i \in 1..Len(c) : bc[i + Len(b)] = c[i]
<1>1. Len(b) \in Nat /\ Len(c) \in Nat /\ b \o c \in Seq(S)
  OBVIOUS
<1>2. Len(b \o c) = Len(b) + Len(c)
  OBVIOUS
<1>3. \A i \in 1..(Len(b) + Len(c)) :
        (b \o c)[i] = IF i <= Len(b) THEN b[i] ELSE c[i - Len(b)]
  OBVIOUS
<1>4. ASSUME NEW i \in 1..Len(c) PROVE (b \o c)[i + Len(b)] = c[i]
  <2> DEFINE p == Len(b)
             r == Len(c)
             j == i + p
  <2>1. p \in Nat /\ r \in Nat /\ i \in 1..r
    BY <1>1
  <2> HIDE DEF p, r
  <2>2. j \in 1..(p + r) /\ ~(j <= p) /\ j - p = i
    BY <2>1
  <2> QED
    BY <1>3, <2>2 DEF p, r
<1> QED
  BY <1>1, <1>2, <1>3, <1>4

Insertion(s, k, x, l) ==
  /\ l \in Seq(Handlers) /\ Len(l) = Len(s) + 1 /\ l[k + 1] = x
  /\ \A i \in 1..k : l[i] = s[i]
  /\ \A i \in (k + 2)..(Len(s) + 1) : l[i] = s[i - 1]

LEMMA Inserted ==
  \A s \in Seq(Handlers), x \in Handlers : \A k \in 0..Len(s) :
    Insertion(s, k, x, InsertAt(s, k + 1, x))
<1> SUFFICES ASSUME NEW s \in Seq(Handlers), NEW x \in Handlers, NEW k \in 0..Len(s),
                    NEW l, l = InsertAt(s, k + 1, x)
             PROVE  Insertion(s, k, x, l)
  OBVIOUS
<1> DEFINE S == Handlers
<1> DEFINE a == SubSeq(s, 1, k)
           c == SubSeq(s, k + 1, Len(s))
           n == Len(s)
<1>1. n \in Nat /\ k \in Nat /\ k <= n /\ \A i \in 1..n : s[i] \in S
  OBVIOUS
<1>2. /\ a \in Seq(S) /\ Len(a) = k /\ \A i \in 1..k : a[i] = s[i]
  <2>1. a \in Seq(S) /\ DOMAIN a = 1..k /\ \A i \in 1..k : a[i] = s[i]
    BY <1>1
  <2> QED
    BY <1>1, <2>1
<1>3. /\ c \in Seq(S) /\ Len(c) = n - k /\ \A i \in 1..(n - k) : c[i] = s[i + k]
  <2>1. c \in Seq(S) /\ DOMAIN c = 1..(n - k) /\ \A i \in 1..(n - k) : c[i] = s[i + k]
    BY <1>1
  <2>2. DOMAIN c = 1..Len(c) /\ Len(c) \in Nat
    BY <2>1
  <2> QED
    BY <1>1, <2>1, <2>2
<1>4. l = (a \o <<x>>) \o c
  <2>1. (k + 1) - 1 = k
    BY <1>1
  <2> QED
    BY <2>1 DEF InsertAt
<1> HIDE DEF a, c
<1> DEFINE b == a \o <<x>>
<1>5. /\ b \in Seq(S) /\ Len(b) = k + 1 /\ b[k + 1] = x
      /\ \A i \in 1..k : b[i] = s[i]
  BY <1>1, <1>2
<1> HIDE DEF b, n
<1> DEFINE bc == b \o c
<1>6. /\ bc \in Seq(S) /\ Len(bc) = (k + 1) + (n - k)
      /\ \A i \in 1..(k + 1) : bc[i] = b[i]
      /\ \A i \in 1..(n - k) : bc[i + (k + 1)] = c[i]
  <2>1. /\ bc \in Seq(S) /\ Len(bc) = Len(b) + Len(c)
        /\ \A i \in 1..Len(b) : bc[i] = b[i]
        /\ \A i \in 1..Len(c) : bc[i + Len(b)] = c[i]
    <3>1. b \in Seq(S) /\ c \in Seq(S) /\ bc = b \o c
      BY <1>3, <1>5
    <3> HIDE DEF bc
    <3> QED
      BY <3>1, Joined
  <2> HIDE DEF bc
  <2>2. Len(b) = k + 1 /\ Len(c) = n - k
    BY <1>3, <1>5
  <2> QED
    BY <2>1, <2>2, Zenon
<1> HIDE DEF bc
<1>7. \A i \in (k + 2)..(n + 1) : /\ i - (k + 1) \in 1..(n - k)
                                  /\ (i - (k + 1)) + k = i - 1
                                  /\ (i - (k + 1)) + (k + 1) = i
  BY <1>1
<1>8. /\ bc[k + 1] = x /\ Len(bc) = n + 1
      /\ \A i \in 1..k : bc[i] = s[i]
  <2>1. k + 1 \in 1..(k + 1) /\ (k + 1) + (n - k) = n + 1
    BY <1>1
  <2>2. bc[k + 1] = x /\ Len(bc) = n + 1
    BY <1>5, <1>6, <2>1
  <2>3. \A i \in 1..k : i \in 1..(k + 1)
    BY <1>1
  <2>4. ASSUME NEW i \in 1..k PROVE bc[i] = s[i]
    <3>1. bc[i] = b[i]
      BY <1>6, <2>3
    <3> QED
      BY <1>5, <3>1
  <2> QED
    BY <2>2, <2>4
<1>9. ASSUME NEW i \in (k + 2)..(n + 1) PROVE bc[i] = s[i - 1]
  <2> DEFINE j == i - (k + 1)
  <2>1. j \in 1..(n - k) /\ j + k = i - 1 /\ j + (k + 1) = i
    BY <1>7
  <2> HIDE DEF j
  <2>2. bc[j + (k + 1)] = c[j] /\ c[j] = s[j + k]
    BY <1>3, <1>6, <2>1
  <2> QED
    BY <2>1, <2>2
<1> QED
  BY <1>4, <1>6, <1>8, <1>9 DEF b, bc, n, Insertion

(* A handler more.                                                         *)
Grown(of, h, new) ==
  /\ InOrder(new) /\ new.list # <<>>
  /\ \A i \in 1..Len(new.list) :
       new.list[i] = h \/ \E j \in 1..Len(of.list) : new.list[i] = of.list[j]

LEMMA HandlerAdded ==
  \A of \in Lists, h \in Handlers :
    InOrder(of) /\ ~HasId(of.list, h.id) => Grown(of, h, WithHandler(of, h))
<1> SUFFICES ASSUME NEW of \in Lists, InOrder(of), NEW h \in Handlers,
                    ~HasId(of.list, h.id), NEW new, new = WithHandler(of, h)
             PROVE  Grown(of, h, new)
  OBVIOUS
<1> DEFINE s == of.list
           n == Len(s)
           k == IF h.selector = Direct THEN n ELSE of.delegateCount
           l == new.list
<1>1. /\ s \in Seq(Handlers) /\ n \in Nat /\ of \in Lists
      /\ of.delegateCount \in 0..n /\ k \in 0..n
      /\ \A i \in 1..n : s[i].selector # Direct <=> i <= of.delegateCount
      /\ \A i, j \in 1..n : s[i].id = s[j].id => i = j
      /\ \A i \in 1..n : s[i].id # h.id
  BY DEF InOrder, Lists, HasId
<1>2. /\ new = [list |-> l, delegateCount |-> new.delegateCount]
      /\ l \in Seq(Handlers) /\ Len(l) = n + 1 /\ l[k + 1] = h
      /\ \A i \in 1..k : l[i] = s[i]
      /\ \A i \in (k + 2)..(n + 1) : l[i] = s[i - 1]
      /\ new.delegateCount = IF h.selector = Direct THEN of.delegateCount
                             ELSE of.delegateCount + 1
  <2>1. CASE h.selector = Direct
    <3>1. new = [list |-> Append(s, h), delegateCount |-> of.delegateCount]
      BY <1>1, <2>1 DEF Lists, WithHandler
    <3>2. /\ Append(s, h) \in Seq(Handlers) /\ Len(Append(s, h)) = n + 1
          /\ Append(s, h)[n + 1] = h /\ \A i \in 1..n : Append(s, h)[i] = s[i]
      BY <1>1, OneMore
    <3>3. \A i \in (n + 2)..(n + 1) : FALSE
      BY <1>1
    <3> QED
      BY <2>1, <3>1, <3>2, <3>3
  <2>2. CASE h.selector # Direct
    <3> DEFINE m == InsertAt(s, of.delegateCount + 1, h)
    <3>1. new = [list |-> m, delegateCount |-> of.delegateCount + 1]
      BY <2>2 DEF WithHandler
    <3>2. /\ m \in Seq(Handlers) /\ Len(m) = n + 1 /\ m[of.delegateCount + 1] = h
          /\ \A i \in 1..of.delegateCount : m[i] = s[i]
          /\ \A i \in (of.delegateCount + 2)..(n + 1) : m[i] = s[i - 1]
      <4>1. Insertion(s, of.delegateCount, h, m)
        BY <1>1, Inserted, Zenon
      <4> QED
        BY <4>1 DEF Insertion
    <3> HIDE DEF m
    <3> QED
      BY <2>2, <3>1, <3>2
  <2> QED
    BY <2>1, <2>2
<1> HIDE DEF l, s, n, k
<1>3. \A i \in 1..(n + 1) : \/ i \in 1..k /\ i \in 1..n /\ l[i] = s[i]
                            \/ i = k + 1 /\ l[i] = h
                            \/ i \in (k + 2)..(n + 1) /\ i - 1 \in 1..n /\ l[i] = s[i - 1]
  BY <1>1, <1>2
<1>4. new.delegateCount \in Nat /\ new.delegateCount <= n + 1
  BY <1>1, <1>2
<1>5. ASSUME NEW i \in 1..(n + 1)
      PROVE  l[i].selector # Direct <=> i <= new.delegateCount
  <2>1. CASE h.selector = Direct
    <3>1. k = n /\ new.delegateCount = of.delegateCount
      BY <1>2, <2>1 DEF k
    <3> QED
      BY <1>1, <1>3, <2>1, <3>1
  <2>2. CASE h.selector # Direct
    <3>1. k = of.delegateCount /\ new.delegateCount = of.delegateCount + 1
      BY <1>2, <2>2 DEF k
    <3> QED
      BY <1>1, <1>3, <2>2, <3>1, SMTT(25)
  <2> QED
    BY <2>1, <2>2
<1>6. ASSUME NEW i \in 1..(n + 1), NEW j \in 1..(n + 1), l[i].id = l[j].id
      PROVE  i = j
  <2>1. k \in Nat
    BY <1>1
  <2> DEFINE Was(x, p) == /\ l[x].id = s[p].id /\ p \in 1..n
                          /\ x = IF p <= k THEN p ELSE p + 1
  <2>2. ASSUME NEW x \in 1..(n + 1)
        PROVE  (x = k + 1 /\ l[x].id = h.id) \/ \E p \in 1..n : Was(x, p)
    <3>1. CASE x \in 1..k /\ x \in 1..n /\ l[x] = s[x]
      <4>1. Was(x, x)
        BY <3>1
      <4> QED
        BY <3>1, <4>1
    <3>2. CASE x \in (k + 2)..(n + 1) /\ x - 1 \in 1..n /\ l[x] = s[x - 1]
      <4>1. ~(x - 1 <= k) /\ x = (x - 1) + 1
        BY <2>1, <3>2
      <4>2. Was(x, x - 1)
        BY <3>2, <4>1
      <4> QED
        BY <3>2, <4>2
    <3> QED
      BY <1>3, <3>1, <3>2
  <2>3. \A p \in 1..n : s[p].id # h.id
    BY <1>1
  <2>4. CASE i = k + 1 \/ j = k + 1
    <3>1. \A x \in 1..(n + 1) : l[x].id = h.id => x = k + 1
      BY <2>2, <2>3
    <3>2. l[k + 1].id = h.id
      BY <1>2
    <3> QED
      BY <1>6, <2>4, <3>1, <3>2
  <2>5. CASE i # k + 1 /\ j # k + 1
    <3>1. PICK p \in 1..n : Was(i, p)
      BY <2>2, <2>5
    <3>2. PICK q \in 1..n : Was(j, q)
      BY <2>2, <2>5
    <3>3. p = q
      BY <1>1, <1>6, <3>1, <3>2
    <3> QED
      BY <3>1, <3>2, <3>3
  <2> QED
    BY <2>4, <2>5
<1>7. new \in Lists
  BY <1>2, <1>4 DEF Lists
<1>8. InOrder(new) /\ new.list # <<>>
  BY <1>2, <1>4, <1>5, <1>6, <1>7, <1>1 DEF InOrder, l
<1>9. \A i \in 1..Len(l) : l[i] = h \/ \E j \in 1..n : l[i] = s[j]
  BY <1>2, <1>3
<1> QED
  BY <1>8, <1>9 DEF l, s, n, Grown

(* Some handlers less, the others in their order.                          *)
LEMMA HandlersRemoved ==
  ASSUME NEW of, InOrder(of), NEW at \in SUBSET (1..Len(of.list)),
         NEW new \in Removed(of, at)
  PROVE  /\ InOrder(new)
         /\ \A i \in 1..Len(new.list) :
              \E j \in (1..Len(of.list)) \ at : new.list[i] = of.list[j]
<1> DEFINE s == of.list
           n == Len(s)
           fi == of.delegateCount
           stay == (1..n) \ at
           m == Cardinality(stay)
           c == Cardinality({i \in at : i <= fi})
           l == new.list
<1>1. /\ s \in Seq(Handlers) /\ n \in Nat /\ DOMAIN s = 1..n /\ fi \in 0..n
      /\ \A i \in 1..n : s[i] \in Handlers
      /\ \A i \in 1..n : s[i].selector # Direct <=> i <= fi
      /\ \A i, j \in 1..n : s[i].id = s[j].id => i = j
  BY DEF InOrder, Lists
<1>2. {i \in at : s[i].selector # Direct} = {i \in at : i <= fi}
  BY <1>1
<1>3. /\ new = [list |-> l, delegateCount |-> new.delegateCount]
      /\ l \in Without(s, at) /\ new.delegateCount = fi - c
  BY <1>2 DEF Removed
<1>4. PICK f \in [1..m -> stay] : /\ \A k \in 1..m : \A j \in 1..(k - 1) : f[j] < f[k]
                                  /\ stay = Range(f)
                                  /\ l = [k \in 1..m |-> s[f[k]]]
  <2>1. DOMAIN s \ at = stay
    BY <1>1
  <2>2. PICK f \in Ascending(stay) : l = [k \in DOMAIN f |-> s[f[k]]]
    BY <1>3, <2>1 DEF Without
  <2>3. f \in [1..m -> stay] /\ DOMAIN f = 1..m
    BY <2>2 DEF Ascending
  <2>4. /\ \A k \in 1..m : \A j \in 1..(k - 1) : f[j] < f[k]
        /\ stay = Range(f)
    BY <2>2, <2>3 DEF Ascending
  <2> QED
    BY <2>2, <2>3, <2>4
<1>5. IsFiniteSet(stay) /\ m \in Nat
  <2>1. stay \in SUBSET (1..n) /\ IsFiniteSet(1..n)
    BY <1>1, FS_Interval
  <2> QED
    BY <2>1, FS_Subset, FS_CardinalityType
<1>6. c \in 0..fi
  <2>1. fi \in Nat /\ n \in Nat /\ at \in SUBSET (1..n)
    BY <1>1
  <2> QED
    BY <2>1, StayingCount, Zenon
<1>7. /\ fi - c <= m
      /\ \A k \in 1..m : k <= fi - c <=> f[k] <= fi
  <2>1. n \in Nat /\ at \in SUBSET (1..n) /\ fi \in 0..n /\ m \in Nat
    BY <1>1, <1>5
  <2> HIDE DEF n, fi, m
  <2> QED
    BY <1>4, <2>1, Places, ZenonT(40)
<1> HIDE DEF c, m, stay
<1>8. \A k \in 1..m : f[k] \in 1..n /\ f[k] \in stay
  BY <1>4 DEF stay
<1>9. l \in Seq(Handlers) /\ Len(l) = m /\ \A k \in 1..m : l[k] = s[f[k]]
  <2>1. l \in [1..m -> Handlers] /\ \A k \in 1..m : l[k] = s[f[k]]
    BY <1>1, <1>4, <1>8
  <2> QED
    BY <1>5, <2>1
<1> HIDE DEF l, s, n, fi
<1>10. ASSUME NEW i \in 1..m, NEW j \in 1..m, l[i].id = l[j].id PROVE i = j
  <2>1. f[i] = f[j]
    BY <1>1, <1>8, <1>9, <1>10
  <2>2. f[i] \in Nat /\ f[j] \in Nat
    BY <1>1, <1>8
  <2>3. ~(i < j) /\ ~(j < i)
    BY <1>4, <1>5, <2>1, <2>2
  <2> QED
    BY <1>5, <2>3
<1>11. \A k \in 1..m : l[k].selector # Direct <=> k <= new.delegateCount
  BY <1>1, <1>3, <1>7, <1>8, <1>9
<1>12. new \in Lists /\ new.delegateCount <= m
  BY <1>1, <1>3, <1>6, <1>7, <1>9 DEF Lists
<1>13. InOrder(new)
  BY <1>9, <1>10, <1>11, <1>12 DEF InOrder, l
<1>14. \A i \in 1..Len(l) : \E j \in (1..n) \ at : l[i] = s[j]
  BY <1>8, <1>9 DEF stay
<1> QED
  BY <1>13, <1>14 DEF l, s, n
-----------------------------------------------------------------------------
(* All of l is in m.                                                       *)
Sub(l, m) == \A i \in 1..Len(l) : \E j \in 1..Len(m) : l[i] = m[j]

LEMMA SubKeeps ==
  ASSUME NEW l, NEW m, Sub(l, m)
  PROVE  /\ \A id : HasId(l, id) => HasId(m, id)
         /\ \A once, n, r : NotRunYet(m, once, n, r) => NotRunYet(l, once, n, r)
<1>1. \A id : HasId(l, id) => HasId(m, id)
  BY DEF Sub, HasId
<1>2. ASSUME NEW once, NEW n, NEW r, NotRunYet(m, once, n, r)
      PROVE  NotRunYet(l, once, n, r)
  BY <1>2 DEF Sub, NotRunYet
<1> QED
  BY <1>1, <1>2

LEMMA SubKeepsQueues ==
  ASSUME NEW hs, NEW hs2, \A e \in Elements : Sub(hs2[e].list, hs[e].list),
         NEW q, NEW once, NEW n, NEW r, NEW over, QueueOk(q, hs, once, n, r, over)
  PROVE  QueueOk(q, hs2, once, n, r, over)
<1>1. \A e \in Elements : \A id : HasId(hs2[e].list, id) => HasId(hs[e].list, id)
  BY SubKeeps
<1> QED
  BY <1>1 DEF QueueOk

LEMMA TailOf ==
  ASSUME NEW S, NEW q \in Seq(S), q # <<>>
  PROVE  /\ Head(q) = q[1] /\ 1 \in 1..Len(q) /\ Tail(q) \in Seq(S)
         /\ Head(q) \in S
         /\ \A i \in 1..Len(Tail(q)) : i + 1 \in 1..Len(q) /\ Tail(q)[i] = q[i + 1]
<1>1. Len(q) \in Nat \ {0} /\ Len(Tail(q)) = Len(q) - 1 /\ Tail(q) \in Seq(S)
  OBVIOUS
<1>2. Head(q) = q[1] /\ Head(q) \in S /\ 1 \in 1..Len(q)
  BY <1>1
<1>3. \A i \in 1..(Len(q) - 1) : i + 1 \in 1..Len(q) /\ Tail(q)[i] = q[i + 1]
  BY <1>1
<1> QED
  BY <1>1, <1>2, <1>3

LEMMA TailKeeps ==
  ASSUME NEW q \in Seq(DueHandlers), q # <<>>, NEW hs, NEW once, NEW n, NEW r, NEW over,
         QueueOk(q, hs, once, n, r, over)
  PROVE  /\ QueueOk(Tail(q), hs, once, n, r, over)
         /\ \A i \in 1..Len(Tail(q)) : Tail(q)[i].h.id # Head(q).h.id
<1>1. /\ Head(q) = q[1] /\ 1 \in 1..Len(q)
      /\ \A i \in 1..Len(Tail(q)) : i + 1 \in 1..Len(q) /\ Tail(q)[i] = q[i + 1]
  BY TailOf
<1>2. \A i \in 1..Len(Tail(q)) : i \in Nat /\ i + 1 # 1 /\ \A j \in Nat : i + 1 = j + 1 => i = j
  OBVIOUS
<1>3. \A i \in 1..Len(Tail(q)) : Tail(q)[i].h.id # Head(q).h.id
  BY <1>1, <1>2 DEF QueueOk
<1>4. \A i, j \in 1..Len(Tail(q)) : Tail(q)[i].h.id = Tail(q)[j].h.id => i = j
  BY <1>1, <1>2 DEF QueueOk
<1>5. ASSUME NEW i \in 1..Len(Tail(q))
      PROVE  LET x == Tail(q)[i] IN
             /\ x.h.id <= n /\ (x.h.one <=> x.h.id \in once)
             /\ x.h.one /\ r[x.h.id] > 0 => x.h.id \in over
             /\ \A e \in Elements : HasId(hs[e].list, x.h.id) => e = x.of
  BY <1>1 DEF QueueOk
<1> QED
  BY <1>3, <1>4, <1>5 DEF QueueOk

(* The last of ds becomes d.                                               *)
ReplacesLast(ds, d, ds2) ==
  /\ Len(ds) \in Nat \ {0} /\ Last(ds) = ds[Len(ds)] /\ Last(ds) \in Dispatches
  /\ ds2 \in Seq(Dispatches) /\ Len(ds2) = Len(ds) /\ ds2[Len(ds)] = d
  /\ \A i \in 1..(Len(ds) - 1) : ds2[i] = ds[i]

LEMMA CurrentGoesOn ==
  \A ds \in Seq(Dispatches), d \in Dispatches :
    ds # <<>> => ReplacesLast(ds, d, Append(Front(ds), d))
<1> SUFFICES ASSUME NEW ds \in Seq(Dispatches), ds # <<>>, NEW d \in Dispatches,
                    NEW ds2, ds2 = Append(Front(ds), d)
             PROVE  ReplacesLast(ds, d, ds2)
  OBVIOUS
<1> DEFINE l == Front(ds)
           n == Len(ds)
<1>1. l \in Seq(Dispatches) /\ Last(ds) \in Dispatches /\ ds = Append(l, Last(ds))
  BY OneLess
<1>2. n \in Nat \ {0} /\ Last(ds) = ds[n]
  BY DEF Last
<1> HIDE DEF l, n
<1>3. /\ Len(ds) = Len(l) + 1 /\ Len(l) \in Nat /\ \A i \in 1..Len(l) : ds[i] = l[i]
  BY <1>1, OneMore
<1>4. /\ ds2 \in Seq(Dispatches) /\ Len(ds2) = Len(l) + 1 /\ ds2[Len(l) + 1] = d
      /\ \A i \in 1..Len(l) : ds2[i] = l[i]
  <2>1. ds2 = Append(l, d)
    BY DEF l
  <2> QED
    BY <1>1, <2>1, OneMore
<1>5. Len(l) = n - 1 /\ Len(l) + 1 = n
  BY <1>3 DEF n
<1> QED
  BY <1>1, <1>2, <1>3, <1>4, <1>5 DEF n, ReplacesLast

LEMMA OnlyTheDispatches ==
  ASSUME EInv, dispatches' \in Seq(Dispatches),
         \A i \in 1..Len(dispatches') :
           \/ i \in 1..Len(dispatches) /\ dispatches'[i] = dispatches[i]
           \/ QueueOk(dispatches'[i].queue, handlers, ones, added, ran, overtaken),
         UNCHANGED <<handlers, listening, added, ran, ones, overtaken>>
  PROVE  EInv'
<1>1. \A i \in 1..Len(dispatches') :
        QueueOk(dispatches'[i].queue, handlers, ones, added, ran, overtaken)
  BY DEF EInv
<1>2. EShape' /\ (\A e \in Elements : ElementOk(e)') /\ OnOneElement(handlers)' /\ RunsOk'
  BY DEF EInv, EShape, ElementOk, RunsOk
<1> QED
  BY <1>1, <1>2 DEF EInv
-----------------------------------------------------------------------------
(* What is due at an element is there, once.                               *)
LEMMA DueIsOk ==
  ASSUME EInv, NEW e \in Elements, NEW target \in Elements,
         NEW q \in HandlersFor(e, target)
  PROVE  /\ q \in Seq(DueHandlers)
         /\ QueueOk(q, handlers, ones, added, ran, overtaken)
<1> DEFINE of == handlers[e]
           n == Len(of.list)
           due == DueAt(e, target)
           m == Cardinality(due)
<1>1. /\ InOrder(of) /\ NotRunYet(of.list, ones, added, ran) /\ of.list \in Seq(Handlers)
      /\ n \in Nat /\ DOMAIN of.list = 1..n /\ \A i \in 1..n : of.list[i] \in Handlers
      /\ of.delegateCount \in Nat
  BY DEF EInv, ElementOk, InOrder, Lists
<1>2. /\ due \in SUBSET ((target..e) \X (1..n))
      /\ \A p \in due : /\ p[1] \in target..e /\ p[2] \in 1..n
                        /\ p = <<p[1], p[2]>>
                        /\ p[2] <= of.delegateCount => p[1] = of.list[p[2]].selector
                        /\ ~(p[2] <= of.delegateCount) => p[1] = e
  <2>1. due \in SUBSET ((target..e) \X (1..n))
    BY <1>1 DEF DueAt
  <2>2. ASSUME NEW p \in due
        PROVE  /\ p[1] \in target..e /\ p[2] \in 1..n /\ p = <<p[1], p[2]>>
               /\ IF p[1] = e THEN p[2] > of.delegateCount
                  ELSE /\ p[2] <= of.delegateCount
                       /\ of.list[p[2]].selector = p[1]
    BY <1>1, <2>1 DEF DueAt
  <2>3. ASSUME NEW p \in due
        PROVE  /\ p[2] <= of.delegateCount => p[1] = of.list[p[2]].selector
               /\ ~(p[2] <= of.delegateCount) => p[1] = e
    <3> DEFINE b == p[2]
               dc == of.delegateCount
    <3>1. b \in Nat /\ dc \in Nat
      BY <1>1, <2>2
    <3> HIDE DEF due
    <3>2. b > dc <=> ~(b <= dc)
      BY <3>1
    <3> QED
      BY <2>2, <3>2
  <2> HIDE DEF due, of, n
  <2> QED
    BY <2>1, <2>2, <2>3
<1>3. m \in Nat
  <2>1. target \in Int /\ e \in Int
    BY EventConstants DEF Elements
  <2>2. IsFiniteSet(target..e) /\ IsFiniteSet(1..n)
    <3>1. IsFiniteSet(target..e)
      BY <2>1, FS_Interval
    <3> HIDE DEF n
    <3>2. IsFiniteSet(1..n)
      BY <1>1, FS_Interval
    <3> QED
      BY <3>1, <3>2
  <2>3. IsFiniteSet((target..e) \X (1..n))
    BY <2>2, FS_Product
  <2> QED
    BY <1>2, <2>3, FS_Subset, FS_CardinalityType
<1>4. PICK f \in [1..m -> due] :
        /\ \A k \in 1..m : \A j \in 1..(k - 1) :
             f[j][1] < f[k][1] \/ (f[j][1] = f[k][1] /\ f[j][2] < f[k][2])
        /\ q = [k \in 1..m |-> [at |-> f[k][1], of |-> e, h |-> of.list[f[k][2]]]]
  BY DEF HandlersFor
<1> HIDE DEF m, due
<1>5. \A k \in 1..m : /\ f[k][1] \in Elements /\ f[k][2] \in 1..n
                      /\ f[k][2] <= of.delegateCount => f[k][1] = of.list[f[k][2]].selector
                      /\ ~(f[k][2] <= of.delegateCount) => f[k][1] = e
  <2>1. target..e \in SUBSET Elements
    BY EventConstants DEF Elements
  <2> QED
    BY <1>2, <2>1
<1>6. \A j, k \in 1..m : f[j][2] = f[k][2] => j = k
  <2> SUFFICES ASSUME NEW j \in 1..m, NEW k \in 1..m, f[j][2] = f[k][2]
               PROVE  j = k
    OBVIOUS
  <2>1. f[j][1] = f[k][1]
    BY <1>5
  <2>2. f[j][1] \in Nat /\ f[k][1] \in Nat /\ f[j][2] \in Nat /\ f[k][2] \in Nat
    BY <1>1, <1>5, EventConstants DEF Elements
  <2>3. ~(j < k)
    <3> SUFFICES ASSUME j < k PROVE FALSE
      OBVIOUS
    <3>1. j \in 1..(k - 1)
      BY <1>3
    <3> QED
      BY <1>4, <2>1, <2>2, <3>1
  <2>4. ~(k < j)
    <3> SUFFICES ASSUME k < j PROVE FALSE
      OBVIOUS
    <3>1. k \in 1..(j - 1)
      BY <1>3
    <3> QED
      BY <1>4, <2>1, <2>2, <3>1
  <2> QED
    BY <1>3, <2>3, <2>4
<1>7. /\ Len(q) = m /\ q \in Seq(DueHandlers)
      /\ \A k \in 1..m : q[k].h = of.list[f[k][2]] /\ q[k].of = e
  <2>1. /\ q \in [1..m -> DueHandlers]
        /\ \A k \in 1..m : q[k].h = of.list[f[k][2]] /\ q[k].of = e
    BY <1>1, <1>4, <1>5 DEF DueHandlers
  <2> QED
    BY <1>3, <2>1
<1> HIDE DEF of, n
<1>8. ASSUME NEW i \in 1..m, NEW j \in 1..m, q[i].h.id = q[j].h.id PROVE i = j
  <2> DEFINE a == f[i][2]
             b == f[j][2]
  <2>1. a \in 1..n /\ b \in 1..n /\ q[i].h = of.list[a] /\ q[j].h = of.list[b]
    BY <1>5, <1>7
  <2>2. a = b => i = j
    BY <1>6
  <2> HIDE DEF a, b
  <2>3. \A x, y \in 1..n : of.list[x].id = of.list[y].id => x = y
    BY <1>1 DEF InOrder, n
  <2> QED
    BY <1>8, <2>1, <2>2, <2>3
<1>9. ASSUME NEW i \in 1..m
      PROVE  LET x == q[i] IN
             /\ x.h.id <= added /\ (x.h.one <=> x.h.id \in ones)
             /\ x.h.one /\ ran[x.h.id] > 0 => x.h.id \in overtaken
             /\ \A g \in Elements : HasId(handlers[g].list, x.h.id) => g = x.of
  <2> DEFINE p == f[i][2]
             x == of.list[p]
  <2>1. p \in 1..n /\ q[i].h = x /\ q[i].of = e /\ x \in Handlers
    BY <1>1, <1>5, <1>7
  <2> HIDE DEF x, p
  <2>2. x.id <= added /\ (x.one <=> x.id \in ones) /\ (x.one => ran[x.id] = 0)
    BY <1>1, <2>1 DEF NotRunYet, n, x
  <2>3. HasId(handlers[e].list, x.id) /\ x.id \in 1..MaxHandlers
    BY <2>1 DEF HasId, x, n, of, Handlers
  <2>4. \A g \in Elements : HasId(handlers[g].list, x.id) => g = e
    BY <2>3 DEF EInv, OnOneElement
  <2> QED
    BY <2>1, <2>2, <2>4
<1> QED
  BY <1>7, <1>8, <1>9 DEF QueueOk

LEMMA TriggerKeeps ==
  ASSUME EInv, NEW target \in Elements, NEW namespace \in Namespaces,
         NEW only \in BOOLEAN, trigger(target, namespace, only)
  PROVE  EInv'
<1> DEFINE path == IF only THEN <<target>>
                   ELSE [k \in 1..(Depth + 1 - target) |-> target + k - 1]
           d == [target |-> target, namespace |-> namespace, path |-> path,
                 queue |-> <<>>, at |-> 0, running |-> 0, stopped |-> FALSE,
                 immediate |-> FALSE]
<1>1. path \in Seq(Elements)
  <2>1. Depth + 1 - target \in Nat /\ target \in Nat
    BY EventConstants DEF Elements
  <2>2. \A k \in 1..(Depth + 1 - target) : target + k - 1 \in Elements
    BY EventConstants, <2>1 DEF Elements
  <2>3. <<target>> \in Seq(Elements)
    OBVIOUS
  <2>4. [k \in 1..(Depth + 1 - target) |-> target + k - 1] \in Seq(Elements)
    BY <2>1, <2>2
  <2> QED
    BY <2>3, <2>4
<1>2. <<>> \in Seq(DueHandlers)
  OBVIOUS
<1> HIDE DEF path
<1>3. d \in Dispatches /\ d.queue = <<>>
  BY <1>1, <1>2, EventConstants DEF Dispatches
<1>4. dispatches' = Append(dispatches, d) /\ dispatches \in Seq(Dispatches)
  BY DEF trigger, path, EInv, EShape
<1>5. UNCHANGED <<handlers, listening, added, ran, ones, overtaken>>
  BY DEF trigger
<1> HIDE DEF d
<1>6. /\ dispatches' \in Seq(Dispatches) /\ Len(dispatches') = Len(dispatches) + 1
      /\ dispatches'[Len(dispatches) + 1] = d /\ Len(dispatches) \in Nat
      /\ \A i \in 1..Len(dispatches) : dispatches'[i] = dispatches[i]
  BY <1>3, <1>4, OneMore
<1>7. QueueOk(d.queue, handlers, ones, added, ran, overtaken)
  BY <1>3 DEF QueueOk
<1>8. ASSUME NEW i \in 1..Len(dispatches')
      PROVE  \/ i \in 1..Len(dispatches) /\ dispatches'[i] = dispatches[i]
             \/ QueueOk(dispatches'[i].queue, handlers, ones, added, ran, overtaken)
  <2>1. i \in 1..Len(dispatches) \/ i = Len(dispatches) + 1
    BY <1>6
  <2> QED
    BY <1>6, <1>7, <2>1
<1> QED
  BY <1>5, <1>6, <1>8, OnlyTheDispatches

(* The current dispatch goes on, and what it has to run is in order.       *)
LEMMA CurrentKeeps ==
  ASSUME EInv, dispatches # <<>>, NEW d \in Dispatches,
         QueueOk(d.queue, handlers, ones, added, ran, overtaken),
         dispatches' = WithCurrent(d),
         UNCHANGED <<handlers, listening, added, ran, ones, overtaken>>
  PROVE  EInv'
<1> DEFINE n == Len(dispatches)
<1>1. /\ n \in Nat \ {0} /\ dispatches' \in Seq(Dispatches) /\ Len(dispatches') = n
      /\ dispatches'[n] = d
      /\ \A i \in 1..(n - 1) : dispatches'[i] = dispatches[i]
  <2>1. dispatches \in Seq(Dispatches) /\ dispatches' = Append(Front(dispatches), d)
    BY DEF EInv, EShape, WithCurrent
  <2>2. ReplacesLast(dispatches, d, dispatches')
    BY <2>1, CurrentGoesOn
  <2> QED
    BY <2>2 DEF ReplacesLast
<1> HIDE DEF n
<1>2. \A i \in 1..n : i = n \/ i \in 1..(n - 1)
  BY <1>1
<1>3. ASSUME NEW i \in 1..Len(dispatches')
      PROVE  \/ i \in 1..Len(dispatches) /\ dispatches'[i] = dispatches[i]
             \/ QueueOk(dispatches'[i].queue, handlers, ones, added, ran, overtaken)
  BY <1>1, <1>2 DEF n
<1> QED
  BY <1>1, <1>3, OnlyTheDispatches

LEMMA CurrentOk ==
  ASSUME EInv, dispatches # <<>>
  PROVE  /\ Current \in Dispatches
         /\ QueueOk(Current.queue, handlers, ones, added, ran, overtaken)
<1>1. dispatches \in Seq(Dispatches)
  BY DEF EInv, EShape
<1>2. Len(dispatches) \in 1..Len(dispatches) /\ Current = dispatches[Len(dispatches)]
  BY <1>1 DEF Current, Last
<1> QED
  BY <1>1, <1>2 DEF EInv

LEMMA ReturnKeeps ==
  ASSUME EInv, NEW how, HandlerReturns(how) PROVE EInv'
<1> DEFINE c == Current
           stopped == c.stopped \/ how \in {"false", "stopImmediatePropagation"}
           immediate == c.immediate \/ how = "stopImmediatePropagation"
           d == [c EXCEPT !.running = 0, !.stopped = stopped, !.immediate = immediate]
<1>1. c \in Dispatches /\ QueueOk(c.queue, handlers, ones, added, ran, overtaken)
  BY CurrentOk DEF HandlerReturns
<1>2. /\ dispatches' = WithCurrent(Stops([c EXCEPT !.running = 0], how))
      /\ dispatches # <<>>
      /\ UNCHANGED <<handlers, listening, added, ran, ones, overtaken>>
  BY DEF HandlerReturns
<1> HIDE DEF c
<1>3. Stops([c EXCEPT !.running = 0], how) = d
  BY <1>1 DEF Stops, Dispatches
<1>4. d \in Dispatches /\ d.queue = c.queue
  <2>1. stopped \in BOOLEAN /\ immediate \in BOOLEAN /\ 0 \in 0..MaxHandlers
    BY <1>1, EventConstants DEF Dispatches
  <2> HIDE DEF stopped, immediate
  <2> QED
    BY <1>1, <2>1 DEF Dispatches
<1> HIDE DEF d
<1> QED
  BY <1>1, <1>2, <1>3, <1>4, CurrentKeeps

LEMMA ReachKeeps == ASSUME EInv, Reach PROVE EInv'
<1> DEFINE c == Current
           e == Head(c.path)
<1>1. c \in Dispatches /\ c.path # <<>>
  BY CurrentOk DEF Reach
<1>2. PICK due \in IF listening[e] THEN HandlersFor(e, c.target) ELSE {<<>>} :
        dispatches' = WithCurrent([c EXCEPT !.path = Tail(@), !.at = 0, !.queue = due])
  BY DEF Reach
<1>3. e \in Elements /\ c.target \in Elements /\ Tail(c.path) \in Seq(Elements)
  BY <1>1, TailOf DEF Dispatches
<1>4. /\ due \in Seq(DueHandlers)
      /\ QueueOk(due, handlers, ones, added, ran, overtaken)
  <2>1. CASE due = <<>>
    BY <2>1 DEF QueueOk
  <2>2. CASE due \in HandlersFor(e, c.target)
    BY <1>3, <2>2, DueIsOk
  <2> QED
    BY <1>2, <2>1, <2>2
<1> DEFINE path == Tail(c.path)
           d == [c EXCEPT !.path = path, !.at = 0, !.queue = due]
<1>5. path \in Seq(Elements)
  BY <1>3
<1> HIDE DEF path, e, c
<1>6. d \in Dispatches /\ d.queue = due
  BY <1>1, <1>4, <1>5 DEF Dispatches
<1>7. /\ dispatches' = WithCurrent(d) /\ dispatches # <<>>
      /\ UNCHANGED <<handlers, listening, added, ran, ones, overtaken>>
  BY <1>2 DEF Reach, path
<1> HIDE DEF d
<1> QED
  BY <1>4, <1>6, <1>7, CurrentKeeps

LEMMA OverKeeps == ASSUME EInv, Over PROVE EInv'
<1>1. /\ dispatches \in Seq(Dispatches) /\ dispatches # <<>>
      /\ dispatches' = Front(dispatches)
      /\ UNCHANGED <<handlers, listening, added, ran, ones, overtaken>>
  BY DEF EInv, EShape, Over
<1> DEFINE l == Front(dispatches)
           x == Last(dispatches)
<1>2. l \in Seq(Dispatches) /\ x \in Dispatches /\ dispatches = Append(l, x)
  BY <1>1, OneLess
<1> HIDE DEF l, x
<1>3. /\ Len(dispatches) = Len(l) + 1 /\ Len(l) \in Nat
      /\ \A i \in 1..Len(l) : dispatches[i] = l[i]
  BY <1>2, OneMore
<1>4. \A i \in 1..Len(l) : i \in 1..Len(dispatches)
  BY <1>3
<1> QED
  BY <1>1, <1>2, <1>3, <1>4, OnlyTheDispatches DEF l
-----------------------------------------------------------------------------
LEMMA OnKeeps ==
  ASSUME EInv, NEW e \in Elements, NEW selector \in {Direct} \cup Elements,
         NEW namespace \in Namespaces, NEW one \in BOOLEAN,
         on(e, selector, namespace, one)
  PROVE  EInv'
<1> DEFINE id == added + 1
           h == [id |-> id, selector |-> selector, namespace |-> namespace, one |-> one]
           of == handlers[e]
           new == WithHandler(of, h)
<1>1. /\ added < MaxHandlers /\ added' = id /\ handlers' = [handlers EXCEPT ![e] = new]
      /\ listening' = [listening EXCEPT ![e] = TRUE]
      /\ ones' = (IF one THEN ones \cup {id} ELSE ones)
      /\ UNCHANGED <<dispatches, ran, overtaken>>
  BY DEF on, eventAdd
<1>2. /\ EShape /\ \A x \in Elements : ElementOk(x)
      /\ id \in 1..MaxHandlers /\ id > added /\ added \in Nat /\ id \notin ones
      /\ id \in 1..id
  <2>1. EShape /\ (\A x \in Elements : ElementOk(x)) /\ added \in 0..MaxHandlers
    BY DEF EInv, EShape
  <2>2. id \in 1..MaxHandlers /\ id > added /\ added \in Nat /\ id \in 1..id
    BY <1>1, <2>1, EventConstants
  <2>3. id \notin 1..added /\ ones \in SUBSET (1..added)
    BY <2>1, <2>2 DEF EShape
  <2> QED
    BY <2>1, <2>2, <2>3
<1>3. h \in Handlers /\ h.id = id /\ h.one = one
  BY <1>2 DEF Handlers
<1>4. \A x \in Elements : ~HasId(handlers[x].list, id)
  BY <1>2 DEF ElementOk, NotRunYet, HasId, InOrder, Lists, Handlers
<1>5. of \in Lists /\ InOrder(of) /\ ~HasId(of.list, h.id)
  BY <1>2, <1>3, <1>4 DEF ElementOk, InOrder
<1> HIDE DEF h, of
<1>6. /\ InOrder(new) /\ new.list # <<>>
      /\ \A i \in 1..Len(new.list) :
           new.list[i] = h \/ \E j \in 1..Len(of.list) : new.list[i] = of.list[j]
  <2>1. Grown(of, h, new)
    BY <1>3, <1>5, HandlerAdded, Zenon
  <2> HIDE DEF new
  <2> QED
    BY <2>1 DEF Grown
<1> HIDE DEF new
<1> HIDE DEF id
<1>7. /\ handlers' \in [Elements -> Lists] /\ listening' \in [Elements -> BOOLEAN]
      /\ handlers'[e] = new /\ listening'[e] = TRUE
      /\ \A x \in Elements \ {e} : handlers'[x] = handlers[x] /\ listening'[x] = listening[x]
  BY <1>1, <1>2, <1>6 DEF EShape, InOrder
<1>8. \A x \in Elements : \A i \in 1..Len(handlers'[x].list) :
        \/ x = e /\ handlers'[x].list[i] = h
        \/ \E j \in 1..Len(handlers[x].list) : handlers'[x].list[i] = handlers[x].list[j]
  BY <1>6, <1>7 DEF of
<1>9. \A x \in Elements : \A y : HasId(handlers'[x].list, y) =>
        HasId(handlers[x].list, y) \/ (x = e /\ y = id)
  BY <1>3, <1>8, ZenonT(40) DEF HasId
<1>10. \A y : y <= added => (y # id /\ (y \in ones' <=> y \in ones))
  BY <1>1, <1>2
<1>11. (one <=> id \in ones') /\ ran[id] = 0 /\ ones' \in SUBSET (1..added')
  <2>1. ran[id] = 0
    BY <1>2 DEF EInv, RunsOk
  <2>2. 1..added \in SUBSET (1..id)
    BY <1>2 DEF id
  <2> QED
    BY <1>1, <1>2, <2>1, <2>2 DEF EShape
<1>12. EShape'
  BY <1>1, <1>2, <1>7, <1>11 DEF EShape
<1>13. ASSUME NEW x \in Elements PROVE ElementOk(x)'
  <2>1. NotRunYet(handlers'[x].list, ones', added', ran)
    <3> SUFFICES ASSUME NEW i \in 1..Len(handlers'[x].list)
                 PROVE  LET g == handlers'[x].list[i] IN
                        /\ g.id <= added' /\ (g.one <=> g.id \in ones')
                        /\ g.one => ran[g.id] = 0
      BY DEF NotRunYet
    <3>1. CASE handlers'[x].list[i] = h
      <4>1. id <= added'
        BY <1>1, <1>2
      <4> QED
        BY <1>3, <1>11, <3>1, <4>1
    <3>2. ASSUME NEW j \in 1..Len(handlers[x].list),
                 handlers'[x].list[i] = handlers[x].list[j]
          PROVE  LET g == handlers'[x].list[i] IN
                 /\ g.id <= added' /\ (g.one <=> g.id \in ones')
                 /\ g.one => ran[g.id] = 0
      <4> DEFINE g == handlers[x].list[j]
      <4>1. /\ g.id <= added /\ (g.one <=> g.id \in ones)
            /\ g.one => ran[g.id] = 0
        <5>1. NotRunYet(handlers[x].list, ones, added, ran)
          BY <1>2 DEF ElementOk
        <5> QED
          BY <5>1 DEF NotRunYet
      <4>2. g.id \in Nat
        <5>1. handlers[x].list \in Seq(Handlers)
          BY <1>2 DEF ElementOk, InOrder, Lists
        <5>2. g \in Handlers
          BY <5>1
        <5> QED
          BY <5>2 DEF Handlers
      <4> HIDE DEF g
      <4>3. g.id <= added'
        BY <1>1, <1>2, <4>1, <4>2 DEF id
      <4>4. g.one <=> g.id \in ones'
        BY <1>10, <4>1
      <4> QED
        BY <3>2, <4>1, <4>3, <4>4 DEF g
    <3> QED
      BY <1>8, <3>1, <3>2
  <2>2. InOrder(handlers'[x]) /\ (listening'[x] <=> handlers'[x].list # <<>>)
    BY <1>2, <1>6, <1>7 DEF ElementOk
  <2> QED
    BY <1>1, <2>1, <2>2 DEF ElementOk
<1>14. OnOneElement(handlers)'
  <2>1. OnOneElement(handlers)
    BY DEF EInv
  <2>2. ASSUME NEW x \in Elements, NEW g \in Elements, NEW y \in 1..MaxHandlers,
               HasId(handlers'[x].list, y), HasId(handlers'[g].list, y)
        PROVE  x = g
    <3>1. CASE y = id
      <4>1. x = e /\ g = e
        BY <1>4, <1>9, <2>2, <3>1
      <4> QED
        BY <4>1
    <3>2. CASE y # id
      <4>1. HasId(handlers[x].list, y) /\ HasId(handlers[g].list, y)
        BY <1>9, <2>2, <3>2
      <4> QED
        BY <2>1, <4>1 DEF OnOneElement
    <3> QED
      BY <3>1, <3>2
  <2> QED
    BY <2>2 DEF OnOneElement
<1>15. RunsOk'
  <2> SUFFICES ASSUME NEW y \in 1..MaxHandlers
               PROVE  /\ y > added' => ran[y] = 0
                      /\ y \in ones' /\ ran[y] > 1 => y \in overtaken
    BY <1>1 DEF RunsOk
  <2>1. /\ y > added => ran[y] = 0
        /\ y \in ones /\ ran[y] > 1 => y \in overtaken
    BY DEF EInv, RunsOk
  <2>2. y > added' => y > added
    BY <1>1, <1>2 DEF id
  <2>3. y \in ones' => y \in ones \/ y = id
    BY <1>1
  <2> QED
    BY <1>11, <2>1, <2>2, <2>3
<1>16. ASSUME NEW i \in 1..Len(dispatches')
       PROVE  QueueOk(dispatches'[i].queue, handlers', ones', added', ran', overtaken')
  <2> DEFINE q == dispatches[i].queue
  <2>1. QueueOk(q, handlers, ones, added, ran, overtaken) /\ q \in Seq(DueHandlers)
    <3>1. i \in 1..Len(dispatches)
      BY <1>1
    <3>2. QueueOk(q, handlers, ones, added, ran, overtaken)
      BY <3>1 DEF EInv
    <3>3. dispatches[i] \in Dispatches
      BY <1>2, <3>1 DEF EShape
    <3> QED
      BY <3>2, <3>3 DEF Dispatches
  <2> HIDE DEF q
  <2>2. ASSUME NEW k \in 1..Len(q)
        PROVE  /\ q[k].h.id <= added' /\ (q[k].h.one <=> q[k].h.id \in ones')
               /\ q[k].h.one /\ ran[q[k].h.id] > 0 => q[k].h.id \in overtaken
               /\ \A g \in Elements : HasId(handlers'[g].list, q[k].h.id) => g = q[k].of
    <3> DEFINE y == q[k].h.id
    <3>1. /\ y <= added /\ (q[k].h.one <=> y \in ones)
          /\ q[k].h.one /\ ran[y] > 0 => y \in overtaken
          /\ \A g \in Elements : HasId(handlers[g].list, y) => g = q[k].of
      BY <2>1 DEF QueueOk
    <3>2. y \in Nat
      <4>1. q[k] \in DueHandlers
        BY <2>1
      <4>2. q[k].h \in Handlers
        BY <4>1 DEF DueHandlers
      <4> QED
        BY <4>2 DEF Handlers
    <3> HIDE DEF y
    <3>3. y <= added' /\ (y \in ones' <=> y \in ones) /\ y # id
      BY <1>1, <1>2, <1>10, <3>1, <3>2 DEF id
    <3>4. \A g \in Elements : HasId(handlers'[g].list, y) => g = q[k].of
      BY <1>9, <3>1, <3>3
    <3> QED
      BY <3>1, <3>3, <3>4 DEF y
  <2>3. \A j, k \in 1..Len(q) : q[j].h.id = q[k].h.id => j = k
    BY <2>1 DEF QueueOk
  <2> QED
    BY <1>1, <2>2, <2>3 DEF QueueOk, q
<1> QED
  BY <1>12, <1>13, <1>14, <1>15, <1>16 DEF EInv

(* Handlers of one element go.                                             *)
LEMMA ListShrinks ==
  ASSUME EInv, NEW e \in Elements, NEW at \in SUBSET (1..Len(handlers[e].list)),
         eventRemove(e, at)
  PROVE  /\ handlers' \in [Elements -> Lists] /\ listening' \in [Elements -> BOOLEAN]
         /\ \A x \in Elements : /\ InOrder(handlers'[x])
                                /\ listening'[x] <=> handlers'[x].list # <<>>
                                /\ Sub(handlers'[x].list, handlers[x].list)
         /\ \A i \in 1..Len(handlers'[e].list) :
              \E j \in (1..Len(handlers[e].list)) \ at :
                handlers'[e].list[i] = handlers[e].list[j]
<1>1. PICK new \in Removed(handlers[e], at) :
        /\ handlers' = [handlers EXCEPT ![e] = new]
        /\ listening' = [listening EXCEPT ![e] = new.list # <<>>]
  BY DEF eventRemove
<1>2. EShape /\ \A x \in Elements : ElementOk(x)
  BY DEF EInv
<1>3. /\ InOrder(new)
      /\ \A i \in 1..Len(new.list) :
           \E j \in (1..Len(handlers[e].list)) \ at : new.list[i] = handlers[e].list[j]
  <2>1. InOrder(handlers[e])
    BY <1>2 DEF ElementOk
  <2> QED
    BY <2>1, HandlersRemoved
<1>4. /\ handlers' \in [Elements -> Lists] /\ listening' \in [Elements -> BOOLEAN]
      /\ handlers'[e] = new /\ listening'[e] = (new.list # <<>>)
      /\ \A x \in Elements \ {e} : handlers'[x] = handlers[x] /\ listening'[x] = listening[x]
  <2>1. new \in Lists /\ (new.list # <<>>) \in BOOLEAN
    BY <1>3 DEF InOrder
  <2> QED
    BY <1>1, <1>2, <2>1 DEF EShape
<1>5. ASSUME NEW x \in Elements
      PROVE  /\ InOrder(handlers'[x])
             /\ listening'[x] <=> handlers'[x].list # <<>>
             /\ Sub(handlers'[x].list, handlers[x].list)
  <2>1. CASE x = e
    BY <1>3, <1>4, <2>1 DEF Sub
  <2>2. CASE x # e
    BY <1>2, <1>4, <2>2 DEF ElementOk, Sub
  <2> QED
    BY <2>1, <2>2
<1> QED
  BY <1>3, <1>4, <1>5

LEMMA OffKeeps ==
  ASSUME EInv, NEW e \in Elements, NEW what, off(e, what) PROVE EInv'
<1>1. PICK at \in SUBSET (1..Len(handlers[e].list)) : eventRemove(e, at)
  <2>1. DOMAIN handlers[e].list = 1..Len(handlers[e].list)
    BY DEF EInv, ElementOk, InOrder, Lists
  <2> QED
    BY <2>1 DEF off
<1>2. UNCHANGED <<dispatches, added, ran, ones, overtaken>>
  BY DEF off
<1>3. /\ handlers' \in [Elements -> Lists] /\ listening' \in [Elements -> BOOLEAN]
      /\ \A x \in Elements : /\ InOrder(handlers'[x])
                             /\ listening'[x] <=> handlers'[x].list # <<>>
                             /\ Sub(handlers'[x].list, handlers[x].list)
  BY <1>1, ListShrinks
<1>4. EShape' /\ RunsOk'
  BY <1>2, <1>3 DEF EInv, EShape, RunsOk
<1>5. ASSUME NEW x \in Elements PROVE ElementOk(x)'
  <2>1. NotRunYet(handlers[x].list, ones, added, ran)
    BY DEF EInv, ElementOk
  <2>2. NotRunYet(handlers'[x].list, ones, added, ran)
    BY <1>3, <2>1, SubKeeps
  <2> QED
    BY <1>2, <1>3, <2>2 DEF ElementOk
<1>6. \A x \in Elements : \A id : HasId(handlers'[x].list, id) => HasId(handlers[x].list, id)
  BY <1>3, SubKeeps
<1>7. OnOneElement(handlers)'
  BY <1>6 DEF EInv, OnOneElement
<1>8. ASSUME NEW i \in 1..Len(dispatches)
      PROVE  QueueOk(dispatches[i].queue, handlers', ones, added, ran, overtaken)
  <2>1. QueueOk(dispatches[i].queue, handlers, ones, added, ran, overtaken)
    BY DEF EInv
  <2> QED
    BY <1>3, <2>1, SubKeepsQueues
<1> QED
  BY <1>2, <1>4, <1>5, <1>7, <1>8 DEF EInv
-----------------------------------------------------------------------------
(* A handler runs: whoever still waits for it is told that it was overtaken. *)
Heard(q, id, over) == \A k \in 1..Len(q) : q[k].h.id = id => id \in over

LEMMA RunKeepsQueue ==
  \A q \in Seq(DueHandlers), r \in [1..MaxHandlers -> Nat], id \in 1..MaxHandlers :
    \A hs, once, n, over, over2 :
      QueueOk(q, hs, once, n, r, over) /\ over \subseteq over2 /\ Heard(q, id, over2)
        => QueueOk(q, hs, once, n, [r EXCEPT ![id] = @ + 1], over2)
<1> TAKE q \in Seq(DueHandlers), r \in [1..MaxHandlers -> Nat], id \in 1..MaxHandlers
<1> TAKE hs, once, n, over, over2
<1> HAVE QueueOk(q, hs, once, n, r, over) /\ over \subseteq over2 /\ Heard(q, id, over2)
<1> DEFINE r2 == [r EXCEPT ![id] = @ + 1]
<1>1. \A y \in 1..MaxHandlers : y # id => r2[y] = r[y]
  OBVIOUS
<1> HIDE DEF r2
<1>2. ASSUME NEW k \in 1..Len(q)
      PROVE  /\ q[k].h.id <= n /\ (q[k].h.one <=> q[k].h.id \in once)
             /\ q[k].h.one /\ r2[q[k].h.id] > 0 => q[k].h.id \in over2
             /\ \A e \in Elements : HasId(hs[e].list, q[k].h.id) => e = q[k].of
  <2> DEFINE y == q[k].h.id
  <2>1. /\ y <= n /\ (q[k].h.one <=> y \in once)
        /\ q[k].h.one /\ r[y] > 0 => y \in over
        /\ \A e \in Elements : HasId(hs[e].list, y) => e = q[k].of
    BY DEF QueueOk
  <2>2. y \in 1..MaxHandlers
    <3>1. q[k] \in DueHandlers
      OBVIOUS
    <3>2. q[k].h \in Handlers
      BY <3>1 DEF DueHandlers
    <3> QED
      BY <3>2 DEF Handlers
  <2>3. y = id => id \in over2
    BY DEF Heard
  <2> HIDE DEF y
  <2>4. q[k].h.one /\ r2[y] > 0 => y \in over2
    BY <1>1, <2>1, <2>2, <2>3
  <2> QED
    BY <2>1, <2>4 DEF y
<1>3. \A j, k \in 1..Len(q) : q[j].h.id = q[k].h.id => j = k
  BY DEF QueueOk
<1> QED
  BY <1>2, <1>3 DEF QueueOk, r2

Waiting == Current.queue
Next    == Head(Waiting)

(* The handler that is next, and those after it.                           *)
LEMMA NextOk ==
  ASSUME EInv, dispatches # <<>>, Waiting # <<>>
  PROVE  /\ Waiting \in Seq(DueHandlers) /\ Tail(Waiting) \in Seq(DueHandlers)
         /\ Next \in DueHandlers /\ Next.at \in Nat /\ Next.h \in Handlers
         /\ QueueOk(Tail(Waiting), handlers, ones, added, ran, overtaken)
         /\ \A i \in 1..Len(Tail(Waiting)) : Tail(Waiting)[i].h.id # Next.h.id
         /\ Next.h.id <= added /\ (Next.h.one <=> Next.h.id \in ones)
         /\ Next.h.one /\ ran[Next.h.id] > 0 => Next.h.id \in overtaken
         /\ \A e \in Elements : HasId(handlers[e].list, Next.h.id) => e = Next.of
<1>1. /\ Current \in Dispatches
      /\ QueueOk(Waiting, handlers, ones, added, ran, overtaken)
  BY CurrentOk DEF Waiting
<1>2. Waiting \in Seq(DueHandlers)
  BY <1>1 DEF Dispatches, Waiting
<1>3. /\ Next = Waiting[1] /\ 1 \in 1..Len(Waiting) /\ Next \in DueHandlers
      /\ Tail(Waiting) \in Seq(DueHandlers)
  BY <1>2, TailOf DEF Next
<1>4. /\ QueueOk(Tail(Waiting), handlers, ones, added, ran, overtaken)
      /\ \A i \in 1..Len(Tail(Waiting)) : Tail(Waiting)[i].h.id # Next.h.id
  BY <1>1, <1>2, TailKeeps DEF Next
<1>5. Next.at \in Nat /\ Next.h \in Handlers
  BY <1>3, EventConstants DEF DueHandlers, Elements
<1>6. /\ Next.h.id <= added /\ (Next.h.one <=> Next.h.id \in ones)
      /\ Next.h.one /\ ran[Next.h.id] > 0 => Next.h.id \in overtaken
      /\ \A e \in Elements : HasId(handlers[e].list, Next.h.id) => e = Next.of
  BY <1>1, <1>3 DEF QueueOk
<1> QED
  BY <1>2, <1>3, <1>4, <1>5, <1>6

(* The places of the handler that is next on the list it came from.        *)
NextsPlaces == {i \in DOMAIN handlers[Next.of].list :
                  handlers[Next.of].list[i].id = Next.h.id}

(* The handler that runs is of one() and leaves its list, or the lists stay. *)
LEMMA OneLeaves ==
  ASSUME EInv, dispatches # <<>>, Waiting # <<>>,
         IF Next.h.one THEN eventRemove(Next.of, NextsPlaces)
         ELSE UNCHANGED <<handlers, listening>>
  PROVE  /\ handlers' \in [Elements -> Lists] /\ listening' \in [Elements -> BOOLEAN]
         /\ \A x \in Elements : /\ InOrder(handlers'[x])
                                /\ listening'[x] <=> handlers'[x].list # <<>>
                                /\ Sub(handlers'[x].list, handlers[x].list)
         /\ Next.h.one => \A x \in Elements : ~HasId(handlers'[x].list, Next.h.id)
<1> DEFINE of == Next.of
           id == Next.h.id
<1>1. /\ EShape /\ \A x \in Elements : ElementOk(x)
      /\ of \in Elements /\ \A x \in Elements : HasId(handlers[x].list, id) => x = of
  <2>1. Next \in DueHandlers /\ \A x \in Elements : HasId(handlers[x].list, id) => x = of
    BY NextOk
  <2> QED
    BY <2>1 DEF DueHandlers, EInv
<1>2. CASE ~Next.h.one
  <2>1. handlers' = handlers /\ listening' = listening
    BY <1>2
  <2>2. \A x \in Elements : Sub(handlers[x].list, handlers[x].list)
    BY DEF Sub
  <2> QED
    BY <1>1, <1>2, <2>1, <2>2 DEF EShape, ElementOk
<1>3. CASE Next.h.one
  <2> DEFINE at == NextsPlaces
  <2>1. at = {i \in 1..Len(handlers[of].list) : handlers[of].list[i].id = id}
    BY <1>1 DEF NextsPlaces, ElementOk, InOrder, Lists
  <2>2. at \in SUBSET (1..Len(handlers[of].list)) /\ eventRemove(of, at)
    BY <1>3, <2>1
  <2> HIDE DEF at, of, id
  <2>3. /\ handlers' \in [Elements -> Lists] /\ listening' \in [Elements -> BOOLEAN]
        /\ \A x \in Elements : /\ InOrder(handlers'[x])
                               /\ listening'[x] <=> handlers'[x].list # <<>>
                               /\ Sub(handlers'[x].list, handlers[x].list)
        /\ \A i \in 1..Len(handlers'[of].list) :
             \E j \in (1..Len(handlers[of].list)) \ at :
               handlers'[of].list[i] = handlers[of].list[j]
    BY <1>1, <2>2, ListShrinks
  <2>4. ASSUME NEW x \in Elements, HasId(handlers'[x].list, id) PROVE FALSE
    <3>1. HasId(handlers[x].list, id)
      BY <2>3, <2>4, SubKeeps
    <3>2. x = of
      BY <1>1, <3>1
    <3>3. \A j \in (1..Len(handlers[of].list)) \ at : handlers[of].list[j].id # id
      BY <2>1
    <3> QED
      BY <2>3, <2>4, <3>2, <3>3 DEF HasId
  <2> QED
    BY <2>3, <2>4 DEF id
<1> QED
  BY <1>2, <1>3

(* A handler runs and, if it is of one(), is on no list any more.          *)
LEMMA RunKeeps ==
  ASSUME EInv, dispatches # <<>>, Waiting # <<>>, NEW d \in Dispatches,
         d.queue = Tail(Waiting), dispatches' = WithCurrent(d),
         ran' = [ran EXCEPT ![Next.h.id] = @ + 1],
         overtaken' = IF \E i \in 1..(Len(dispatches) - 1) :
                           \E x \in ToSet(dispatches[i].queue) : x.h.id = Next.h.id
                      THEN overtaken \cup {Next.h.id} ELSE overtaken,
         IF Next.h.one THEN eventRemove(Next.of, NextsPlaces)
         ELSE UNCHANGED <<handlers, listening>>,
         UNCHANGED <<added, ones>>
  PROVE  EInv'
<1> DEFINE id == Next.h.id
           one == Next.h.one
           n == Len(dispatches)
           tail == Tail(Waiting)
<1>1. /\ EShape /\ RunsOk /\ (\A x \in Elements : ElementOk(x)) /\ OnOneElement(handlers)
      /\ added \in 0..MaxHandlers /\ ran \in [1..MaxHandlers -> Nat]
      /\ ones \in SUBSET (1..added)
  BY DEF EInv, EShape
<1>2. /\ tail \in Seq(DueHandlers) /\ id \in 1..MaxHandlers /\ id <= added
      /\ QueueOk(tail, handlers, ones, added, ran, overtaken)
      /\ \A i \in 1..Len(tail) : tail[i].h.id # id
      /\ (one <=> id \in ones) /\ (one /\ ran[id] > 0 => id \in overtaken)
  <2>1. Next.h \in Handlers
    BY NextOk
  <2>2. id \in 1..MaxHandlers
    BY <2>1 DEF Handlers
  <2> QED
    BY <2>2, NextOk
<1>3. /\ handlers' \in [Elements -> Lists] /\ listening' \in [Elements -> BOOLEAN]
      /\ \A x \in Elements : /\ InOrder(handlers'[x])
                             /\ listening'[x] <=> handlers'[x].list # <<>>
                             /\ Sub(handlers'[x].list, handlers[x].list)
      /\ one => \A x \in Elements : ~HasId(handlers'[x].list, id)
  BY OneLeaves
<1>4. /\ n \in Nat \ {0} /\ dispatches' \in Seq(Dispatches) /\ Len(dispatches') = n
      /\ dispatches'[n] = d
      /\ \A i \in 1..(n - 1) : dispatches'[i] = dispatches[i]
  <2>1. dispatches \in Seq(Dispatches) /\ dispatches' = Append(Front(dispatches), d)
    BY <1>1 DEF EShape, WithCurrent
  <2>2. ReplacesLast(dispatches, d, dispatches')
    BY <2>1, CurrentGoesOn
  <2> QED
    BY <2>2 DEF ReplacesLast
<1>5. /\ \A y \in overtaken : y \in overtaken'
      /\ \A i \in 1..(n - 1) : \A k \in 1..Len(dispatches[i].queue) :
           dispatches[i].queue[k].h.id = id => id \in overtaken'
  <2>1. ASSUME NEW i \in 1..(n - 1), NEW k \in 1..Len(dispatches[i].queue),
               dispatches[i].queue[k].h.id = id
        PROVE  id \in overtaken'
    <3>1. i \in 1..n
      BY <1>4
    <3>2. dispatches[i] \in Dispatches
      BY <1>1, <3>1 DEF EShape
    <3>3. dispatches[i].queue \in Seq(DueHandlers)
      BY <3>2 DEF Dispatches
    <3>4. dispatches[i].queue[k] \in ToSet(dispatches[i].queue)
      BY <3>3 DEF ToSet
    <3> QED
      BY <2>1, <3>4
  <2> QED
    BY <2>1
<1>6. ran' \in [1..MaxHandlers -> Nat] /\ ran' = [ran EXCEPT ![id] = @ + 1]
      /\ ran'[id] = ran[id] + 1 /\ \A y \in 1..MaxHandlers \ {id} : ran'[y] = ran[y]
  BY <1>1, <1>2
<1> HIDE DEF id, one, n, tail
<1>7. EShape'
  BY <1>1, <1>3, <1>4, <1>6 DEF EShape
<1>8. ASSUME NEW x \in Elements PROVE ElementOk(x)'
  <2> DEFINE l == handlers'[x].list
  <2>1. l \in Seq(Handlers)
    BY <1>3 DEF InOrder, Lists
  <2>2. NotRunYet(l, ones, added, ran)
    <3>1. NotRunYet(handlers[x].list, ones, added, ran)
      BY <1>1 DEF ElementOk
    <3> QED
      BY <1>3, <3>1, SubKeeps
  <2>3. one => ~HasId(l, id)
    BY <1>3
  <2> HIDE DEF l
  <2>4. ASSUME NEW i \in 1..Len(l), l[i].one PROVE ran'[l[i].id] = 0
    <3>1. l[i] \in Handlers
      BY <2>1
    <3>2. l[i].id \in 1..MaxHandlers
      BY <3>1 DEF Handlers
    <3>3. ran[l[i].id] = 0 /\ l[i].id \in ones
      BY <2>2, <2>4 DEF NotRunYet
    <3>4. l[i].id # id
      BY <1>2, <2>3, <3>3 DEF HasId
    <3> QED
      BY <1>6, <3>2, <3>3, <3>4
  <2>5. NotRunYet(l, ones, added, ran')
    BY <2>2, <2>4 DEF NotRunYet
  <2> QED
    BY <1>3, <2>5 DEF ElementOk, l
<1>9. OnOneElement(handlers)'
  <2>1. \A x \in Elements : \A y : HasId(handlers'[x].list, y) => HasId(handlers[x].list, y)
    BY <1>3, SubKeeps
  <2> QED
    BY <1>1, <2>1 DEF OnOneElement
<1>10. RunsOk'
  <2> SUFFICES ASSUME NEW y \in 1..MaxHandlers
               PROVE  /\ y > added => ran'[y] = 0
                      /\ y \in ones /\ ran'[y] > 1 => y \in overtaken'
    BY DEF RunsOk
  <2>1. /\ y > added => ran[y] = 0
        /\ y \in ones /\ ran[y] > 1 => y \in overtaken
    BY <1>1 DEF RunsOk
  <2>2. CASE y # id
    BY <1>5, <1>6, <2>1, <2>2
  <2>3. CASE y = id
    <3>1. ~(y > added)
      BY <1>1, <1>2, <2>3
    <3>2. ASSUME y \in ones, ran'[y] > 1 PROVE y \in overtaken'
      <4>1. ran[id] \in Nat /\ ran[id] + 1 > 1
        BY <1>1, <1>2, <1>6, <2>3, <3>2
      <4>2. ran[id] > 0
        BY <4>1
      <4> QED
        BY <1>2, <1>5, <2>3, <3>2, <4>2
    <3> QED
      BY <3>1, <3>2
  <2> QED
    BY <2>2, <2>3
<1>11. ASSUME NEW q \in Seq(DueHandlers), QueueOk(q, handlers, ones, added, ran, overtaken),
              \A k \in 1..Len(q) : q[k].h.id = id => id \in overtaken'
       PROVE  QueueOk(q, handlers', ones, added, ran', overtaken')
  <2>1. QueueOk(q, handlers, ones, added, ran', overtaken')
    <3>1. /\ ran \in [1..MaxHandlers -> Nat] /\ id \in 1..MaxHandlers
          /\ overtaken \subseteq overtaken' /\ ran' = [ran EXCEPT ![id] = @ + 1]
      BY <1>1, <1>2, <1>5, <1>6
    <3>2. Heard(q, id, overtaken')
      BY <1>11 DEF Heard
    <3>3. QueueOk(q, handlers, ones, added, ran, overtaken)
      BY <1>11
    <3>4. QueueOk(q, handlers, ones, added, [ran EXCEPT ![id] = @ + 1], overtaken')
      BY <3>1, <3>2, <3>3, RunKeepsQueue, Zenon
    <3> QED
      BY <3>1, <3>4
  <2> QED
    BY <1>3, <2>1, SubKeepsQueues
<1>12. ASSUME NEW i \in 1..n
       PROVE  QueueOk(dispatches'[i].queue, handlers', ones, added, ran', overtaken')
  <2>1. CASE i = n
    <3>1. dispatches'[i].queue = tail
      BY <1>4, <2>1 DEF tail
    <3>2. QueueOk(tail, handlers', ones, added, ran', overtaken')
      BY <1>2, <1>11
    <3> QED
      BY <3>1, <3>2
  <2>2. CASE i # n
    <3>1. i \in 1..(n - 1)
      BY <1>4, <2>2
    <3> DEFINE q == dispatches[i].queue
    <3>2. QueueOk(q, handlers, ones, added, ran, overtaken)
      BY DEF EInv, n
    <3>3. q \in Seq(DueHandlers)
      <4>1. dispatches[i] \in Dispatches
        BY <1>1 DEF EShape, n
      <4> QED
        BY <4>1 DEF Dispatches
    <3>4. \A k \in 1..Len(q) : q[k].h.id = id => id \in overtaken'
      BY <1>5, <3>1
    <3>5. dispatches'[i].queue = q
      BY <1>4, <3>1
    <3> HIDE DEF q
    <3> QED
      BY <1>11, <3>2, <3>3, <3>4, <3>5
  <2> QED
    BY <2>1, <2>2
<1> QED
  BY <1>4, <1>7, <1>8, <1>9, <1>10, <1>12 DEF EInv

LEMMA DispatchKeeps == ASSUME EInv, Dispatch PROVE EInv'
<1> DEFINE c == Current
           x == Next
           next == Head(c.queue)
           tail == Tail(Waiting)
<1>1. /\ dispatches # <<>> /\ Waiting # <<>> /\ c \in Dispatches /\ c.queue = Waiting
      /\ tail \in Seq(DueHandlers) /\ x.at \in Nat /\ x.h.id \in 1..MaxHandlers
      /\ QueueOk(tail, handlers, ones, added, ran, overtaken)
      /\ UNCHANGED <<added, ones>>
  <2>1. dispatches # <<>> /\ Waiting # <<>> /\ UNCHANGED <<added, ones>>
    BY DEF Dispatch, Waiting
  <2>2. Next.h \in Handlers
    BY <2>1, NextOk
  <2>3. x.h.id \in 1..MaxHandlers
    BY <2>2 DEF Handlers
  <2> QED
    BY <2>1, <2>3, NextOk, CurrentOk DEF Waiting
<1>2. <<>> \in Seq(DueHandlers)
  OBVIOUS
<1> HIDE DEF tail
<1>3. CASE /\ dispatches' = WithCurrent([c EXCEPT !.queue = <<>>])
           /\ UNCHANGED <<handlers, listening, ran, overtaken>>
  <2> DEFINE d == [c EXCEPT !.queue = <<>>]
  <2>1. d \in Dispatches /\ d.queue = <<>>
    BY <1>1, <1>2 DEF Dispatches
  <2>2. QueueOk(d.queue, handlers, ones, added, ran, overtaken)
    BY <2>1 DEF QueueOk
  <2> HIDE DEF c
  <2> QED
    BY <1>1, <1>3, <2>1, <2>2, CurrentKeeps
<1>4. CASE /\ dispatches' = WithCurrent([c EXCEPT !.queue = tail, !.at = x.at])
           /\ UNCHANGED <<handlers, listening, ran, overtaken>>
  <2> DEFINE at == x.at
             d == [c EXCEPT !.queue = tail, !.at = at]
  <2>1. at \in Nat
    BY <1>1
  <2> HIDE DEF c, at
  <2>2. d \in Dispatches /\ d.queue = tail
    BY <1>1, <2>1 DEF Dispatches
  <2>3. dispatches' = WithCurrent(d)
    BY <1>4 DEF at
  <2> HIDE DEF d
  <2> QED
    BY <1>1, <1>4, <2>2, <2>3, CurrentKeeps
<1>5. CASE /\ dispatches' = WithCurrent([c EXCEPT !.queue = tail, !.at = x.at,
                                              !.running = x.h.id])
           /\ ran' = [ran EXCEPT ![x.h.id] = @ + 1]
           /\ overtaken' = IF \E i \in 1..(Len(dispatches) - 1) :
                                \E y \in ToSet(dispatches[i].queue) : y.h.id = x.h.id
                           THEN overtaken \cup {x.h.id} ELSE overtaken
           /\ IF x.h.one THEN eventRemove(x.of, NextsPlaces)
              ELSE UNCHANGED <<handlers, listening>>
  <2> DEFINE at == x.at
             id == x.h.id
             d == [c EXCEPT !.queue = tail, !.at = at, !.running = id]
  <2>1. at \in Nat /\ id \in 0..MaxHandlers
    BY <1>1
  <2> HIDE DEF c, at, id
  <2>2. d \in Dispatches /\ d.queue = tail
    BY <1>1, <2>1 DEF Dispatches
  <2>3. dispatches' = WithCurrent(d)
    BY <1>5 DEF at, id
  <2> HIDE DEF d
  <2> QED
    BY <1>1, <1>5, <2>2, <2>3, RunKeeps DEF tail
<1> QED
  BY <1>1, <1>3, <1>4, <1>5 DEF Dispatch, Next, Waiting, NextsPlaces, tail

LEMMA EventsStart == EInit => EInv
<1> SUFFICES ASSUME EInit PROVE EInv
  OBVIOUS
<1> DEFINE bare == [list |-> <<>>, delegateCount |-> 0]
<1>1. /\ \A e \in Elements : handlers[e] = bare /\ listening[e] = FALSE
      /\ added = 0 /\ ones = {} /\ dispatches = <<>>
      /\ \A y \in 1..MaxHandlers : ran[y] = 0
  BY DEF EInit
<1>2. bare \in Lists /\ Len(bare.list) = 0 /\ bare.list = <<>> /\ bare.delegateCount = 0
  <2>1. <<>> \in Seq(Handlers)
    OBVIOUS
  <2> QED
    BY <2>1 DEF Lists
<1>3. EShape
  <2>1. <<>> \in Seq(Dispatches) /\ 0 \in 0..MaxHandlers
    BY EventConstants
  <2> QED
    BY <1>2, <2>1 DEF EInit, EShape
<1> HIDE DEF bare
<1>4. \A e \in Elements : ElementOk(e)
  BY <1>1, <1>2 DEF ElementOk, InOrder, NotRunYet
<1>5. OnOneElement(handlers)
  BY <1>1, <1>2 DEF OnOneElement, HasId
<1>6. RunsOk
  BY <1>1 DEF RunsOk
<1> QED
  BY <1>1, <1>3, <1>4, <1>5, <1>6 DEF EInv

LEMMA EventsStep == EInv /\ [ENext]_eVars => EInv'
<1> SUFFICES ASSUME EInv, [ENext]_eVars PROVE EInv'
  OBVIOUS
<1>1. CASE UNCHANGED eVars
  BY <1>1 DEF eVars, EInv, EShape, ElementOk, RunsOk
<1>2. ASSUME NEW e \in Elements, NEW s \in {Direct} \cup Elements, NEW n \in Namespaces,
             NEW one \in BOOLEAN, on(e, s, n, one)
      PROVE  EInv'
  BY <1>2, OnKeeps
<1>3. ASSUME NEW e \in Elements, NEW what \in {"ns", "all", "**"}, off(e, what)
      PROVE  EInv'
  BY <1>3, OffKeeps
<1>4. ASSUME NEW e \in Elements, NEW n \in Namespaces, NEW only \in BOOLEAN,
             trigger(e, n, only)
      PROVE  EInv'
  BY <1>4, TriggerKeeps
<1>5. ASSUME NEW how, HandlerReturns(how) PROVE EInv'
  BY <1>5, ReturnKeeps
<1> QED
  BY <1>1, <1>2, <1>3, <1>4, <1>5, ReachKeeps, DispatchKeeps, OverKeeps DEF ENext

LEMMA EventsInOrder == EInv => HandlersInOrderOnce
<1> SUFFICES ASSUME EInv PROVE HandlersInOrderOnce
  OBVIOUS
<1>1. ASSUME NEW e \in Elements
      PROVE  /\ handlers[e].list \in Seq(Handlers)
             /\ DOMAIN handlers[e].list = 1..Len(handlers[e].list)
             /\ InOrder(handlers[e]) /\ NotRunYet(handlers[e].list, ones, added, ran)
             /\ listening[e] = (handlers[e].list # <<>>)
  <2>1. ElementOk(e) /\ listening[e] \in BOOLEAN
    BY DEF EInv, EShape
  <2> QED
    BY <2>1 DEF ElementOk, InOrder, Lists
<1>2. ASSUME NEW e \in Elements, NEW i \in DOMAIN handlers[e].list
      PROVE  (handlers[e].list[i].selector # Direct) = (i <= handlers[e].delegateCount)
  BY <1>1 DEF InOrder
<1>3. ASSUME NEW id \in ones
      PROVE  /\ ran[id] > 1 => id \in overtaken
             /\ ran[id] > 0 => \A e \in Elements :
                                 \A h \in ToSet(handlers[e].list) : h.id # id
  <2>1. id \in 1..MaxHandlers /\ ran[id] \in Nat
    BY EventConstants DEF EInv, EShape
  <2>2. ran[id] > 1 => id \in overtaken
    BY <2>1 DEF EInv, RunsOk
  <2>3. ASSUME ran[id] > 0, NEW e \in Elements, NEW h \in ToSet(handlers[e].list), h.id = id
        PROVE  FALSE
    <3>1. PICK i \in 1..Len(handlers[e].list) : h = handlers[e].list[i]
      BY <1>1, <2>3 DEF ToSet
    <3>2. h.one /\ ran[id] = 0
      BY <1>1, <2>3, <3>1 DEF NotRunYet
    <3> QED
      BY <2>1, <2>3, <3>2
  <2> QED
    BY <2>2, <2>3
<1> QED
  BY <1>1, <1>2, <1>3 DEF HandlersInOrderOnce

(* HandlersInOrderOnce for any branch, any number of handlers and of events: *)
(* the delegated handlers of an element come first, an element listens       *)
(* exactly while it has handlers, and a handler of one() is gone when it has *)
(* run, so that it runs again only where a dispatch held it before.          *)
THEOREM HandlersRunInOrder == ESpec => []HandlersInOrderOnce
<1>1. EInit => EInv
  BY EventsStart
<1>2. EInv /\ [ENext]_eVars => EInv'
  BY EventsStep
<1>3. EInv => HandlersInOrderOnce
  BY EventsInOrder
<1> QED
  BY <1>1, <1>2, <1>3, PTL DEF ESpec

-----------------------------------------------------------------------------
(******************************* deferreds *********************************)
AnyResults  == {Plain, Error, Foreign} \cup {Promise(d) : d \in Ids}
States    == {"pending", "resolved", "rejected"}
Cbs       == [does : {"resolve", "reject", "update", "pipe"}, to : Ids, part : 0..2]
CbCalls   == [cb : Cbs, value : AnyResults]
Reactions == [to : Ids, depth : Nat, ok : {"page", "Identity"}, no : {"Thrower"}]
Tasks     == [to : Ids, depth : Nat, value : AnyResults,
              handler : {"page", "Identity", "Thrower"}]
Outsides  == [to : Ids, depth : Nat, does : {"settle", "update"}]
Dfds      == [state : States, value : AnyResults, done : Seq(Cbs), fail : Seq(Cbs),
              thens : Seq(Reactions)]
Worlds    == [dfd : [Ids -> Dfds], stack : Seq(CbCalls), tasks : Seq(Tasks)]

Resolved(ds, v)  == v.is = "promise" => ds[v.of].state = "resolved"
Rejected(ds, v)  == v.is = "promise" /\ ds[v.of].state = "rejected"
HasForeign(pt)   == Foreign \in {pt[1], pt[2]}

(* A callback settles, or counts for, a deferred that nothing else settles. *)
CbOk(cb, kd) ==
  /\ kd[cb.to] \in {"pipe", "master"}
  /\ cb.does \in {"resolve", "pipe"} => kd[cb.to] = "pipe"
  /\ cb.does = "update" => kd[cb.to] = "master"

(* No part of a when() is counted twice.                                   *)
Counts(cb, d, i) == cb.does = "update" /\ cb.to = d /\ cb.part = i
SameCount(a, b)  == Counts(a, b.to, b.part) /\ b.does = "update" /\ b.part # 0
OnceInList(cbs)  == \A j, k \in 1..Len(cbs) : SameCount(cbs[j], cbs[k]) => j = k
OnceOnStack(st)  == \A j, k \in 1..Len(st) : SameCount(st[j].cb, st[k].cb) => j = k

DoneOk(cb, x, kd, pt) ==
  /\ CbOk(cb, kd) /\ cb.does # "reject"
  /\ cb.does = "update" => cb.part \in {1, 2} /\ pt[cb.to][cb.part] = Promise(x)

FailOk(cb, x, kd, pt) ==
  /\ CbOk(cb, kd) /\ cb.does = "reject"
  /\ kd[cb.to] = "master" => Promise(x) \in {pt[cb.to][1], pt[cb.to][2]}

ThenOk(r, kd, md) == kd[r.to] = "then" /\ r.depth <= md[r.to]

DfdOk(of, x, kd, md, pt) ==
  /\ of.state # "pending" => of.done = <<>> /\ of.fail = <<>> /\ of.thens = <<>>
  /\ \A k \in 1..Len(of.done) : DoneOk(of.done[k], x, kd, pt)
  /\ \A k \in 1..Len(of.fail) : FailOk(of.fail[k], x, kd, pt)
  /\ \A k \in 1..Len(of.thens) : ThenOk(of.thens[k], kd, md)
  /\ OnceInList(of.done)

CallOk(cb, ds, kd, pt) ==
  /\ CbOk(cb, kd)
  /\ cb.does = "update" => IF cb.part = 0 THEN HasForeign(pt[cb.to])
                           ELSE Resolved(ds, pt[cb.to][cb.part])
  /\ cb.does = "reject" /\ kd[cb.to] = "master" =>
       \/ HasForeign(pt[cb.to])
       \/ Rejected(ds, pt[cb.to][1]) \/ Rejected(ds, pt[cb.to][2])

WorldOk(w, kd, md, pt) ==
  /\ w \in Worlds
  /\ \A x \in Ids : DfdOk(w.dfd[x], x, kd, md, pt)
  /\ \A k \in 1..Len(w.stack) : CallOk(w.stack[k].cb, w.dfd, kd, pt)
  /\ OnceOnStack(w.stack)
  /\ \A k \in 1..Len(w.tasks) : ThenOk(w.tasks[k], kd, md)

(* A part that is still to come, or is about to be counted.                *)
Owes(w, pt, d, i) ==
  ~Resolved(w.dfd, pt[d][i]) \/ \E k \in 1..Len(w.stack) : Counts(w.stack[k].cb, d, i)

MasterOk(d, w, rem, pt) ==
  /\ \A i \in {1, 2} : Owes(w, pt, d, i) => rem[d] > 0
  /\ Owes(w, pt, d, 1) /\ Owes(w, pt, d, 2) => rem[d] > 1
  /\ w.dfd[d].state = "resolved" => Resolved(w.dfd, pt[d][1]) /\ Resolved(w.dfd, pt[d][2])
  /\ w.dfd[d].state = "rejected" => Rejected(w.dfd, pt[d][1]) \/ Rejected(w.dfd, pt[d][2])

Masters(w, kd, rem, pt) ==
  \A d \in Ids : kd[d] = "master" /\ ~HasForeign(pt[d]) => MasterOk(d, w, rem, pt)

(* What a promise of then() was told so far: what to follow, and at last   *)
(* how it is settled.                                                      *)
SaidSoFar(of, depth, wd) ==
  IF of.state = "pending"
  THEN Len(wd) = depth /\ (depth > 0 => Last(wd).how = "follow")
  ELSE /\ wd # <<>> /\ Last(wd).how = of.state /\ Last(wd).value = of.value

Words(ds, kd, md, wd) ==
  \A d \in Ids : kd[d] = "then" => SaidSoFar(ds[d], md[d], wd[d])

PartsOk(kd, pt) == \A d \in Ids : kd[d] = "master" => pt[d] \in AnyResults \X AnyResults

Said == [how : {"resolved", "rejected", "follow"}, value : AnyResults]

DeferredShape ==
  /\ made \in 0..MaxDeferreds
  /\ kind \in [Ids -> {"none", "root", "then", "pipe", "master"}]
  /\ maxDepth \in [Ids -> Nat] /\ remaining \in [Ids -> Nat]
  /\ outside \in SUBSET Outsides
  /\ parts \in [Ids -> {<<>>} \cup (AnyResults \X AnyResults)]
  /\ word \in [Ids -> Seq(Said)]
  /\ \A d \in Ids : kind[d] = "none" <=> d > made
  /\ \A d \in Ids : kind[d] = "none" =>
       dfd[d].state = "pending" /\ maxDepth[d] = 0 /\ word[d] = <<>>
  /\ PartsOk(kind, parts)

OutsideOk ==
  \A c \in outside : /\ c.does = "settle" => ThenOk(c, kind, maxDepth)
                     /\ c.does = "update" => kind[c.to] = "master" /\ HasForeign(parts[c.to])

DeferredInv ==
  /\ DeferredShape /\ OutsideOk
  /\ WorldOk(Here, kind, maxDepth, parts)
  /\ Masters(Here, kind, remaining, parts)
  /\ Words(dfd, kind, maxDepth, word)

(* A then() of a foreign thenable is asked below the depth of its promise. *)
Askings  == [to : Ids, depth : Nat]
AskingOk ==
  /\ asking \in Seq(Askings)
  /\ \A k \in 1..Len(asking) : /\ kind[asking[k].to] = "then"
                               /\ asking[k].depth < maxDepth[asking[k].to]

(* What resolve() does for the promise of c, but for the call of then().   *)
Says(c, o) == IF o.value = Promise(c.to) /\ ~o.throws
              THEN [throws |-> TRUE, value |-> Error] ELSE o
TellsMore(w, c, v) ==
  LET e    == c.to
      deep == maxDepth[e] + 1 IN
  /\ maxDepth' = [maxDepth EXCEPT ![e] = deep]
  /\ word' = [word EXCEPT ![e] = WordOf(e, c.depth, "follow", v)]
  /\ \/ /\ v.is = "promise" /\ outside' = outside
        /\ Becomes(AddThen(w, v.of, [to |-> e, depth |-> deep,
                                     ok |-> "Identity", no |-> "Thrower"]))
     \/ /\ outside' = outside \cup {[to |-> e, depth |-> deep, does |-> "settle"]}
        /\ Becomes(w)
Tells(w, c, o) ==
  LET v == Says(c, o).value IN
  \/ /\ Older(c) /\ Becomes(w) /\ UNCHANGED <<maxDepth, outside, word>>
  \/ /\ ~Older(c) /\ UNCHANGED <<maxDepth, outside>>
     /\ \E how \in {"resolved", "rejected"} :
          /\ word' = [word EXCEPT ![c.to] = WordOf(c.to, c.depth, how, v)]
          /\ Becomes(Settled(w, c.to, how, v))
  \/ ~Older(c) /\ TellsMore(w, c, v)

(* What every part of a world is.                                          *)
LEMMA WorldFields ==
  ASSUME NEW w \in Worlds
  PROVE  /\ w.dfd \in [Ids -> Dfds] /\ w.stack \in Seq(CbCalls) /\ w.tasks \in Seq(Tasks)
         /\ \A x \in Ids : /\ w.dfd[x].state \in States /\ w.dfd[x].value \in AnyResults
                           /\ w.dfd[x].done \in Seq(Cbs) /\ w.dfd[x].fail \in Seq(Cbs)
                           /\ w.dfd[x].thens \in Seq(Reactions)
         /\ \A k \in 1..Len(w.stack) : w.stack[k].cb \in Cbs /\ w.stack[k].value \in AnyResults
<1>1. w.dfd \in [Ids -> Dfds] /\ w.stack \in Seq(CbCalls) /\ w.tasks \in Seq(Tasks)
  BY DEF Worlds
<1>2. \A x \in Ids : w.dfd[x] \in Dfds
  BY <1>1
<1>3. \A k \in 1..Len(w.stack) : w.stack[k] \in CbCalls
  BY <1>1
<1> QED
  BY <1>1, <1>2, <1>3 DEF Dfds, CbCalls

LEMMA CbFields ==
  ASSUME NEW cb \in Cbs
  PROVE  /\ cb.to \in Ids /\ cb.part \in 0..2
         /\ cb.does \in {"resolve", "reject", "update", "pipe"}
  BY DEF Cbs

LEMMA CallbackIs ==
  ASSUME NEW does \in {"resolve", "reject", "update", "pipe"}, NEW to \in Ids,
         NEW part \in 0..2
  PROVE  /\ Callback(does, to, part) \in Cbs
         /\ Callback(does, to, part).does = does /\ Callback(does, to, part).to = to
         /\ Callback(does, to, part).part = part
  BY DEF Callback, Cbs

(* What is fired is in front.                                              *)
LEMMA InFront ==
  ASSUME NEW S, NEW s \in Seq(S), NEW t \in Seq(S)
  PROVE  /\ t \o s \in Seq(S)
         /\ \A k \in 1..Len(t \o s) :
              \/ k \in 1..Len(t) /\ (t \o s)[k] = t[k]
              \/ /\ k > Len(t) /\ k - Len(t) \in 1..Len(s)
                 /\ (t \o s)[k] = s[k - Len(t)]
         /\ Len(t \o s) = Len(t) + Len(s)
  OBVIOUS

LEMMA AnAppended ==
  ASSUME NEW S, NEW s \in Seq(S), NEW e \in S
  PROVE  /\ Append(s, e) \in Seq(S) /\ Len(Append(s, e)) = Len(s) + 1
         /\ \A k \in 1..Len(Append(s, e)) :
              \/ k \in 1..Len(s) /\ Append(s, e)[k] = s[k]
              \/ k = Len(s) + 1 /\ Append(s, e)[k] = e
  OBVIOUS

(* A promise among the results is one of a deferred there is room for.     *)
LEMMA PromiseIs ==
  /\ \A v \in AnyResults : v.is = "promise" => v.of \in Ids /\ v = Promise(v.of)
  /\ \A x : Promise(x).is = "promise" /\ Promise(x).of = x
  /\ Plain \in AnyResults /\ Error \in AnyResults /\ Foreign \in AnyResults
  /\ \A x \in Ids : Promise(x) \in AnyResults
  /\ Plain.is = "plain" /\ Error.is = "error" /\ Foreign.is = "foreign"
  /\ \A v \in AnyResults : v.is = "foreign" => v = Foreign
  /\ \A v \in AnyResults : v.is \in {"plain", "error", "foreign", "promise"}
<1>1. /\ \A x : Promise(x).is = "promise" /\ Promise(x).of = x
      /\ Plain.is = "plain" /\ Error.is = "error" /\ Foreign.is = "foreign"
  BY DEF Plain, Error, Foreign, Promise
<1>2. \A v \in AnyResults : v \in {Plain, Error, Foreign} \/ \E x \in Ids : v = Promise(x)
  BY DEF AnyResults
<1>3. /\ Plain \in AnyResults /\ Error \in AnyResults /\ Foreign \in AnyResults
      /\ \A x \in Ids : Promise(x) \in AnyResults
  BY DEF AnyResults
<1> QED
  BY <1>1, <1>2, <1>3

(* A settled deferred stays as it is, and no master comes to owe a part.   *)
Onward(w, u, kd, pt) ==
  /\ \A x \in Ids : w.dfd[x].state # "pending" =>
       u.dfd[x].state = w.dfd[x].state /\ u.dfd[x].value = w.dfd[x].value
  /\ \A d \in Ids, i \in {1, 2} :
       kd[d] = "master" /\ Owes(u, pt, d, i) => Owes(w, pt, d, i)

(* What was true of a part, or of a call, stays so.                        *)
SettledStay(ds, es) == \A x \in Ids : ds[x].state # "pending" => es[x].state = ds[x].state

LEMMA PartStays ==
  ASSUME NEW ds, NEW es, SettledStay(ds, es), NEW v \in AnyResults
  PROVE  /\ Resolved(ds, v) => Resolved(es, v)
         /\ Rejected(ds, v) => Rejected(es, v)
  BY PromiseIs DEF SettledStay, Resolved, Rejected

LEMMA CallStays ==
  ASSUME NEW ds, NEW es, SettledStay(ds, es), NEW kd, NEW pt, PartsOk(kd, pt),
         NEW cb \in Cbs, CallOk(cb, ds, kd, pt)
  PROVE  CallOk(cb, es, kd, pt)
<1>1. cb.to \in Ids /\ cb.part \in 0..2
  BY CbFields
<1>2. kd[cb.to] = "master" =>
        /\ pt[cb.to][1] \in AnyResults /\ pt[cb.to][2] \in AnyResults
  BY <1>1 DEF PartsOk
<1>3. cb.does = "update" => kd[cb.to] = "master"
  BY DEF CallOk, CbOk
<1>4. cb.does = "update" /\ cb.part # 0 => pt[cb.to][cb.part] \in AnyResults
  BY <1>1, <1>2, <1>3
<1> QED
  BY <1>2, <1>4, PartStays DEF CallOk

(******************************* the world *********************************)
LEMMA WorldIs ==
  ASSUME NEW ds \in [Ids -> Dfds], NEW st \in Seq(CbCalls), NEW ts \in Seq(Tasks)
  PROVE  [dfd |-> ds, stack |-> st, tasks |-> ts] \in Worlds
  BY DEF Worlds

LEMMA WorldChanges ==
  ASSUME NEW w \in Worlds
  PROVE  /\ \A st \in Seq(CbCalls) :
              [w EXCEPT !.stack = st] = [dfd |-> w.dfd, stack |-> st, tasks |-> w.tasks]
         /\ \A ts \in Seq(Tasks) :
              [w EXCEPT !.tasks = ts] = [dfd |-> w.dfd, stack |-> w.stack, tasks |-> ts]
         /\ \A ds \in [Ids -> Dfds] :
              [w EXCEPT !.dfd = ds] = [dfd |-> ds, stack |-> w.stack, tasks |-> w.tasks]
  BY DEF Worlds

LEMMA DfdFields ==
  /\ NewDeferred \in Dfds /\ NewDeferred.state = "pending"
  /\ NewDeferred.done = <<>> /\ NewDeferred.fail = <<>> /\ NewDeferred.thens = <<>>
  /\ \A state \in States, v \in AnyResults :
       LET of == [NewDeferred EXCEPT !.state = state, !.value = v] IN
       /\ of \in Dfds /\ of.state = state /\ of.value = v
       /\ of.done = <<>> /\ of.fail = <<>> /\ of.thens = <<>>
<1>1. <<>> \in Seq(Cbs) /\ <<>> \in Seq(Reactions) /\ Plain \in AnyResults
  BY PromiseIs
<1> QED
  BY <1>1 DEF NewDeferred, Dfds, States

LEMMA TaskOfThen ==
  ASSUME NEW r \in Reactions, NEW state \in States, NEW v \in AnyResults
  PROVE  /\ TaskOf(r, state, v) \in Tasks
         /\ TaskOf(r, state, v).to = r.to /\ TaskOf(r, state, v).depth = r.depth
<1>1. /\ r.to \in Ids /\ r.depth \in Nat /\ r.ok \in {"page", "Identity"}
      /\ r.no = "Thrower"
  BY DEF Reactions
<1>2. (IF state = "resolved" THEN r.ok ELSE r.no) \in {"page", "Identity", "Thrower"}
  BY <1>1
<1> QED
  BY <1>1, <1>2 DEF TaskOf, Tasks

(* To settle a deferred that is pending.                                   *)
Settles(w, u, x, state, v) ==
  /\ u.dfd[x].state = state /\ u.dfd[x].value = v
  /\ \A y \in Ids : y # x => u.dfd[y] = w.dfd[y]

Mine(of, state)        == IF state = "resolved" THEN of.done ELSE of.fail
Firing(mine, v)         == [i \in DOMAIN mine |-> [cb |-> mine[i], value |-> v]]
Late(thens, state, v)  == [i \in DOMAIN thens |-> TaskOf(thens[i], state, v)]

LEMMA FrontIs ==
  ASSUME NEW mine \in Seq(Cbs), NEW v \in AnyResults
  PROVE  /\ Firing(mine, v) \in Seq(CbCalls) /\ Len(Firing(mine, v)) = Len(mine)
         /\ \A k \in 1..Len(mine) : Firing(mine, v)[k].cb = mine[k]
<1>1. /\ \A i \in 1..Len(mine) : mine[i] \in Cbs
      /\ DOMAIN mine = 1..Len(mine) /\ Len(mine) \in Nat
  OBVIOUS
<1>2. \A i \in 1..Len(mine) : [cb |-> mine[i], value |-> v] \in CbCalls
  BY <1>1 DEF CbCalls
<1> QED
  BY <1>1, <1>2 DEF Firing

LEMMA LateIs ==
  ASSUME NEW thens \in Seq(Reactions), NEW state \in States, NEW v \in AnyResults
  PROVE  /\ Late(thens, state, v) \in Seq(Tasks)
         /\ Len(Late(thens, state, v)) = Len(thens)
         /\ \A k \in 1..Len(thens) : /\ Late(thens, state, v)[k].to = thens[k].to
                                     /\ Late(thens, state, v)[k].depth = thens[k].depth
<1>1. /\ \A i \in 1..Len(thens) : thens[i] \in Reactions
      /\ DOMAIN thens = 1..Len(thens) /\ Len(thens) \in Nat
  OBVIOUS
<1>2. \A i \in 1..Len(thens) :
        /\ TaskOf(thens[i], state, v) \in Tasks
        /\ TaskOf(thens[i], state, v).to = thens[i].to
        /\ TaskOf(thens[i], state, v).depth = thens[i].depth
  BY <1>1, TaskOfThen
<1> QED
  BY <1>1, <1>2 DEF Late

SettlesSo(w, u, x, state, v) ==
  /\ u \in Worlds /\ Settles(w, u, x, state, v)
  /\ u.dfd[x].done = <<>> /\ u.dfd[x].fail = <<>> /\ u.dfd[x].thens = <<>>
  /\ u.stack = Firing(Mine(w.dfd[x], state), v) \o w.stack
  /\ u.tasks = w.tasks \o Late(w.dfd[x].thens, state, v)

LEMMA SettlingDoes ==
  ASSUME NEW w \in Worlds, NEW x \in Ids, NEW state \in {"resolved", "rejected"},
         NEW v \in AnyResults, w.dfd[x].state = "pending",
         NEW u, u = Settled(w, x, state, v)
  PROVE  SettlesSo(w, u, x, state, v)
<1> DEFINE mine == Mine(w.dfd[x], state)
           thens == w.dfd[x].thens
           front == Firing(mine, v)
           late == Late(thens, state, v)
           of == [NewDeferred EXCEPT !.state = state, !.value = v]
           ds == [w.dfd EXCEPT ![x] = of]
<1>1. /\ mine \in Seq(Cbs) /\ thens \in Seq(Reactions) /\ state \in States
      /\ w.dfd \in [Ids -> Dfds] /\ w.stack \in Seq(CbCalls) /\ w.tasks \in Seq(Tasks)
  BY WorldFields DEF States, Mine
<1>2. /\ of \in Dfds /\ of.state = state /\ of.value = v
      /\ of.done = <<>> /\ of.fail = <<>> /\ of.thens = <<>>
  BY <1>1, DfdFields
<1>3. u = [dfd |-> ds, stack |-> front \o w.stack, tasks |-> w.tasks \o late]
  BY DEF Settled, Firing, Late, Mine
<1> HIDE DEF mine, thens, of
<1>4. front \in Seq(CbCalls) /\ late \in Seq(Tasks)
  BY <1>1, FrontIs, LateIs
<1> HIDE DEF front, late
<1>5. ds \in [Ids -> Dfds] /\ ds[x] = of /\ \A y \in Ids : y # x => ds[y] = w.dfd[y]
  BY <1>1, <1>2
<1> HIDE DEF ds
<1>6. front \o w.stack \in Seq(CbCalls) /\ w.tasks \o late \in Seq(Tasks)
  BY <1>1, <1>4
<1>7. u \in Worlds
  BY <1>3, <1>5, <1>6, WorldIs
<1>8. u.dfd = ds /\ u.stack = front \o w.stack /\ u.tasks = w.tasks \o late
  BY <1>3
<1>9. Settles(w, u, x, state, v) /\ u.dfd[x] = of
  BY <1>2, <1>5, <1>8 DEF Settles
<1> QED
  BY <1>2, <1>7, <1>8, <1>9 DEF mine, front, late, thens, SettlesSo

LEMMA SettledOk ==
  ASSUME NEW kd, NEW md, NEW pt, PartsOk(kd, pt), NEW w, WorldOk(w, kd, md, pt),
         NEW x \in Ids, NEW state \in {"resolved", "rejected"}, NEW v \in AnyResults,
         w.dfd[x].state = "pending", NEW u, u = Settled(w, x, state, v)
  PROVE  WorldOk(u, kd, md, pt) /\ Onward(w, u, kd, pt) /\ Settles(w, u, x, state, v)
<1> DEFINE mine == Mine(w.dfd[x], state)
           thens == w.dfd[x].thens
           front == Firing(mine, v)
           late == Late(thens, state, v)
<1>1. /\ w \in Worlds /\ DfdOk(w.dfd[x], x, kd, md, pt) /\ OnceOnStack(w.stack)
      /\ \A k \in 1..Len(w.stack) : CallOk(w.stack[k].cb, w.dfd, kd, pt)
      /\ \A k \in 1..Len(w.tasks) : ThenOk(w.tasks[k], kd, md)
  BY DEF WorldOk
<1>2. /\ u \in Worlds /\ Settles(w, u, x, state, v)
      /\ u.dfd[x].done = <<>> /\ u.dfd[x].fail = <<>> /\ u.dfd[x].thens = <<>>
      /\ u.stack = front \o w.stack /\ u.tasks = w.tasks \o late
  <2>1. SettlesSo(w, u, x, state, v)
    BY <1>1, SettlingDoes, Zenon
  <2> QED
    BY <2>1 DEF SettlesSo
<1>3. /\ mine \in Seq(Cbs) /\ thens \in Seq(Reactions)
      /\ w.stack \in Seq(CbCalls) /\ w.tasks \in Seq(Tasks) /\ state \in States
      /\ \A k \in 1..Len(w.stack) : w.stack[k].cb \in Cbs
  BY <1>1, WorldFields DEF States, Mine
<1>4. /\ front \in Seq(CbCalls) /\ Len(front) = Len(mine)
      /\ late \in Seq(Tasks) /\ Len(late) = Len(thens)
      /\ \A k \in 1..Len(mine) : front[k].cb = mine[k]
      /\ \A k \in 1..Len(thens) : /\ late[k].to = thens[k].to
                                  /\ late[k].depth = thens[k].depth
  <2> HIDE DEF mine, thens
  <2> QED
    BY <1>3, FrontIs, LateIs
<1>5. \A k \in 1..Len(thens) : ThenOk(thens[k], kd, md)
  BY <1>1 DEF DfdOk
<1>6. \A k \in 1..Len(late) : ThenOk(late[k], kd, md)
  <2> HIDE DEF thens, late
  <2> QED
    BY <1>4, <1>5 DEF ThenOk
<1>7. SettledStay(w.dfd, u.dfd)
  BY <1>2 DEF SettledStay, Settles
<1>8. /\ \A k \in 1..Len(mine) :
           IF state = "resolved" THEN DoneOk(mine[k], x, kd, pt)
                                 ELSE FailOk(mine[k], x, kd, pt)
      /\ state = "resolved" => OnceInList(mine)
  BY <1>1 DEF DfdOk, Mine
<1> HIDE DEF mine, thens, front, late
<1>9. \A k \in 1..Len(mine) : CallOk(mine[k], u.dfd, kd, pt)
  <2> SUFFICES ASSUME NEW k \in 1..Len(mine) PROVE CallOk(mine[k], u.dfd, kd, pt)
    OBVIOUS
  <2>1. u.dfd[x].state = state
    BY <1>2 DEF Settles
  <2>2. CASE state = "resolved"
    <3>1. DoneOk(mine[k], x, kd, pt)
      BY <1>8, <2>2
    <3>2. Resolved(u.dfd, Promise(x))
      BY <2>1, <2>2, PromiseIs DEF Resolved
    <3> QED
      BY <3>1, <3>2 DEF DoneOk, CallOk
  <2>3. CASE state = "rejected"
    <3>1. FailOk(mine[k], x, kd, pt)
      BY <1>8, <2>3
    <3>2. Rejected(u.dfd, Promise(x))
      BY <2>1, <2>3, PromiseIs DEF Rejected
    <3> QED
      BY <3>1, <3>2 DEF FailOk, CallOk
  <2> QED
    BY <2>2, <2>3
<1>10. \A k \in 1..Len(w.stack) : CallOk(w.stack[k].cb, u.dfd, kd, pt)
  BY <1>1, <1>3, <1>7, CallStays
<1>11. \A k \in 1..Len(u.stack) :
         \/ k \in 1..Len(mine) /\ u.stack[k].cb = mine[k]
         \/ /\ k > Len(mine) /\ k - Len(mine) \in 1..Len(w.stack)
            /\ u.stack[k].cb = w.stack[k - Len(mine)].cb
  BY <1>2, <1>3, <1>4, InFront, SMTT(25)
<1>12. \A k \in 1..Len(u.tasks) : ThenOk(u.tasks[k], kd, md)
  <2>1. \A k \in 1..Len(u.tasks) :
           \/ k \in 1..Len(w.tasks) /\ u.tasks[k] = w.tasks[k]
           \/ k - Len(w.tasks) \in 1..Len(late) /\ u.tasks[k] = late[k - Len(w.tasks)]
    BY <1>2, <1>3, <1>4, InFront
  <2> QED
    BY <1>1, <1>6, <2>1
<1>13. \A y \in Ids : DfdOk(u.dfd[y], y, kd, md, pt)
  <2> SUFFICES ASSUME NEW y \in Ids PROVE DfdOk(u.dfd[y], y, kd, md, pt)
    OBVIOUS
  <2>1. CASE y = x
    BY <1>2, <2>1 DEF DfdOk, OnceInList
  <2>2. CASE y # x
    BY <1>2, <2>2 DEF Settles, WorldOk
  <2> QED
    BY <2>1, <2>2
\* A callback of x that counts, and one that is already called: two parts.
<1>14. \A j \in 1..Len(mine), k \in 1..Len(w.stack) :
         ~SameCount(mine[j], w.stack[k].cb) /\ ~SameCount(w.stack[k].cb, mine[j])
  <2> SUFFICES ASSUME NEW j \in 1..Len(mine), NEW k \in 1..Len(w.stack),
                      \/ SameCount(mine[j], w.stack[k].cb)
                      \/ SameCount(w.stack[k].cb, mine[j])
               PROVE  FALSE
    OBVIOUS
  <2> DEFINE a == mine[j]
             b == w.stack[k].cb
  <2>1. /\ a.does = "update" /\ b.does = "update" /\ a.to = b.to /\ a.part = b.part
        /\ a.part # 0
    BY DEF SameCount, Counts
  <2>2. CallOk(b, w.dfd, kd, pt)
    BY <1>1
  <2>3. DoneOk(a, x, kd, pt)
    BY <1>8, <2>1 DEF FailOk
  <2> HIDE DEF a, b
  <2>4. Resolved(w.dfd, Promise(x))
    BY <2>1, <2>2, <2>3 DEF CallOk, DoneOk
  <2> QED
    BY <2>4, PromiseIs DEF Resolved
<1>15. \A j, k \in 1..Len(mine) : SameCount(mine[j], mine[k]) => j = k
  <2>1. CASE state = "resolved"
    BY <1>8, <2>1 DEF OnceInList
  <2>2. CASE state = "rejected"
    BY <1>8, <2>2 DEF FailOk, SameCount
  <2> QED
    BY <2>1, <2>2
<1>16. OnceOnStack(u.stack)
  <2> SUFFICES ASSUME NEW j \in 1..Len(u.stack), NEW k \in 1..Len(u.stack),
                      SameCount(u.stack[j].cb, u.stack[k].cb)
               PROVE  j = k
    BY DEF OnceOnStack
  <2>1. Len(mine) \in Nat
    BY <1>3
  <2>2. \A i, l \in 1..Len(w.stack) : SameCount(w.stack[i].cb, w.stack[l].cb) => i = l
    BY <1>1 DEF OnceOnStack
  <2>3. CASE j \in 1..Len(mine) /\ u.stack[j].cb = mine[j]
    <3>1. CASE k \in 1..Len(mine) /\ u.stack[k].cb = mine[k]
      BY <1>15, <2>3, <3>1
    <3>2. CASE /\ k - Len(mine) \in 1..Len(w.stack)
               /\ u.stack[k].cb = w.stack[k - Len(mine)].cb
      BY <1>14, <2>3, <3>2
    <3> QED
      BY <1>11, <3>1, <3>2
  <2>4. CASE /\ j > Len(mine) /\ j - Len(mine) \in 1..Len(w.stack)
             /\ u.stack[j].cb = w.stack[j - Len(mine)].cb
    <3>1. CASE k \in 1..Len(mine) /\ u.stack[k].cb = mine[k]
      BY <1>14, <2>4, <3>1
    <3>2. CASE /\ k > Len(mine) /\ k - Len(mine) \in 1..Len(w.stack)
               /\ u.stack[k].cb = w.stack[k - Len(mine)].cb
      <4>1. j - Len(mine) = k - Len(mine)
        BY <2>2, <2>4, <3>2
      <4> QED
        BY <2>1, <4>1
    <3> QED
      BY <1>11, <3>1, <3>2
  <2> QED
    BY <1>11, <2>3, <2>4
<1>17. Onward(w, u, kd, pt)
  <2>1. \A y \in Ids : w.dfd[y].state # "pending" =>
          u.dfd[y].state = w.dfd[y].state /\ u.dfd[y].value = w.dfd[y].value
    BY <1>2 DEF Settles
  <2>2. ASSUME NEW d \in Ids, NEW i \in {1, 2}, kd[d] = "master", Owes(u, pt, d, i)
        PROVE  Owes(w, pt, d, i)
    <3>1. pt[d][i] \in AnyResults
      BY <2>2 DEF PartsOk
    <3>2. CASE ~Resolved(u.dfd, pt[d][i])
      BY <1>7, <3>1, <3>2, PartStays DEF Owes
    <3>3. ASSUME NEW k \in 1..Len(u.stack), Counts(u.stack[k].cb, d, i)
          PROVE  Owes(w, pt, d, i)
      <4>1. CASE k \in 1..Len(mine) /\ u.stack[k].cb = mine[k]
        <5>1. Counts(mine[k], d, i)
          BY <3>3, <4>1
        <5>2. DoneOk(mine[k], x, kd, pt)
          BY <1>8, <4>1, <5>1 DEF FailOk, Counts
        <5>3. pt[d][i] = Promise(x)
          BY <5>1, <5>2 DEF DoneOk, Counts
        <5>4. ~Resolved(w.dfd, pt[d][i])
          BY <5>3, PromiseIs DEF Resolved
        <5> QED
          BY <5>4 DEF Owes
      <4>2. CASE /\ k - Len(mine) \in 1..Len(w.stack)
                 /\ u.stack[k].cb = w.stack[k - Len(mine)].cb
        BY <3>3, <4>2 DEF Owes
      <4> QED
        BY <1>11, <4>1, <4>2
    <3> QED
      BY <2>2, <3>2, <3>3 DEF Owes
  <2> QED
    BY <2>1, <2>2 DEF Onward
<1>18. \A k \in 1..Len(u.stack) : CallOk(u.stack[k].cb, u.dfd, kd, pt)
  BY <1>9, <1>10, <1>11
<1> QED
  BY <1>2, <1>12, <1>13, <1>16, <1>17, <1>18 DEF WorldOk

(****************************** adding callbacks ***************************)
\* No callback there counts the same part.
Uncounted(w, cb) ==
  /\ \A k \in 1..Len(w.stack) : ~SameCount(w.stack[k].cb, cb)
  /\ \A x \in Ids : \A k \in 1..Len(w.dfd[x].done) : ~SameCount(w.dfd[x].done[k], cb)

LEMMA CountsAlike ==
  /\ \A a, b : SameCount(a, b) <=> SameCount(b, a)
  /\ \A a : a.does # "update" => \A b : ~SameCount(a, b) /\ ~SameCount(b, a)
  BY DEF SameCount, Counts

(* What adding a callback does to the rest.                                *)
AddsTo(w, u, cb, kd, md, pt) ==
  /\ WorldOk(u, kd, md, pt)
  /\ \A x \in Ids : u.dfd[x].state = w.dfd[x].state /\ u.dfd[x].value = w.dfd[x].value
  /\ \A d \in Ids, i \in {1, 2} :
       kd[d] = "master" /\ Owes(u, pt, d, i) => Owes(w, pt, d, i) \/ Counts(cb, d, i)
  /\ \A c \in Cbs : Uncounted(w, c) /\ ~SameCount(cb, c) => Uncounted(u, c)

LEMMA CallingOk ==
  ASSUME NEW kd, NEW md, NEW pt, NEW w, WorldOk(w, kd, md, pt), NEW cb \in Cbs,
         NEW v \in AnyResults, CallOk(cb, w.dfd, kd, pt), Uncounted(w, cb),
         NEW u, u = Calling(w, cb, v)
  PROVE  AddsTo(w, u, cb, kd, md, pt)
<1> DEFINE e == [cb |-> cb, value |-> v]
           st == <<e>> \o w.stack
<1>1. /\ w \in Worlds /\ OnceOnStack(w.stack)
      /\ \A k \in 1..Len(w.stack) : CallOk(w.stack[k].cb, w.dfd, kd, pt)
  BY DEF WorldOk
<1>2. w.stack \in Seq(CbCalls) /\ w.dfd \in [Ids -> Dfds] /\ w.tasks \in Seq(Tasks)
  BY <1>1, WorldFields
<1>3. e \in CbCalls /\ e.cb = cb
  BY DEF CbCalls
<1>4. [w EXCEPT !.stack = st] = u
  BY DEF Calling
<1> HIDE DEF e
<1>5. /\ <<e>> \in Seq(CbCalls) /\ Len(<<e>>) = 1 /\ <<e>>[1] = e
      /\ Len(w.stack) \in Nat
  BY <1>2, <1>3
<1>6. /\ st \in Seq(CbCalls)
      /\ \A k \in 1..Len(st) : \/ k = 1 /\ st[k] = e
                               \/ k > 1 /\ k - 1 \in 1..Len(w.stack) /\ st[k] = w.stack[k - 1]
  BY <1>2, <1>5, InFront
<1> HIDE DEF st
<1>7. u = [dfd |-> w.dfd, stack |-> st, tasks |-> w.tasks]
  BY <1>1, <1>4, <1>6, WorldChanges
<1>8. u \in Worlds /\ u.dfd = w.dfd /\ u.stack = st /\ u.tasks = w.tasks
  <2>1. [dfd |-> w.dfd, stack |-> st, tasks |-> w.tasks] \in Worlds
    BY <1>2, <1>6, WorldIs
  <2>2. u.dfd = w.dfd /\ u.stack = st /\ u.tasks = w.tasks
    BY <1>7
  <2> QED
    BY <1>7, <2>1, <2>2
<1>9. OnceOnStack(st)
  <2> SUFFICES ASSUME NEW j \in 1..Len(st), NEW k \in 1..Len(st),
                      SameCount(st[j].cb, st[k].cb)
               PROVE  j = k
    BY DEF OnceOnStack
  <2>1. \A i, l \in 1..Len(w.stack) : SameCount(w.stack[i].cb, w.stack[l].cb) => i = l
    BY <1>1 DEF OnceOnStack
  <2>2. \A i \in 1..Len(w.stack) :
          ~SameCount(w.stack[i].cb, cb) /\ ~SameCount(cb, w.stack[i].cb)
    BY CountsAlike DEF Uncounted
  <2>3. CASE j = 1 /\ st[j] = e
    BY <1>3, <1>6, <2>2, <2>3
  <2>4. CASE j > 1 /\ j - 1 \in 1..Len(w.stack) /\ st[j] = w.stack[j - 1]
    <3>1. k > 1 /\ k - 1 \in 1..Len(w.stack) /\ st[k] = w.stack[k - 1]
      BY <1>3, <1>6, <2>2, <2>4
    <3>2. j - 1 = k - 1
      BY <2>1, <2>4, <3>1
    <3> QED
      BY <1>5, <2>4, <3>1, <3>2
  <2> QED
    BY <1>6, <2>3, <2>4
<1>10. \A k \in 1..Len(st) : CallOk(st[k].cb, w.dfd, kd, pt)
  BY <1>1, <1>3, <1>6
<1>11. WorldOk(u, kd, md, pt)
  BY <1>8, <1>9, <1>10 DEF WorldOk
<1>12. \A d \in Ids, i \in {1, 2} :
         Owes(u, pt, d, i) => Owes(w, pt, d, i) \/ Counts(cb, d, i)
  BY <1>3, <1>6, <1>8 DEF Owes
<1>13. \A c \in Cbs : Uncounted(w, c) /\ ~SameCount(cb, c) => Uncounted(u, c)
  BY <1>3, <1>6, <1>8 DEF Uncounted
<1> QED
  BY <1>8, <1>11, <1>12, <1>13 DEF AddsTo

(* To put a callback on a list of a deferred that is pending.              *)
LEMMA ListedOk ==
  ASSUME NEW kd, NEW md, NEW pt, PartsOk(kd, pt), NEW w, WorldOk(w, kd, md, pt), NEW x \in Ids,
         w.dfd[x].state = "pending", NEW cb \in Cbs, NEW of \in Dfds,
         of.state = "pending", of.value = w.dfd[x].value,
         DfdOk(of, x, kd, md, pt),
         \A k \in 1..Len(of.done) :
           \/ of.done[k] = cb
           \/ \E j \in 1..Len(w.dfd[x].done) : of.done[k] = w.dfd[x].done[j],
         NEW u, u = With(w, x, of)
  PROVE  AddsTo(w, u, cb, kd, md, pt)
<1> DEFINE ds == [w.dfd EXCEPT ![x] = of]
<1>1. w \in Worlds
  BY DEF WorldOk
<1>2. w.stack \in Seq(CbCalls) /\ w.dfd \in [Ids -> Dfds] /\ w.tasks \in Seq(Tasks)
  BY <1>1, WorldFields
<1>3. ds \in [Ids -> Dfds] /\ ds[x] = of /\ \A y \in Ids : y # x => ds[y] = w.dfd[y]
  BY <1>2
<1>4. u = [w EXCEPT !.dfd = ds]
  BY DEF With
<1> HIDE DEF ds
<1>5. u = [dfd |-> ds, stack |-> w.stack, tasks |-> w.tasks]
  BY <1>1, <1>3, <1>4, WorldChanges
<1>6. u \in Worlds /\ u.dfd = ds /\ u.stack = w.stack /\ u.tasks = w.tasks
  <2>1. u.dfd = ds /\ u.stack = w.stack /\ u.tasks = w.tasks
    BY <1>5
  <2>2. ds \in [Ids -> Dfds]
    BY <1>3
  <2>3. [dfd |-> ds, stack |-> w.stack, tasks |-> w.tasks] \in Worlds
    BY <1>2, <2>2, WorldIs
  <2> QED
    BY <1>5, <2>1, <2>3
<1>7. \A y \in Ids : ds[y].state = w.dfd[y].state /\ ds[y].value = w.dfd[y].value
  BY <1>3
<1>8. SettledStay(w.dfd, ds) /\ SettledStay(ds, w.dfd)
  BY <1>7 DEF SettledStay
<1>9. \A y \in Ids : DfdOk(ds[y], y, kd, md, pt)
  BY <1>3 DEF WorldOk
<1>10. \A k \in 1..Len(w.stack) : CallOk(w.stack[k].cb, ds, kd, pt)
  <2>1. \A k \in 1..Len(w.stack) : /\ w.stack[k].cb \in Cbs
                                  /\ CallOk(w.stack[k].cb, w.dfd, kd, pt)
    BY <1>1, WorldFields DEF WorldOk
  <2> QED
    BY <1>8, <2>1, CallStays
<1>11. WorldOk(u, kd, md, pt)
  BY <1>6, <1>9, <1>10 DEF WorldOk
<1>12. ASSUME NEW d \in Ids, NEW i \in {1, 2}, kd[d] = "master", Owes(u, pt, d, i)
       PROVE  Owes(w, pt, d, i)
  <2>1. pt[d][i] \in AnyResults
    BY <1>12 DEF PartsOk
  <2>2. Resolved(w.dfd, pt[d][i]) => Resolved(ds, pt[d][i])
    BY <1>8, <2>1, PartStays
  <2> QED
    BY <1>6, <1>12, <2>2 DEF Owes
<1>13. ASSUME NEW c \in Cbs, Uncounted(w, c), ~SameCount(cb, c)
       PROVE  Uncounted(u, c)
  <2>1. \A k \in 1..Len(of.done) : ~SameCount(of.done[k], c)
    BY <1>13 DEF Uncounted
  <2> QED
    BY <1>3, <1>6, <1>13, <2>1 DEF Uncounted
<1> QED
  BY <1>6, <1>7, <1>11, <1>12, <1>13 DEF AddsTo

(* To change nothing.                                                      *)
LEMMA NothingAdded ==
  ASSUME NEW kd, NEW md, NEW pt, NEW w, WorldOk(w, kd, md, pt), NEW cb
  PROVE  AddsTo(w, w, cb, kd, md, pt)
  BY DEF AddsTo

LEMMA AddDoneOk ==
  ASSUME NEW kd, NEW md, NEW pt, PartsOk(kd, pt), NEW w, WorldOk(w, kd, md, pt),
         NEW x \in Ids, NEW cb \in Cbs, DoneOk(cb, x, kd, pt), Uncounted(w, cb),
         NEW u, u = AddDone(w, x, cb)
  PROVE  AddsTo(w, u, cb, kd, md, pt)
<1> DEFINE of == w.dfd[x]
           dones == Append(of.done, cb)
           new == [of EXCEPT !.done = dones]
<1>1. /\ w \in Worlds /\ DfdOk(of, x, kd, md, pt) /\ of \in Dfds /\ of.state \in States
      /\ of.done \in Seq(Cbs) /\ of.value \in AnyResults
  BY WorldFields DEF WorldOk
<1>2. CASE of.state = "pending"
  <2>1. u = With(w, x, new)
    BY <1>2 DEF AddDone
  <2>2. /\ dones \in Seq(Cbs)
        /\ \A k \in 1..Len(dones) : \/ k \in 1..Len(of.done) /\ dones[k] = of.done[k]
                                    \/ k = Len(of.done) + 1 /\ dones[k] = cb
    BY <1>1, AnAppended
  <2> HIDE DEF dones
  <2>3. /\ new \in Dfds /\ new.state = "pending" /\ new.value = of.value
        /\ new.done = dones /\ new.fail = of.fail /\ new.thens = of.thens
    BY <1>1, <1>2, <2>2 DEF Dfds
  <2> HIDE DEF new
  <2>4. OnceInList(dones)
    <3>1. \A j, k \in 1..Len(of.done) : SameCount(of.done[j], of.done[k]) => j = k
      BY <1>1 DEF DfdOk, OnceInList
    <3>2. \A k \in 1..Len(of.done) : ~SameCount(of.done[k], cb) /\ ~SameCount(cb, of.done[k])
      BY CountsAlike DEF Uncounted
    <3> QED
      BY <2>2, <3>1, <3>2 DEF OnceInList
  <2>5. DfdOk(new, x, kd, md, pt)
    BY <1>1, <2>2, <2>3, <2>4 DEF DfdOk
  <2>6. \A k \in 1..Len(new.done) :
           \/ new.done[k] = cb
           \/ \E j \in 1..Len(of.done) : new.done[k] = of.done[j]
    BY <2>2, <2>3
  <2> QED
    BY <1>2, <2>1, <2>3, <2>5, <2>6, ListedOk
<1>3. CASE of.state = "resolved"
  <2>1. u = Calling(w, cb, of.value)
    BY <1>3 DEF AddDone
  <2>2. CallOk(cb, w.dfd, kd, pt)
    BY <1>3, PromiseIs DEF DoneOk, CallOk, Resolved
  <2> QED
    BY <1>1, <2>1, <2>2, CallingOk
<1>4. CASE of.state = "rejected"
  <2>1. u = w
    BY <1>4 DEF AddDone
  <2> QED
    BY <2>1, NothingAdded
<1> QED
  BY <1>1, <1>2, <1>3, <1>4 DEF States

LEMMA AddFailOk ==
  ASSUME NEW kd, NEW md, NEW pt, PartsOk(kd, pt), NEW w, WorldOk(w, kd, md, pt),
         NEW x \in Ids, NEW cb \in Cbs, FailOk(cb, x, kd, pt),
         NEW u, u = AddFail(w, x, cb)
  PROVE  AddsTo(w, u, cb, kd, md, pt)
<1> DEFINE of == w.dfd[x]
           fail == Append(of.fail, cb)
           new == [of EXCEPT !.fail = fail]
<1>1. /\ w \in Worlds /\ DfdOk(of, x, kd, md, pt) /\ of \in Dfds /\ of.state \in States
      /\ of.fail \in Seq(Cbs) /\ of.value \in AnyResults
  BY WorldFields DEF WorldOk
<1>2. CASE of.state = "pending"
  <2>1. u = With(w, x, new)
    BY <1>2 DEF AddFail
  <2>2. /\ fail \in Seq(Cbs)
        /\ \A k \in 1..Len(fail) : \/ k \in 1..Len(of.fail) /\ fail[k] = of.fail[k]
                                   \/ k = Len(of.fail) + 1 /\ fail[k] = cb
    BY <1>1, AnAppended
  <2> HIDE DEF fail
  <2>3. /\ new \in Dfds /\ new.state = "pending" /\ new.value = of.value
        /\ new.fail = fail /\ new.done = of.done /\ new.thens = of.thens
    BY <1>1, <1>2, <2>2 DEF Dfds
  <2> HIDE DEF new
  <2>4. DfdOk(new, x, kd, md, pt)
    BY <1>1, <2>2, <2>3 DEF DfdOk
  <2> QED
    BY <1>2, <2>1, <2>3, <2>4, ListedOk
<1>3. CASE of.state = "rejected"
  <2>1. u = Calling(w, cb, of.value)
    BY <1>3 DEF AddFail
  <2>2. CallOk(cb, w.dfd, kd, pt)
    BY <1>3, PromiseIs DEF FailOk, CallOk, Rejected
  <2>3. Uncounted(w, cb)
    BY CountsAlike DEF FailOk, Uncounted
  <2> QED
    BY <1>1, <2>1, <2>2, <2>3, CallingOk
<1>4. CASE of.state = "resolved"
  <2>1. u = w
    BY <1>4 DEF AddFail
  <2> QED
    BY <2>1, NothingAdded
<1> QED
  BY <1>1, <1>2, <1>3, <1>4 DEF States

LEMMA FollowOk ==
  ASSUME NEW kd, NEW md, NEW pt, PartsOk(kd, pt), NEW w, WorldOk(w, kd, md, pt),
         NEW x \in Ids, NEW cb \in Cbs, DoneOk(cb, x, kd, pt), Uncounted(w, cb),
         NEW u, u = Follow(w, x, cb)
  PROVE  AddsTo(w, u, cb, kd, md, pt)
<1> DEFINE no == Callback("reject", cb.to, 0)
           m == AddDone(w, x, cb)
<1>1. cb.to \in Ids /\ cb.does \in {"resolve", "reject", "update", "pipe"}
  BY CbFields
<1>2. no \in Cbs /\ no.does = "reject" /\ no.to = cb.to
  BY <1>1, CallbackIs
<1>3. u = AddFail(m, x, no)
  BY DEF Follow
<1>4. FailOk(no, x, kd, pt)
  <2>1. CbOk(no, kd)
    BY <1>2 DEF CbOk, DoneOk
  <2>2. ASSUME kd[cb.to] = "master" PROVE Promise(x) \in {pt[cb.to][1], pt[cb.to][2]}
    BY <1>1, <2>2 DEF DoneOk, CbOk
  <2> QED
    BY <1>2, <2>1, <2>2 DEF FailOk
<1> HIDE DEF no
<1>5. AddsTo(w, m, cb, kd, md, pt)
  BY AddDoneOk
<1>6. WorldOk(m, kd, md, pt)
  BY <1>5 DEF AddsTo
<1> HIDE DEF m
<1>7. AddsTo(m, u, no, kd, md, pt)
  BY <1>2, <1>3, <1>4, <1>6, AddFailOk
<1>8. /\ \A d, i : ~Counts(no, d, i)
      /\ \A c \in Cbs : ~SameCount(no, c)
  BY <1>2, CountsAlike DEF Counts
<1> QED
  BY <1>5, <1>7, <1>8 DEF AddsTo

(* then() adds no callback of its own.                                     *)
LEMMA AddThenOk ==
  ASSUME NEW kd, NEW md, NEW pt, PartsOk(kd, pt), NEW w, WorldOk(w, kd, md, pt),
         NEW x \in Ids, NEW r \in Reactions, ThenOk(r, kd, md),
         NEW u, u = AddThen(w, x, r)
  PROVE  AddsTo(w, u, Callback("reject", x, 0), kd, md, pt)
<1> DEFINE of == w.dfd[x]
           thens == Append(of.thens, r)
           new == [of EXCEPT !.thens = thens]
           cb == Callback("reject", x, 0)
<1>1. /\ w \in Worlds /\ DfdOk(of, x, kd, md, pt) /\ of \in Dfds /\ of.state \in States
      /\ of.thens \in Seq(Reactions) /\ of.value \in AnyResults
  BY WorldFields DEF WorldOk
<1>2. cb \in Cbs
  BY CallbackIs
<1> HIDE DEF cb
<1>3. CASE of.state = "pending"
  <2>1. u = With(w, x, new)
    BY <1>3 DEF AddThen
  <2>2. /\ thens \in Seq(Reactions)
        /\ \A k \in 1..Len(thens) :
             \/ k \in 1..Len(of.thens) /\ thens[k] = of.thens[k]
             \/ k = Len(of.thens) + 1 /\ thens[k] = r
    BY <1>1, AnAppended
  <2> HIDE DEF thens
  <2>3. /\ new \in Dfds /\ new.state = "pending" /\ new.value = of.value
        /\ new.fail = of.fail /\ new.done = of.done /\ new.thens = thens
    BY <1>1, <1>3, <2>2 DEF Dfds
  <2> HIDE DEF new
  <2>4. DfdOk(new, x, kd, md, pt)
    BY <1>1, <2>2, <2>3 DEF DfdOk
  <2>5. AddsTo(w, u, cb, kd, md, pt)
    BY <1>2, <1>3, <2>1, <2>3, <2>4, ListedOk
  <2> QED
    BY <2>5 DEF cb
<1>4. CASE of.state # "pending"
  <2> DEFINE e == TaskOf(r, of.state, of.value)
             ts == Append(w.tasks, e)
  <2>1. [w EXCEPT !.tasks = ts] = u
    BY <1>4 DEF AddThen
  <2>2. e \in Tasks /\ e.to = r.to /\ e.depth = r.depth
    BY <1>1, TaskOfThen
  <2> HIDE DEF e
  <2>3. w.stack \in Seq(CbCalls) /\ w.dfd \in [Ids -> Dfds] /\ w.tasks \in Seq(Tasks)
    BY <1>1, WorldFields
  <2>4. /\ ts \in Seq(Tasks)
        /\ \A k \in 1..Len(ts) : \/ k \in 1..Len(w.tasks) /\ ts[k] = w.tasks[k]
                                 \/ k = Len(w.tasks) + 1 /\ ts[k] = e
    BY <2>2, <2>3, AnAppended
  <2> HIDE DEF ts
  <2>5. u = [dfd |-> w.dfd, stack |-> w.stack, tasks |-> ts]
    BY <1>1, <2>1, <2>4, WorldChanges
  <2>6. u.dfd = w.dfd /\ u.stack = w.stack /\ u.tasks = ts
    BY <2>5
  <2>7. u \in Worlds
    BY <2>3, <2>4, <2>5, WorldIs
  <2>8. \A k \in 1..Len(ts) : ThenOk(ts[k], kd, md)
    BY <2>2, <2>4 DEF ThenOk, WorldOk
  <2>9. WorldOk(u, kd, md, pt)
    BY <2>6, <2>7, <2>8 DEF WorldOk
  <2> QED
    BY <2>6, <2>9 DEF AddsTo, Owes, Uncounted
<1> QED
  BY <1>3, <1>4

(* The callback that is run next.                                          *)
Pops(w, u, cb, v, kd, md, pt) ==
  /\ WorldOk(u, kd, md, pt) /\ u.dfd = w.dfd
  /\ cb \in Cbs /\ v \in AnyResults /\ CallOk(cb, u.dfd, kd, pt)
  /\ \A d \in Ids, i \in {1, 2} :
       /\ Owes(u, pt, d, i) => Owes(w, pt, d, i)
       /\ Counts(cb, d, i) =>
            /\ Owes(w, pt, d, i)
            /\ \A k \in 1..Len(u.stack) : ~Counts(u.stack[k].cb, d, i)

LEMMA PoppedOk ==
  ASSUME NEW kd, NEW md, NEW pt, NEW w, WorldOk(w, kd, md, pt), w.stack # <<>>,
         NEW u, u = [w EXCEPT !.stack = Tail(w.stack)]
  PROVE  Pops(w, u, Head(w.stack).cb, Head(w.stack).value, kd, md, pt)
<1> DEFINE st == Tail(w.stack)
           cb == Head(w.stack).cb
<1>1. w \in Worlds /\ w.stack \in Seq(CbCalls) /\ w.stack # <<>>
  BY WorldFields DEF WorldOk
<1>2. w.dfd \in [Ids -> Dfds] /\ w.tasks \in Seq(Tasks)
  BY <1>1, WorldFields
<1>3. /\ st \in Seq(CbCalls) /\ 1 \in 1..Len(w.stack) /\ Head(w.stack) = w.stack[1]
      /\ \A k \in 1..Len(st) : k + 1 \in 1..Len(w.stack) /\ st[k] = w.stack[k + 1] /\ k + 1 # 1
      /\ \A k \in 1..Len(st) : k \in Nat
  BY <1>1
<1>4. u = [w EXCEPT !.stack = st]
  OBVIOUS
<1> HIDE DEF st
<1>5. u = [dfd |-> w.dfd, stack |-> st, tasks |-> w.tasks]
  BY <1>1, <1>3, <1>4, WorldChanges
<1>6. u.dfd = w.dfd /\ u.stack = st /\ u.tasks = w.tasks
  BY <1>5
<1>7. u \in Worlds
  <2>1. st \in Seq(CbCalls)
    BY <1>3
  <2>2. [dfd |-> w.dfd, stack |-> st, tasks |-> w.tasks] \in Worlds
    BY <1>2, <2>1, WorldIs
  <2> QED
    BY <1>5, <2>2
<1>8. cb \in Cbs /\ Head(w.stack).value \in AnyResults
  BY <1>1, <1>3, WorldFields
<1>9. CallOk(cb, u.dfd, kd, pt)
  BY <1>3, <1>6 DEF WorldOk
<1>10. OnceOnStack(st)
  <2> SUFFICES ASSUME NEW j \in 1..Len(st), NEW k \in 1..Len(st),
                      SameCount(st[j].cb, st[k].cb)
               PROVE  j = k
    BY DEF OnceOnStack
  <2>1. j + 1 = k + 1
    BY <1>3 DEF WorldOk, OnceOnStack
  <2> QED
    BY <1>3, <2>1
<1>11. WorldOk(u, kd, md, pt)
  BY <1>3, <1>6, <1>7, <1>10 DEF WorldOk
<1>12. ASSUME NEW d \in Ids, NEW i \in {1, 2}
       PROVE  Owes(u, pt, d, i) => Owes(w, pt, d, i)
  BY <1>3, <1>6 DEF Owes
<1>13. ASSUME NEW d \in Ids, NEW i \in {1, 2}, Counts(cb, d, i)
       PROVE  /\ Owes(w, pt, d, i)
              /\ \A k \in 1..Len(u.stack) : ~Counts(u.stack[k].cb, d, i)
  <2>1. Owes(w, pt, d, i)
    BY <1>3, <1>13 DEF Owes
  <2>2. ASSUME NEW k \in 1..Len(st), Counts(st[k].cb, d, i) PROVE FALSE
    <3>1. SameCount(w.stack[1].cb, w.stack[k + 1].cb)
      BY <1>3, <1>13, <2>2 DEF SameCount, Counts
    <3>2. 1 = k + 1
      BY <1>3, <3>1 DEF WorldOk, OnceOnStack
    <3> QED
      BY <1>3, <3>2
  <2> QED
    BY <1>6, <2>1, <2>2
<1> QED
  BY <1>6, <1>8, <1>9, <1>11, <1>12, <1>13 DEF Pops

LEMMA TaskTaken ==
  ASSUME NEW kd, NEW md, NEW pt, NEW w, WorldOk(w, kd, md, pt), w.tasks # <<>>,
         NEW u, u = [w EXCEPT !.tasks = Tail(w.tasks)]
  PROVE  /\ WorldOk(u, kd, md, pt) /\ u.dfd = w.dfd /\ u.stack = w.stack
         /\ Head(w.tasks) \in Tasks /\ ThenOk(Head(w.tasks), kd, md)
<1> DEFINE ts == Tail(w.tasks)
<1>1. w \in Worlds /\ w.tasks \in Seq(Tasks) /\ w.tasks # <<>>
  BY WorldFields DEF WorldOk
<1>2. w.dfd \in [Ids -> Dfds] /\ w.stack \in Seq(CbCalls)
  BY <1>1, WorldFields
<1>3. /\ ts \in Seq(Tasks) /\ 1 \in 1..Len(w.tasks) /\ Head(w.tasks) = w.tasks[1]
      /\ Head(w.tasks) \in Tasks
      /\ \A k \in 1..Len(ts) : k + 1 \in 1..Len(w.tasks) /\ ts[k] = w.tasks[k + 1]
  BY <1>1
<1>4. u = [w EXCEPT !.tasks = ts]
  OBVIOUS
<1> HIDE DEF ts
<1>5. u = [dfd |-> w.dfd, stack |-> w.stack, tasks |-> ts]
  BY <1>1, <1>3, <1>4, WorldChanges
<1>6. u.dfd = w.dfd /\ u.stack = w.stack /\ u.tasks = ts
  BY <1>5
<1>7. u \in Worlds
  <2>1. ts \in Seq(Tasks)
    BY <1>3
  <2>2. [dfd |-> w.dfd, stack |-> w.stack, tasks |-> ts] \in Worlds
    BY <1>2, <2>1, WorldIs
  <2> QED
    BY <1>5, <2>2
<1>8. WorldOk(u, kd, md, pt)
  BY <1>3, <1>6, <1>7 DEF WorldOk
<1>9. ThenOk(Head(w.tasks), kd, md)
  BY <1>3 DEF WorldOk
<1> QED
  BY <1>3, <1>6, <1>8, <1>9

(* A deferred is made, or a then() is asked deeper: what was right is so.  *)
Widens(kd, md, pt, kd2, md2, pt2) ==
  \A d \in Ids : /\ md[d] \in Nat /\ md2[d] \in Nat /\ md[d] <= md2[d]
                 /\ kd[d] # "none" => kd2[d] = kd[d] /\ pt2[d] = pt[d]

LEMMA WorldWidened ==
  ASSUME NEW kd, NEW md, NEW pt, NEW kd2, NEW md2, NEW pt2,
         Widens(kd, md, pt, kd2, md2, pt2), NEW w, WorldOk(w, kd, md, pt)
  PROVE  WorldOk(w, kd2, md2, pt2)
<1>1. w \in Worlds
  BY DEF WorldOk
<1>2. ASSUME NEW cb \in Cbs, CbOk(cb, kd)
      PROVE  CbOk(cb, kd2) /\ kd2[cb.to] = kd[cb.to] /\ pt2[cb.to] = pt[cb.to]
  BY <1>2, CbFields DEF CbOk, Widens
<1>3. ASSUME NEW r, r.to \in Ids, r.depth \in Nat, ThenOk(r, kd, md)
      PROVE  ThenOk(r, kd2, md2)
  BY <1>3 DEF ThenOk, Widens
<1>4. ASSUME NEW x \in Ids PROVE DfdOk(w.dfd[x], x, kd2, md2, pt2)
  <2> DEFINE of == w.dfd[x]
  <2>1. /\ of.done \in Seq(Cbs) /\ of.fail \in Seq(Cbs) /\ of.thens \in Seq(Reactions)
        /\ DfdOk(of, x, kd, md, pt)
    BY <1>1, WorldFields DEF WorldOk
  <2> HIDE DEF of
  <2>2. \A k \in 1..Len(of.done) : of.done[k] \in Cbs /\ DoneOk(of.done[k], x, kd, pt)
    BY <2>1 DEF DfdOk
  <2>3. \A k \in 1..Len(of.fail) : of.fail[k] \in Cbs /\ FailOk(of.fail[k], x, kd, pt)
    BY <2>1 DEF DfdOk
  <2>4. \A k \in 1..Len(of.thens) : of.thens[k] \in Reactions /\ ThenOk(of.thens[k], kd, md)
    BY <2>1 DEF DfdOk
  <2>5. \A k \in 1..Len(of.done) : DoneOk(of.done[k], x, kd2, pt2)
    BY <1>2, <2>2 DEF DoneOk
  <2>6. \A k \in 1..Len(of.fail) : FailOk(of.fail[k], x, kd2, pt2)
    BY <1>2, <2>3 DEF FailOk
  <2>7. \A k \in 1..Len(of.thens) : ThenOk(of.thens[k], kd2, md2)
    BY <1>3, <2>4 DEF Reactions
  <2> QED
    BY <2>1, <2>5, <2>6, <2>7 DEF DfdOk, of
<1>5. ASSUME NEW k \in 1..Len(w.stack) PROVE CallOk(w.stack[k].cb, w.dfd, kd2, pt2)
  <2>1. w.stack[k].cb \in Cbs /\ CallOk(w.stack[k].cb, w.dfd, kd, pt)
    BY <1>1, WorldFields DEF WorldOk
  <2> QED
    BY <1>2, <2>1 DEF CallOk
<1>6. ASSUME NEW k \in 1..Len(w.tasks) PROVE ThenOk(w.tasks[k], kd2, md2)
  <2>1. w.tasks \in Seq(Tasks)
    BY <1>1, WorldFields
  <2>2. w.tasks[k] \in Tasks
    BY <2>1
  <2>3. w.tasks[k].to \in Ids /\ w.tasks[k].depth \in Nat
    BY <2>2 DEF Tasks
  <2> QED
    BY <1>3, <2>3 DEF WorldOk
<1> QED
  BY <1>1, <1>4, <1>5, <1>6 DEF WorldOk

(* A master whose parts go on, and which is settled as they are.           *)
LEMMA MasterStays ==
  ASSUME NEW kd, NEW pt, PartsOk(kd, pt), NEW d \in Ids, kd[d] = "master",
         NEW rem, NEW rem2, rem2[d] = rem[d], NEW w, NEW u, MasterOk(d, w, rem, pt),
         SettledStay(w.dfd, u.dfd),
         \A i \in {1, 2} : Owes(u, pt, d, i) => Owes(w, pt, d, i),
         \/ u.dfd[d].state = w.dfd[d].state
         \/ /\ u.dfd[d].state = "resolved"
            /\ Resolved(u.dfd, pt[d][1]) /\ Resolved(u.dfd, pt[d][2])
         \/ /\ u.dfd[d].state = "rejected"
            /\ Rejected(u.dfd, pt[d][1]) \/ Rejected(u.dfd, pt[d][2])
  PROVE  MasterOk(d, u, rem2, pt)
<1>1. pt[d][1] \in AnyResults /\ pt[d][2] \in AnyResults
  BY DEF PartsOk
<1>2. /\ Resolved(w.dfd, pt[d][1]) => Resolved(u.dfd, pt[d][1])
      /\ Resolved(w.dfd, pt[d][2]) => Resolved(u.dfd, pt[d][2])
      /\ Rejected(w.dfd, pt[d][1]) => Rejected(u.dfd, pt[d][1])
      /\ Rejected(w.dfd, pt[d][2]) => Rejected(u.dfd, pt[d][2])
  BY <1>1, PartStays
<1> QED
  BY <1>2 DEF MasterOk

(***************************** the specification ***************************)
LEMMA HereBecomes ==
  ASSUME NEW w \in Worlds, Becomes(w)
  PROVE  Here' = w
<1>1. w = [dfd |-> w.dfd, stack |-> w.stack, tasks |-> w.tasks]
  BY DEF Worlds
<1>2. dfd' = w.dfd /\ stack' = w.stack /\ tasks' = w.tasks
  BY DEF Becomes
<1>3. Here' = [dfd |-> dfd', stack |-> stack', tasks |-> tasks']
  BY DEF Here
<1> QED
  BY <1>1, <1>2, <1>3

LEMMA HereIs == Here.dfd = dfd /\ Here.stack = stack /\ Here.tasks = tasks
  BY DEF Here

(* A master none of whose parts was added.                                 *)
LEMMA MastersAfterAdding ==
  ASSUME NEW kd, NEW md, NEW pt, PartsOk(kd, pt), NEW rem, NEW w, NEW u, NEW cb,
         AddsTo(w, u, cb, kd, md, pt), NEW d \in Ids, kd[d] = "master",
         MasterOk(d, w, rem, pt), NEW rem2, rem2[d] = rem[d],
         \A i \in {1, 2} : ~Counts(cb, d, i)
  PROVE  MasterOk(d, u, rem2, pt)
<1>1. SettledStay(w.dfd, u.dfd)
  BY DEF AddsTo, SettledStay
<1>2. u.dfd[d].state = w.dfd[d].state
  BY DEF AddsTo
<1>3. \A i \in {1, 2} : Owes(u, pt, d, i) => Owes(w, pt, d, i)
  BY DEF AddsTo
<1> QED
  BY <1>1, <1>2, <1>3, MasterStays

LEMMA InvFields ==
  ASSUME DeferredInv
  PROVE  /\ DeferredShape /\ OutsideOk /\ WorldOk(Here, kind, maxDepth, parts)
         /\ Masters(Here, kind, remaining, parts) /\ Words(dfd, kind, maxDepth, word)
         /\ PartsOk(kind, parts) /\ Here \in Worlds
  BY DEF DeferredInv, DeferredShape, WorldOk

(* What a promise was told stays, when its own deferred does.              *)
LEMMA WordsStay ==
  ASSUME NEW kd, NEW md, NEW wd, NEW ds, Words(ds, kd, md, wd), NEW es,
         \A d \in Ids : kd[d] = "then" =>
           es[d].state = ds[d].state /\ es[d].value = ds[d].value
  PROVE  Words(es, kd, md, wd)
  BY DEF Words, SaidSoFar

(******************************* a new deferred ****************************)
LEMMA MakeIs ==
  ASSUME DeferredInv,
         NEW as \in {"root", "then", "pipe", "master"}, Make(as),
         maxDepth' = maxDepth, word' = word, outside' \in SUBSET Outsides,
         remaining' \in [Ids -> Nat],
         parts' \in [Ids -> {<<>>} \cup (AnyResults \X AnyResults)],
         \A d \in Ids : d # NewId => parts'[d] = parts[d],
         as = "master" => parts'[NewId] \in AnyResults \X AnyResults
  PROVE  /\ (\A d \in Ids : dfd'[d].state = dfd[d].state) => DeferredShape'
         /\ NewId \in Ids /\ kind[NewId] = "none" /\ kind'[NewId] = as
         /\ dfd[NewId].state = "pending" /\ word[NewId] = <<>> /\ maxDepth[NewId] = 0
         /\ \A d \in Ids : d # NewId => kind'[d] = kind[d]
         /\ Widens(kind, maxDepth, parts, kind', maxDepth', parts')
         /\ WorldOk(Here, kind', maxDepth', parts') /\ PartsOk(kind', parts')
<1>1. /\ DeferredShape /\ WorldOk(Here, kind, maxDepth, parts) /\ MaxDeferreds \in Nat
  BY DeferredConstants DEF DeferredInv
<1>2. /\ made \in Nat /\ made' = made + 1 /\ made' \in 1..MaxDeferreds /\ NewId = made + 1
      /\ kind' = [kind EXCEPT ![NewId] = as]
  BY <1>1 DEF Make, NewId, DeferredShape
<1>3. NewId \in Ids /\ kind[NewId] = "none"
  BY <1>1, <1>2 DEF Ids, DeferredShape
<1>4. /\ kind' \in [Ids -> {"none", "root", "then", "pipe", "master"}]
      /\ kind'[NewId] = as /\ \A d \in Ids : d # NewId => kind'[d] = kind[d]
  BY <1>1, <1>2, <1>3 DEF DeferredShape
<1>5. /\ dfd[NewId].state = "pending" /\ word[NewId] = <<>> /\ maxDepth[NewId] = 0
      /\ maxDepth \in [Ids -> Nat]
  BY <1>1, <1>3 DEF DeferredShape
<1>6. PartsOk(kind', parts')
  BY <1>1, <1>3, <1>4 DEF PartsOk, DeferredShape
<1>7. \A d \in Ids : kind'[d] = "none" <=> d > made'
  <2>1. \A d \in Ids : kind[d] = "none" <=> d > made
    BY <1>1 DEF DeferredShape
  <2>2. \A d \in Ids : d \in Nat
    BY DeferredConstants DEF Ids
  <2>3. made \in Nat /\ made' = made + 1 /\ NewId = made + 1 /\ as # "none"
    BY <1>2
  <2> SUFFICES ASSUME NEW d \in Ids PROVE kind'[d] = "none" <=> d > made'
    OBVIOUS
  <2>4. CASE d = NewId
    <3>1. kind'[d] = as
      BY <1>4, <2>4
    <3>2. ~(d > made')
      BY <2>3, <2>4
    <3> QED
      BY <2>3, <3>1, <3>2
  <2>5. CASE d # NewId
    <3>1. kind'[d] = kind[d] /\ (kind[d] = "none" <=> d > made)
      BY <1>4, <2>1, <2>5
    <3>2. d > made <=> d > made'
      BY <2>2, <2>3, <2>5
    <3> QED
      BY <3>1, <3>2
  <2> QED
    BY <2>4, <2>5
<1>8. ASSUME \A d \in Ids : dfd'[d].state = dfd[d].state PROVE DeferredShape'
  <2>1. /\ word \in [Ids -> Seq(Said)]
        /\ \A d \in Ids : kind[d] = "none" =>
             dfd[d].state = "pending" /\ maxDepth[d] = 0 /\ word[d] = <<>>
    BY <1>1 DEF DeferredShape
  <2>2. \A d \in Ids : kind'[d] = "none" => kind[d] = "none"
    BY <1>3, <1>4
  <2>3. \A d \in Ids : kind'[d] = "none" =>
             dfd'[d].state = "pending" /\ maxDepth'[d] = 0 /\ word'[d] = <<>>
    BY <1>8, <2>1, <2>2
  <2>4. made' \in 0..MaxDeferreds /\ maxDepth' \in [Ids -> Nat] /\ word' \in [Ids -> Seq(Said)]
    BY <1>1, <1>2, <1>5, <2>1
  <2>5. kind' \in [Ids -> {"none", "root", "then", "pipe", "master"}]
    BY <1>4
  <2> QED
    BY <1>6, <1>7, <2>3, <2>4, <2>5, Zenon DEF DeferredShape
<1>9. Widens(kind, maxDepth, parts, kind', maxDepth', parts')
  BY <1>3, <1>4, <1>5 DEF Widens
<1>10. WorldOk(Here, kind', maxDepth', parts')
  BY <1>1, <1>9, WorldWidened
<1> QED
  BY <1>3, <1>4, <1>5, <1>6, <1>8, <1>9, <1>10

LEMMA DeferredKeeps == ASSUME DeferredInv, Deferred PROVE DeferredInv'
<1>1. /\ Make("root") /\ UNCHANGED <<dfd, maxDepth, remaining, stack, tasks, outside, parts, word>>
  BY DEF Deferred
<1>2. /\ DeferredShape /\ OutsideOk /\ Masters(Here, kind, remaining, parts)
      /\ Words(dfd, kind, maxDepth, word)
  BY InvFields
<1>3. /\ outside' \in SUBSET Outsides /\ remaining' \in [Ids -> Nat]
      /\ parts' \in [Ids -> {<<>>} \cup (AnyResults \X AnyResults)]
      /\ \A d \in Ids : parts'[d] = parts[d]
  BY <1>1, <1>2 DEF DeferredShape
<1>4. /\ (\A d \in Ids : dfd'[d].state = dfd[d].state) => DeferredShape'
      /\ NewId \in Ids /\ kind[NewId] = "none" /\ kind'[NewId] = "root"
      /\ \A d \in Ids : d # NewId => kind'[d] = kind[d]
      /\ WorldOk(Here, kind', maxDepth', parts')
  BY <1>1, <1>3, MakeIs
<1>5. DeferredShape'
  BY <1>1, <1>4
<1>6. Here' = Here
  BY <1>1 DEF Here
<1>7. OutsideOk'
  <2>1. \A c \in outside : c.to \in Ids
    BY <1>2 DEF DeferredShape, Outsides
  <2> QED
    BY <1>1, <1>2, <1>4, <2>1 DEF OutsideOk, ThenOk
<1>8. Masters(Here', kind', remaining', parts')
  BY <1>1, <1>2, <1>4, <1>6 DEF Masters, MasterOk
<1>9. Words(dfd', kind', maxDepth', word')
  BY <1>1, <1>2, <1>4 DEF Words
<1> QED
  BY <1>4, <1>5, <1>6, <1>7, <1>8, <1>9 DEF DeferredInv

LEMMA SettleKeeps ==
  ASSUME DeferredInv, NEW d \in Ids, NEW state \in {"resolved", "rejected"},
         NEW v \in AnyResults, Settle(d, state, v)
  PROVE  DeferredInv'
<1> DEFINE u == Settled(Here, d, state, v)
<1>1. /\ kind[d] = "root" /\ dfd[d].state = "pending" /\ Becomes(u)
      /\ UNCHANGED <<made, kind, maxDepth, remaining, outside, parts, word>>
  BY DEF Settle
<1>2. /\ DeferredShape /\ OutsideOk /\ Masters(Here, kind, remaining, parts)
      /\ Words(dfd, kind, maxDepth, word) /\ PartsOk(kind, parts)
      /\ WorldOk(Here, kind, maxDepth, parts)
  BY InvFields
<1>3. Here.dfd[d].state = "pending"
  BY <1>1, HereIs
<1>4. /\ WorldOk(u, kind, maxDepth, parts) /\ Onward(Here, u, kind, parts)
      /\ Settles(Here, u, d, state, v)
  BY <1>2, <1>3, SettledOk
<1> HIDE DEF u
<1>5. u \in Worlds
  BY <1>4 DEF WorldOk
<1>6. Here' = u /\ dfd' = u.dfd
  BY <1>1, <1>5, HereBecomes DEF Becomes
<1>7. \A x \in Ids : x # d => dfd'[x] = dfd[x]
  BY <1>4, <1>6, HereIs DEF Settles
<1>8. DeferredShape'
  <2>1. \A x \in Ids : kind[x] = "none" => x # d
    BY <1>1
  <2>2. \A x \in Ids : kind'[x] = "none" =>
          dfd'[x].state = "pending" /\ maxDepth'[x] = 0 /\ word'[x] = <<>>
    BY <1>1, <1>2, <1>7, <2>1 DEF DeferredShape
  <2> QED
    BY <1>1, <1>2, <2>2 DEF DeferredShape
<1>9. OutsideOk'
  BY <1>1, <1>2 DEF OutsideOk
<1>10. Masters(Here', kind', remaining', parts')
  <2> SUFFICES ASSUME NEW m \in Ids, kind[m] = "master", ~HasForeign(parts[m])
               PROVE  MasterOk(m, u, remaining, parts)
    BY <1>1, <1>6 DEF Masters
  <2>1. MasterOk(m, Here, remaining, parts)
    BY <1>2 DEF Masters
  <2>2. SettledStay(Here.dfd, u.dfd)
    BY <1>4 DEF Onward, SettledStay
  <2>3. \A i \in {1, 2} : Owes(u, parts, m, i) => Owes(Here, parts, m, i)
    BY <1>4 DEF Onward
  <2>4. u.dfd[m].state = Here.dfd[m].state
    BY <1>1, <1>6, <1>7, HereIs
  <2> QED
    BY <1>2, <2>1, <2>2, <2>3, <2>4, MasterStays
<1>11. Words(dfd', kind', maxDepth', word')
  <2>1. \A x \in Ids : kind[x] = "then" =>
          dfd'[x].state = dfd[x].state /\ dfd'[x].value = dfd[x].value
    BY <1>1, <1>7
  <2> QED
    BY <1>1, <1>2, <2>1, WordsStay
<1> QED
  BY <1>1, <1>4, <1>6, <1>8, <1>9, <1>10, <1>11 DEF DeferredInv

(* A new deferred, one callback of it somewhere, and nothing to count.     *)
LEMMA MakeAdds ==
  ASSUME DeferredInv, NEW as \in {"then", "pipe"}, Make(as),
         UNCHANGED <<maxDepth, remaining, outside, parts, word>>,
         NEW cb, cb.does # "update", NEW u, Becomes(u),
         AddsTo(Here, u, cb, kind', maxDepth', parts')
  PROVE  DeferredInv'
<1>2. /\ DeferredShape /\ OutsideOk /\ Masters(Here, kind, remaining, parts)
      /\ Words(dfd, kind, maxDepth, word) /\ PartsOk(kind, parts)
  BY InvFields
<1>3. /\ outside' \in SUBSET Outsides /\ remaining' \in [Ids -> Nat]
      /\ parts' \in [Ids -> {<<>>} \cup (AnyResults \X AnyResults)]
      /\ \A d \in Ids : parts'[d] = parts[d]
  BY <1>2 DEF DeferredShape
<1>4. /\ (\A d \in Ids : dfd'[d].state = dfd[d].state) => DeferredShape'
      /\ NewId \in Ids /\ kind[NewId] = "none" /\ kind'[NewId] = as
      /\ dfd[NewId].state = "pending" /\ word[NewId] = <<>> /\ maxDepth[NewId] = 0
      /\ \A d \in Ids : d # NewId => kind'[d] = kind[d]
      /\ PartsOk(kind', parts')
  BY <1>3, MakeIs
<1>5. WorldOk(u, kind', maxDepth', parts') /\ u \in Worlds
  BY DEF AddsTo, WorldOk
<1>6. Here' = u /\ dfd' = u.dfd
  BY <1>5, HereBecomes DEF Becomes
<1>7. \A d \in Ids : dfd'[d].state = dfd[d].state /\ dfd'[d].value = dfd[d].value
  BY <1>6, HereIs DEF AddsTo
<1>8. DeferredShape'
  BY <1>4, <1>7
<1>9. OutsideOk'
  <2>1. \A c \in outside : c.to \in Ids
    BY <1>2 DEF DeferredShape, Outsides
  <2> QED
    BY <1>2, <1>4, <2>1 DEF OutsideOk, ThenOk
<1>10. Masters(Here', kind', remaining', parts')
  <2> SUFFICES ASSUME NEW m \in Ids, kind'[m] = "master", ~HasForeign(parts'[m])
               PROVE  MasterOk(m, u, remaining', parts')
    BY <1>6 DEF Masters
  <2>1. kind[m] = "master"
    BY <1>4
  <2>2. MasterOk(m, Here, remaining, parts')
    BY <1>2, <2>1 DEF Masters
  <2>3. \A i \in {1, 2} : ~Counts(cb, m, i)
    BY DEF Counts
  <2>4. remaining'[m] = remaining[m]
    OBVIOUS
  <2> QED
    BY <1>4, <2>2, <2>3, <2>4, MastersAfterAdding
<1>11. Words(dfd', kind', maxDepth', word')
  <2> SUFFICES ASSUME NEW d \in Ids, kind'[d] = "then"
               PROVE  SaidSoFar(dfd'[d], maxDepth[d], word[d])
    BY DEF Words
  <2>1. CASE d = NewId
    BY <1>4, <1>7, <2>1 DEF SaidSoFar
  <2>2. CASE d # NewId
    <3>1. SaidSoFar(dfd[d], maxDepth[d], word[d])
      BY <1>2, <1>4, <2>2 DEF Words
    <3> QED
      BY <1>7, <3>1 DEF SaidSoFar
  <2> QED
    BY <2>1, <2>2
<1> QED
  BY <1>5, <1>6, <1>8, <1>9, <1>10, <1>11 DEF DeferredInv

LEMMA ThenKeeps ==
  ASSUME DeferredInv, NEW d \in Ids, NEW ok \in {"page", "Identity"},
         then(d, ok, "Thrower")
  PROVE  DeferredInv'
<1> DEFINE r == [to |-> NewId, depth |-> 0, ok |-> ok, no |-> "Thrower"]
           u == AddThen(Here, d, r)
           cb == Callback("reject", d, 0)
<1>1. /\ Make("then") /\ Becomes(u)
      /\ UNCHANGED <<maxDepth, remaining, outside, parts, word>>
  BY DEF then
<1>2. DeferredShape
  BY InvFields
<1>3. /\ outside' \in SUBSET Outsides /\ remaining' \in [Ids -> Nat]
      /\ parts' \in [Ids -> {<<>>} \cup (AnyResults \X AnyResults)]
      /\ \A x \in Ids : parts'[x] = parts[x]
  BY <1>1, <1>2 DEF DeferredShape
<1>4. /\ NewId \in Ids /\ kind'[NewId] = "then" /\ maxDepth[NewId] = 0
      /\ PartsOk(kind', parts') /\ WorldOk(Here, kind', maxDepth', parts')
  BY <1>1, <1>3, MakeIs
<1>5. r \in Reactions /\ ThenOk(r, kind', maxDepth')
  BY <1>1, <1>4 DEF Reactions, ThenOk
<1>6. AddsTo(Here, u, cb, kind', maxDepth', parts')
  BY <1>4, <1>5, AddThenOk
<1>7. cb.does # "update"
  BY DEF Callback
<1> HIDE DEF u, cb
<1> QED
  BY <1>1, <1>6, <1>7, MakeAdds

(* Only what there is to count is counted.                                 *)
LEMMA NothingToCount ==
  /\ \A w, cb : cb.does # "update" => Uncounted(w, cb)
  /\ \A w, cb : cb.part = 0 => Uncounted(w, cb)
  BY DEF Uncounted, SameCount, Counts

LEMMA PipeKeeps ==
  ASSUME DeferredInv, NEW d \in Ids, pipe(d)
  PROVE  DeferredInv'
<1> DEFINE cb == Callback("pipe", NewId, 0)
           u == Follow(Here, d, cb)
<1>1. /\ Make("pipe") /\ Becomes(u)
      /\ UNCHANGED <<maxDepth, remaining, outside, parts, word>>
  BY DEF pipe
<1>2. DeferredShape
  BY InvFields
<1>3. /\ outside' \in SUBSET Outsides /\ remaining' \in [Ids -> Nat]
      /\ parts' \in [Ids -> {<<>>} \cup (AnyResults \X AnyResults)]
      /\ \A x \in Ids : parts'[x] = parts[x]
  BY <1>1, <1>2 DEF DeferredShape
<1>4. /\ NewId \in Ids /\ kind'[NewId] = "pipe"
      /\ PartsOk(kind', parts') /\ WorldOk(Here, kind', maxDepth', parts')
  BY <1>1, <1>3, MakeIs
<1>5. cb \in Cbs /\ cb.does = "pipe" /\ cb.to = NewId
  BY <1>4, CallbackIs
<1> HIDE DEF cb
<1>6. DoneOk(cb, d, kind', parts') /\ Uncounted(Here, cb)
  BY <1>4, <1>5, NothingToCount DEF DoneOk, CbOk
<1>7. AddsTo(Here, u, cb, kind', maxDepth', parts')
  BY <1>4, <1>5, <1>6, FollowOk
<1> HIDE DEF u
<1> QED
  BY <1>1, <1>5, <1>7, MakeAdds

(******************************* when **************************************)
LEMMA AdoptOk ==
  ASSUME NEW kd, NEW md, NEW pt, PartsOk(kd, pt), NEW w, WorldOk(w, kd, md, pt),
         NEW cb \in Cbs, cb.does = "update", cb.part \in {1, 2}, kd[cb.to] = "master",
         NEW v \in AnyResults, pt[cb.to][cb.part] = v, Uncounted(w, cb),
         NEW u, u = adoptValue(w, v, cb)
  PROVE  AddsTo(w, u, cb, kd, md, pt)
<1>1. CbOk(cb, kd)
  BY DEF CbOk
<1>2. CASE v.is = "promise"
  <2>1. v.of \in Ids /\ v = Promise(v.of)
    BY <1>2, PromiseIs
  <2>2. DoneOk(cb, v.of, kd, pt)
    BY <1>1, <2>1 DEF DoneOk
  <2>3. u = Follow(w, v.of, cb)
    BY <1>2 DEF adoptValue
  <2> QED
    BY <2>1, <2>2, <2>3, FollowOk
<1>3. CASE v.is = "foreign"
  <2>1. u = w
    BY <1>3 DEF adoptValue
  <2> QED
    BY <2>1, NothingAdded
<1>4. CASE v.is \notin {"promise", "foreign"}
  <2>1. u = Calling(w, cb, v)
    BY <1>4 DEF adoptValue
  <2>2. CallOk(cb, w.dfd, kd, pt)
    BY <1>1, <1>4 DEF CallOk, Resolved
  <2> QED
    BY <2>1, <2>2, CallingOk
<1> QED
  BY <1>2, <1>3, <1>4

(* Nothing is there for a deferred that is not made.                       *)
LEMMA NothingForTheUnmade ==
  ASSUME NEW kd, NEW md, NEW pt, NEW w, WorldOk(w, kd, md, pt),
         NEW cb, kd[cb.to] = "none"
  PROVE  Uncounted(w, cb)
<1>1. \A k \in 1..Len(w.stack) : w.stack[k].cb.to # cb.to
  BY DEF WorldOk, CallOk, CbOk
<1>2. \A x \in Ids : \A k \in 1..Len(w.dfd[x].done) : w.dfd[x].done[k].to # cb.to
  BY DEF WorldOk, DfdOk, DoneOk, CbOk
<1> QED
  BY <1>1, <1>2 DEF Uncounted, SameCount, Counts

LEMMA WhenKeeps ==
  ASSUME DeferredInv, NEW v1 \in AnyResults, NEW v2 \in AnyResults, when(v1, v2)
  PROVE  DeferredInv'
<1> DEFINE cb1 == Callback("update", NewId, 1)
           cb2 == Callback("update", NewId, 2)
           m == adoptValue(Here, v1, cb1)
           u == adoptValue(m, v2, cb2)
           more == {[to |-> NewId, depth |-> 0, does |-> "update"] :
                      v \in {x \in {v1, v2} : x.is = "foreign"}}
<1>1. /\ Make("master") /\ Becomes(u) /\ outside' = outside \cup more
      /\ remaining' = [remaining EXCEPT ![NewId] = 2]
      /\ parts' = [parts EXCEPT ![NewId] = <<v1, v2>>]
      /\ UNCHANGED <<maxDepth, word>>
  BY DEF when
<1>2. /\ DeferredShape /\ OutsideOk /\ Masters(Here, kind, remaining, parts)
      /\ Words(dfd, kind, maxDepth, word) /\ WorldOk(Here, kind, maxDepth, parts)
  BY InvFields
<1>3. NewId \in Ids
  BY <1>1, <1>2, DeferredConstants DEF Make, NewId, Ids, DeferredShape
<1>4. /\ remaining' \in [Ids -> Nat]
      /\ parts' \in [Ids -> {<<>>} \cup (AnyResults \X AnyResults)]
      /\ \A x \in Ids : x # NewId => parts'[x] = parts[x] /\ remaining'[x] = remaining[x]
      /\ parts'[NewId] = <<v1, v2>> /\ remaining'[NewId] = 2
  <2>1. <<v1, v2>> \in {<<>>} \cup (AnyResults \X AnyResults)
    OBVIOUS
  <2>2. /\ parts \in [Ids -> {<<>>} \cup (AnyResults \X AnyResults)]
        /\ remaining \in [Ids -> Nat]
    BY <1>2 DEF DeferredShape
  <2> QED
    BY <1>1, <1>3, <2>1, <2>2
<1>5. outside' \in SUBSET Outsides
  <2>1. [to |-> NewId, depth |-> 0, does |-> "update"] \in Outsides
    BY <1>3 DEF Outsides
  <2> QED
    BY <1>1, <1>2, <2>1 DEF DeferredShape
<1>6. <<v1, v2>> \in AnyResults \X AnyResults /\ <<v1, v2>>[1] = v1 /\ <<v1, v2>>[2] = v2
  OBVIOUS
<1>7. /\ (\A d \in Ids : dfd'[d].state = dfd[d].state) => DeferredShape'
      /\ kind[NewId] = "none" /\ kind'[NewId] = "master"
      /\ dfd[NewId].state = "pending"
      /\ \A d \in Ids : d # NewId => kind'[d] = kind[d]
      /\ PartsOk(kind', parts') /\ WorldOk(Here, kind', maxDepth', parts')
  BY <1>1, <1>4, <1>5, <1>6, MakeIs
<1>8. /\ cb1 \in Cbs /\ cb1.does = "update" /\ cb1.to = NewId /\ cb1.part = 1
      /\ cb2 \in Cbs /\ cb2.does = "update" /\ cb2.to = NewId /\ cb2.part = 2
  BY <1>3, CallbackIs
<1> HIDE DEF cb1, cb2, more
<1>9. Uncounted(Here, cb1) /\ Uncounted(Here, cb2) /\ ~SameCount(cb1, cb2)
  BY <1>2, <1>7, <1>8, NothingForTheUnmade DEF SameCount, Counts
<1>10. AddsTo(Here, m, cb1, kind', maxDepth', parts')
  BY <1>4, <1>6, <1>7, <1>8, <1>9, AdoptOk
<1> HIDE DEF m
<1>11. WorldOk(m, kind', maxDepth', parts') /\ Uncounted(m, cb2)
  BY <1>8, <1>9, <1>10 DEF AddsTo
<1>12. AddsTo(m, u, cb2, kind', maxDepth', parts')
  BY <1>4, <1>6, <1>7, <1>8, <1>11, AdoptOk
<1> HIDE DEF u
<1>13. WorldOk(u, kind', maxDepth', parts') /\ u \in Worlds
  BY <1>12 DEF AddsTo, WorldOk
<1>14. Here' = u /\ dfd' = u.dfd
  BY <1>1, <1>13, HereBecomes DEF Becomes
<1>15. \A d \in Ids : dfd'[d].state = dfd[d].state /\ dfd'[d].value = dfd[d].value
  BY <1>10, <1>12, <1>14, HereIs DEF AddsTo
<1>16. DeferredShape'
  BY <1>7, <1>15
<1>17. OutsideOk'
  <2>1. \A c \in outside : c.to \in Ids
    BY <1>2 DEF DeferredShape, Outsides
  <2> SUFFICES ASSUME NEW c \in outside'
               PROVE  /\ c.does = "settle" => ThenOk(c, kind', maxDepth')
                      /\ c.does = "update" => kind'[c.to] = "master"
                                              /\ HasForeign(parts'[c.to])
    BY DEF OutsideOk
  <2>2. CASE c \in outside
    <3>1. c.to # NewId \/ c.does \notin {"settle", "update"}
      BY <1>2, <1>7, <2>2 DEF OutsideOk, ThenOk
    <3> QED
      BY <1>1, <1>2, <1>4, <1>7, <2>1, <2>2, <3>1 DEF OutsideOk, ThenOk
  <2>3. CASE c \in more
    <3>1. c.to = NewId /\ c.does = "update" /\ (v1.is = "foreign" \/ v2.is = "foreign")
      BY <2>3 DEF more
    <3>2. v1 = Foreign \/ v2 = Foreign
      BY <3>1, PromiseIs
    <3> QED
      BY <1>4, <1>6, <1>7, <3>1, <3>2 DEF HasForeign
  <2> QED
    BY <1>1, <2>2, <2>3
<1>18. Masters(Here', kind', remaining', parts')
  <2> SUFFICES ASSUME NEW d \in Ids, kind'[d] = "master", ~HasForeign(parts'[d])
               PROVE  MasterOk(d, u, remaining', parts')
    BY <1>14 DEF Masters
  <2>1. CASE d = NewId
    <3>1. u.dfd[d].state = "pending" /\ remaining'[d] = 2
      BY <1>4, <1>7, <1>14, <1>15, <2>1
    <3> QED
      BY <3>1 DEF MasterOk
  <2>2. CASE d # NewId
    <3>1. kind[d] = "master" /\ parts'[d] = parts[d] /\ remaining'[d] = remaining[d]
      BY <1>4, <1>7, <2>2
    <3>2. MasterOk(d, Here, remaining, parts)
      BY <1>2, <3>1 DEF Masters
    <3>3. MasterOk(d, Here, remaining, parts')
      BY <3>1, <3>2 DEF MasterOk, Owes
    <3>4. \A i \in {1, 2} : ~Counts(cb1, d, i) /\ ~Counts(cb2, d, i)
      BY <1>8, <2>2 DEF Counts
    <3>5. MasterOk(d, m, remaining, parts')
      BY <1>7, <1>10, <3>3, <3>4, MastersAfterAdding
    <3> QED
      BY <1>7, <1>12, <3>1, <3>4, <3>5, MastersAfterAdding
  <2> QED
    BY <2>1, <2>2
<1>19. Words(dfd', kind', maxDepth', word')
  <2> SUFFICES ASSUME NEW d \in Ids, kind'[d] = "then"
               PROVE  SaidSoFar(dfd'[d], maxDepth[d], word[d])
    BY <1>1 DEF Words
  <2>1. d # NewId /\ kind[d] = "then"
    BY <1>7
  <2>2. SaidSoFar(dfd[d], maxDepth[d], word[d])
    BY <1>2, <2>1 DEF Words
  <2> QED
    BY <1>15, <2>2 DEF SaidSoFar
<1> QED
  BY <1>13, <1>14, <1>16, <1>17, <1>18, <1>19 DEF DeferredInv

(******************************* what is running ***************************)
(* To settle a deferred, or find it settled.                               *)
SettlesOnce(w, u, x, state, v, kd, md, pt) ==
  /\ WorldOk(u, kd, md, pt) /\ Onward(w, u, kd, pt) /\ SettledStay(w.dfd, u.dfd)
  /\ \A y \in Ids : y # x => u.dfd[y] = w.dfd[y]
  /\ w.dfd[x].state = "pending" => u.dfd[x].state = state /\ u.dfd[x].value = v
  /\ w.dfd[x].state # "pending" => u = w

LEMMA SettledOrNot ==
  ASSUME NEW kd, NEW md, NEW pt, PartsOk(kd, pt), NEW w, WorldOk(w, kd, md, pt),
         NEW x \in Ids, NEW state \in {"resolved", "rejected"}, NEW v \in AnyResults,
         NEW u, u = Settled(w, x, state, v)
  PROVE  SettlesOnce(w, u, x, state, v, kd, md, pt)
<1>1. CASE w.dfd[x].state = "pending"
  <2>1. WorldOk(u, kd, md, pt) /\ Onward(w, u, kd, pt) /\ Settles(w, u, x, state, v)
    BY <1>1, SettledOk
  <2> QED
    BY <1>1, <2>1 DEF Settles, Onward, SettledStay, SettlesOnce
<1>2. CASE w.dfd[x].state # "pending"
  <2>1. u = w
    BY <1>2 DEF Settled
  <2> QED
    BY <1>2, <2>1 DEF Onward, SettledStay, SettlesOnce
<1> QED
  BY <1>1, <1>2

(* A master is settled as its parts are.                                   *)
LEMMA MastersSettled ==
  ASSUME NEW kd, NEW md, NEW pt, PartsOk(kd, pt), NEW rem, NEW w,
         WorldOk(w, kd, md, pt), Masters(w, kd, rem, pt),
         NEW x \in Ids, NEW state \in {"resolved", "rejected"}, NEW v \in AnyResults,
         NEW u, u = Settled(w, x, state, v),
         kd[x] = "master" /\ ~HasForeign(pt[x]) =>
           IF state = "resolved"
           THEN Resolved(w.dfd, pt[x][1]) /\ Resolved(w.dfd, pt[x][2])
           ELSE Rejected(w.dfd, pt[x][1]) \/ Rejected(w.dfd, pt[x][2])
  PROVE  Masters(u, kd, rem, pt)
<1>1. /\ Onward(w, u, kd, pt) /\ SettledStay(w.dfd, u.dfd)
      /\ \A y \in Ids : y # x => u.dfd[y] = w.dfd[y]
      /\ u.dfd[x].state = w.dfd[x].state \/ u.dfd[x].state = state
  <2>1. SettlesOnce(w, u, x, state, v, kd, md, pt)
    BY SettledOrNot, Zenon
  <2> QED
    BY <2>1 DEF SettlesOnce
<1> SUFFICES ASSUME NEW d \in Ids, kd[d] = "master", ~HasForeign(pt[d])
             PROVE  MasterOk(d, u, rem, pt)
  BY DEF Masters
<1>2. MasterOk(d, w, rem, pt)
  BY DEF Masters
<1>3. \A i \in {1, 2} : Owes(u, pt, d, i) => Owes(w, pt, d, i)
  BY <1>1 DEF Onward
<1>4. pt[d][1] \in AnyResults /\ pt[d][2] \in AnyResults
  BY DEF PartsOk
<1>5. \/ u.dfd[d].state = w.dfd[d].state
      \/ /\ u.dfd[d].state = "resolved"
         /\ Resolved(u.dfd, pt[d][1]) /\ Resolved(u.dfd, pt[d][2])
      \/ /\ u.dfd[d].state = "rejected"
         /\ Rejected(u.dfd, pt[d][1]) \/ Rejected(u.dfd, pt[d][2])
  <2>1. CASE d # x
    BY <1>1, <2>1
  <2>2. CASE d = x
    <3>1. /\ Resolved(w.dfd, pt[d][1]) => Resolved(u.dfd, pt[d][1])
          /\ Resolved(w.dfd, pt[d][2]) => Resolved(u.dfd, pt[d][2])
          /\ Rejected(w.dfd, pt[d][1]) => Rejected(u.dfd, pt[d][1])
          /\ Rejected(w.dfd, pt[d][2]) => Rejected(u.dfd, pt[d][2])
      BY <1>1, <1>4, PartStays
    <3> QED
      BY <1>1, <2>2, <3>1
  <2> QED
    BY <2>1, <2>2
<1>6. rem[d] = rem[d]
  OBVIOUS
<1> QED
  BY <1>1, <1>2, <1>3, <1>5, <1>6, MasterStays

(* A step that makes no deferred keeps the invariant when it keeps this.   *)
LEMMA StepKeeps ==
  ASSUME DeferredInv, UNCHANGED <<made, kind, parts>>, NEW u, Becomes(u),
         WorldOk(u, kind, maxDepth', parts), Masters(u, kind, remaining', parts),
         Words(u.dfd, kind, maxDepth', word'), OutsideOk',
         maxDepth' \in [Ids -> Nat], remaining' \in [Ids -> Nat],
         outside' \in SUBSET Outsides, word' \in [Ids -> Seq(Said)],
         \A d \in Ids : kind[d] = "none" =>
           /\ u.dfd[d].state = dfd[d].state /\ maxDepth'[d] = maxDepth[d]
           /\ word'[d] = word[d]
  PROVE  DeferredInv'
<1>1. DeferredShape
  BY InvFields
<1>2. u \in Worlds
  BY DEF WorldOk
<1>3. Here' = u /\ dfd' = u.dfd
  BY <1>2, HereBecomes DEF Becomes
<1>4. \A d \in Ids : kind'[d] = "none" =>
        dfd'[d].state = "pending" /\ maxDepth'[d] = 0 /\ word'[d] = <<>>
  BY <1>1, <1>3 DEF DeferredShape
<1>5. DeferredShape'
  BY <1>1, <1>4 DEF DeferredShape
<1> QED
  BY <1>3, <1>5 DEF DeferredInv

LEMMA RunCallbackKeeps == ASSUME DeferredInv, RunCallback PROVE DeferredInv'
<1> DEFINE cb == Head(stack).cb
           v  == Head(stack).value
           w  == [Here EXCEPT !.stack = Tail(stack)]
<1>1. /\ DeferredShape /\ OutsideOk /\ Masters(Here, kind, remaining, parts)
      /\ Words(dfd, kind, maxDepth, word) /\ PartsOk(kind, parts)
      /\ WorldOk(Here, kind, maxDepth, parts)
  BY InvFields
<1>2. stack # <<>> /\ UNCHANGED <<made, kind, maxDepth, outside, parts, word>>
  BY DEF RunCallback
<1>3. /\ WorldOk(w, kind, maxDepth, parts) /\ w.dfd = dfd
      /\ cb \in Cbs /\ v \in AnyResults /\ CallOk(cb, dfd, kind, parts)
      /\ \A d \in Ids, i \in {1, 2} :
           /\ Owes(w, parts, d, i) => Owes(Here, parts, d, i)
           /\ Counts(cb, d, i) =>
                /\ Owes(Here, parts, d, i)
                /\ \A k \in 1..Len(w.stack) : ~Counts(w.stack[k].cb, d, i)
  <2>1. Here.stack # <<>> /\ w = [Here EXCEPT !.stack = Tail(Here.stack)]
    BY <1>2, HereIs
  <2>2. cb = Head(Here.stack).cb /\ v = Head(Here.stack).value
    BY HereIs
  <2> HIDE DEF cb, v, w
  <2>3. Pops(Here, w, Head(Here.stack).cb, Head(Here.stack).value, kind, maxDepth, parts)
    BY <1>1, <2>1, PoppedOk, Zenon
  <2>4. Pops(Here, w, cb, v, kind, maxDepth, parts)
    BY <2>2, <2>3
  <2> QED
    BY <2>4, HereIs DEF Pops
<1>4. /\ cb.to \in Ids /\ cb.part \in 0..2
      /\ cb.does \in {"resolve", "reject", "update", "pipe"}
      /\ kind[cb.to] \in {"pipe", "master"}
      /\ cb.does \in {"resolve", "pipe"} => kind[cb.to] = "pipe"
      /\ cb.does = "update" => kind[cb.to] = "master"
  BY <1>3, CbFields DEF CallOk, CbOk
<1> DEFINE Runs(u) ==
      /\ Becomes(u) /\ WorldOk(u, kind, maxDepth, parts)
      /\ Masters(u, kind, remaining', parts) /\ remaining' \in [Ids -> Nat]
      /\ \A y \in Ids : y # cb.to => /\ u.dfd[y].state = dfd[y].state
                                     /\ u.dfd[y].value = dfd[y].value
<1>5. /\ remaining \in [Ids -> Nat] /\ maxDepth' \in [Ids -> Nat]
      /\ outside' \in SUBSET Outsides /\ word' \in [Ids -> Seq(Said)] /\ OutsideOk'
  BY <1>1, <1>2 DEF DeferredShape, OutsideOk
<1>6. ASSUME NEW u, Runs(u) PROVE DeferredInv'
  <2>1. \A y \in Ids : y # cb.to => /\ u.dfd[y].state = dfd[y].state
                                    /\ u.dfd[y].value = dfd[y].value
    BY <1>6
  <2>2. Words(u.dfd, kind, maxDepth', word')
    <3>1. \A y \in Ids : kind[y] = "then" =>
            u.dfd[y].state = dfd[y].state /\ u.dfd[y].value = dfd[y].value
      BY <1>4, <2>1
    <3> QED
      BY <1>1, <1>2, <3>1, WordsStay
  <2>3. \A d \in Ids : kind[d] = "none" =>
          /\ u.dfd[d].state = dfd[d].state /\ maxDepth'[d] = maxDepth[d]
          /\ word'[d] = word[d]
    BY <1>2, <1>4, <2>1
  <2>4. /\ Becomes(u) /\ WorldOk(u, kind, maxDepth', parts)
        /\ Masters(u, kind, remaining', parts) /\ remaining' \in [Ids -> Nat]
    BY <1>2, <1>6
  <2> QED
    BY <1>2, <1>5, <2>2, <2>3, <2>4, StepKeeps
<1> DEFINE SettlesTo(state, x) ==
      UNCHANGED remaining /\ Becomes(Settled(w, cb.to, state, x))
<1>7. \/ cb.does = "resolve" /\ SettlesTo("resolved", v)
      \/ cb.does = "reject" /\ SettlesTo("rejected", v)
      \/ /\ cb.does = "update"
         /\ remaining' = [remaining EXCEPT ![cb.to] = IF @ = 0 THEN 0 ELSE @ - 1]
         /\ Becomes(IF remaining[cb.to] = 1
                    THEN Settled(w, cb.to, "resolved", Plain) ELSE w)
      \/ cb.does = "pipe" /\ SettlesTo("resolved", Plain)
      \/ /\ cb.does = "pipe" /\ UNCHANGED remaining
         /\ \E x \in 1..made : Becomes(Follow(w, x, Callback("resolve", cb.to, 0)))
  BY <1>4 DEF RunCallback
<1> HIDE DEF cb, v, w
\* What was not an update leaves the masters to their parts.
<1>8. ASSUME cb.does # "update" PROVE Masters(w, kind, remaining, parts)
  <2> SUFFICES ASSUME NEW d \in Ids, kind[d] = "master", ~HasForeign(parts[d])
               PROVE  MasterOk(d, w, remaining, parts)
    BY DEF Masters
  <2>1. MasterOk(d, Here, remaining, parts)
    BY <1>1 DEF Masters
  <2> QED
    BY <1>3, <2>1, HereIs DEF MasterOk
<1>9. ASSUME cb.does # "update", NEW state \in {"resolved", "rejected"},
             NEW x \in AnyResults, SettlesTo(state, x),
             kind[cb.to] = "master" => state = "rejected" /\ cb.does = "reject"
      PROVE  DeferredInv'
  <2> DEFINE u == Settled(w, cb.to, state, x)
  <2>1. kind[cb.to] = "master" /\ ~HasForeign(parts[cb.to]) =>
          IF state = "resolved"
          THEN Resolved(w.dfd, parts[cb.to][1]) /\ Resolved(w.dfd, parts[cb.to][2])
          ELSE Rejected(w.dfd, parts[cb.to][1]) \/ Rejected(w.dfd, parts[cb.to][2])
    BY <1>3, <1>9 DEF CallOk
  <2>2. Masters(w, kind, remaining, parts)
    BY <1>8, <1>9
  <2>3. Masters(u, kind, remaining, parts)
    BY <1>1, <1>3, <1>4, <2>1, <2>2, MastersSettled
  <2>4. /\ WorldOk(u, kind, maxDepth, parts)
        /\ \A y \in Ids : y # cb.to => u.dfd[y] = dfd[y]
    <3>1. SettlesOnce(w, u, cb.to, state, x, kind, maxDepth, parts)
      BY <1>1, <1>3, <1>4, SettledOrNot
    <3> QED
      BY <1>3, <3>1 DEF SettlesOnce
  <2> HIDE DEF u
  <2>5. Becomes(u) /\ remaining' = remaining
    BY <1>9 DEF u
  <2> QED
    BY <1>5, <1>6, <2>3, <2>4, <2>5
\* The part that is counted is through; the other one may be owed.
<1>10. ASSUME cb.does = "update",
              remaining' = [remaining EXCEPT ![cb.to] = IF @ = 0 THEN 0 ELSE @ - 1],
              Becomes(IF remaining[cb.to] = 1
                      THEN Settled(w, cb.to, "resolved", Plain) ELSE w)
       PROVE  DeferredInv'
  <2>1. /\ remaining' \in [Ids -> Nat] /\ remaining[cb.to] \in Nat
        /\ \A d \in Ids : d # cb.to => remaining'[d] = remaining[d]
        /\ remaining[cb.to] > 0 => remaining'[cb.to] = remaining[cb.to] - 1
    BY <1>4, <1>5, <1>10
  <2>2. ASSUME ~HasForeign(parts[cb.to])
        PROVE  /\ MasterOk(cb.to, w, remaining', parts)
               /\ remaining[cb.to] = 1 => /\ Resolved(w.dfd, parts[cb.to][1])
                                          /\ Resolved(w.dfd, parts[cb.to][2])
    <3>1. MasterOk(cb.to, Here, remaining, parts)
      BY <1>1, <1>4, <1>10, <2>2 DEF Masters
    <3>2. /\ cb.part \in {1, 2} /\ Counts(cb, cb.to, cb.part)
          /\ Resolved(dfd, parts[cb.to][cb.part])
      BY <1>3, <1>4, <1>10, <2>2 DEF CallOk, Counts
    <3>3. Owes(Here, parts, cb.to, cb.part) /\ ~Owes(w, parts, cb.to, cb.part)
      BY <1>3, <1>4, <3>2 DEF Owes
    <3>4. remaining[cb.to] > 0
      BY <3>1, <3>2, <3>3 DEF MasterOk
    <3>5. \A j \in {1, 2} : j # cb.part =>
            /\ Owes(w, parts, cb.to, j) => Owes(Here, parts, cb.to, j)
            /\ Owes(Here, parts, cb.to, j) => remaining[cb.to] > 1
      BY <1>3, <1>4, <3>1, <3>2, <3>3 DEF MasterOk
    <3>6. \A j \in {1, 2} : Owes(w, parts, cb.to, j) => remaining'[cb.to] > 0
      BY <2>1, <3>3, <3>4, <3>5
    <3>7. ~(Owes(w, parts, cb.to, 1) /\ Owes(w, parts, cb.to, 2))
      BY <3>2, <3>3
    <3>8. MasterOk(cb.to, w, remaining', parts)
      BY <1>3, <3>1, <3>6, <3>7, HereIs DEF MasterOk
    <3>9. ASSUME remaining[cb.to] = 1, NEW j \in {1, 2}
          PROVE  Resolved(w.dfd, parts[cb.to][j])
      <4>1. CASE j = cb.part
        BY <1>3, <3>2, <4>1
      <4>2. CASE j # cb.part
        <5>1. ~Owes(Here, parts, cb.to, j)
          BY <3>5, <3>9, <4>2
        <5> QED
          BY <1>3, <5>1, HereIs DEF Owes
      <4> QED
        BY <4>1, <4>2
    <3> QED
      BY <3>8, <3>9
  <2>3. Masters(w, kind, remaining', parts)
    <3> SUFFICES ASSUME NEW d \in Ids, kind[d] = "master", ~HasForeign(parts[d])
                 PROVE  MasterOk(d, w, remaining', parts)
      BY DEF Masters
    <3>1. CASE d = cb.to
      BY <2>2, <3>1
    <3>2. CASE d # cb.to
      <4>1. MasterOk(d, Here, remaining, parts)
        BY <1>1 DEF Masters
      <4> QED
        BY <1>3, <2>1, <3>2, <4>1, HereIs DEF MasterOk
    <3> QED
      BY <3>1, <3>2
  <2>4. CASE remaining[cb.to] = 1
    <3> DEFINE u == Settled(w, cb.to, "resolved", Plain)
    <3>1. Plain \in AnyResults
      BY PromiseIs
    <3>2. Masters(u, kind, remaining', parts)
      BY <1>1, <1>3, <1>4, <2>2, <2>3, <2>4, <3>1, MastersSettled
    <3>3. /\ WorldOk(u, kind, maxDepth, parts)
          /\ \A y \in Ids : y # cb.to => u.dfd[y] = dfd[y]
      <4>1. SettlesOnce(w, u, cb.to, "resolved", Plain, kind, maxDepth, parts)
        BY <1>1, <1>3, <1>4, <3>1, SettledOrNot
      <4> QED
        BY <1>3, <4>1 DEF SettlesOnce
    <3> HIDE DEF u
    <3>4. Becomes(u)
      BY <1>10, <2>4 DEF u
    <3> QED
      BY <1>6, <2>1, <3>2, <3>3, <3>4
  <2>5. CASE remaining[cb.to] # 1
    BY <1>3, <1>6, <1>10, <2>1, <2>3, <2>5
  <2> QED
    BY <2>4, <2>5
\* What the function of pipe() returns is a promise.
<1>11. ASSUME cb.does = "pipe", UNCHANGED remaining, NEW x \in 1..made,
              Becomes(Follow(w, x, Callback("resolve", cb.to, 0)))
       PROVE  DeferredInv'
  <2> DEFINE new == Callback("resolve", cb.to, 0)
             u == Follow(w, x, new)
  <2>1. new \in Cbs /\ new.does = "resolve" /\ new.to = cb.to
    BY <1>4, CallbackIs
  <2>2. x \in Ids
    BY <1>1, DeferredConstants DEF DeferredShape, Ids
  <2> HIDE DEF new
  <2>3. DoneOk(new, x, kind, parts) /\ Uncounted(w, new)
    BY <1>4, <1>11, <2>1, NothingToCount DEF DoneOk, CbOk
  <2>4. AddsTo(w, u, new, kind, maxDepth, parts)
    BY <1>1, <1>3, <2>1, <2>2, <2>3, FollowOk
  <2> HIDE DEF u
  <2>5. Masters(w, kind, remaining, parts)
    BY <1>8, <1>11
  <2>6. Masters(u, kind, remaining, parts)
    <3> SUFFICES ASSUME NEW d \in Ids, kind[d] = "master", ~HasForeign(parts[d])
                 PROVE  MasterOk(d, u, remaining, parts)
      BY DEF Masters
    <3>1. MasterOk(d, w, remaining, parts)
      BY <2>5 DEF Masters
    <3>2. \A i \in {1, 2} : ~Counts(new, d, i)
      BY <2>1 DEF Counts
    <3>3. remaining[d] = remaining[d]
      OBVIOUS
    <3> QED
      BY <1>1, <2>4, <3>1, <3>2, <3>3, MastersAfterAdding
  <2>7. /\ WorldOk(u, kind, maxDepth, parts)
        /\ \A y \in Ids : u.dfd[y].state = dfd[y].state /\ u.dfd[y].value = dfd[y].value
    BY <1>3, <2>4 DEF AddsTo
  <2>8. Becomes(u) /\ remaining' = remaining
    BY <1>11 DEF u, new
  <2> QED
    BY <1>5, <1>6, <2>6, <2>7, <2>8
<1> QED
  <2>1. Plain \in AnyResults
    BY PromiseIs
  <2> HIDE DEF SettlesTo, Runs
  <2> QED
    BY <1>3, <1>4, <1>7, <1>9, <1>10, <1>11, <2>1

(* The first word at a depth counts: nothing was said there yet, if the    *)
(* promise is pending, and nothing counts, if it is settled.               *)
ToldSo(said, e, how, v) ==
  /\ said \in Seq(Said)
  /\ dfd[e].state = "pending" =>
       /\ said # <<>> /\ said # word[e] /\ Len(said) = Len(word[e]) + 1
       /\ Last(said).how = how /\ Last(said).value = v
  /\ dfd[e].state # "pending" => said = word[e]

LEMMA LastSaid ==
  ASSUME NEW wd \in Seq(Said), NEW how \in {"resolved", "rejected", "follow"},
         NEW v \in AnyResults
  PROVE  LET more == Append(wd, [how |-> how, value |-> v]) IN
         /\ more \in Seq(Said) /\ more # <<>> /\ more # wd /\ Len(more) = Len(wd) + 1
         /\ Last(more).how = how /\ Last(more).value = v
<1> DEFINE said == [how |-> how, value |-> v]
           more == Append(wd, said)
<1>1. said \in Said /\ said.how = how /\ said.value = v
  BY DEF Said
<1> HIDE DEF said
<1>2. more \in Seq(Said) /\ Len(more) = Len(wd) + 1 /\ more[Len(more)] = said
  BY <1>1
<1>3. Len(wd) \in Nat
  OBVIOUS
<1>4. Last(more) = said
  BY <1>2 DEF Last
<1> QED
  BY <1>1, <1>2, <1>3, <1>4 DEF said

LEMMA WordOfIs ==
  ASSUME NEW e \in Ids, word \in [Ids -> Seq(Said)], SaidSoFar(dfd[e], maxDepth[e], word[e]),
         dfd[e].state \in States, NEW how \in {"resolved", "rejected", "follow"},
         NEW v \in AnyResults, NEW depth, depth = maxDepth[e]
  PROVE  ToldSo(WordOf(e, depth, how, v), e, how, v)
<1>1. word[e] \in Seq(Said)
  OBVIOUS
<1>2. CASE dfd[e].state = "pending"
  <2>1. WordOf(e, depth, how, v) = Append(word[e], [how |-> how, value |-> v])
    BY <1>2 DEF SaidSoFar, WordOf
  <2> QED
    BY <1>1, <1>2, <2>1, LastSaid DEF ToldSo
<1>3. CASE dfd[e].state # "pending"
  <2>1. word[e] # <<>> /\ Last(word[e]).how # "follow"
    BY <1>3 DEF SaidSoFar, States
  <2>2. Len(word[e]) # 0 /\ Len(word[e]) \in Nat
    BY <1>1, <2>1
  <2>3. ~(Len(word[e]) = depth /\ (depth > 0 => Last(word[e]).how = "follow"))
    BY <2>1, <2>2
  <2> QED
    BY <1>1, <1>3, <2>3 DEF WordOf, ToldSo
<1> QED
  BY <1>2, <1>3

(* What a handler of then(), or a foreign thenable, does for a promise.    *)
LEMMA TellsKeeps ==
  ASSUME DeferredInv, UNCHANGED <<made, kind, remaining, parts>>,
         NEW w, WorldOk(w, kind, maxDepth, parts), w.dfd = dfd, w.stack = stack,
         NEW c, c.to \in Ids, c.depth \in Nat, ThenOk(c, kind, maxDepth),
         NEW o, o.throws \in BOOLEAN, o.value \in AnyResults, Tells(w, c, o)
  PROVE  DeferredInv'
<1> DEFINE e == c.to
           says == Says(c, o)
           deep == maxDepth[e] + 1
           Deep == /\ maxDepth' \in [Ids -> Nat]
                   /\ \A d \in Ids : /\ maxDepth[d] <= maxDepth'[d]
                                     /\ d # e => maxDepth'[d] = maxDepth[d]
<1>1. /\ DeferredShape /\ OutsideOk /\ Masters(Here, kind, remaining, parts)
      /\ Words(dfd, kind, maxDepth, word) /\ PartsOk(kind, parts)
      /\ WorldOk(Here, kind, maxDepth, parts)
  BY InvFields
<1>2. /\ e \in Ids /\ kind[e] = "then" /\ w \in Worlds
      /\ maxDepth \in [Ids -> Nat] /\ remaining' \in [Ids -> Nat]
      /\ word \in [Ids -> Seq(Said)] /\ outside \in SUBSET Outsides
  BY <1>1 DEF DeferredShape, ThenOk, WorldOk
<1>3. Masters(w, kind, remaining, parts)
  BY <1>1, HereIs DEF Masters, MasterOk, Owes
<1>4. /\ SaidSoFar(dfd[e], maxDepth[e], word[e]) /\ dfd[e].state \in States
      /\ word[e] \in Seq(Said)
  BY <1>1, <1>2, WorldFields DEF Words
<1>5. says.value \in AnyResults
  BY PromiseIs DEF Says
<1>6. ASSUME Deep PROVE WorldOk(w, kind, maxDepth', parts)
  <2>1. Widens(kind, maxDepth, parts, kind, maxDepth', parts)
    BY <1>2, <1>6 DEF Widens
  <2> QED
    BY <2>1, WorldWidened
<1>7. ASSUME Deep, NEW r, r.to \in Ids, r.depth \in Nat, ThenOk(r, kind, maxDepth)
      PROVE  ThenOk(r, kind, maxDepth')
  BY <1>2, <1>7 DEF ThenOk
<1> HIDE DEF Deep
<1>8. ASSUME Deep, NEW new \in SUBSET Outsides, outside' = outside \cup new,
             \A r \in new : r.does = "settle" /\ ThenOk(r, kind, maxDepth')
      PROVE  OutsideOk' /\ outside' \in SUBSET Outsides
  <2>1. \A r \in outside : r.to \in Ids /\ r.depth \in Nat
    BY <1>2 DEF Outsides
  <2>2. ASSUME NEW r \in outside
        PROVE  /\ r.does = "settle" => ThenOk(r, kind, maxDepth')
               /\ r.does = "update" => kind[r.to] = "master" /\ HasForeign(parts[r.to])
    BY <1>1, <1>7, <1>8, <2>1 DEF OutsideOk
  <2> QED
    BY <1>2, <1>8, <2>2 DEF OutsideOk
<1>9. ASSUME NEW u, NEW said \in Seq(Said), Deep, Becomes(u), OutsideOk',
             outside' \in SUBSET Outsides, WorldOk(u, kind, maxDepth', parts),
             Masters(u, kind, remaining, parts), word' = [word EXCEPT ![e] = said],
             SaidSoFar(u.dfd[e], maxDepth'[e], said),
             \A y \in Ids : y # e => /\ u.dfd[y].state = dfd[y].state
                                     /\ u.dfd[y].value = dfd[y].value
      PROVE  DeferredInv'
  <2>1. /\ maxDepth' \in [Ids -> Nat]
        /\ \A y \in Ids : y # e => maxDepth'[y] = maxDepth[y]
    BY <1>9 DEF Deep
  <2>2. /\ word' \in [Ids -> Seq(Said)] /\ word'[e] = said
        /\ \A y \in Ids : y # e => word'[y] = word[y]
    BY <1>2, <1>9
  <2>3. Words(u.dfd, kind, maxDepth', word')
    <3> SUFFICES ASSUME NEW y \in Ids, kind[y] = "then"
                 PROVE  SaidSoFar(u.dfd[y], maxDepth'[y], word'[y])
      BY DEF Words
    <3>1. CASE y = e
      BY <1>9, <2>2, <3>1
    <3>2. CASE y # e
      <4>1. SaidSoFar(dfd[y], maxDepth[y], word[y])
        BY <1>1 DEF Words
      <4> QED
        BY <1>9, <2>1, <2>2, <3>2, <4>1 DEF SaidSoFar
    <3> QED
      BY <3>1, <3>2
  <2>4. \A d \in Ids : kind[d] = "none" =>
          /\ u.dfd[d].state = dfd[d].state /\ maxDepth'[d] = maxDepth[d]
          /\ word'[d] = word[d]
    BY <1>2, <1>9, <2>1, <2>2
  <2>5. remaining' = remaining
    OBVIOUS
  <2>6. Masters(u, kind, remaining', parts)
    BY <1>9, <2>5
  <2> QED
    BY <1>2, <1>9, <2>1, <2>2, <2>3, <2>4, <2>6, StepKeeps
<1>10. ASSUME NEW state \in {"resolved", "rejected"}, NEW v \in AnyResults,
              NEW said \in Seq(Said), Deep, OutsideOk', outside' \in SUBSET Outsides,
              Becomes(Settled(w, e, state, v)), word' = [word EXCEPT ![e] = said],
              dfd[e].state = "pending" =>
                said # <<>> /\ Last(said).how = state /\ Last(said).value = v,
              dfd[e].state # "pending" => said = word[e]
       PROVE  DeferredInv'
  <2> DEFINE u == Settled(w, e, state, v)
  <2>1. SettlesOnce(w, u, e, state, v, kind, maxDepth', parts)
    <3>1. WorldOk(w, kind, maxDepth', parts)
      BY <1>6, <1>10
    <3> QED
      BY <1>1, <1>2, <3>1, SettledOrNot
  <2>2. Masters(u, kind, remaining, parts)
    <3>1. kind[e] # "master"
      BY <1>2
    <3> QED
      BY <1>1, <1>2, <1>3, <3>1, MastersSettled
  <2>3. Becomes(u)
    BY <1>10
  <2> HIDE DEF u
  <2>4. SaidSoFar(u.dfd[e], maxDepth'[e], said)
    <3>1. CASE dfd[e].state = "pending"
      BY <1>10, <2>1, <3>1 DEF SettlesOnce, SaidSoFar
    <3>2. CASE dfd[e].state # "pending"
      BY <1>4, <1>10, <2>1, <3>2 DEF SettlesOnce, SaidSoFar
    <3> QED
      BY <3>1, <3>2
  <2>5. /\ WorldOk(u, kind, maxDepth', parts)
        /\ \A y \in Ids : y # e => u.dfd[y] = dfd[y]
    BY <2>1 DEF SettlesOnce
  <2> QED
    BY <1>9, <1>10, <2>2, <2>3, <2>4, <2>5
<1>11. ASSUME maxDepth' = maxDepth PROVE Deep
  BY <1>2, <1>11 DEF Deep
<1>12. CASE Older(c)
  <2>1. Becomes(w) /\ UNCHANGED <<maxDepth, outside, word>>
    BY <1>12 DEF Tells
  <2>2. OutsideOk' /\ outside' \in SUBSET Outsides
    BY <1>1, <1>2, <2>1 DEF OutsideOk
  <2>3. Words(w.dfd, kind, maxDepth', word') /\ Masters(w, kind, remaining', parts)
    BY <1>1, <1>3, <2>1
  <2>4. WorldOk(w, kind, maxDepth', parts)
    BY <2>1
  <2>5. maxDepth' \in [Ids -> Nat] /\ word' \in [Ids -> Seq(Said)]
    BY <1>2, <2>1
  <2>6. \A d \in Ids : kind[d] = "none" =>
          /\ w.dfd[d].state = dfd[d].state /\ maxDepth'[d] = maxDepth[d]
          /\ word'[d] = word[d]
    BY <2>1
  <2> QED
    BY <1>2, <2>1, <2>2, <2>3, <2>4, <2>5, <2>6, StepKeeps
<1>13. CASE ~Older(c)
  <2>1. c.depth = maxDepth[e]
    BY <1>2, <1>13 DEF Older, ThenOk
  <2> DEFINE told(how) == WordOf(e, c.depth, how, says.value)
             next == [to |-> e, depth |-> deep, ok |-> "Identity", no |-> "Thrower"]
             foreign == [to |-> e, depth |-> deep, does |-> "settle"]
  <2>2. ASSUME NEW how \in {"resolved", "rejected", "follow"}
        PROVE  ToldSo(told(how), e, how, says.value)
    <3> HIDE DEF e, says
    <3> QED
      BY <1>2, <1>4, <1>5, <2>1, WordOfIs
  <2>3. ASSUME maxDepth' = [maxDepth EXCEPT ![e] = deep]
        PROVE  Deep /\ maxDepth'[e] = deep
    BY <1>2, <2>3 DEF Deep
  <2>4. ASSUME outside' = outside, Deep
        PROVE  OutsideOk' /\ outside' \in SUBSET Outsides
    <3>1. outside' = outside \cup {} /\ {} \in SUBSET Outsides
      BY <2>4
    <3> QED
      BY <1>8, <2>4, <3>1
  <2>5. ASSUME NEW how \in {"resolved", "rejected"},
               UNCHANGED <<maxDepth, outside>>, word' = [word EXCEPT ![e] = told(how)],
               Becomes(Settled(w, e, how, says.value))
        PROVE  DeferredInv'
    <3>1. Deep
      BY <1>11, <2>5
    <3>2. OutsideOk' /\ outside' \in SUBSET Outsides
      BY <2>4, <2>5, <3>1
    <3>3. ToldSo(told(how), e, how, says.value)
      BY <2>2
    <3> HIDE DEF told, says
    <3> QED
      BY <1>5, <1>10, <2>5, <3>1, <3>2, <3>3 DEF ToldSo
  \* The promise, or the foreign thenable, is asked one level deeper.
  <2>6. ASSUME maxDepth' = [maxDepth EXCEPT ![e] = deep], ToldSo(told("follow"), e, "follow", says.value)
        PROVE  SaidSoFar(dfd[e], maxDepth'[e], told("follow"))
    <3>1. maxDepth'[e] = maxDepth[e] + 1 /\ maxDepth[e] \in Nat
      BY <1>2, <2>3, <2>6
    <3> HIDE DEF told
    <3>2. CASE dfd[e].state = "pending"
      BY <1>4, <2>6, <3>1, <3>2 DEF ToldSo, SaidSoFar
    <3>3. CASE dfd[e].state # "pending"
      BY <1>4, <2>6, <3>3 DEF ToldSo, SaidSoFar
    <3> QED
      BY <3>2, <3>3
  <2>7. ToldSo(told("follow"), e, "follow", says.value)
    BY <2>2
  <2>8. next \in Reactions
    BY <1>2 DEF Reactions
  <2>9. ASSUME maxDepth' = [maxDepth EXCEPT ![e] = deep], outside' = outside,
               says.value.is = "promise", word' = [word EXCEPT ![e] = told("follow")],
               Becomes(AddThen(w, says.value.of, next))
        PROVE  DeferredInv'
    <3> DEFINE u == AddThen(w, says.value.of, next)
               cb == Callback("reject", says.value.of, 0)
    <3>1. Deep /\ maxDepth'[e] = deep
      BY <2>3, <2>9
    <3>2. OutsideOk' /\ outside' \in SUBSET Outsides
      BY <2>4, <2>9, <3>1
    <3>3. says.value.of \in Ids
      BY <1>5, <2>9, PromiseIs
    <3>4. ThenOk(next, kind, maxDepth') /\ WorldOk(w, kind, maxDepth', parts)
      BY <1>2, <1>6, <3>1 DEF ThenOk
    <3> HIDE DEF next, says, deep, told
    <3>5. AddsTo(w, u, cb, kind, maxDepth', parts)
      BY <1>1, <2>8, <3>3, <3>4, AddThenOk
    <3>6. cb.does = "reject"
      BY DEF Callback
    <3>7. Becomes(u)
      BY <2>9
    <3> HIDE DEF u, cb
    <3>8. Masters(u, kind, remaining, parts)
      <4> SUFFICES ASSUME NEW d \in Ids, kind[d] = "master", ~HasForeign(parts[d])
                   PROVE  MasterOk(d, u, remaining, parts)
        BY DEF Masters
      <4>1. MasterOk(d, w, remaining, parts)
        BY <1>3 DEF Masters
      <4>2. \A i \in {1, 2} : ~Counts(cb, d, i)
        BY <3>6 DEF Counts
      <4>3. remaining[d] = remaining[d]
        OBVIOUS
      <4> QED
        BY <1>1, <3>5, <4>1, <4>2, <4>3, MastersAfterAdding
    <3>9. /\ WorldOk(u, kind, maxDepth', parts)
          /\ \A y \in Ids : u.dfd[y].state = dfd[y].state /\ u.dfd[y].value = dfd[y].value
      BY <3>5 DEF AddsTo
    <3>10. SaidSoFar(u.dfd[e], maxDepth'[e], told("follow")) /\ told("follow") \in Seq(Said)
      BY <1>2, <2>6, <2>7, <2>9, <3>9 DEF SaidSoFar, ToldSo
    <3> QED
      BY <1>9, <2>9, <3>1, <3>2, <3>7, <3>8, <3>9, <3>10
  <2>10. ASSUME maxDepth' = [maxDepth EXCEPT ![e] = deep], outside' = outside \cup {foreign},
                word' = [word EXCEPT ![e] = told("follow")], Becomes(w)
         PROVE  DeferredInv'
    <3>1. Deep /\ maxDepth'[e] = deep
      BY <2>3, <2>10
    <3>2. OutsideOk' /\ outside' \in SUBSET Outsides
      <4>1. {foreign} \in SUBSET Outsides /\ foreign.does = "settle"
        BY <1>2 DEF Outsides
      <4>2. ThenOk(foreign, kind, maxDepth')
        BY <1>2, <3>1 DEF ThenOk
      <4> HIDE DEF foreign
      <4> QED
        BY <1>8, <2>10, <3>1, <4>1, <4>2
    <3> HIDE DEF told, says, deep, foreign
    <3>3. told("follow") \in Seq(Said)
      BY <2>7 DEF ToldSo
    <3>4. SaidSoFar(w.dfd[e], maxDepth'[e], told("follow"))
      BY <2>6, <2>7, <2>10
    <3>5. WorldOk(w, kind, maxDepth', parts)
      BY <1>6, <3>1
    <3> QED
      BY <1>3, <1>9, <2>10, <3>1, <3>2, <3>3, <3>4, <3>5
  <2>11. \/ \E how \in {"resolved", "rejected"} :
              /\ UNCHANGED <<maxDepth, outside>> /\ word' = [word EXCEPT ![e] = told(how)]
              /\ Becomes(Settled(w, e, how, says.value))
         \/ /\ maxDepth' = [maxDepth EXCEPT ![e] = deep] /\ outside' = outside
            /\ says.value.is = "promise" /\ word' = [word EXCEPT ![e] = told("follow")]
            /\ Becomes(AddThen(w, says.value.of, next))
         \/ /\ maxDepth' = [maxDepth EXCEPT ![e] = deep] /\ outside' = outside \cup {foreign}
            /\ word' = [word EXCEPT ![e] = told("follow")] /\ Becomes(w)
    BY <1>13, Zenon DEF Tells, TellsMore
  <2> HIDE DEF told, says, deep, next, foreign
  <2> QED
    BY <2>5, <2>7, <2>9, <2>10, <2>11
<1> QED
  BY <1>12, <1>13

LEMMA ResolveTells ==
  ASSUME NEW w, NEW c, NEW o, resolve(w, c, o)
  PROVE  Tells(w, c, o)
<1>1. CASE Older(c)
  BY <1>1 DEF resolve, Tells
<1>2. CASE ~Older(c)
  BY <1>2, Zenon DEF resolve, Tells, TellsMore, Says
<1> QED
  BY <1>1, <1>2

LEMMA ResolveKeeps ==
  ASSUME DeferredInv, UNCHANGED <<made, kind, remaining, parts>>,
         NEW w, WorldOk(w, kind, maxDepth, parts), w.dfd = dfd, w.stack = stack,
         NEW c, c.to \in Ids, c.depth \in Nat, ThenOk(c, kind, maxDepth),
         NEW o, o.throws \in BOOLEAN, o.value \in AnyResults, resolve(w, c, o)
  PROVE  DeferredInv'
<1>1. Tells(w, c, o)
  BY ResolveTells
<1> QED
  BY <1>1, TellsKeeps

(* What is asked is asked for a deferred.                                  *)
LEMMA AskingFields ==
  ASSUME AskingOk
  PROVE  /\ asking \in Seq(Askings)
         /\ \A k \in 1..Len(asking) : asking[k].to \in Ids /\ asking[k].depth \in Nat
<1>1. asking \in Seq(Askings)
  BY DEF AskingOk
<1>2. \A k \in 1..Len(asking) : asking[k] \in Askings
  <2> HIDE DEF Askings
  <2> QED
    BY <1>1
<1>3. \A f \in Askings : f.to \in Ids /\ f.depth \in Nat
  BY DEF Askings
<1> QED
  BY <1>1, <1>2, <1>3

(* What it asks of a foreign thenable is noted.                            *)
LEMMA ResolveAsks ==
  ASSUME DeferredShape, AskingOk, UNCHANGED kind,
         NEW w, NEW c, c.to \in Ids, c.depth \in Nat, ThenOk(c, kind, maxDepth),
         NEW o, resolve(w, c, o)
  PROVE  AskingOk'
<1> DEFINE f == [to |-> c.to, depth |-> c.depth]
<1>1. maxDepth \in [Ids -> Nat]
  BY DEF DeferredShape
<1>2. \/ UNCHANGED <<maxDepth, asking>>
      \/ maxDepth' = [maxDepth EXCEPT ![c.to] = @ + 1] /\ UNCHANGED asking
      \/ maxDepth' = [maxDepth EXCEPT ![c.to] = @ + 1] /\ asking' = <<f>> \o asking
  BY Zenon DEF resolve
<1>3. /\ asking \in Seq(Askings)
      /\ \A k \in 1..Len(asking) : asking[k].to \in Ids /\ asking[k].depth \in Nat
  BY AskingFields
<1>4. \A d \in Ids : maxDepth'[d] \in Nat /\ maxDepth[d] \in Nat /\ maxDepth[d] <= maxDepth'[d]
  BY <1>1, <1>2
<1>5. \A k \in 1..Len(asking) : /\ kind'[asking[k].to] = "then"
                               /\ asking[k].depth < maxDepth'[asking[k].to]
  BY <1>3, <1>4 DEF AskingOk
<1>6. CASE UNCHANGED asking
  BY <1>3, <1>5, <1>6 DEF AskingOk
<1>7. CASE maxDepth' = [maxDepth EXCEPT ![c.to] = @ + 1] /\ asking' = <<f>> \o asking
  <2>1. f \in Askings /\ f.to = c.to /\ f.depth = c.depth /\ kind'[c.to] = "then"
    BY DEF Askings, ThenOk
  <2>2. c.depth < maxDepth'[c.to]
    BY <1>1, <1>7 DEF ThenOk
  <2> HIDE DEF f
  <2>3. /\ <<f>> \in Seq(Askings) /\ Len(<<f>>) = 1 /\ <<f>>[1] = f
    BY <2>1
  <2>4. /\ asking' \in Seq(Askings)
        /\ \A k \in 1..Len(asking') :
             \/ k \in 1..Len(<<f>>) /\ asking'[k] = <<f>>[k]
             \/ \E j \in 1..Len(asking) : asking'[k] = asking[j]
    BY <1>3, <1>7, <2>3, InFront
  <2> QED
    BY <1>5, <2>1, <2>2, <2>3, <2>4 DEF AskingOk
<1> QED
  BY <1>2, <1>6, <1>7

(* What a handler does is a result there is room for.                      *)
LEMMA OutcomeIs ==
  ASSUME made \in 0..MaxDeferreds, NEW v \in AnyResults,
         NEW handler \in {"page", "Identity", "Thrower"}, NEW o \in Outcomes(handler, v)
  PROVE  o.throws \in BOOLEAN /\ o.value \in AnyResults
<1>1. /\ Plain \in AnyResults /\ Error \in AnyResults /\ Foreign \in AnyResults
      /\ \A d \in 1..made : Promise(d) \in AnyResults
  BY PromiseIs, DeferredConstants DEF Ids
<1>2. CASE handler = "page"
  <2>1. Outcomes(handler, v) =
          {[throws |-> FALSE, value |-> x] :
             x \in {Plain, Foreign} \cup {Promise(d) : d \in 1..made}}
          \cup {[throws |-> TRUE, value |-> Error]}
    BY <1>2 DEF Outcomes
  <2>2. CASE o = [throws |-> TRUE, value |-> Error]
    BY <1>1, <2>2
  <2>3. CASE \E x \in {Plain, Foreign} \cup {Promise(d) : d \in 1..made} :
               o = [throws |-> FALSE, value |-> x]
    <3>1. PICK x \in {Plain, Foreign} \cup {Promise(d) : d \in 1..made} :
            o = [throws |-> FALSE, value |-> x]
      BY <2>3
    <3>2. x \in AnyResults
      BY <1>1
    <3> QED
      BY <3>1, <3>2
  <2>4. \/ o = [throws |-> TRUE, value |-> Error]
        \/ \E x \in {Plain, Foreign} \cup {Promise(d) : d \in 1..made} :
             o = [throws |-> FALSE, value |-> x]
    <3> HIDE DEF Outcomes
    <3>1. o \in Outcomes(handler, v)
      OBVIOUS
    <3> QED
      BY <2>1, <3>1
  <2> QED
    BY <2>2, <2>3, <2>4
<1>3. CASE handler \in {"Identity", "Thrower"}
  <2>1. o = [throws |-> FALSE, value |-> v] \/ o = [throws |-> TRUE, value |-> v]
    <3>1. CASE handler = "Identity"
      BY <3>1 DEF Outcomes
    <3>2. CASE handler = "Thrower"
      BY <3>2 DEF Outcomes
    <3> QED
      BY <1>3, <3>1, <3>2
  <2>2. CASE o = [throws |-> FALSE, value |-> v]
    <3>1. o.throws = FALSE /\ o.value = v
      BY <2>2
    <3> QED
      BY <3>1
  <2>3. CASE o = [throws |-> TRUE, value |-> v]
    <3>1. o.throws = TRUE /\ o.value = v
      BY <2>3
    <3> QED
      BY <3>1
  <2> QED
    BY <2>1, <2>2, <2>3
<1> QED
  BY <1>2, <1>3

LEMMA RunTaskKeeps == ASSUME DeferredInv, RunTask PROVE DeferredInv'
<1> DEFINE c == Head(tasks)
           w == [Here EXCEPT !.tasks = Tail(tasks)]
<1>1. /\ WorldOk(Here, kind, maxDepth, parts) /\ made \in 0..MaxDeferreds
  BY InvFields DEF DeferredShape
<1>2. /\ tasks # <<>> /\ UNCHANGED <<made, kind, remaining, parts>>
      /\ \E o \in Outcomes(c.handler, c.value) : resolve(w, c, o)
  BY DEF RunTask
<1>3. Here.tasks # <<>> /\ w = [Here EXCEPT !.tasks = Tail(Here.tasks)]
  BY <1>2, HereIs
<1>4. c = Head(Here.tasks)
  BY HereIs
<1> HIDE DEF w, c
<1>5. /\ WorldOk(w, kind, maxDepth, parts) /\ w.dfd = Here.dfd /\ w.stack = Here.stack
      /\ c \in Tasks /\ ThenOk(c, kind, maxDepth)
  BY <1>1, <1>3, <1>4, TaskTaken
<1>6. /\ c.to \in Ids /\ c.depth \in Nat /\ c.value \in AnyResults
      /\ c.handler \in {"page", "Identity", "Thrower"}
  BY <1>5 DEF Tasks
<1>7. PICK o \in Outcomes(c.handler, c.value) : resolve(w, c, o)
  BY <1>2
<1>8. o.throws \in BOOLEAN /\ o.value \in AnyResults
  BY <1>1, <1>6, OutcomeIs
<1>9. w.dfd = dfd /\ w.stack = stack
  BY <1>5, HereIs
<1> QED
  BY <1>2, <1>5, <1>6, <1>7, <1>8, <1>9, ResolveKeeps

LEMMA ForeignCallsKeeps ==
  ASSUME DeferredInv, NEW c \in outside, NEW handler \in {"Identity", "Thrower"},
         NEW v \in AnyResults, ForeignCalls(c, handler, v)
  PROVE  DeferredInv'
<1>1. /\ WorldOk(Here, kind, maxDepth, parts) /\ DeferredShape /\ OutsideOk
      /\ Masters(Here, kind, remaining, parts) /\ Words(dfd, kind, maxDepth, word)
      /\ PartsOk(kind, parts)
  BY InvFields
<1>2. /\ c.to \in Ids /\ c.depth \in Nat /\ c.does \in {"settle", "update"}
  BY <1>1 DEF DeferredShape, Outsides
<1>3. CASE c.does = "settle"
  <2>1. /\ UNCHANGED <<made, kind, remaining, parts>>
        /\ \E o \in Outcomes(handler, v) : resolve(Here, c, o)
    BY <1>3 DEF ForeignCalls
  <2>2. PICK o \in Outcomes(handler, v) : resolve(Here, c, o)
    BY <2>1
  <2>3. o.throws \in BOOLEAN /\ o.value \in AnyResults
    <3>1. made \in 0..MaxDeferreds /\ handler \in {"page", "Identity", "Thrower"}
      BY <1>1 DEF DeferredShape
    <3> QED
      BY <3>1, OutcomeIs
  <2>4. ThenOk(c, kind, maxDepth)
    BY <1>1, <1>3 DEF OutsideOk
  <2> QED
    BY <1>1, <1>2, <2>1, <2>2, <2>3, <2>4, HereIs, ResolveKeeps
<1>4. CASE c.does = "update"
  <2> DEFINE does == IF handler = "Identity" THEN "update" ELSE "reject"
             cb == Callback(does, c.to, 0)
             u == Calling(Here, cb, v)
  <2>1. /\ UNCHANGED <<made, kind, parts, maxDepth, outside, remaining, word>> /\ Becomes(u)
    BY <1>4 DEF ForeignCalls
  <2>2. cb \in Cbs /\ cb.does \in {"update", "reject"} /\ cb.to = c.to /\ cb.part = 0
    BY <1>2, CallbackIs
  <2> HIDE DEF cb
  <2>3. kind[c.to] = "master" /\ HasForeign(parts[c.to])
    BY <1>1, <1>4 DEF OutsideOk
  <2>4. CallOk(cb, Here.dfd, kind, parts) /\ Uncounted(Here, cb)
    BY <2>2, <2>3, NothingToCount DEF CallOk, CbOk
  <2>5. AddsTo(Here, u, cb, kind, maxDepth, parts)
    BY <1>1, <2>2, <2>4, CallingOk
  <2> HIDE DEF u
  <2>6. Masters(u, kind, remaining', parts)
    <3> SUFFICES ASSUME NEW d \in Ids, kind[d] = "master", ~HasForeign(parts[d])
                 PROVE  MasterOk(d, u, remaining', parts)
      BY DEF Masters
    <3>1. MasterOk(d, Here, remaining, parts)
      BY <1>1 DEF Masters
    <3>2. \A i \in {1, 2} : ~Counts(cb, d, i)
      BY <2>2 DEF Counts
    <3>3. remaining'[d] = remaining[d]
      BY <2>1
    <3> QED
      BY <1>1, <2>5, <3>1, <3>2, <3>3, MastersAfterAdding
  <2>7. /\ WorldOk(u, kind, maxDepth', parts)
        /\ \A y \in Ids : u.dfd[y].state = dfd[y].state /\ u.dfd[y].value = dfd[y].value
    BY <2>1, <2>5, HereIs DEF AddsTo
  <2>8. Words(u.dfd, kind, maxDepth', word')
    BY <1>1, <2>1, <2>7, WordsStay
  <2>9. /\ maxDepth' \in [Ids -> Nat] /\ remaining' \in [Ids -> Nat] /\ OutsideOk'
        /\ outside' \in SUBSET Outsides /\ word' \in [Ids -> Seq(Said)]
    BY <1>1, <2>1 DEF DeferredShape, OutsideOk
  <2>10. \A d \in Ids : kind[d] = "none" =>
           /\ u.dfd[d].state = dfd[d].state /\ maxDepth'[d] = maxDepth[d]
           /\ word'[d] = word[d]
    BY <2>1, <2>7
  <2> QED
    BY <2>1, <2>6, <2>7, <2>8, <2>9, <2>10, StepKeeps
<1> QED
  BY <1>2, <1>3, <1>4

(* A then() that returns changes nothing.                                  *)
LEMMA ThenReturnsKeeps == ASSUME DeferredInv, ThenReturns PROVE DeferredInv'
<1>1. UNCHANGED <<made, kind, dfd, maxDepth, remaining, stack, tasks, outside, parts, word>>
  BY DEF ThenReturns
<1> QED
  BY <1>1 DEF DeferredInv, DeferredShape, OutsideOk, Here

(* One that throws tells its promise so, as a function of its level would. *)
LEMMA ThenThrowsKeeps == ASSUME DeferredInv, AskingOk, ThenThrows PROVE DeferredInv'
<1> DEFINE f == Head(asking)
           c == [to |-> f.to, depth |-> f.depth + 1]
           o == [throws |-> TRUE, value |-> Error]
           said == WordOf(f.to, f.depth + 1, "rejected", Error)
<1>1. /\ DeferredShape /\ WorldOk(Here, kind, maxDepth, parts)
      /\ Words(dfd, kind, maxDepth, word)
  BY InvFields
<1>2. /\ asking # <<>> /\ word' = [word EXCEPT ![f.to] = said]
      /\ Becomes(IF Regarded(f) THEN Settled(Here, f.to, "rejected", Error) ELSE Here)
      /\ UNCHANGED <<made, kind, maxDepth, remaining, outside, parts>>
  BY DEF ThenThrows
<1>3. f = asking[1] /\ 1 \in 1..Len(asking) /\ f \in Askings
  BY <1>2 DEF AskingOk
<1>4. /\ f.to \in Ids /\ f.depth \in Nat /\ kind[f.to] = "then"
      /\ f.depth < maxDepth[f.to] /\ maxDepth[f.to] \in Nat
  BY <1>1, <1>3 DEF AskingOk, Askings, DeferredShape
<1> HIDE DEF f
<1>5. /\ c.to = f.to /\ c.depth = f.depth + 1 /\ c.to \in Ids /\ c.depth \in Nat
      /\ ThenOk(c, kind, maxDepth) /\ (Older(c) <=> ~Regarded(f))
  BY <1>4 DEF ThenOk, Older, Regarded
<1>6. o.throws \in BOOLEAN /\ o.value \in AnyResults /\ Says(c, o) = o /\ o.value = Error
  BY PromiseIs DEF Says
<1> HIDE DEF c, o
<1>7. ASSUME Older(c) PROVE said = word[f.to]
  <2>1. SaidSoFar(dfd[f.to], maxDepth[f.to], word[f.to])
    BY <1>1, <1>4 DEF Words
  <2>2. dfd[f.to].state \in States /\ maxDepth[f.to] # f.depth + 1
    BY <1>1, <1>4, <1>5, <1>7, HereIs, WorldFields DEF Older, WorldOk
  <2>3. CASE dfd[f.to].state = "pending"
    BY <1>4, <2>1, <2>2, <2>3 DEF SaidSoFar, WordOf
  <2>4. CASE dfd[f.to].state # "pending"
    <3>1. Last(word[f.to]).how # "follow"
      BY <2>1, <2>2, <2>4 DEF SaidSoFar, States
    <3> QED
      BY <1>4, <3>1 DEF WordOf
  <2> QED
    BY <2>3, <2>4
<1>8. word \in [Ids -> Seq(Said)]
  BY <1>1 DEF DeferredShape
<1>9. Tells(Here, c, o)
  <2>1. CASE Older(c)
    <3>1. word' = word
      BY <1>2, <1>4, <1>7, <1>8, <2>1
    <3> QED
      BY <1>2, <1>5, <2>1, <3>1 DEF Tells
  <2>2. CASE ~Older(c)
    <3>1. /\ word' = [word EXCEPT ![c.to] = WordOf(c.to, c.depth, "rejected", Says(c, o).value)]
          /\ Becomes(Settled(Here, c.to, "rejected", Says(c, o).value))
      BY <1>2, <1>5, <1>6, <2>2
    <3> HIDE DEF said
    <3> QED
      BY <1>2, <2>2, <3>1, Zenon DEF Tells
  <2> QED
    BY <2>1, <2>2
<1> QED
  BY <1>1, <1>2, <1>5, <1>6, <1>9, HereIs, TellsKeeps

(* No step but these changes what is asked, and no depth becomes less.     *)
LEMMA AskingStays ==
  ASSUME DeferredInv, AskingOk, [PNext]_pVars
  PROVE  AskingOk'
<1>1. /\ DeferredShape /\ OutsideOk /\ WorldOk(Here, kind, maxDepth, parts)
  BY InvFields
<1>2. /\ asking \in Seq(Askings)
      /\ \A k \in 1..Len(asking) : asking[k].to \in Ids /\ asking[k].depth \in Nat
  BY AskingFields
<1>3. ASSUME UNCHANGED <<kind, maxDepth, asking>> PROVE AskingOk'
  BY <1>3 DEF AskingOk
<1>4. ASSUME UNCHANGED <<maxDepth, asking>>, NEW as \in {"root", "then", "pipe", "master"},
             Make(as)
      PROVE  AskingOk'
  <2>1. made \in Nat /\ kind \in [Ids -> {"none", "root", "then", "pipe", "master"}]
        /\ \A d \in Ids : kind[d] = "none" <=> d > made
    BY <1>1 DEF DeferredShape
  <2>2. made < MaxDeferreds /\ NewId = made + 1 /\ kind' = [kind EXCEPT ![NewId] = as]
    BY <1>4 DEF Make, NewId
  <2>3. NewId \in Ids
    BY <2>1, <2>2, DeferredConstants DEF Ids
  <2>4. NewId > made
    BY <2>1, <2>2
  <2>5. kind[NewId] = "none"
    BY <2>1, <2>3, <2>4
  <2>6. \A d \in Ids : kind[d] = "then" => kind'[d] = "then"
    BY <2>1, <2>2, <2>5
  <2> QED
    BY <1>2, <1>4, <2>6 DEF AskingOk
<1>5. ASSUME asking # <<>>, asking' = Tail(asking), UNCHANGED <<kind, maxDepth>>
      PROVE  AskingOk'
  <2>1. /\ Tail(asking) \in Seq(Askings)
        /\ \A k \in 1..Len(Tail(asking)) :
             k + 1 \in 1..Len(asking) /\ Tail(asking)[k] = asking[k + 1]
    BY <1>2, <1>5
  <2> QED
    BY <1>5, <2>1 DEF AskingOk
<1>6. CASE Deferred
  BY <1>4, <1>6 DEF Deferred
<1>7. CASE RunCallback
  BY <1>3, <1>7 DEF RunCallback
<1>8. CASE RunTask
  <2> DEFINE c == Head(tasks)
             w == [Here EXCEPT !.tasks = Tail(tasks)]
  <2>1. /\ tasks # <<>> /\ UNCHANGED kind
        /\ \E o \in Outcomes(c.handler, c.value) : resolve(w, c, o)
    BY <1>8 DEF RunTask
  <2>2. c.to \in Ids /\ c.depth \in Nat /\ ThenOk(c, kind, maxDepth)
    <3>1. /\ Here.tasks # <<>> /\ w = [Here EXCEPT !.tasks = Tail(Here.tasks)]
          /\ c = Head(Here.tasks)
      BY <2>1, HereIs
    <3> HIDE DEF c, w
    <3>2. c \in Tasks /\ ThenOk(c, kind, maxDepth)
      BY <1>1, <3>1, TaskTaken
    <3> QED
      BY <3>2 DEF Tasks
  <2> HIDE DEF c, w
  <2> QED
    BY <1>1, <2>1, <2>2, ResolveAsks
<1>9. ASSUME NEW c \in outside, NEW handler, NEW v, ForeignCalls(c, handler, v)
      PROVE  AskingOk'
  <2>1. CASE c.does = "settle"
    <3>1. UNCHANGED kind /\ \E o \in Outcomes(handler, v) : resolve(Here, c, o)
      BY <1>9, <2>1 DEF ForeignCalls
    <3>2. c.to \in Ids /\ c.depth \in Nat /\ ThenOk(c, kind, maxDepth)
      BY <1>1, <2>1 DEF DeferredShape, Outsides, OutsideOk
    <3> QED
      BY <1>1, <3>1, <3>2, ResolveAsks
  <2>2. CASE c.does # "settle"
    BY <1>3, <1>9, <2>2 DEF ForeignCalls
  <2> QED
    BY <2>1, <2>2
<1>10. CASE ThenReturns
  BY <1>5, <1>10 DEF ThenReturns
<1>11. CASE ThenThrows
  BY <1>5, <1>11 DEF ThenThrows
<1>12. ASSUME NEW d, NEW state, NEW v, Settle(d, state, v) PROVE AskingOk'
  BY <1>3, <1>12 DEF Settle
<1>13. ASSUME NEW d, pipe(d) PROVE AskingOk'
  BY <1>4, <1>13 DEF pipe
<1>14. ASSUME NEW d, NEW ok, NEW no, then(d, ok, no) PROVE AskingOk'
  BY <1>4, <1>14 DEF then
<1>15. ASSUME NEW v1, NEW v2, when(v1, v2) PROVE AskingOk'
  BY <1>4, <1>15 DEF when
<1>16. CASE UNCHANGED pVars
  BY <1>3, <1>16 DEF pVars
<1> QED
  BY <1>6, <1>7, <1>8, <1>9, <1>10, <1>11, <1>12, <1>13, <1>14, <1>15, <1>16, Zenon
  DEF PNext

LEMMA DeferredInit == PInit => DeferredInv /\ AskingOk
<1> SUFFICES ASSUME PInit PROVE DeferredInv /\ AskingOk
  OBVIOUS
<1>0. AskingOk
  <2>1. asking = <<>> /\ Len(<<>>) = 0
    BY DEF PInit
  <2> QED
    BY <2>1 DEF AskingOk
<1>1. /\ made = 0 /\ kind = [d \in Ids |-> "none"] /\ dfd = [d \in Ids |-> NewDeferred]
      /\ maxDepth = [d \in Ids |-> 0] /\ remaining = [d \in Ids |-> 0]
      /\ stack = <<>> /\ tasks = <<>> /\ outside = {}
      /\ parts = [d \in Ids |-> <<>>] /\ word = [d \in Ids |-> <<>>]
  BY DEF PInit
<1>2. /\ NewDeferred \in Dfds /\ NewDeferred.state = "pending"
      /\ NewDeferred.done = <<>> /\ NewDeferred.fail = <<>> /\ NewDeferred.thens = <<>>
  BY DfdFields
<1>3. DeferredShape
  <2>1. \A d \in Ids : d > 0
    BY DeferredConstants DEF Ids
  <2> QED
    BY <1>1, <1>2, <2>1, DeferredConstants DEF DeferredShape, PartsOk
<1>4. WorldOk(Here, kind, maxDepth, parts)
  <2>1. /\ dfd \in [Ids -> Dfds] /\ <<>> \in Seq(CbCalls) /\ <<>> \in Seq(Tasks)
    BY <1>1, <1>2
  <2>2. Here \in Worlds
    BY <1>1, <2>1, WorldIs DEF Here
  <2>3. \A x \in Ids : DfdOk(dfd[x], x, kind, maxDepth, parts)
    BY <1>1, <1>2 DEF DfdOk, OnceInList
  <2>4. Here.dfd = dfd /\ Here.stack = <<>> /\ Here.tasks = <<>>
    BY <1>1, HereIs
  <2> QED
    BY <2>2, <2>3, <2>4 DEF WorldOk, OnceOnStack
<1> QED
  BY <1>0, <1>1, <1>3, <1>4 DEF DeferredInv, OutsideOk, Masters, Words

LEMMA DeferredNext ==
  DeferredInv /\ AskingOk /\ [PNext]_pVars => (DeferredInv /\ AskingOk)'
<1> SUFFICES ASSUME DeferredInv, AskingOk, [PNext]_pVars PROVE DeferredInv'
  BY AskingStays
<1>1. Results \subseteq AnyResults /\ Error \in AnyResults /\ Foreign \in AnyResults
  BY DEF Results, AnyResults
<1>2. CASE Deferred
  BY <1>2, DeferredKeeps
<1>3. CASE RunCallback
  BY <1>3, RunCallbackKeeps
<1>4. CASE RunTask
  BY <1>4, RunTaskKeeps
<1>5. ASSUME NEW d \in Ids, NEW v \in Results, Settle(d, "resolved", v)
      PROVE  DeferredInv'
  BY <1>1, <1>5, SettleKeeps
<1>6. ASSUME NEW d \in Ids, Settle(d, "rejected", Error) PROVE DeferredInv'
  BY <1>1, <1>6, SettleKeeps
<1>7. ASSUME NEW d \in Ids, pipe(d) PROVE DeferredInv'
  BY <1>7, PipeKeeps
<1>8. ASSUME NEW d \in Ids, NEW ok \in {"page", "Identity"}, then(d, ok, "Thrower")
      PROVE  DeferredInv'
  BY <1>8, ThenKeeps
<1>9. ASSUME NEW v1 \in Results \cup {Foreign}, NEW v2 \in Results \cup {Foreign},
             when(v1, v2)
      PROVE  DeferredInv'
  BY <1>1, <1>9, WhenKeeps
<1>10. ASSUME NEW c \in outside, NEW v \in Results,
              ForeignCalls(c, "Identity", v) \/ ForeignCalls(c, "Thrower", Error)
       PROVE  DeferredInv'
  BY <1>1, <1>10, ForeignCallsKeeps
<1>12. CASE ThenReturns
  BY <1>12, ThenReturnsKeeps
<1>13. CASE ThenThrows
  BY <1>13, ThenThrowsKeeps
<1>11. CASE UNCHANGED pVars
  <2>1. UNCHANGED <<made, kind, dfd, maxDepth, remaining, stack, tasks, outside, parts, word>>
    BY <1>11 DEF pVars
  <2> QED
    BY <2>1 DEF DeferredInv, DeferredShape, OutsideOk, Here
<1> QED
  BY <1>2, <1>3, <1>4, <1>5, <1>6, <1>7, <1>8, <1>9, <1>10, <1>11, <1>12, <1>13 DEF PNext

(* Of the promises of jQuery.Deferred, the first word counts, also when a  *)
(* foreign thenable keeps its functions, calls them at once or throws after*)
(* it did; and a master of when() without foreign thenables waits for, and *)
(* fails with, its own parts, however many deferreds there are and however *)
(* they are chained.                                                       *)
THEOREM FirstWordsCount == PSpec => []FirstWordCounts
<1>1. DeferredInv => FirstWordCounts
  <2> SUFFICES ASSUME DeferredInv, NEW d \in 1..made
               PROVE  /\ kind[d] = "then" /\ dfd[d].state # "pending" =>
                           /\ Last(word[d]).how = dfd[d].state
                           /\ Last(word[d]).value = dfd[d].value
                      /\ kind[d] = "master" /\ Foreign \notin ToSet(parts[d]) =>
                           /\ dfd[d].state = "resolved" =>
                                \A v \in ToSet(parts[d]) : Through(v)
                           /\ dfd[d].state = "rejected" =>
                                \E v \in ToSet(parts[d]) :
                                  v.is = "promise" /\ ~Through(v)
    BY Zenon DEF FirstWordCounts
  <2>1. /\ DeferredShape /\ Masters(Here, kind, remaining, parts)
        /\ Words(dfd, kind, maxDepth, word)
    BY InvFields
  <2>2. d \in Ids
    BY <2>1, DeferredConstants DEF DeferredShape, Ids
  <2>3. kind[d] = "then" /\ dfd[d].state # "pending" =>
          Last(word[d]).how = dfd[d].state /\ Last(word[d]).value = dfd[d].value
    BY <2>1, <2>2 DEF Words, SaidSoFar
  <2>4. ASSUME kind[d] = "master", Foreign \notin ToSet(parts[d])
        PROVE  /\ dfd[d].state = "resolved" => \A v \in ToSet(parts[d]) : Through(v)
               /\ dfd[d].state = "rejected" =>
                    \E v \in ToSet(parts[d]) : v.is = "promise" /\ ~Through(v)
    <3>1. parts[d] \in AnyResults \X AnyResults
      BY <2>1, <2>2, <2>4 DEF DeferredShape, PartsOk
    <3>2. ToSet(parts[d]) = {parts[d][1], parts[d][2]}
      BY <3>1 DEF ToSet
    <3>3. ~HasForeign(parts[d])
      BY <2>4, <3>2 DEF HasForeign
    <3>4. MasterOk(d, Here, remaining, parts)
      BY <2>1, <2>2, <2>4, <3>3 DEF Masters
    <3>5. /\ dfd[d].state = "resolved" =>
               Resolved(dfd, parts[d][1]) /\ Resolved(dfd, parts[d][2])
          /\ dfd[d].state = "rejected" =>
               Rejected(dfd, parts[d][1]) \/ Rejected(dfd, parts[d][2])
      BY <3>4, HereIs DEF MasterOk
    <3> QED
      BY <3>2, <3>5 DEF Resolved, Rejected, Through
  <2> QED
    BY <2>3, <2>4
<1> QED
  BY <1>1, DeferredInit, DeferredNext, PTL DEF PSpec
=============================================================================
