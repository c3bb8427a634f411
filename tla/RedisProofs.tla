---------------------------- MODULE RedisProofs ----------------------------
(***************************************************************************)
(* Proofs about what the services keep in redis: the list of RoleListCache *)
(* for any roles and readers; the entries of TokenStore for any users,     *)
(* tokens, tabs and lifetime; the key of MessageLock for any messages,     *)
(* time-to-live and number of rounds, redis failing or not; and its rounds *)
(* for any rivals and sleeps that outlast them.                            *)
(***************************************************************************)
EXTENDS MCLocks, RoleListCache, TokenStore, SequenceTheorems, FiniteSetTheorems,
        TLAPS

-----------------------------------------------------------------------------
(* The list of roles.                                                      *)

(* What a reader is about to give a lifetime holds what it has read.       *)
AddedIsListed ==
  \A p \in Readers : reader[p] = "added" => rows[p] \subseteq Listed \cup deleted

(* With a lifetime, the list holds what its reader has read.               *)
ReadIsListed == expires => Roles \ late \subseteq Listed \cup deleted

ListInv == LTypeOK /\ AddedIsListed /\ ReadIsListed

LEMMA ListInit == LInit => ListInv
<1> SUFFICES ASSUME LInit PROVE ListInv
  OBVIOUS
<1>0. <<>> \in Seq([op : {"insert", "delete"}, role : Roles])
  OBVIOUS
<1>1. LTypeOK
  BY <1>0 DEF LInit, LTypeOK, Members
<1>2. AddedIsListed /\ ReadIsListed
  BY DEF LInit, AddedIsListed, ReadIsListed
<1> QED
  BY <1>1, <1>2 DEF ListInv

LEMMA ListTypes ==
  ASSUME LTypeOK, [LNext]_lVars
  PROVE  LTypeOK'
<1> USE DEF LTypeOK, Members, Member
<1>1. ASSUME NEW r \in Roles, InsertOrUpdate(r) PROVE LTypeOK'
  BY <1>1 DEF InsertOrUpdate
<1>2. ASSUME NEW r \in Roles, InsertOrUpdateCache(r) PROVE LTypeOK'
  BY <1>2 DEF InsertOrUpdateCache, SortedSetUpdate
<1>3. ASSUME NEW r \in Roles, Delete(r) PROVE LTypeOK'
  BY <1>3 DEF Delete, Keep
<1>4. ASSUME NEW r \in Roles, HandleDelete(r) PROVE LTypeOK'
  BY <1>4 DEF HandleDelete
<1>5. CASE Replicate
  <2> DEFINE Change == [op : {"insert", "delete"}, role : Roles]
  <2>1. log \in Seq(Change) /\ log # <<>>
    BY <1>5 DEF Replicate
  <2>2. Head(log) \in Change /\ Tail(log) \in Seq(Change)
    <3> HIDE DEF Change
    <3> QED
      BY <2>1, HeadTailProperties
  <2>3. Head(log).role \in Roles
    BY <2>2
  <2>4. db' \in SUBSET Roles
    BY <1>5, <2>3 DEF Replicate
  <2> QED
    BY <1>5, <2>2, <2>4 DEF Replicate
<1>6. CASE Expire
  BY <1>6 DEF Expire, Keep, Rest
<1>7. ASSUME NEW p \in Readers,
             \/ Exists(p) \/ SortedSetRangeByRank(p) \/ Query(p)
             \/ SortedSetAdd(p) \/ KeyExpire(p) \/ ReaderThrows(p)
      PROVE  LTypeOK'
  <2>1. CASE Exists(p)
    BY <2>1 DEF Exists, Goes, Rest
  <2>2. CASE SortedSetRangeByRank(p)
    BY <2>2 DEF SortedSetRangeByRank, Goes, Rest
  <2>3. CASE Query(p)
    BY <2>3 DEF Query, Goes, Rest
  <2>4. CASE SortedSetAdd(p)
    BY <2>4 DEF SortedSetAdd, Goes, Rest
  <2>5. CASE KeyExpire(p)
    BY <2>5 DEF KeyExpire, Goes, Rest
  <2>6. CASE ReaderThrows(p)
    BY <2>6 DEF ReaderThrows, Goes, Rest
  <2> QED
    BY <1>7, <2>1, <2>2, <2>3, <2>4, <2>5, <2>6
<1>8. CASE UNCHANGED lVars
  BY <1>8 DEF lVars
<1> QED
  BY <1>1, <1>2, <1>3, <1>4, <1>5, <1>6, <1>7, <1>8 DEF LNext

LEMMA ListStep ==
  ASSUME ListInv, [LNext]_lVars
  PROVE  AddedIsListed' /\ ReadIsListed'
<1> USE DEF AddedIsListed, ReadIsListed, Listed, Member
<1>0. /\ reader \in [Readers -> {"idle", "missed", "asked", "queried", "added"}]
      /\ rows \in [Readers -> SUBSET Roles]
      /\ AddedIsListed /\ ReadIsListed
  BY DEF ListInv, LTypeOK
<1>1. ASSUME NEW r \in Roles, InsertOrUpdate(r) PROVE AddedIsListed' /\ ReadIsListed'
  BY <1>0, <1>1 DEF InsertOrUpdate
<1>2. ASSUME NEW r \in Roles, InsertOrUpdateCache(r) PROVE AddedIsListed' /\ ReadIsListed'
  BY <1>0, <1>2 DEF InsertOrUpdateCache, SortedSetUpdate
<1>3. ASSUME NEW r \in Roles, Delete(r) PROVE AddedIsListed' /\ ReadIsListed'
  <2>1. \A m \in list : m \in list' \/ m = Member(r, "row")
    BY <1>3 DEF Delete, Keep
  <2>2. \A m \in list : m.role \in Listed' \/ m.role = r
    BY <2>1
  <2>3. Listed \cup deleted \subseteq Listed' \cup deleted'
    BY <1>3, <2>2 DEF Delete
  <2>4. /\ expires' => expires /\ late' = late
        /\ reader' = reader /\ rows' = rows
    BY <1>3 DEF Delete, Keep
  <2>5. AddedIsListed'
    BY <1>0, <2>3, <2>4
  <2>6. ReadIsListed'
    BY <1>0, <2>3, <2>4
  <2> QED
    BY <2>5, <2>6
<1>4. ASSUME NEW r \in Roles, HandleDelete(r) PROVE AddedIsListed' /\ ReadIsListed'
  BY <1>0, <1>4 DEF HandleDelete
<1>5. CASE Replicate
  BY <1>0, <1>5 DEF Replicate
<1>6. CASE Expire
  BY <1>0, <1>6 DEF Expire, Keep, Rest
<1>7. ASSUME NEW p \in Readers,
             \/ Exists(p) \/ SortedSetRangeByRank(p) \/ Query(p)
             \/ SortedSetAdd(p) \/ KeyExpire(p) \/ ReaderThrows(p)
      PROVE  AddedIsListed' /\ ReadIsListed'
  <2>1. CASE Exists(p)
    BY <1>0, <2>1 DEF Exists, Goes, Rest
  <2>2. CASE SortedSetRangeByRank(p)
    BY <1>0, <2>2 DEF SortedSetRangeByRank, Goes, Rest
  <2>3. CASE Query(p)
    BY <1>0, <2>3 DEF Query, Goes, Rest
  <2>4. CASE SortedSetAdd(p)
    <3>1. list' = list \cup {Member(r, "row") : r \in rows[p]}
      BY <2>4 DEF SortedSetAdd
    <3>2. \A r \in rows[p] : Member(r, "row") \in list' /\ Member(r, "row").role = r
      BY <3>1
    <3>3. rows[p] \subseteq Listed'
      BY <3>2
    <3>4. Listed \subseteq Listed'
      BY <3>1
    <3>5. /\ reader' = [reader EXCEPT ![p] = "added"]
          /\ UNCHANGED <<deleted, expires, late, rows>>
      BY <2>4 DEF SortedSetAdd, Goes, Rest
    <3>6. AddedIsListed'
      BY <1>0, <3>3, <3>4, <3>5
    <3>7. ReadIsListed'
      BY <1>0, <3>4, <3>5
    <3> QED
      BY <3>6, <3>7
  <2>5. CASE KeyExpire(p)
    BY <1>0, <2>5 DEF KeyExpire, Goes, Rest
  <2>6. CASE ReaderThrows(p)
    BY <1>0, <2>6 DEF ReaderThrows, Goes, Rest
  <2> QED
    BY <1>7, <2>1, <2>2, <2>3, <2>4, <2>5, <2>6
<1>8. CASE UNCHANGED lVars
  BY <1>0, <1>8 DEF lVars
<1> QED
  BY <1>1, <1>2, <1>3, <1>4, <1>5, <1>6, <1>7, <1>8 DEF LNext

(* A list with a lifetime hides nothing but what is being deleted and what *)
(* was not in the read database when the list was read: GetSortList with   *)
(* any number of readers beside replies and deletions.                     *)
THEOREM ListWithLifetime == LSpec => []ExpiringListIsComplete
<1>1. ListInv => ExpiringListIsComplete
  BY DEF ListInv, ReadIsListed, ExpiringListIsComplete, LTypeOK
<1>2. ListInv /\ [LNext]_lVars => ListInv'
  BY ListTypes, ListStep DEF ListInv
<1> QED
  BY ListInit, <1>1, <1>2, PTL DEF LSpec

-----------------------------------------------------------------------------
(* The tokens.                                                             *)

USE TokenConstants

(* Which entries outlive the signature of a token that was handed out.     *)
Outlived(t) ==
  /\ login[t] = "saved" => jwt[t] <= tokenEntry[t]
  /\ login[t] = "issued" =>
       /\ jwt[t] <= userToken[UserOf[t]].life
       /\ jwt[t] <= black[t] \/ jwt[t] <= tokenEntry[t]

(* A logout that is past its second step, or has answered, has listed the  *)
(* token for as long as its signature is valid.                            *)
ListedInTime(t) ==
  /\ login[t] # "issued" =>
       ~loggedOut[t] /\ logout[t] = [b \in Tabs |-> "idle"] /\ check[t].at = "idle"
  /\ loggedOut[t] => jwt[t] <= black[t]
  /\ \A b \in Tabs : logout[t][b] = "listed" => jwt[t] <= black[t]

CheckedInTime(t) == check[t].at # "idle" => ~check[t].out

Worth(t) == Outlived(t) /\ ListedInTime(t) /\ CheckedInTime(t)

TokenInv ==
  TTypeOK /\ \A t \in Tokens : Worth(t)

LEMMA TokenInit == TInit => TokenInv
<1> SUFFICES ASSUME TInit PROVE TokenInv
  OBVIOUS
<1>1. TTypeOK
  BY DEF TInit, TTypeOK, Life
<1>2. \A t \in Tokens : Worth(t)
  BY DEF TInit, Worth, Outlived, ListedInTime, CheckedInTime
<1> QED
  BY <1>1, <1>2 DEF TokenInv

LEMMA LessIsLess ==
  /\ \A n \in Life : Less(n) \in Life
  /\ \A m, n \in Life : m <= n => Less(m) <= Less(n)
BY DEF Less, Life

LEMMA TokenTypes ==
  ASSUME TTypeOK, [TNext]_tVars
  PROVE  TTypeOK'
<1> USE DEF TTypeOK, Life
<1>0. Expiration \in Life /\ 0 \in Life
  BY TokenConstants
<1>1. ASSUME NEW t \in Tokens, CheckUser(t) PROVE TTypeOK'
  BY <1>1 DEF CheckUser
<1>2. ASSUME NEW t \in Tokens, SaveTokenEntry(t) PROVE TTypeOK'
  BY <1>2 DEF SaveTokenEntry
<1>3. ASSUME NEW t \in Tokens, SaveUserEntry(t) PROVE TTypeOK'
  BY <1>3 DEF SaveUserEntry
<1>4. ASSUME NEW t \in Tokens, SaveThrows(t) PROVE TTypeOK'
  <2>1. tokenEntry' \in [Tokens -> Life]
    BY <1>4, <1>0 DEF SaveThrows
  <2>2. userToken' \in [Users -> [life : Life, roles : RoleIds]]
    BY <1>4, <1>0 DEF SaveThrows
  <2> QED
    BY <1>4, <2>1, <2>2 DEF SaveThrows
<1>5. ASSUME NEW t \in Tokens, VerifyBlack(t) PROVE TTypeOK'
  BY <1>5 DEF VerifyBlack, CheckAt, VerifyBlackRecordsToken
<1>6. ASSUME NEW t \in Tokens, VerifyTokenRole(t) PROVE TTypeOK'
  <2>1. check' \in [Tokens -> [at : {"idle", "unlisted", "matched"}, out : BOOLEAN]]
    <3>1. \/ check' = [check EXCEPT ![t] = [at |-> "matched", out |-> check[t].out]]
          \/ check' = [check EXCEPT ![t] = [at |-> "idle", out |-> FALSE]]
      BY <1>6 DEF VerifyTokenRole, CheckAt
    <3>2. /\ [at |-> "matched", out |-> check[t].out] \in
                [at : {"idle", "unlisted", "matched"}, out : BOOLEAN]
          /\ [at |-> "idle", out |-> FALSE] \in
                [at : {"idle", "unlisted", "matched"}, out : BOOLEAN]
      OBVIOUS
    <3> QED
      BY <3>1, <3>2
  <2> QED
    BY <1>6, <2>1 DEF VerifyTokenRole
<1>7. ASSUME NEW t \in Tokens, VerifyCurrActionRole(t) PROVE TTypeOK'
  BY <1>7 DEF VerifyCurrActionRole, CheckAt
<1>8. ASSUME NEW t \in Tokens, NEW b \in Tabs, FindToken(t, b) PROVE TTypeOK'
  <2>1. logout' \in [Tokens -> [Tabs -> {"idle", "found", "listed"}]]
    <3>1. \/ logout' = [logout EXCEPT ![t] = [logout[t] EXCEPT ![b] = "found"]]
          \/ logout' = logout
      BY <1>8 DEF FindToken
    <3>2. [logout[t] EXCEPT ![b] = "found"] \in [Tabs -> {"idle", "found", "listed"}]
      OBVIOUS
    <3> QED
      BY <3>1, <3>2
  <2>2. loggedOut' \in [Tokens -> BOOLEAN]
    BY <1>8 DEF FindToken
  <2> QED
    BY <1>8, <2>1, <2>2 DEF FindToken
<1>9. ASSUME NEW t \in Tokens, NEW b \in Tabs, AddBlack(t, b) PROVE TTypeOK'
  BY <1>9 DEF AddBlack
<1>10. ASSUME NEW t \in Tokens, NEW b \in Tabs, RemoveToken(t, b) PROVE TTypeOK'
  BY <1>10 DEF RemoveToken
<1>11. ASSUME NEW t \in Tokens, NEW b \in Tabs, LogoutThrows(t, b) PROVE TTypeOK'
  <2>1. tokenEntry' \in [Tokens -> Life] /\ black' \in [Tokens -> Life]
    BY <1>11, <1>0 DEF LogoutThrows
  <2>2. logout' \in [Tokens -> [Tabs -> {"idle", "found", "listed"}]]
    BY <1>11 DEF LogoutThrows
  <2> QED
    BY <1>11, <2>1, <2>2 DEF LogoutThrows
<1>12. ASSUME NEW u \in Users, ChangeRoles(u) PROVE TTypeOK'
  BY <1>12 DEF ChangeRoles
<1>13. CASE TTick
  BY <1>13, LessIsLess DEF TTick
<1>14. CASE UNCHANGED tVars
  BY <1>14 DEF tVars
<1> QED
  BY <1>1, <1>2, <1>3, <1>4, <1>5, <1>6, <1>7, <1>8, <1>9, <1>10,
     <1>11, <1>12, <1>13, <1>14 DEF TNext

LEMMA TokenStep ==
  ASSUME TokenInv, [TNext]_tVars, NEW s \in Tokens
  PROVE  Worth(s)'
<1> USE DEF Worth, Outlived, ListedInTime, CheckedInTime
<1>0. /\ TTypeOK /\ TTypeOK'
      /\ Worth(s)
  BY TokenTypes DEF TokenInv
<1> USE DEF TTypeOK, Life
<1>1. ASSUME NEW t \in Tokens, CheckUser(t) PROVE Worth(s)'
  BY <1>1, <1>0 DEF CheckUser
<1>2. ASSUME NEW t \in Tokens, SaveTokenEntry(t) PROVE Worth(s)'
  BY <1>2, <1>0 DEF SaveTokenEntry
<1>3. ASSUME NEW t \in Tokens, SaveUserEntry(t) PROVE Worth(s)'
  BY <1>3, <1>0 DEF SaveUserEntry
<1>4. ASSUME NEW t \in Tokens, SaveThrows(t) PROVE Worth(s)'
  BY <1>4, <1>0 DEF SaveThrows
<1>5. ASSUME NEW t \in Tokens, VerifyBlack(t) PROVE Worth(s)'
  BY <1>5, <1>0 DEF VerifyBlack, CheckAt, VerifyBlackRecordsToken
<1>6. ASSUME NEW t \in Tokens, VerifyTokenRole(t) PROVE Worth(s)'
  BY <1>6, <1>0, SMTT(25) DEF VerifyTokenRole, CheckAt
<1>7. ASSUME NEW t \in Tokens, VerifyCurrActionRole(t) PROVE Worth(s)'
  BY <1>7, <1>0 DEF VerifyCurrActionRole, CheckAt
<1>8. ASSUME NEW t \in Tokens, NEW b \in Tabs, FindToken(t, b)
      PROVE  Worth(s)'
  <2>1. CASE tokenEntry[t] > 0
    <3>1. /\ login[t] = "issued"
          /\ logout' = [logout EXCEPT ![t] = [logout[t] EXCEPT ![b] = "found"]]
          /\ UNCHANGED <<login, jwt, tokenEntry, userToken, black, loggedOut, check>>
      BY <1>8, <2>1 DEF FindToken, VerifyToken
    <3>2. \A c \in Tabs : logout'[s][c] = "listed" => logout[s][c] = "listed"
      BY <1>0, <3>1
    <3>3. s # t => logout'[s] = logout[s]
      BY <1>0, <3>1
    <3> QED
      BY <1>0, <3>1, <3>2, <3>3
  <2>2. CASE ~(tokenEntry[t] > 0)
    <3>1. /\ jwt[t] > 0 /\ login[t] = "issued" /\ loggedOut' = [loggedOut EXCEPT ![t] = TRUE]
          /\ UNCHANGED <<login, jwt, tokenEntry, userToken, black, logout, check>>
      BY <1>8, <2>2 DEF FindToken, VerifyToken
    <3>2. CASE s = t
      BY <1>0, <2>2, <3>1, <3>2
    <3>3. CASE s # t
      BY <1>0, <3>1, <3>3
    <3> QED
      BY <3>2, <3>3
  <2> QED
    BY <2>1, <2>2
<1>9. ASSUME NEW t \in Tokens, NEW b \in Tabs, AddBlack(t, b) PROVE Worth(s)'
  BY <1>9, <1>0 DEF AddBlack
<1>10. ASSUME NEW t \in Tokens, NEW b \in Tabs, RemoveToken(t, b) PROVE Worth(s)'
  BY <1>10, <1>0 DEF RemoveToken
<1>11. ASSUME NEW t \in Tokens, NEW b \in Tabs, LogoutThrows(t, b) PROVE Worth(s)'
  BY <1>11, <1>0 DEF LogoutThrows
<1>12. ASSUME NEW u \in Users, ChangeRoles(u) PROVE Worth(s)'
  BY <1>12, <1>0 DEF ChangeRoles
<1>13. CASE TTick
  BY <1>13, <1>0, LessIsLess DEF TTick
<1>14. CASE UNCHANGED tVars
  BY <1>14, <1>0 DEF tVars
<1> QED
  BY <1>1, <1>2, <1>3, <1>4, <1>5, <1>6, <1>7, <1>8, <1>9, <1>10,
     <1>11, <1>12, <1>13, <1>14 DEF TNext

(* A token that was handed out and is valid is known, or listed if it was  *)
(* logged out, and no check that begins after a logout passes the list:    *)
(* SaveToken, BlackToken and ValidateRole with any interleaving and any    *)
(* write that throws.                                                      *)
THEOREM TokensAreWorth == TSpec => []TokensKeepTheirWorth
<1>1. TokenInv => TokensKeepTheirWorth
  BY DEF TokenInv, Worth, Outlived, ListedInTime, CheckedInTime, TTypeOK, Life,
         TokensKeepTheirWorth, VerifyToken, VerifyBlackRecordsToken
<1>2. TokenInv /\ [TNext]_tVars => TokenInv'
  BY TokenTypes, TokenStep DEF TokenInv
<1> QED
  BY TokenInit, <1>1, <1>2, PTL DEF TSpec

-----------------------------------------------------------------------------
(* The rounds of RunLock: rivals for one lock, while redis answers.        *)

(* What MessageLock assumes of its constants, for finitely many messages.  *)
RivalNumbers ==
  /\ IsFiniteSet(RivalJobs) /\ RivalJobs # {} /\ Nobody \notin RivalJobs
  /\ RivalExptime \in Nat \ {0} /\ RivalLastRound \in Nat

(* Twice the ticks that the sleeps of the first i rounds take.             *)
Slept(i) == i * (i + 1)

(* Time-to-lives that begin as late as they can to be in the way of a      *)
(* message: k of them are over when the sleeps of reach[k] rounds are, and *)
(* RunLock has as many rounds as n of them take.                           *)
SleepsOutlast(reach, n) ==
  /\ reach \in [0..n -> 0..(RivalLastRound + 1)] /\ reach[0] = 0
  /\ \A k \in 1..n : Slept(reach[k - 1]) + 2 * RivalExptime <= Slept(reach[k])

Unserved(j) == rPc[j] \in {"new", "first", "second"}

(* The rivals of j that have had the key.                                  *)
Served(j) == {k \in RivalJobs : k # j /\ ~Unserved(k)}

RivalTypes ==
  /\ rKey \in RivalJobs \cup {Nobody} /\ rLife \in Nat
  /\ rLife = 0 <=> rKey = Nobody
  /\ rPc \in [RivalJobs -> Rivals!Locations]
  /\ rRound \in [RivalJobs -> Nat] /\ rSleep \in [RivalJobs -> Nat]
  /\ \A j \in RivalJobs : rPc[j] \in {"new", "first"} => rSleep[j] = 0

(* Who has the key was served, and nobody is given up.                     *)
RivalServed ==
  /\ rKey # Nobody => ~Unserved(rKey)
  /\ \A j \in RivalJobs : rPc[j] # "dropped"

(* A message has not come further than those served before it allow, and   *)
(* the key of the last of them ends in time.                               *)
InReach(reach, j) ==
  Unserved(j) =>
    LET bound == reach[Cardinality(Served(j))] IN
    /\ rRound[j] <= bound
    /\ rKey # Nobody =>
         Slept(rRound[j]) + 2 * rLife <= Slept(bound) + 2 * rSleep[j]

RivalInv(reach) ==
  /\ RivalTypes /\ RivalServed
  /\ \A j \in RivalJobs : InReach(reach, j)

LEMMA SleptGrows ==
  ASSUME NEW a \in Nat, NEW b \in Nat
  PROVE  /\ Slept(a) \in Nat
         /\ a <= b => Slept(a) <= Slept(b)
         /\ Slept(a) < Slept(b) => a + 1 <= b
         /\ Slept(a + 1) = Slept(a) + 2 * (a + 1)
<1>1. Slept(a) \in Nat /\ Slept(b) \in Nat
  BY DEF Slept
<1>2. Slept(a + 1) = Slept(a) + 2 * (a + 1)
  BY DEF Slept
<1>3. ASSUME NEW c \in Nat, NEW d \in Nat, c <= d PROVE Slept(c) <= Slept(d)
  <2>1. c * (c + 1) <= c * (d + 1)
    BY <1>3
  <2>2. c * (d + 1) <= d * (d + 1)
    BY <1>3
  <2> QED
    BY <2>1, <2>2 DEF Slept
<1>4. a <= b => Slept(a) <= Slept(b)
  BY <1>3
<1>5. b <= a => Slept(b) <= Slept(a)
  BY <1>3
<1> QED
  BY <1>1, <1>2, <1>4, <1>5

LEMMA ServedCount ==
  ASSUME RivalNumbers, NEW j \in RivalJobs
  PROVE  /\ IsFiniteSet(Served(j))
         /\ Cardinality(Served(j)) \in 0..(Cardinality(RivalJobs) - 1)
<1>1. /\ IsFiniteSet(RivalJobs \ {j})
      /\ Cardinality(RivalJobs \ {j}) = Cardinality(RivalJobs) - 1
  BY FS_RemoveElement DEF RivalNumbers
<1>2. Served(j) \subseteq RivalJobs \ {j}
  BY DEF Served
<1>3. /\ IsFiniteSet(Served(j))
      /\ Cardinality(Served(j)) <= Cardinality(RivalJobs \ {j})
  BY <1>1, <1>2, FS_Subset
<1>4. Cardinality(Served(j)) \in Nat /\ Cardinality(RivalJobs) \in Nat
  BY <1>3, FS_CardinalityType DEF RivalNumbers
<1> QED
  BY <1>1, <1>3, <1>4

(* One more of the rivals of j has been served.                            *)
LEMMA OneMoreServed ==
  ASSUME RivalNumbers, NEW j \in RivalJobs, NEW k \in RivalJobs, j # k,
         Unserved(k), ~Unserved(k)',
         \A i \in RivalJobs : i # k => (Unserved(i)' <=> Unserved(i))
  PROVE  Cardinality(Served(j)') = Cardinality(Served(j)) + 1
<1>1. Served(j)' = Served(j) \cup {k} /\ k \notin Served(j)
  BY DEF Served
<1> QED
  BY <1>1, ServedCount, FS_AddElement

(* The bounds that sleeps and time-to-lives give.                          *)
LEMMA Bounds ==
  ASSUME RivalNumbers, NEW reach, SleepsOutlast(reach, Cardinality(RivalJobs) - 1),
         NEW j \in RivalJobs
  PROVE  LET u == Cardinality(Served(j)) IN
         /\ u \in 0..(Cardinality(RivalJobs) - 1) /\ reach[u] \in Nat
         /\ reach[u] <= RivalLastRound + 1
         /\ u + 1 <= Cardinality(RivalJobs) - 1 =>
              /\ reach[u + 1] \in Nat /\ reach[u] <= reach[u + 1]
              /\ Slept(reach[u]) + 2 * RivalExptime <= Slept(reach[u + 1])
<1> DEFINE n == Cardinality(RivalJobs) - 1
           u == Cardinality(Served(j))
<1>1. u \in 0..n
  BY ServedCount
<1>2. n \in Int
  BY FS_CardinalityType DEF RivalNumbers
<1>3. reach[u] \in Nat /\ reach[u] <= RivalLastRound + 1
  BY <1>1 DEF SleepsOutlast, RivalNumbers
<1>4. ASSUME u + 1 <= n
      PROVE  /\ reach[u + 1] \in Nat /\ reach[u] <= reach[u + 1]
             /\ Slept(reach[u]) + 2 * RivalExptime <= Slept(reach[u + 1])
  <2> DEFINE v == u + 1
  <2>1. v \in 1..n /\ v - 1 = u /\ v \in 0..n
    BY <1>1, <1>2, <1>4
  <2> HIDE DEF v, u, n
  <2>2. /\ reach[v] \in Nat
        /\ Slept(reach[v - 1]) + 2 * RivalExptime <= Slept(reach[v])
    BY <2>1 DEF SleepsOutlast, RivalNumbers, n
  <2>3. Slept(reach[u]) \in Nat /\ Slept(reach[v]) \in Nat
    BY <1>3, <2>2, SleptGrows
  <2>4. Slept(reach[u]) < Slept(reach[v])
    BY <2>1, <2>2, <2>3 DEF RivalNumbers
  <2>5. reach[u] <= reach[v]
    BY <1>3, <2>2, <2>4, SleptGrows
  <2> QED
    BY <2>1, <2>2, <2>5 DEF v
<1> QED
  BY <1>1, <1>3, <1>4

LEMMA RivalInit ==
  ASSUME RivalNumbers, NEW reach, SleepsOutlast(reach, Cardinality(RivalJobs) - 1),
         Rivals!Init
  PROVE  RivalInv(reach)
<1>1. RivalTypes /\ RivalServed
  BY DEF Rivals!Init, RivalTypes, RivalServed, Rivals!Locations
<1>2. ASSUME NEW j \in RivalJobs PROVE InReach(reach, j)
  BY Bounds DEF Rivals!Init, InReach
<1> QED
  BY <1>1, <1>2 DEF RivalInv

(* While the same have been served.                                        *)
LEMMA SameServed ==
  ASSUME \A i \in RivalJobs : Unserved(i)' <=> Unserved(i), NEW j \in RivalJobs
  PROVE  Served(j)' = Served(j)
  BY DEF Served

LEMMA RivalStep ==
  ASSUME RivalNumbers, NEW reach, SleepsOutlast(reach, Cardinality(RivalJobs) - 1),
         RivalInv(reach), [Rivals!Next]_rVars
  PROVE  RivalInv(reach)'
<1>0. /\ RivalTypes /\ RivalServed /\ \A j \in RivalJobs : InReach(reach, j)
  BY DEF RivalInv
<1> USE DEF RivalNumbers
<1>1. CASE UNCHANGED rVars
  BY <1>0, <1>1 DEF rVars, RivalInv, RivalTypes, RivalServed, InReach, Served, Unserved
<1>2. CASE Rivals!Tick
  <2>1. RivalTypes'
    BY <1>0, <1>2 DEF RivalTypes, Rivals!Tick
  <2>2. RivalServed'
    BY <1>0, <1>2 DEF RivalTypes, RivalServed, Rivals!Tick, Unserved
  <2>3. ASSUME NEW j \in RivalJobs PROVE InReach(reach, j)'
    <3>1. Served(j)' = Served(j) /\ (Unserved(j)' <=> Unserved(j))
      BY <1>2 DEF Rivals!Tick, Unserved, Served
    <3>2. /\ rKey' # Nobody => rKey # Nobody /\ rLife' = rLife - 1
          /\ rSleep[j] <= rSleep'[j] + 1 /\ rSleep'[j] \in Nat
          /\ rRound' = rRound
      BY <1>0, <1>2 DEF RivalTypes, Rivals!Tick
    <3>3. /\ Slept(rRound[j]) \in Nat /\ rSleep[j] \in Nat /\ rLife \in Nat
          /\ Slept(reach[Cardinality(Served(j))]) \in Nat
      BY <1>0, Bounds, SleptGrows DEF RivalTypes
    <3> QED
      BY <1>0, <3>1, <3>2, <3>3 DEF InReach
  <2> QED
    BY <2>1, <2>2, <2>3 DEF RivalInv
<1>3. ASSUME NEW j \in RivalJobs, Rivals!Receive(j) PROVE RivalInv(reach)'
  <2>1. RivalTypes'
    BY <1>0, <1>3 DEF RivalTypes, Rivals!Receive, Rivals!Locations
  <2>2. \A i \in RivalJobs : Unserved(i)' <=> Unserved(i)
    BY <1>0, <1>3 DEF RivalTypes, Rivals!Receive, Unserved
  <2>3. RivalServed'
    BY <1>0, <1>3, <2>2 DEF RivalTypes, RivalServed, Rivals!Receive
  <2>4. ASSUME NEW i \in RivalJobs PROVE InReach(reach, i)'
    BY <1>0, <1>3, <2>2, SameServed DEF InReach, Rivals!Receive
  <2> QED
    BY <2>1, <2>3, <2>4 DEF RivalInv
<1>4. ASSUME NEW j \in RivalJobs, Rivals!SetKey(j) PROVE RivalInv(reach)'
  <2>1. /\ rKey = Nobody /\ rKey' = j /\ rLife' = RivalExptime
        /\ \E at \in {"firstSet", "secondSet"} : rPc' = [rPc EXCEPT ![j] = at]
        /\ UNCHANGED <<rRound, rSleep>> /\ rPc[j] \in {"first", "second"}
    BY <1>4 DEF Rivals!SetKey, Rivals!Set, Rivals!Asking, Rivals!Waiting
  <2>2. RivalTypes'
    BY <1>0, <2>1 DEF RivalTypes, Rivals!Locations
  <2>3. /\ Unserved(j) /\ ~Unserved(j)'
        /\ \A i \in RivalJobs : i # j => (Unserved(i)' <=> Unserved(i))
    BY <1>0, <2>1 DEF RivalTypes, Unserved
  <2>4. RivalServed'
    BY <1>0, <2>1, <2>3 DEF RivalTypes, RivalServed
  <2>5. ASSUME NEW i \in RivalJobs PROVE InReach(reach, i)'
    <3>1. SUFFICES ASSUME Unserved(i)'
                   PROVE  LET bound == reach[Cardinality(Served(i)')] IN
                          /\ rRound[i] <= bound
                          /\ Slept(rRound[i]) + 2 * RivalExptime
                               <= Slept(bound) + 2 * rSleep[i]
      BY <2>1 DEF InReach
    <3> DEFINE u == Cardinality(Served(i))
    <3>2. i # j /\ Unserved(i)
      BY <2>3, <3>1
    <3>3. Cardinality(Served(i)') = u + 1
      BY <2>3, <3>2, OneMoreServed
    <3>4. u + 1 <= Cardinality(RivalJobs) - 1
      <4>1. Served(i) \cup {j} \subseteq RivalJobs \ {i} /\ j \notin Served(i)
        BY <2>3, <3>2 DEF Served
      <4>2. Cardinality(Served(i) \cup {j}) = u + 1
        BY <4>1, ServedCount, FS_AddElement
      <4>3. /\ IsFiniteSet(RivalJobs \ {i})
            /\ Cardinality(RivalJobs \ {i}) = Cardinality(RivalJobs) - 1
        BY FS_RemoveElement
      <4> QED
        BY <4>1, <4>2, <4>3, FS_Subset
    <3> HIDE DEF u
    <3>5. /\ reach[u] \in Nat /\ reach[u + 1] \in Nat /\ reach[u] <= reach[u + 1]
          /\ Slept(reach[u]) + 2 * RivalExptime <= Slept(reach[u + 1])
      BY <3>4, Bounds DEF u
    <3>6. rRound[i] <= reach[u] /\ rRound[i] \in Nat /\ rSleep[i] \in Nat
      BY <1>0, <3>2 DEF InReach, u, RivalTypes
    <3>7. /\ Slept(rRound[i]) <= Slept(reach[u]) /\ Slept(rRound[i]) \in Nat
          /\ Slept(reach[u]) \in Nat /\ Slept(reach[u + 1]) \in Nat
      BY <3>5, <3>6, SleptGrows
    <3> QED
      BY <3>3, <3>5, <3>6, <3>7
  <2> QED
    BY <2>2, <2>4, <2>5 DEF RivalInv
<1>5. ASSUME NEW j \in RivalJobs, Rivals!LockRefused(j), Unserved(j)
      PROVE  /\ rKey # Nobody /\ rLife \in Nat \ {0} /\ UNCHANGED <<rKey, rLife>>
             /\ rSleep[j] = 0 /\ rRound[j] \in Nat
             /\ rRound[j] + 1 <= reach[Cardinality(Served(j))]
             /\ reach[Cardinality(Served(j))] <= RivalLastRound + 1
             /\ Slept(rRound[j]) + 2 * rLife <= Slept(reach[Cardinality(Served(j))])
  <2>1. rKey # Nobody /\ rSleep[j] = 0 /\ UNCHANGED <<rKey, rLife>>
    BY <1>5 DEF Rivals!LockRefused, Rivals!Asking, Rivals!Setting
  <2>2. rLife \in Nat \ {0} /\ rRound[j] \in Nat
    BY <1>0, <2>1 DEF RivalTypes
  <2> DEFINE bound == reach[Cardinality(Served(j))]
  <2>3. bound \in Nat /\ bound <= RivalLastRound + 1
    BY Bounds
  <2>4. Slept(rRound[j]) + 2 * rLife <= Slept(bound) + 2 * rSleep[j]
    BY <1>0, <1>5, <2>1 DEF InReach
  <2> HIDE DEF bound
  <2>5. Slept(rRound[j]) \in Nat /\ Slept(bound) \in Nat
    BY <2>2, <2>3, SleptGrows
  <2>6. Slept(rRound[j]) < Slept(bound)
    BY <2>1, <2>2, <2>4, <2>5
  <2>7. rRound[j] + 1 <= bound
    BY <2>2, <2>3, <2>6, SleptGrows
  <2>8. Slept(rRound[j]) + 2 * rLife <= Slept(bound)
    BY <2>1, <2>2, <2>4, <2>5
  <2> QED
    BY <2>1, <2>2, <2>3, <2>7, <2>8, Zenon DEF bound
<1>6. ASSUME NEW j \in RivalJobs, Rivals!SleepFirst(j) PROVE RivalInv(reach)'
  <2>1. /\ rPc[j] = "first" /\ Unserved(j) /\ Rivals!LockRefused(j)
        /\ rRound' = [rRound EXCEPT ![j] = rRound[j] + 1]
        /\ rSleep' = [rSleep EXCEPT ![j] = rRound[j] + 1]
        /\ rPc' = [rPc EXCEPT ![j] = "second"]
    BY <1>6 DEF Rivals!SleepFirst, Rivals!SleepOf, Unserved, Rivals!First,
                Rivals!LockRefused, Rivals!Asking, Rivals!Waiting
  <2>2. /\ rKey # Nobody /\ rLife \in Nat \ {0} /\ UNCHANGED <<rKey, rLife>>
        /\ rSleep[j] = 0 /\ rRound[j] \in Nat
        /\ rRound[j] + 1 <= reach[Cardinality(Served(j))]
        /\ Slept(rRound[j]) + 2 * rLife <= Slept(reach[Cardinality(Served(j))])
    BY <1>5, <2>1
  <2>3. RivalTypes'
    BY <1>0, <2>1, <2>2 DEF RivalTypes, Rivals!Locations
  <2>4. \A i \in RivalJobs : Unserved(i)' <=> Unserved(i)
    BY <1>0, <2>1 DEF RivalTypes, Unserved
  <2>5. RivalServed'
    BY <1>0, <2>1, <2>2, <2>4 DEF RivalTypes, RivalServed
  <2>6. ASSUME NEW i \in RivalJobs PROVE InReach(reach, i)'
    <3>1. Served(i)' = Served(i)
      BY <2>4, SameServed
    <3>2. CASE i # j
      BY <1>0, <2>1, <2>2, <2>4, <3>1, <3>2 DEF InReach, RivalTypes
    <3>3. CASE i = j
      <4>1. rRound'[j] = rRound[j] + 1 /\ rSleep'[j] = rRound[j] + 1
        BY <1>0, <2>1 DEF RivalTypes
      <4>2. Slept(rRound'[j]) = Slept(rRound[j]) + 2 * (rRound[j] + 1)
        BY <2>2, <4>1, SleptGrows
      <4>3. Slept(rRound[j]) \in Nat /\ Slept(reach[Cardinality(Served(j))]) \in Nat
        BY <2>2, Bounds, SleptGrows
      <4> QED
        BY <2>2, <3>1, <3>3, <4>1, <4>2, <4>3 DEF InReach
    <3> QED
      BY <3>2, <3>3
  <2> QED
    BY <2>3, <2>5, <2>6 DEF RivalInv
<1>7. ASSUME NEW j \in RivalJobs, Rivals!SecondRefused(j) PROVE RivalInv(reach)'
  <2>1. rPc[j] = "second" /\ Unserved(j) /\ Rivals!LockRefused(j)
    BY <1>7 DEF Rivals!SecondRefused, Unserved, Rivals!Second,
                Rivals!LockRefused, Rivals!Asking, Rivals!Waiting
  <2>2. /\ rKey # Nobody /\ UNCHANGED <<rKey, rLife>> /\ rSleep[j] = 0
        /\ rRound[j] \in Nat /\ rRound[j] <= RivalLastRound
    BY <1>5, <2>1, Bounds
  <2>3. /\ rPc' = [rPc EXCEPT ![j] = "first"] /\ UNCHANGED <<rRound, rSleep>>
    BY <1>7, <2>2 DEF Rivals!SecondRefused, Rivals!GoesOn
  <2>4. RivalTypes'
    BY <1>0, <2>2, <2>3 DEF RivalTypes, Rivals!Locations
  <2>5. \A i \in RivalJobs : Unserved(i)' <=> Unserved(i)
    BY <1>0, <2>1, <2>3 DEF RivalTypes, Unserved
  <2>6. RivalServed'
    BY <1>0, <2>2, <2>3, <2>5 DEF RivalTypes, RivalServed
  <2>7. ASSUME NEW i \in RivalJobs PROVE InReach(reach, i)'
    BY <1>0, <2>2, <2>3, <2>5, SameServed DEF InReach
  <2> QED
    BY <2>4, <2>6, <2>7 DEF RivalInv
<1>8. ASSUME NEW j \in RivalJobs, Rivals!Finish(j) \/ Rivals!HandlerThrows(j)
      PROVE  RivalInv(reach)'
  <2>1. /\ rPc[j] = "running" /\ \E how \in {"done", "failed"} : Rivals!Leave(j, how)
        /\ (rKey' = Nobody /\ rLife' = 0) \/ UNCHANGED <<rKey, rLife>>
    BY <1>8 DEF Rivals!Finish, Rivals!HandlerThrows, Rivals!Running, Rivals!UnlockOwn
  <2>2. PICK how \in {"done", "failed"} : Rivals!Leave(j, how)
    BY <2>1
  <2>3. /\ rPc' = [rPc EXCEPT ![j] = how] /\ rRound' = [rRound EXCEPT ![j] = 0]
        /\ rSleep' = rSleep
    BY <2>2 DEF Rivals!Leave
  <2>4. RivalTypes'
    BY <1>0, <2>1, <2>2, <2>3 DEF RivalTypes, Rivals!Locations
  <2>5. ~Unserved(j) /\ \A i \in RivalJobs : Unserved(i)' <=> Unserved(i)
    BY <1>0, <2>1, <2>2, <2>3 DEF RivalTypes, Unserved
  <2>6. RivalServed'
    BY <1>0, <2>1, <2>2, <2>3, <2>5 DEF RivalTypes, RivalServed
  <2>7. ASSUME NEW i \in RivalJobs PROVE InReach(reach, i)'
    <3>1. Served(i)' = Served(i)
      BY <2>5, SameServed
    <3> QED
      BY <1>0, <2>1, <2>3, <2>5, <3>1 DEF InReach, RivalTypes
  <2> QED
    BY <2>4, <2>6, <2>7 DEF RivalInv
<1>9. ~ \E j \in RivalJobs : Rivals!RunUntagged(j)
  BY DEF Rivals!RunUntagged
<1>10. ASSUME NEW j \in RivalJobs, Rivals!LockTaken(j) \/ Rivals!RunHandler(j)
       PROVE  RivalInv(reach)'
  <2>1. /\ \E at \in {"locked", "running"} : rPc' = [rPc EXCEPT ![j] = at]
        /\ ~Unserved(j) /\ UNCHANGED <<rKey, rLife, rRound, rSleep>>
    BY <1>10 DEF Rivals!LockTaken, Rivals!RunHandler, Rivals!Setting, Unserved
  <2>2. RivalTypes'
    BY <1>0, <2>1 DEF RivalTypes, Rivals!Locations
  <2>3. \A i \in RivalJobs : Unserved(i)' <=> Unserved(i)
    BY <1>0, <2>1 DEF RivalTypes, Unserved
  <2>4. RivalServed'
    BY <1>0, <2>1, <2>3 DEF RivalTypes, RivalServed
  <2>5. ASSUME NEW i \in RivalJobs PROVE InReach(reach, i)'
    BY <1>0, <2>1, <2>3, SameServed DEF InReach
  <2> QED
    BY <2>2, <2>4, <2>5 DEF RivalInv
<1> QED
  BY <1>1, <1>2, <1>3, <1>4, <1>6, <1>7, <1>8, <1>9, <1>10
     DEF Rivals!Next, Rivals!Step

(* While redis answers, a message whose sleeps outlast the time-to-lives   *)
(* of its rivals is not given up: for any rivals, time-to-live and rounds. *)
THEOREM RivalsDropNothing ==
  ASSUME RivalNumbers, NEW reach, SleepsOutlast(reach, Cardinality(RivalJobs) - 1)
  PROVE  Rivals!Spec => []NothingDroppedByRivals
<1>1. Rivals!Init => RivalInv(reach)
  BY RivalInit
<1>2. RivalInv(reach) /\ [Rivals!Next]_rVars => RivalInv(reach)'
  BY RivalStep
<1>3. RivalInv(reach) => NothingDroppedByRivals
  BY DEF RivalInv, RivalServed, NothingDroppedByRivals, Rivals!NothingDropped
<1> QED
  BY <1>1, <1>2, <1>3, PTL DEF Rivals!Spec, Rivals!vars, rVars

(* With the code's numbers, five rounds and ten seconds, two rivals cannot *)
(* make a message miss its handler; with twenty seconds one cannot.        *)
THEOREM TwoRivalsDropNothing ==
  ASSUME RivalNumbers, RivalLastRound = 4,
         \/ RivalExptime = 5  /\ Cardinality(RivalJobs) <= 3
         \/ RivalExptime = 10 /\ Cardinality(RivalJobs) <= 2
  PROVE  Rivals!Spec => []NothingDroppedByRivals
<1>1. Cardinality(RivalJobs) \in Nat \ {0}
  BY FS_CardinalityType, FS_EmptySet DEF RivalNumbers
<1>2. CASE RivalExptime = 5 /\ Cardinality(RivalJobs) <= 3
  <2> DEFINE n     == Cardinality(RivalJobs) - 1
             reach == [k \in 0..n |-> IF k = 0 THEN 0 ELSE IF k = 1 THEN 3 ELSE 5]
  <2>1. n \in 0..2
    BY <1>1, <1>2
  <2> HIDE DEF n
  <2>2. SleepsOutlast(reach, n)
    BY <1>2, <2>1 DEF SleepsOutlast, Slept
  <2> QED
    BY <2>2, RivalsDropNothing DEF n
<1>3. CASE RivalExptime = 10 /\ Cardinality(RivalJobs) <= 2
  <2> DEFINE n     == Cardinality(RivalJobs) - 1
             reach == [k \in 0..n |-> IF k = 0 THEN 0 ELSE 4]
  <2>1. n \in 0..1
    BY <1>1, <1>3
  <2> HIDE DEF n
  <2>2. SleepsOutlast(reach, n)
    BY <1>3, <2>1 DEF SleepsOutlast, Slept
  <2> QED
    BY <2>2, RivalsDropNothing DEF n
<1> QED
  BY <1>2, <1>3

-----------------------------------------------------------------------------
(* The lock around the handlers.                                           *)

(* What makes the exclusion inductive: a key that was set is there for the *)
(* whole time-to-live, whether or not Lock has returned and the handler    *)
(* has started.                                                            *)
KeyMatchesHandler ==
  \A j \in Jobs \ Untagged :
    Counting(j) /\ held[j] < Exptime => key = j /\ life = Exptime - held[j]

(* The time since a SET starts at zero.                                    *)
FreshClocks == \A j \in Jobs : ~ Counting(j) => held[j] = 0

(* At the head of the loop, its condition was true.                        *)
RoundsLeft ==
  \A j \in Jobs : pc[j] \in {"new", "first", "firstSet"} => round[j] <= LastRound

Inv == TypeOK /\ RoundsLeft /\ FreshClocks /\ KeyMatchesHandler

USE JobsAssumption, KeyAssumption, ExptimeAssumption, FailsAssumption
USE DEF Running, Waiting, Setting, Counting

-----------------------------------------------------------------------------
LEMMA InitInv == Init => Inv
  BY DEF Init, Inv, TypeOK, RoundsLeft, FreshClocks, KeyMatchesHandler, Locations

(* A refused request leaves the key with whoever else has it, and its own  *)
(* clock at zero.                                                          *)
LEMMA RefusedKeepsKey ==
  ASSUME NEW j \in Jobs, TypeOK, LockRefused(j)
  PROVE  /\ key' \in Jobs \cup {Nobody, Orphan} /\ life' \in 0..Exptime
         /\ key \notin {Nobody, j} => key' = key /\ life' = life
         /\ Counting(j) \/ held' = held
         /\ held' = held \/ held' = [held EXCEPT ![j] = 0]
         /\ Counting(j) => held' = [held EXCEPT ![j] = 0]
  BY DEF TypeOK, LockRefused, Asking

(* UnLockMethod takes the key away from the message itself at most.        *)
LEMMA UnlockKeepsOthers ==
  ASSUME NEW j \in Jobs, TypeOK, UnlockOwn(j) \/ UNCHANGED <<key, life>>
  PROVE  /\ key' \in Jobs \cup {Nobody, Orphan} /\ life' \in 0..Exptime
         /\ key # j => key' = key /\ life' = life
  BY DEF TypeOK, UnlockOwn

-----------------------------------------------------------------------------
LEMMA TypeStep == TypeOK /\ RoundsLeft /\ [Next]_vars => TypeOK' /\ RoundsLeft'
<1> SUFFICES ASSUME TypeOK, RoundsLeft, [Next]_vars
             PROVE  TypeOK' /\ RoundsLeft'
  OBVIOUS
<1>1. CASE Tick
  BY <1>1 DEF Tick, TypeOK, RoundsLeft, Locations
<1>2. ASSUME NEW j \in Jobs, Step(j)
      PROVE  TypeOK' /\ RoundsLeft'
  <2>1. CASE Receive(j)
    BY <2>1 DEF Receive, TypeOK, RoundsLeft, Locations
  <2>2. CASE RunUntagged(j)
    BY <2>2 DEF RunUntagged, TypeOK, RoundsLeft, Locations
  <2>3. CASE SetKey(j)
    BY <2>3 DEF SetKey, Set, Asking, TypeOK, RoundsLeft, Locations
  <2>8. CASE LockTaken(j) \/ RunHandler(j)
    BY <2>8 DEF LockTaken, RunHandler, TypeOK, RoundsLeft, Locations
  <2>4. CASE SleepFirst(j)
    <3>1. round[j] \in 0..LastRound
      BY <2>4 DEF SleepFirst, First, TypeOK, RoundsLeft
    <3>2. round[j] + 1 \in 0..(LastRound + 1)
      BY <3>1
    <3> QED
      BY <3>2, <2>4, RefusedKeepsKey
         DEF SleepFirst, SleepOf, TypeOK, RoundsLeft, Locations
  <2>5. CASE SecondRefused(j)
    <3>1. /\ key' \in Jobs \cup {Nobody, Orphan} /\ life' \in 0..Exptime
          /\ held' \in [Jobs -> 0..Exptime]
      BY <2>5, RefusedKeepsKey DEF SecondRefused, TypeOK
    <3>2. CASE GoesOn(round[j]) /\ pc' = [pc EXCEPT ![j] = "first"]
               /\ UNCHANGED <<round, sleep>>
      BY <3>1, <3>2 DEF GoesOn, TypeOK, RoundsLeft, Locations
    <3>3. CASE Leave(j, "dropped")
      BY <3>1, <3>3 DEF Leave, TypeOK, RoundsLeft, Locations
    <3> QED
      BY <2>5, <3>2, <3>3 DEF SecondRefused
  <2>6. CASE Finish(j)
    <3>1. key' \in Jobs \cup {Nobody, Orphan} /\ life' \in 0..Exptime
      BY <2>6, UnlockKeepsOthers DEF Finish
    <3>2. Leave(j, "done") \/ Leave(j, "failed")
      BY <2>6 DEF Finish
    <3> QED
      BY <3>1, <3>2 DEF Leave, TypeOK, RoundsLeft, Locations
  <2>7. CASE HandlerThrows(j)
    BY <2>7 DEF HandlerThrows, Leave, TypeOK, RoundsLeft, Locations
  <2> QED
    BY <1>2, <2>1, <2>2, <2>3, <2>4, <2>5, <2>6, <2>7, <2>8 DEF Step
<1>3. CASE UNCHANGED vars
  BY <1>3 DEF vars, TypeOK, RoundsLeft
<1> QED
  BY <1>1, <1>2, <1>3 DEF Next

LEMMA ClockStep ==
  TypeOK /\ FreshClocks /\ KeyMatchesHandler /\ [Next]_vars
    => FreshClocks' /\ KeyMatchesHandler'
<1> SUFFICES ASSUME TypeOK, FreshClocks, KeyMatchesHandler, [Next]_vars
             PROVE  FreshClocks' /\ KeyMatchesHandler'
  OBVIOUS
<1>1. CASE Tick
  <2>1. FreshClocks'
    BY <1>1 DEF Tick, TypeOK, FreshClocks
  <2>2. ASSUME NEW j \in Jobs \ Untagged, Counting(j)', held'[j] < Exptime
        PROVE  key' = j /\ life' = Exptime - held'[j]
    <3>1. Counting(j) /\ held[j] \in 0..Exptime /\ life \in 0..Exptime
      BY <1>1, <2>2 DEF Tick, TypeOK
    <3>2. held'[j] = held[j] + 1 /\ held[j] + 1 < Exptime
      BY <1>1, <2>2, <3>1 DEF Tick
    <3>3. key = j /\ life = Exptime - held[j]
      BY <3>1, <3>2 DEF KeyMatchesHandler
    <3>4. life > 1
      BY <3>1, <3>2, <3>3
    <3>5. key' = key /\ life' = life - 1
      BY <1>1, <3>1, <3>4 DEF Tick
    <3> QED
      BY <3>1, <3>2, <3>3, <3>5
  <2> QED
    BY <2>1, <2>2 DEF KeyMatchesHandler
<1>2. ASSUME NEW j \in Jobs, Step(j)
      PROVE  FreshClocks' /\ KeyMatchesHandler'
  <2>1. CASE Receive(j)
    BY <2>1 DEF Receive, TypeOK, FreshClocks, KeyMatchesHandler
  <2>2. CASE RunUntagged(j)
    BY <2>2 DEF RunUntagged, TypeOK, FreshClocks, KeyMatchesHandler
  <2>3. CASE SetKey(j)
    <3>1. held[j] = 0
      BY <2>3 DEF SetKey, Asking, FreshClocks
    <3> QED
      BY <3>1, <2>3 DEF SetKey, Set, Asking, TypeOK, FreshClocks, KeyMatchesHandler
  <2>8. CASE LockTaken(j) \/ RunHandler(j)
    BY <2>8 DEF LockTaken, RunHandler, TypeOK, FreshClocks, KeyMatchesHandler
  <2>4. CASE SleepFirst(j)
    BY <2>4, RefusedKeepsKey
       DEF SleepFirst, TypeOK, FreshClocks, KeyMatchesHandler
  <2>5. CASE SecondRefused(j)
    BY <2>5, RefusedKeepsKey
       DEF SecondRefused, Leave, TypeOK, FreshClocks, KeyMatchesHandler
  <2>6. CASE Finish(j)
    <3>1. Leave(j, "done") \/ Leave(j, "failed")
      BY <2>6 DEF Finish
    <3>2. key # j => key' = key /\ life' = life
      BY <2>6, UnlockKeepsOthers DEF Finish
    <3> QED
      BY <3>1, <3>2 DEF Leave, TypeOK, FreshClocks, KeyMatchesHandler
  <2>7. CASE HandlerThrows(j)
    BY <2>7 DEF HandlerThrows, Leave, TypeOK, FreshClocks, KeyMatchesHandler
  <2> QED
    BY <1>2, <2>1, <2>2, <2>3, <2>4, <2>5, <2>6, <2>7, <2>8 DEF Step
<1>3. CASE UNCHANGED vars
  BY <1>3 DEF vars, FreshClocks, KeyMatchesHandler
<1> QED
  BY <1>1, <1>2, <1>3 DEF Next

LEMMA Inductive == Spec => []Inv
<1>1. Inv /\ [Next]_vars => Inv'
  BY TypeStep, ClockStep DEF Inv
<1> QED
  BY InitInv, <1>1, PTL DEF Spec

-----------------------------------------------------------------------------
(* Every variable keeps its type; the round counter stops at LastRound + 1.*)
THEOREM TypeCorrect == Spec => []TypeOK
  BY Inductive, PTL DEF Inv

(* A handler owns the key until a whole time-to-live has passed since its  *)
(* SET, whenever Lock returned and the handler started.                    *)
THEOREM ShortHandlersOwnTheirKey == Spec => []ShortHandlerOwnsKey
<1>1. Inv => ShortHandlerOwnsKey
  BY DEF Inv, KeyMatchesHandler, ShortHandlerOwnsKey
<1> QED
  BY Inductive, <1>1, PTL

(* Two handlers of the lock overlap only when one of them runs a whole     *)
(* time-to-live after its SET: otherwise the key would name both.          *)
THEOREM HandlersExclude == Spec => []OverlapOnlyWhenOverrun
<1>1. Inv => OverlapOnlyWhenOverrun
  <2> SUFFICES ASSUME Inv, NEW j \in Jobs \ Untagged, NEW k \in Jobs \ Untagged,
                      j # k, Running(j), Running(k)
               PROVE  held[j] = Exptime \/ held[k] = Exptime
    BY DEF OverlapOnlyWhenOverrun
  <2>1. held[j] \in 0..Exptime /\ held[k] \in 0..Exptime
    BY DEF Inv, TypeOK
  <2>2. ~ (held[j] < Exptime /\ held[k] < Exptime)
    BY DEF Inv, KeyMatchesHandler
  <2> QED
    BY <2>1, <2>2
<1> QED
  BY Inductive, <1>1, PTL
=============================================================================
