--------------------------- MODULE RoleListCache ---------------------------
(***************************************************************************)
(* Jy.Application/RoleApp/RoleAppService.cs over the sorted sets of        *)
(* Jy.Cache/Redis/RedisCacheRepository.cs: the list of all roles, filled   *)
(* from the read database by whoever finds it empty, and changed by        *)
(* replies and deletions without a lock between them.                      *)
(*                                                                         *)
(* A member of the set is a serialised role.  What a reply puts there was  *)
(* stamped by DateTime.Now and does not serialise as the row does, so the  *)
(* two are different members and a deletion, which reads rows, takes away  *)
(* the latter only.                                                        *)
(*                                                                         *)
(* An edit starts with Cached.Get(handler, key), which throws while the    *)
(* key is missing and is the only one to fill it, so no edit gets as far   *)
(* as the list.                                                            *)
(***************************************************************************)
EXTENDS Naturals, Sequences

CONSTANTS Roles, Readers, MaxLog

ASSUME RoleConstants == MaxLog \in Nat

VARIABLES
  inserted,  \* the roles InsertOrUpdate has published
  deleted,   \* those Delete has been called for
  deletions, \* delete commands the consumer has not handled
  replies,   \* replies of the consumer on their way to InsertOrUpdateCache
  log,       \* changes of the database the read database has not seen
  db,        \* the roles of the read database
  list,      \* the members of the sorted set
  expires,   \* the set has a time to live
  reader,    \* where each reader is in GetListPaged and GetSortList
  rows,      \* what the reader got from the read database
  late       \* what the reader that gave the list its lifetime has not read

lVars == <<inserted, deleted, deletions, replies, log, db, list, expires,
           reader, rows, late>>

Member(r, from) == [role |-> r, from |-> from]
Members == [role : Roles, from : {"row", "reply"}]
Listed  == {m.role : m \in list}

LTypeOK ==
  /\ inserted \in SUBSET Roles /\ deleted \in SUBSET Roles
  /\ deletions \in SUBSET deleted /\ replies \in SUBSET inserted
  /\ log \in Seq([op : {"insert", "delete"}, role : Roles])
  /\ db \in SUBSET Roles
  /\ list \in SUBSET Members /\ expires \in BOOLEAN
  /\ reader \in [Readers -> {"idle", "missed", "asked", "queried", "added"}]
  /\ rows \in [Readers -> SUBSET Roles]
  /\ late \in SUBSET Roles

LInit ==
  /\ db \in SUBSET Roles /\ inserted = db
  /\ deleted = {} /\ deletions = {} /\ replies = {} /\ log = <<>>
  /\ list = {} /\ expires = FALSE /\ late = {}
  /\ reader = [p \in Readers |-> "idle"] /\ rows = [p \in Readers |-> {}]

\* Redis has no empty sorted set: the key goes with its last member.
Keep(members) ==
  /\ list' = members
  /\ expires' = (expires /\ members # {})
  /\ late' = IF members = {} THEN {} ELSE late

-----------------------------------------------------------------------------
(* The commands and the consumer.                                          *)

InsertOrUpdate(r) ==
  /\ r \notin inserted
  /\ inserted' = inserted \cup {r}
  /\ Len(log) < MaxLog
  /\ log' = Append(log, [op |-> "insert", role |-> r])
  /\ replies' = replies \cup {r}
  /\ UNCHANGED <<deleted, deletions, db, list, expires, reader, rows, late>>

\* A slip: the list gets the lifetime of a fill with every change.
SortedSetUpdateExpires(r) ==
  /\ list' = list \cup {Member(r, "reply")}
  /\ expires' = TRUE
  /\ UNCHANGED late

\* The new role is added whether there is a list or not; a list that begins
\* so has no time to live.
SortedSetUpdate(r) ==
  /\ list' = list \cup {Member(r, "reply")}
  /\ UNCHANGED <<expires, late>>

InsertOrUpdateCache(r) ==
  /\ r \in replies /\ replies' = replies \ {r}
  /\ SortedSetUpdate(r)
  /\ UNCHANGED <<inserted, deleted, deletions, log, db, reader, rows>>

\* Someone who sees a role deletes it.  DeleteCache serialises what the read
\* database has of it; the command is published afterwards.
Delete(r) ==
  /\ r \in db \cup Listed /\ r \notin deleted
  /\ deleted' = deleted \cup {r}
  /\ Keep(IF r \in db THEN list \ {Member(r, "row")} ELSE list)
  /\ deletions' = deletions \cup {r}
  /\ UNCHANGED <<inserted, replies, log, db, reader, rows>>

HandleDelete(r) ==
  /\ r \in deletions /\ deletions' = deletions \ {r}
  /\ Len(log) < MaxLog
  /\ log' = Append(log, [op |-> "delete", role |-> r])
  /\ UNCHANGED <<inserted, deleted, replies, db, list, expires, reader, rows,
                 late>>

Replicate ==
  /\ log # <<>> /\ log' = Tail(log)
  /\ db' = IF Head(log).op = "insert" THEN db \cup {Head(log).role}
           ELSE db \ {Head(log).role}
  /\ UNCHANGED <<inserted, deleted, deletions, replies, list, expires, reader,
                 rows, late>>

-----------------------------------------------------------------------------
(* A reader of the list.                                                   *)

Goes(p, to) == reader' = [reader EXCEPT ![p] = to]
Rest == <<inserted, deleted, deletions, replies, log, db>>

\* GetListPaged: without the key it asks for the whole list.
Exists(p) ==
  /\ reader[p] = "idle" /\ list = {} /\ Goes(p, "missed")
  /\ UNCHANGED <<Rest, list, expires, rows, late>>

\* GetSortList: somebody may have filled the list since.
SortedSetRangeByRank(p) ==
  /\ reader[p] = "missed" /\ Goes(p, IF list = {} THEN "asked" ELSE "idle")
  /\ UNCHANGED <<Rest, list, expires, rows, late>>

Query(p) ==
  /\ reader[p] = "asked" /\ Goes(p, "queried")
  /\ rows' = [rows EXCEPT ![p] = db]
  /\ UNCHANGED <<Rest, list, expires, late>>

SortedSetAdd(p) ==
  /\ reader[p] = "queried" /\ Goes(p, "added")
  /\ list' = list \cup {Member(r, "row") : r \in rows[p]}
  /\ UNCHANGED <<Rest, expires, rows, late>>

KeyExpire(p) ==
  /\ reader[p] = "added" /\ Goes(p, "idle")
  /\ expires' = (list # {})
  /\ late' = IF list = {} THEN {} ELSE Roles \ rows[p]
  /\ rows' = [rows EXCEPT ![p] = {}]
  /\ UNCHANGED <<Rest, list>>

\* Any of these calls may throw, or the process end.
ReaderThrows(p) ==
  /\ reader[p] \in {"asked", "queried", "added"} /\ Goes(p, "idle")
  /\ rows' = [rows EXCEPT ![p] = {}]
  /\ UNCHANGED <<Rest, list, expires, late>>

\* Ten minutes pass; no reader takes as long from its query to its end.
Expire ==
  /\ expires /\ \A p \in Readers : reader[p] \notin {"queried", "added"}
  /\ Keep({})
  /\ UNCHANGED <<Rest, reader, rows>>

LNext ==
  \/ \E r \in Roles : InsertOrUpdate(r) \/ InsertOrUpdateCache(r)
                      \/ Delete(r) \/ HandleDelete(r)
  \/ Replicate \/ Expire
  \/ \E p \in Readers : \/ Exists(p) \/ SortedSetRangeByRank(p) \/ Query(p)
                        \/ SortedSetAdd(p) \/ KeyExpire(p) \/ ReaderThrows(p)

LSpec == LInit /\ [][LNext]_lVars

-----------------------------------------------------------------------------
(* A list that will expire hides no role of the read database, but those   *)
(* somebody deletes and those that came there after the list was read:     *)
(* whatever a reader, a reply and a deletion leave behind when they meet,  *)
(* a list that shows too little for longer is one without a time to live.  *)
ExpiringListIsComplete ==
  LTypeOK /\ (expires => db \subseteq Listed \cup deleted \cup late)
=============================================================================
