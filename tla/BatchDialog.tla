---------------------------- MODULE BatchDialog ----------------------------
(* The dialog of the page of authorities that gives the ticked users the   *)
(* ticked roles.  Which users is remembered when the dialog opens; the     *)
(* roles are a string beside the tree, as in MenuDialog, cut in the answer *)
(* to a question that stays until a save succeeds.  The string is emptied  *)
(* when a tree gets ready, not when the dialog opens.                      *)
EXTENDS IdStrings, SequencesExt, FiniteSetsExt

CONSTANTS TableUsers,   \* the rows of the table
          RoleNodes,
          MaxCuts       \* bound: cuts of the string, requests under way

ASSUME BatchConstants == IsFiniteSet(RoleNodes)

VARIABLES ticked,               \* .checkboxs
          batchUserRoleIds, open,
          roleBatchIDs, batchTree,
          confirmAsked, treeRequests, batchSaves, applied

bVars == <<ticked, batchUserRoleIds, open, roleBatchIDs, batchTree, confirmAsked,
           treeRequests, batchSaves, applied>>

BatchTree(is) == [is |-> is, ticked |-> {}]   \* "none", "loading" or "ready"

BInit ==
  /\ ticked = {} /\ batchUserRoleIds = {} /\ open = FALSE
  /\ roleBatchIDs = Written({}) /\ batchTree = BatchTree("none")
  /\ confirmAsked = FALSE /\ treeRequests = 0 /\ batchSaves = <<>> /\ applied = {}

Free == ~open /\ ~confirmAsked

TickUser(u) ==
  /\ Free
  /\ ticked' = IF u \in ticked THEN ticked \ {u} ELSE ticked \cup {u}
  /\ UNCHANGED <<batchUserRoleIds, open, roleBatchIDs, batchTree, confirmAsked,
                 treeRequests, batchSaves, applied>>

\* btnBatchUserRole
OpenBatch ==
  /\ Free /\ ticked # {} /\ treeRequests < MaxCuts
  /\ batchUserRoleIds' = ticked /\ open' = TRUE
  /\ batchTree' = BatchTree("none") /\ treeRequests' = treeRequests + 1
  /\ UNCHANGED <<ticked, roleBatchIDs, confirmAsked, batchSaves, applied>>

BatchTreeAnswer ==
  /\ treeRequests > 0 /\ treeRequests' = treeRequests - 1
  /\ \/ batchTree.is = "none" /\ batchTree' = BatchTree("loading")
     \/ UNCHANGED batchTree                   \* there is one, or it fails
  /\ UNCHANGED <<ticked, batchUserRoleIds, open, roleBatchIDs, confirmAsked,
                 batchSaves, applied>>

\* uncheck_all: nothing is ticked, and the string is emptied.
BatchTreeReady ==
  /\ batchTree.is = "loading" /\ batchTree' = BatchTree("ready")
  /\ roleBatchIDs' = Written({})
  /\ UNCHANGED <<ticked, batchUserRoleIds, open, confirmAsked, treeRequests,
                 batchSaves, applied>>

TickRole(r) ==
  /\ open /\ ~confirmAsked /\ batchTree.is = "ready"
  /\ LET ids == batchTree.ticked IN
     /\ batchTree' = [batchTree EXCEPT !.ticked = IF r \in ids THEN ids \ {r}
                                                  ELSE ids \cup {r}]
     /\ roleBatchIDs' = Written(batchTree'.ticked)
  /\ UNCHANGED <<ticked, batchUserRoleIds, open, confirmAsked, treeRequests,
                 batchSaves, applied>>

CloseBatch ==
  /\ open /\ ~confirmAsked /\ open' = FALSE
  /\ UNCHANGED <<ticked, batchUserRoleIds, roleBatchIDs, batchTree, confirmAsked,
                 treeRequests, batchSaves, applied>>

batchUserRoleSave ==
  /\ open /\ ~confirmAsked /\ Characters(roleBatchIDs) # 0
  /\ confirmAsked' = TRUE
  /\ UNCHANGED <<ticked, batchUserRoleIds, open, roleBatchIDs, batchTree,
                 treeRequests, batchSaves, applied>>

\* The question stays: the next click sends the string cut once more.
ConfirmBatch ==
  /\ confirmAsked /\ roleBatchIDs.cut < MaxCuts /\ Len(batchSaves) < MaxCuts
  /\ roleBatchIDs' = Shortened(roleBatchIDs)
  /\ batchSaves' = Append(batchSaves, [users |-> batchUserRoleIds,
                                       string |-> roleBatchIDs', seen |-> batchTree])
  /\ UNCHANGED <<ticked, batchUserRoleIds, open, batchTree, confirmAsked,
                 treeRequests, applied>>

CancelBatch ==
  /\ confirmAsked /\ confirmAsked' = FALSE
  /\ UNCHANGED <<ticked, batchUserRoleIds, open, roleBatchIDs, batchTree,
                 treeRequests, batchSaves, applied>>

Batches(s) == {[users |-> s.users, roles |-> ids, string |-> s.string,
                seen |-> s.seen] : ids \in GetList(s.string)}

\* The save is refused or lost, or the answer to the command is.
BatchSaveAnswer(i) ==
  /\ batchSaves' = RemoveAt(batchSaves, i)
  /\ \/ UNCHANGED <<applied, open, confirmAsked>>
     \/ \E batch \in Batches(batchSaves[i]) :
          /\ applied' = {batch}
          /\ \/ UNCHANGED <<open, confirmAsked>>
             \/ open' = FALSE /\ confirmAsked' = FALSE
  /\ UNCHANGED <<ticked, batchUserRoleIds, roleBatchIDs, batchTree,
                 treeRequests>>

\* The two seconds of delayLoad are over: every tree is destroyed.
BatchReload ==
  /\ applied # {} /\ applied' = {}
  /\ batchTree' = BatchTree("none")
  /\ UNCHANGED <<ticked, batchUserRoleIds, open, roleBatchIDs, confirmAsked,
                 treeRequests, batchSaves>>

\* The page's tree got ready with its selection, or the user selected a node:
\* the table is filled anew.
RefillTable ==
  /\ ticked # {} /\ ticked' = {}
  /\ UNCHANGED <<batchUserRoleIds, open, roleBatchIDs, batchTree, confirmAsked,
                 treeRequests, batchSaves, applied>>

BNext ==
  \/ \E u \in TableUsers : TickUser(u)
  \/ \E r \in RoleNodes : TickRole(r)
  \/ OpenBatch \/ BatchTreeAnswer \/ BatchTreeReady \/ CloseBatch
  \/ batchUserRoleSave \/ ConfirmBatch \/ CancelBatch \/ BatchReload
  \/ RefillTable
  \/ \E i \in DOMAIN batchSaves : BatchSaveAnswer(i)

BSpec == BInit /\ [][BNext]_bVars

(* The users a batch is saved for are those ticked in the table behind the *)
(* dialog, unless the table has been filled anew since the dialog opened.  *)
(* No batch is published for nobody or with no role; its roles are those   *)
(* ticked in the tree at the click, whole, and published once, as for a    *)
(* role's menus.  Without a tree in sight they are those of the dialog     *)
(* before.                                                                 *)
BatchIsForTheTicked ==
  /\ open /\ ticked # {} => batchUserRoleIds = ticked
  /\ \A batch \in applied :
       /\ batch.users # {} /\ batch.roles # {}
       /\ batch.string.cut = 1 \/ batch.string.cut > GuidLength + 1
       /\ batch.string.cut = 1 => batch.roles = batch.string.ids
       /\ batch.seen.is = "ready" => batch.string.ids = batch.seen.ticked
=============================================================================
