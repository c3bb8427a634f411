------------------------------ MODULE ListPage ------------------------------
(* The pages of departments, menus and users: a tree, the table of the     *)
(* selected node's records, a form and a question, and what the browser    *)
(* has in flight.  A save or a delete is answered when its command is      *)
(* published; the handlers apply it later, and the page asks again for its *)
(* tree after the two seconds of delayLoad, whether they have or not.      *)
(* Every request may fail, and an answer may be lost after its command was *)
(* published; an answer shows the database of the moment it arrives.  The  *)
(* pages have one shape: each definition is mapped to one of them.         *)
EXTENDS Naturals, SequencesExt, FiniteSetsExt

CONSTANTS Records, Root, None,
          Users,     \* "patient": waits until the page is quiet; "hasty"
          InFlight   \* bound: what is under way when the user acts

ASSUME PageRecords == Root \notin Records /\ None \notin Records \cup {Root}

VARIABLES user, parent, commands,        \* the user; the database; published
          tree, stored, handlers,        \* jstree, the state plugin's storage
          selectedId, rows, checked,     \* the table
          form, question,                \* addRootModal, layer.confirm
          treeLoads, loads, edits, posts, timers,
          crowded,   \* the table was asked for while it was asked for already
          missed     \* a command was applied when the page had reloaded

vars == <<user, parent, commands, tree, stored, handlers, selectedId, rows,
          checked, form, question, treeLoads, loads, edits, posts, timers,
          crowded, missed>>

server  == <<parent, commands>>
theTree == <<tree, stored, handlers, treeLoads>>
table   == <<selectedId, rows, checked, loads, crowded, missed>>
dialogs == <<form, question>>
saving  == <<edits, posts, timers>>

NoTree == [nodes |-> {}, selected |-> None, ready |-> FALSE, there |-> FALSE,
           whole |-> TRUE]
\* A closed form: nothing reads its fields, opening it writes all of them.
Closed == [title |-> None, id |-> Root, parent |-> Root, shown |-> FALSE]
Nodes  == Records \cup {Root}
Shown  == UNION {rows[i].items : i \in DOMAIN rows}

Children(p) == {r \in DOMAIN parent : parent[r] = p}

Pending == treeLoads + timers + Cardinality(edits) + Len(posts)
           + Cardinality(commands) + MapThenSumSet(LAMBDA n : loads[n], Nodes)

TableAnswered == \A n \in DOMAIN loads : loads[n] = 0
TreeToCome    == tree.there /\ tree.whole /\ ~tree.ready

\* The page waits for nothing; it cannot see what the consumers do.
Quiet == /\ treeLoads = 0 /\ timers = 0 /\ edits = {} /\ posts = <<>>
         /\ TableAnswered /\ ~TreeToCome

\* It is still to show its table again, or its tree.
Reloads == timers > 0 \/ treeLoads > 0 \/ TreeToCome \/ ~TableAnswered

MayAct   == user = "patient" => Quiet
PageFree == MayAct /\ ~form.shown /\ question = {}
Room(n)  == Pending + n <= InFlight

Init ==
  /\ user \in Users
  /\ \E old \in SUBSET Records : parent \in [old -> {Root}]
  /\ commands = {} /\ tree = NoTree /\ stored \in {None} \cup Records
  /\ handlers = 0 /\ selectedId = Root /\ rows = <<>> /\ checked = {}
  /\ form = Closed
  /\ question = {} /\ treeLoads = 1 /\ loads = [n \in Nodes |-> 0]
  /\ edits = {} /\ posts = <<>> /\ timers = 0
  /\ crowded = FALSE /\ missed = FALSE

(***************************** tree and table ******************************)
initTree ==
  /\ tree' = NoTree /\ handlers' = 0
  /\ treeLoads' = treeLoads + 1
  /\ UNCHANGED stored

Asked(p, n) ==
  /\ loads' = [loads EXCEPT ![p] = @ + n]
  /\ crowded' = (n > 1 \/ ~TableAnswered) /\ missed' = FALSE

\* A mutant for the runs: the table is not emptied.
loadTablesKeepsRows(p, n) == checked' = {} /\ UNCHANGED rows /\ Asked(p, n)

\* n calls at once: the table is emptied now and filled by the answers.
loadTables(p, n) == rows' = <<>> /\ checked' = {} /\ Asked(p, n)

\* delayLoad("initTree()")
TimerFires ==
  /\ timers > 0 /\ timers' = timers - 1
  /\ initTree
  /\ UNCHANGED <<user, server, table, dialogs, edits, posts>>

\* A tree that is there already stays, and only gets more handlers.  jstree
\* never builds the tree of a list with a node whose parent is not in it: the
\* children of a deleted record.
TreeAnswer ==
  /\ treeLoads > 0 /\ treeLoads' = treeLoads - 1
  /\ tree' = IF tree.there THEN tree
             ELSE [NoTree EXCEPT
                     !.nodes = DOMAIN parent, !.there = TRUE,
                     !.whole = \A r \in DOMAIN parent :
                                 parent[r] \in DOMAIN parent \cup {Root}]
  /\ handlers' = handlers + 1
  /\ UNCHANGED <<user, server, stored, table, dialogs, saving>>

TreeFails ==
  /\ treeLoads > 0 /\ treeLoads' = treeLoads - 1
  /\ UNCHANGED <<user, server, tree, stored, handlers, table, dialogs, saving>>

\* changed.jstree, once for each handler bound
Changed(n) ==
  /\ selectedId' = n
  /\ loadTables(n, handlers)

\* ready.jstree: the state plugin selects what was selected last.
TreeReady ==
  /\ tree.there /\ tree.whole /\ ~tree.ready
  /\ \/ /\ stored \in tree.nodes
        /\ tree' = [tree EXCEPT !.ready = TRUE, !.selected = stored]
        /\ Changed(stored)
     \/ /\ stored \notin tree.nodes
        /\ tree' = [tree EXCEPT !.ready = TRUE]
        /\ UNCHANGED table
  /\ UNCHANGED <<user, server, stored, handlers, treeLoads, dialogs, saving>>

SelectNode(n) ==
  /\ PageFree /\ Room(handlers) /\ tree.ready /\ n \in tree.nodes
  /\ tree' = [tree EXCEPT !.selected = n] /\ stored' = n
  /\ Changed(n)
  /\ UNCHANGED <<user, server, handlers, treeLoads, dialogs, saving>>

btnLoadRoot ==
  /\ PageFree /\ Room(1)
  /\ selectedId' = Root /\ loadTables(Root, 1)
  /\ UNCHANGED <<user, server, theTree, dialogs, saving>>

\* The answer is appended, whatever the table shows by now.
ListAnswer(p) ==
  /\ loads[p] > 0 /\ loads' = [loads EXCEPT ![p] = @ - 1]
  /\ rows' = Append(rows, [of |-> p, items |-> Children(p)])
  /\ UNCHANGED <<user, server, theTree, selectedId, checked, crowded, missed,
                 dialogs, saving>>

ListFails(p) ==
  /\ loads[p] > 0 /\ loads' = [loads EXCEPT ![p] = @ - 1]
  /\ UNCHANGED <<user, server, theTree, selectedId, rows, checked, crowded,
                 missed, dialogs, saving>>

Check(ids) ==
  /\ PageFree /\ ids \subseteq Shown /\ ids # checked
  /\ checked' = ids
  /\ UNCHANGED <<user, server, theTree, selectedId, rows, loads, crowded,
                 missed, dialogs, saving>>

(************************* form, question and posts ************************)
\* add(0) adds at the top, add(1) below the selected record, if there is one.
add(p) ==
  /\ PageFree
  /\ p = Root \/ p = selectedId
  /\ form' = [title |-> "add", id |-> Root, parent |-> p, shown |-> TRUE]
  /\ UNCHANGED <<user, server, theTree, table, question, saving>>

edit(r) ==
  /\ PageFree /\ Room(1) /\ r \in Shown
  /\ edits' = edits \cup {r}
  /\ UNCHANGED <<user, server, theTree, table, dialogs, posts, timers>>

\* A mutant for the runs: the title stays.
FilledKeepsTitle(r) ==
  [title |-> IF form.shown THEN form.title ELSE "edit", id |-> r,
   parent |-> parent[r], shown |-> TRUE]

Filled(r) == [title |-> "edit", id |-> r, parent |-> parent[r], shown |-> TRUE]

\* The form is filled and shown even if it is open for something else by
\* now; a record that is gone, or a failure, leaves everything as it is.
EditAnswer(r) ==
  /\ r \in edits /\ edits' = edits \ {r}
  /\ \/ /\ r \in DOMAIN parent
        /\ form' = Filled(r)
     \/ UNCHANGED form
  /\ UNCHANGED <<user, server, theTree, table, question, posts, timers>>

closeForm ==
  /\ MayAct /\ form.shown
  /\ form' = Closed
  /\ UNCHANGED <<user, server, theTree, table, question, saving>>

Post(p) == Room(2) /\ posts' = Append(posts, p)   \* a command and a timer follow

\* The form stays open until the answer: a second click posts again.
save ==
  /\ MayAct /\ form.shown /\ question = {}
  /\ Post([op |-> "save", ids |-> {form.id}, parent |-> form.parent])
  /\ UNCHANGED <<user, server, theTree, table, dialogs, edits, timers>>

\* deleteMulti and deleteSingle ask about the records of the moment.
deleteAsk(ids) ==
  /\ PageFree /\ ids # {}
  /\ ids = checked \/ \E r \in Shown : ids = {r}
  /\ question' = ids
  /\ UNCHANGED <<user, server, theTree, table, form, saving>>

Confirm ==
  /\ MayAct /\ question # {}
  /\ Post([op |-> "delete", ids |-> question, parent |-> Root])
  /\ UNCHANGED <<user, server, theTree, table, dialogs, edits, timers>>

Cancel ==
  /\ MayAct /\ question # {} /\ question' = {}
  /\ UNCHANGED <<user, server, theTree, table, form, saving>>

\* A record without an id gets a new one when its command is published.
Published(p) ==
  IF p.op = "delete" \/ p.ids # {Root} THEN {p}
  ELSE {[op |-> "insert", ids |-> {r}, parent |-> p.parent] :
          r \in Records \ (DOMAIN parent \cup UNION {c.ids : c \in commands})}

PostAnswer(i) ==
  LET p == posts[i] IN
  /\ timers' = timers + 1
  /\ \E c \in Published(p) : commands' = commands \cup {c}
  /\ posts' = RemoveAt(posts, i)
  /\ IF p.op = "save"
     THEN form' = Closed /\ UNCHANGED question
     ELSE question' = {} /\ UNCHANGED form
  /\ UNCHANGED <<user, parent, theTree, table, edits>>

\* The request fails, or its answer does, after the command was published:
\* the dialog stays, and nothing is asked for again.
PostFails(i) ==
  /\ posts' = RemoveAt(posts, i)
  /\ \/ UNCHANGED commands
     \/ \E c \in Published(posts[i]) : commands' = commands \cup {c}
  /\ UNCHANGED <<user, parent, theTree, table, dialogs, edits, timers>>

Applied(c) ==
  IF c.op = "delete" THEN [r \in DOMAIN parent \ c.ids |-> parent[r]]
  ELSE [r \in DOMAIN parent \cup {x \in c.ids : c.op = "insert"} |->
          IF r \in c.ids THEN c.parent ELSE parent[r]]

\* A handler of the consumers, in any order with the others.
Handle(c) ==
  /\ c \in commands /\ commands' = commands \ {c}
  /\ parent' = Applied(c)
  /\ missed' = (missed \/ ~Reloads)
  /\ UNCHANGED <<user, theTree, selectedId, rows, checked, loads, crowded,
                 dialogs, saving>>

Next ==
  \/ TimerFires \/ TreeAnswer \/ TreeFails \/ TreeReady \/ btnLoadRoot
  \/ \E n \in Records : SelectNode(n) \/ edit(n) \/ EditAnswer(n)
  \/ \E n \in Nodes : ListAnswer(n) \/ ListFails(n) \/ add(n)
  \/ \E ids \in SUBSET Records : Check(ids) \/ deleteAsk(ids)
  \/ closeForm \/ save \/ Confirm \/ Cancel
  \/ \E i \in DOMAIN posts : PostAnswer(i) \/ PostFails(i)
  \/ \E c \in commands : Handle(c)

Spec == Init /\ [][Next]_vars

(******************************* properties ********************************)
(* The dialog says what its save will do: it says "add" exactly while the  *)
(* record it saves has no id, in whatever order clicks and answers come.   *)
TitleMatchesForm == form.shown => (form.title = "add" <=> form.id = Root)

\* The table is one list, of n.
ListOf(n) == Len(rows) = 1 /\ rows[1].of = n

(* A table that was not asked for twice at a time is in the end empty (its *)
(* request failed) or the list of what was selected last, once.  A user    *)
(* who waits never asks twice at a time; and when such a user's page has   *)
(* reloaded, a table below a selected node shows every command but those   *)
(* that were applied after the reload: consumers slower than delayLoad, or *)
(* a save whose answer was lost.                                           *)
ReloadShowsTheCommand ==
  /\ TableAnswered /\ ~crowded => rows = <<>> \/ ListOf(selectedId)
  /\ user = "patient" =>
       /\ ~crowded
       /\ Quiet /\ tree.ready /\ tree.selected # None /\ ~missed =>
            rows = <<>> \/ rows[1].items = Children(selectedId)
=============================================================================
