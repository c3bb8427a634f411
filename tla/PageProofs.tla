---------------------------- MODULE PageProofs -----------------------------
(***************************************************************************)
(* Proofs about the pages of the web front end: ListPage, the dialogs      *)
(* MenuDialog and BatchDialog, and the Paginator below the tables, for any *)
(* number of records, roles, menus, users, pages, clicks and answers; and  *)
(* about the lists of jstree's nodes, for any tree.                        *)
(***************************************************************************)
EXTENDS MCPages, Paginator, JsTreeModel, FiniteSetTheorems, SequenceTheorems, TLAPS

(* Division with remainder, as the prover has it.                          *)
LEMMA Division ==
  ASSUME NEW n \in Nat \ {0}, NEW c \in Nat
  PROVE  /\ c \div n \in Int /\ c % n \in 0..(n - 1)
         /\ c = n * (c \div n) + (c % n)
BY SMT

(******************************** ListPage *********************************)
(* What a user who waits has under way: one thing after the other.         *)
OneAtATime ==
  /\ treeLoads \in Nat /\ timers \in Nat /\ handlers \in 0..1
  /\ loads \in [Nodes -> 0..1]
  /\ posts = <<>> \/ posts = <<posts[1]>>
  /\ treeLoads + timers <= 1
  /\ posts # <<>> => treeLoads = 0 /\ timers = 0
  /\ ~crowded
  /\ tree.there \/ handlers > 0 => treeLoads = 0

(* The tree of the page, a record.                                          *)
Tree(ns, sel, rdy, th, wh) ==
  [nodes |-> ns, selected |-> sel, ready |-> rdy, there |-> th, whole |-> wh]
IsTree(t) == t = Tree(t.nodes, t.selected, t.ready, t.there, t.whole)

(* A tree gets ready before anything else is asked for.                    *)
TreeIsFirst ==
  /\ IsTree(tree)
  /\ tree.there /\ tree.whole /\ ~tree.ready => timers = 0 /\ posts = <<>>
  /\ ~tree.ready => tree.selected = None
  /\ tree.ready => tree.there

(* The table is asked for once, for the selected node, and when nothing    *)
(* else is still to come.                                                  *)
TableIsLast ==
  \A n \in Nodes : loads[n] > 0 =>
    /\ n = selectedId /\ rows = <<>>
    /\ treeLoads = 0 /\ timers = 0 /\ posts = <<>>
    /\ tree.there /\ tree.whole => tree.ready

(* And it is fresh then, unless a command came too late.                   *)
RowsAreFresh ==
  timers = 0 /\ tree.ready /\ tree.selected # None /\ ~missed =>
    rows \in {<<>>, <<[of |-> selectedId, items |-> Children(selectedId)]>>}

PatientInv == OneAtATime /\ TreeIsFirst /\ TableIsLast /\ RowsAreFresh

(* What every user's table is while it was not asked for twice at a time.  *)
OneList ==
  /\ loads \in [Nodes -> Nat] /\ handlers \in Nat
  /\ ~crowded =>
       \/ TableAnswered /\ (rows = <<>> \/ ListOf(selectedId))
       \/ rows = <<>> /\ \A n \in Nodes : loads[n] = IF n = selectedId THEN 1 ELSE 0

-----------------------------------------------------------------------------
(* The dialog's title, for every user: each way to open the form writes    *)
(* the title and the id together, and no record is the root.               *)
LEMMA TitleStep == TitleMatchesForm /\ [Next]_vars => TitleMatchesForm'
<1> SUFFICES ASSUME TitleMatchesForm, [Next]_vars PROVE TitleMatchesForm'
  OBVIOUS
<1> USE DEF TitleMatchesForm
<1>1. ASSUME NEW r \in Records, EditAnswer(r) PROVE TitleMatchesForm'
  BY <1>1, PageRecords DEF EditAnswer, Filled
<1>2. ASSUME NEW n \in Nodes, add(n) PROVE TitleMatchesForm'
  BY <1>2 DEF add
<1>3. CASE closeForm
  BY <1>3 DEF closeForm, Closed
<1>4. ASSUME NEW i \in DOMAIN posts, PostAnswer(i) PROVE TitleMatchesForm'
  BY <1>4 DEF PostAnswer, Closed
<1>5. CASE UNCHANGED form
  BY <1>5
<1>6. ASSUME \/ TimerFires \/ TreeAnswer \/ TreeFails \/ TreeReady \/ btnLoadRoot
             \/ save \/ Confirm \/ Cancel
             \/ \E n \in Records : SelectNode(n) \/ edit(n)
             \/ \E n \in Nodes : ListAnswer(n) \/ ListFails(n)
             \/ \E ids \in SUBSET Records : Check(ids) \/ deleteAsk(ids)
             \/ \E i \in DOMAIN posts : PostFails(i)
             \/ \E c \in commands : Handle(c)
             \/ UNCHANGED vars
      PROVE  UNCHANGED form
  BY <1>6, Zenon DEF TimerFires, TreeAnswer, TreeFails, TreeReady, btnLoadRoot, save,
     Confirm, Cancel, SelectNode, edit, ListAnswer, ListFails, Check, deleteAsk,
     PostFails, Handle, dialogs, vars
<1> QED
  BY <1>1, <1>2, <1>3, <1>4, <1>5, <1>6 DEF Next

(* The dialog says "add" exactly while the record that it saves has no id. *)
THEOREM TitlesMatch == Spec => []TitleMatchesForm
<1>1. Init => TitleMatchesForm
  BY DEF Init, Closed, TitleMatchesForm
<1> QED
  BY <1>1, TitleStep, PTL DEF Spec

-----------------------------------------------------------------------------
THEOREM PatientInit == Init => PatientInv
<1> SUFFICES ASSUME Init PROVE PatientInv
  OBVIOUS
<1> USE DEF Init, NoTree
<1>1. OneAtATime
  BY DEF OneAtATime
<1>2. TreeIsFirst /\ TableIsLast /\ RowsAreFresh
  BY DEF TreeIsFirst, TableIsLast, RowsAreFresh, IsTree, Tree
<1> QED
  BY <1>1, <1>2 DEF PatientInv

(* A step that leaves alone what the invariant is about.                   *)
LEMMA PatientStays ==
  ASSUME PatientInv,
         UNCHANGED <<parent, tree, handlers, selectedId, rows, treeLoads,
                     loads, posts, timers, crowded, missed>>
  PROVE  PatientInv'
BY DEF PatientInv, OneAtATime, TreeIsFirst, TableIsLast, RowsAreFresh, Children

(* The tree stays a record when its fields are replaced.                   *)
Trees(X) == [nodes : X, selected : X, ready : X, there : X, whole : X]

LEMMA TreeInTrees ==
  ASSUME NEW t, IsTree(t), NEW v
  PROVE  \E X : t \in Trees(X) /\ v \in X /\ TRUE \in X
<1> DEFINE X == {t.nodes, t.selected, t.ready, t.there, t.whole, v, TRUE}
<1>1. /\ t.nodes \in X /\ t.selected \in X /\ t.ready \in X /\ t.there \in X
      /\ t.whole \in X /\ v \in X /\ TRUE \in X
  OBVIOUS
<1> HIDE DEF X
<1>2. Tree(t.nodes, t.selected, t.ready, t.there, t.whole) \in Trees(X)
  BY <1>1 DEF Trees, Tree
<1>3. t \in Trees(X)
  BY <1>2, Zenon DEF IsTree
<1> QED
  BY <1>1, <1>3

LEMMA TreeChanges ==
  ASSUME NEW t, IsTree(t), NEW v, NEW w,
         \/ w = [t EXCEPT !.selected = v]
         \/ w = [t EXCEPT !.ready = TRUE]
         \/ w = [t EXCEPT !.ready = TRUE, !.selected = v]
  PROVE  IsTree(w) /\ w.there = t.there /\ w.whole = t.whole
<1>1. PICK X : t \in Trees(X) /\ v \in X /\ TRUE \in X
  BY TreeInTrees
<1>2. CASE w = [t EXCEPT !.selected = v]
  BY <1>1, <1>2 DEF Trees, IsTree, Tree
<1>3. CASE w = [t EXCEPT !.ready = TRUE]
  BY <1>1, <1>3 DEF Trees, IsTree, Tree
<1>4. CASE w = [t EXCEPT !.ready = TRUE, !.selected = v]
  BY <1>1, <1>4 DEF Trees, IsTree, Tree
<1> QED
  BY <1>2, <1>3, <1>4

LEMMA TreeFields ==
  ASSUME NEW t, IsTree(t), NEW v
  PROVE  /\ [t EXCEPT !.selected = v].ready = t.ready
         /\ [t EXCEPT !.ready = TRUE].ready
         /\ [t EXCEPT !.ready = TRUE].selected = t.selected
         /\ [t EXCEPT !.ready = TRUE, !.selected = v].ready
<1>1. PICK X : t \in Trees(X) /\ v \in X /\ TRUE \in X
  BY TreeInTrees
<1> QED
  BY <1>1 DEF Trees

(* What asking for a table does.                                           *)
LEMMA TableIsAsked ==
  ASSUME NEW n, NEW k, loadTables(n, k)
  PROVE  /\ loads' = [loads EXCEPT ![n] = @ + k] /\ rows' = <<>>
         /\ ~crowded' => ~(k > 1) /\ TableAnswered
         /\ ~(k > 1) /\ TableAnswered => ~crowded'
<1> DEFINE twice == k > 1 \/ ~TableAnswered
<1>1. crowded' = twice /\ loads' = [loads EXCEPT ![n] = @ + k] /\ rows' = <<>>
  BY Zenon DEF loadTables, Asked
<1>2. twice \in BOOLEAN /\ (~twice <=> ~(k > 1) /\ TableAnswered)
  OBVIOUS
<1> HIDE DEF twice
<1>3. ~crowded' <=> ~twice
  <2>1. CASE twice
    <3>1. twice = TRUE
      BY <1>2, <2>1
    <3> QED
      BY <1>1, <2>1, <3>1
  <2>2. CASE ~twice
    <3>1. twice = FALSE
      BY <1>2, <2>2
    <3> QED
      BY <1>1, <2>2, <3>1
  <2> QED
    BY <2>1, <2>2
<1> QED
  BY <1>1, <1>2, <1>3

(* A table is asked for when everything else has been answered.            *)
LEMMA TableAsked ==
  ASSUME PatientInv, NEW n, loadTables(n, handlers) \/ loadTables(n, 1),
         selectedId' = n, \A m \in Nodes : loads[m] = 0,
         treeLoads = 0, timers = 0, posts = <<>>,
         UNCHANGED <<parent, handlers, treeLoads, posts, timers>>,
         tree'.there = tree.there, tree'.whole = tree.whole,
         IsTree(tree'),
         tree'.there /\ tree'.whole => tree'.ready,
         tree'.ready \/ tree'.selected = None,
         tree'.ready => tree'.there
  PROVE  PatientInv'
<1>1. PICK k \in 0..1 : loads' = [loads EXCEPT ![n] = @ + k]
  BY DEF loadTables, Asked, PatientInv, OneAtATime
<1>2. loads \in [Nodes -> 0..1] /\ rows' = <<>> /\ ~crowded'
  <2>1. loads \in [Nodes -> 0..1] /\ handlers \in 0..1
    BY DEF PatientInv, OneAtATime
  <2>2. TableAnswered
    BY <2>1 DEF TableAnswered
  <2>3. \A h \in 0..1 : ~(h > 1)
    OBVIOUS
  <2>4. rows' = <<>> /\ ~crowded'
    BY <2>1, <2>2, <2>3, TableIsAsked
  <2> QED
    BY <2>1, <2>4
<1>3. loads' \in [Nodes -> 0..1] /\ \A m \in Nodes : loads'[m] > 0 => m = n
  <2>1. \A m \in Nodes : loads'[m] = IF m = n THEN k ELSE 0
    BY <1>1, <1>2
  <2>2. loads' = [m \in Nodes |-> loads'[m]]
    BY <1>1, <1>2
  <2> QED
    BY <2>1, <2>2
<1>4. OneAtATime'
  BY <1>2, <1>3 DEF PatientInv, OneAtATime
<1>5. TreeIsFirst' /\ TableIsLast' /\ RowsAreFresh'
  BY <1>2, <1>3 DEF PatientInv, OneAtATime, TreeIsFirst, TableIsLast, RowsAreFresh
<1> QED
  BY <1>4, <1>5 DEF PatientInv

(* A question or a form is posted by a user who has waited.                *)
LEMMA PostedWhenQuiet ==
  ASSUME PatientInv, Quiet, NEW p, posts' = Append(posts, p),
         UNCHANGED <<parent, tree, handlers, selectedId, rows, treeLoads,
                     loads, timers, crowded, missed>>
  PROVE  PatientInv'
<1>1. posts' = <<p>> /\ posts' = <<posts'[1]>>
  BY DEF Quiet
<1>2. OneAtATime'
  BY <1>1 DEF Quiet, PatientInv, OneAtATime
<1>3. TreeIsFirst' /\ TableIsLast' /\ RowsAreFresh'
  BY <1>1 DEF Quiet, TreeToCome, PatientInv, TreeIsFirst, TableIsLast, RowsAreFresh,
              Children, TableAnswered, OneAtATime
<1> QED
  BY <1>2, <1>3 DEF PatientInv

(* A post that is answered was the only one.                               *)
LEMMA OnlyPost ==
  ASSUME OneAtATime, NEW i \in DOMAIN posts
  PROVE  /\ i = 1 /\ posts # <<>> /\ RemoveAt(posts, i) = <<>>
         /\ treeLoads = 0 /\ timers = 0
<1>1. posts = <<posts[1]>> /\ i = 1
  BY DEF OneAtATime
<1> DEFINE S == {posts[1]}
           p == posts[1]
<1>2. posts = <<p>> /\ p \in S
  BY <1>1
<1> HIDE DEF p, S
<1>3. RemoveAt(<<p>>, 1) = <<>>
  BY <1>2 DEF RemoveAt
<1> QED
  BY <1>1, <1>2, <1>3 DEF OneAtATime

THEOREM PatientStep == user = "patient" /\ PatientInv /\ [Next]_vars => PatientInv'
<1> SUFFICES ASSUME user = "patient", PatientInv, [Next]_vars PROVE PatientInv'
  OBVIOUS
<1>1. CASE TimerFires
  <2>1. /\ timers = 1 /\ treeLoads = 0 /\ posts = <<>>
        /\ timers' = 0 /\ treeLoads' = 1
    BY <1>1 DEF TimerFires, initTree, PatientInv, OneAtATime
  <2>2. /\ tree' = NoTree /\ handlers' = 0
        /\ UNCHANGED <<parent, selectedId, rows, loads, posts, crowded, missed>>
    BY <1>1 DEF TimerFires, initTree, server, table
  <2>3. OneAtATime'
    BY <2>1, <2>2 DEF PatientInv, OneAtATime, NoTree
  <2>4. TreeIsFirst' /\ TableIsLast' /\ RowsAreFresh'
    BY <2>1, <2>2 DEF PatientInv, OneAtATime, TreeIsFirst, TableIsLast, RowsAreFresh,
                      NoTree, IsTree, Tree
  <2> QED
    BY <2>3, <2>4 DEF PatientInv
<1>2. CASE TreeAnswer
  <2>1. /\ treeLoads = 1 /\ timers = 0 /\ posts = <<>> /\ handlers = 0
        /\ ~tree.there /\ treeLoads' = 0 /\ handlers' = 1
    BY <1>2 DEF TreeAnswer, PatientInv, OneAtATime
  <2>2. tree'.there /\ ~tree'.ready /\ tree'.selected = None /\ IsTree(tree')
    <3>1. tree' = Tree(DOMAIN parent, None, FALSE, TRUE,
                       \A r \in DOMAIN parent : parent[r] \in DOMAIN parent \cup {Root})
      BY <1>2, <2>1 DEF TreeAnswer, NoTree, Tree
    <3> QED
      BY <3>1 DEF IsTree, Tree
  <2>3. UNCHANGED <<parent, selectedId, rows, loads, posts, timers, crowded, missed>>
    BY <1>2 DEF TreeAnswer, server, table, saving
  <2>4. OneAtATime'
    BY <2>1, <2>2, <2>3 DEF PatientInv, OneAtATime
  <2>5. TreeIsFirst' /\ TableIsLast' /\ RowsAreFresh'
    BY <2>1, <2>2, <2>3 DEF PatientInv, OneAtATime, TreeIsFirst, TableIsLast,
                            RowsAreFresh
  <2> QED
    BY <2>4, <2>5 DEF PatientInv
<1>3. CASE TreeFails
  <2>1. treeLoads' = treeLoads - 1 /\ treeLoads > 0
    BY <1>3 DEF TreeFails
  <2>2. UNCHANGED <<parent, tree, handlers, selectedId, rows, loads, posts,
                    timers, crowded, missed>>
    BY <1>3 DEF TreeFails, server, table, saving
  <2> QED
    BY <2>1, <2>2 DEF PatientInv, OneAtATime, TreeIsFirst, TableIsLast, RowsAreFresh,
                      Children
<1>4. CASE TreeReady
  <2>1. /\ treeLoads = 0 /\ timers = 0 /\ posts = <<>>
        /\ \A m \in Nodes : loads[m] = 0
    <3>1. \A m \in Nodes : loads[m] \in 0..1 /\ ~(loads[m] > 0)
      BY <1>4 DEF TreeReady, PatientInv, OneAtATime, TableIsLast
    <3> QED
      BY <1>4, <3>1 DEF TreeReady, PatientInv, OneAtATime, TreeIsFirst
  <2>2. UNCHANGED <<parent, handlers, treeLoads, posts, timers>> /\ tree.there
    BY <1>4 DEF TreeReady, server, saving
  <2>3. /\ tree'.ready /\ tree'.there = tree.there /\ tree'.whole = tree.whole
        /\ IsTree(tree')
        /\ \/ Changed(stored)
           \/ tree'.selected = tree.selected /\ UNCHANGED table
    <3>1. IsTree(tree)
      BY DEF PatientInv, TreeIsFirst
    <3>2. CASE /\ Changed(stored)
               /\ tree' = [tree EXCEPT !.ready = TRUE, !.selected = stored]
      BY <3>1, <3>2, TreeChanges, TreeFields, ZenonT(40)
    <3>3. CASE tree' = [tree EXCEPT !.ready = TRUE] /\ UNCHANGED table
      BY <3>1, <3>3, TreeChanges, TreeFields
    <3> QED
      BY <1>4, <3>2, <3>3 DEF TreeReady
  <2>4. CASE Changed(stored)
    BY <2>1, <2>2, <2>3, <2>4, TableAsked DEF Changed
  <2>5. CASE tree'.selected = tree.selected /\ UNCHANGED table
    <3>1. tree'.selected = None
      BY <1>4, <2>5 DEF TreeReady, PatientInv, TreeIsFirst
    <3> QED
      BY <2>1, <2>2, <2>3, <2>5, <3>1 DEF PatientInv, OneAtATime, TreeIsFirst,
         TableIsLast, RowsAreFresh, table
  <2> QED
    BY <2>3, <2>4, <2>5
<1>5. CASE btnLoadRoot
  <2>1. \A m \in Nodes : loads[m] = 0
    BY <1>5 DEF btnLoadRoot, PageFree, MayAct, Quiet, TableAnswered, PatientInv, OneAtATime
  <2> QED
    BY <1>5, <2>1, TableAsked DEF btnLoadRoot, PageFree, MayAct, Quiet, TreeToCome, server,
       theTree, saving, PatientInv, TreeIsFirst
<1>6. ASSUME NEW n \in Records, SelectNode(n) PROVE PatientInv'
  <2>1. /\ tree'.there = tree.there /\ tree'.whole = tree.whole
        /\ tree'.ready = tree.ready /\ tree.ready
        /\ IsTree(tree') /\ tree.there
    <3>1. IsTree(tree) /\ tree.ready /\ tree.there
      BY <1>6 DEF SelectNode, PatientInv, TreeIsFirst
    <3>2. tree' = [tree EXCEPT !.selected = n]
      BY <1>6 DEF SelectNode
    <3>3. IsTree(tree') /\ tree'.there = tree.there /\ tree'.whole = tree.whole
      BY <3>1, <3>2, TreeChanges
    <3>4. tree'.ready = tree.ready
      BY <3>1, <3>2, TreeFields
    <3> QED
      BY <3>1, <3>3, <3>4
  <2>2. \A m \in Nodes : loads[m] = 0
    BY <1>6 DEF SelectNode, PageFree, MayAct, Quiet, TableAnswered, PatientInv, OneAtATime
  <2> QED
    BY <1>6, <2>1, <2>2, TableAsked DEF SelectNode, Changed, PageFree, MayAct, Quiet,
       server, saving
<1>7. ASSUME NEW n \in Nodes, ListAnswer(n) PROVE PatientInv'
  <2>1. /\ loads[n] = 1 /\ loads' = [loads EXCEPT ![n] = 0]
        /\ n = selectedId /\ rows = <<>>
    <3>1. loads[n] = 1 /\ loads \in [Nodes -> 0..1]
      BY <1>7 DEF ListAnswer, PatientInv, OneAtATime
    <3> QED
      BY <1>7, <3>1 DEF ListAnswer, PatientInv, TableIsLast
  <2>2. rows' = <<[of |-> selectedId, items |-> Children(selectedId)]>>
    BY <1>7, <2>1 DEF ListAnswer
  <2>3. UNCHANGED <<parent, tree, handlers, selectedId, treeLoads, posts,
                    timers, crowded, missed>>
    BY <1>7 DEF ListAnswer, server, theTree, saving
  <2>4. \A m \in Nodes : loads'[m] = 0
    BY <2>1 DEF PatientInv, OneAtATime, TableIsLast
  <2>5. OneAtATime'
    BY <2>1, <2>3 DEF PatientInv, OneAtATime
  <2>6. TreeIsFirst' /\ TableIsLast' /\ RowsAreFresh'
    BY <2>2, <2>3, <2>4 DEF PatientInv, TreeIsFirst, TableIsLast, RowsAreFresh, Children
  <2> QED
    BY <2>5, <2>6 DEF PatientInv
<1>8. ASSUME NEW n \in Nodes, ListFails(n) PROVE PatientInv'
  <2>1. /\ loads' = [loads EXCEPT ![n] = @ - 1] /\ loads[n] > 0
        /\ UNCHANGED <<parent, tree, handlers, selectedId, rows, treeLoads,
                       posts, timers, crowded, missed>>
    BY <1>8 DEF ListFails, server, theTree, saving
  <2>2. loads' \in [Nodes -> 0..1] /\ \A m \in Nodes : loads'[m] > 0 => loads[m] > 0
    BY <2>1 DEF PatientInv, OneAtATime
  <2> QED
    BY <2>1, <2>2 DEF PatientInv, OneAtATime, TreeIsFirst, TableIsLast, RowsAreFresh,
                      Children
<1>9. ASSUME save \/ Confirm PROVE PatientInv'
  <2>1. PICK p : posts' = Append(posts, p)
    BY <1>9 DEF save, Confirm, Post
  <2> QED
    BY <1>9, <2>1, PostedWhenQuiet DEF save, Confirm, MayAct, server, theTree, table
<1>10. ASSUME NEW i \in DOMAIN posts, PostAnswer(i) PROVE PatientInv'
  <2>1. posts # <<>> /\ posts' = <<>> /\ treeLoads = 0 /\ timers = 0 /\ timers' = 1
    BY <1>10, OnlyPost DEF PostAnswer, PatientInv
  <2>2. UNCHANGED <<parent, tree, handlers, selectedId, rows, treeLoads, loads,
                    crowded, missed>>
    BY <1>10 DEF PostAnswer, theTree, table
  <2> QED
    BY <2>1, <2>2 DEF PatientInv, OneAtATime, TreeIsFirst, TableIsLast, RowsAreFresh
<1>11. ASSUME NEW i \in DOMAIN posts, PostFails(i) PROVE PatientInv'
  <2>1. posts # <<>> /\ posts' = <<>>
    BY <1>11, OnlyPost DEF PostFails, PatientInv
  <2>2. UNCHANGED <<parent, tree, handlers, selectedId, rows, treeLoads, loads,
                    timers, crowded, missed>>
    BY <1>11 DEF PostFails, theTree, table
  <2> QED
    BY <2>1, <2>2 DEF PatientInv, OneAtATime, TreeIsFirst, TableIsLast, RowsAreFresh,
                      Children
<1>12. ASSUME NEW c \in commands, Handle(c) PROVE PatientInv'
  <2>1. /\ UNCHANGED <<tree, handlers, selectedId, rows, treeLoads, loads, posts, timers,
                       crowded>>
        /\ ~missed' => ~missed /\ Reloads
    <3> DEFINE late == missed \/ ~Reloads
    <3>1. /\ UNCHANGED <<tree, handlers, selectedId, rows, treeLoads, loads, posts,
                         timers, crowded>>
          /\ missed' = late
      BY <1>12, Zenon DEF Handle, theTree, dialogs, saving
    <3>2. late \in BOOLEAN /\ (~late <=> ~missed /\ Reloads)
      OBVIOUS
    <3> HIDE DEF late
    <3>3. CASE late
      <4>1. late = TRUE
        BY <3>2, <3>3
      <4> QED
        BY <3>1, <4>1
    <3>4. CASE ~late
      BY <3>1, <3>2, <3>4
    <3> QED
      BY <3>3, <3>4
  <2>2. OneAtATime' /\ TreeIsFirst' /\ TableIsLast'
    BY <2>1 DEF PatientInv, OneAtATime, TreeIsFirst, TableIsLast
  <2>3. ~missed' /\ timers = 0 /\ tree.ready => rows = <<>>
    <3>1. tree.ready => treeLoads = 0 /\ ~TreeToCome
      BY DEF TreeToCome, PatientInv, OneAtATime, TreeIsFirst
    <3>2. ~TableAnswered => rows = <<>>
      <4>1. loads \in [Nodes -> 0..1]
        BY DEF PatientInv, OneAtATime
      <4>2. \A m \in Nodes : loads[m] # 0 => loads[m] > 0
        BY <4>1
      <4> QED
        BY <4>1, <4>2 DEF TableAnswered, PatientInv, TableIsLast
    <3>3. ~missed' => timers > 0 \/ treeLoads > 0 \/ TreeToCome \/ ~TableAnswered
      BY <2>1 DEF Reloads
    <3> QED
      BY <3>1, <3>2, <3>3
  <2>4. RowsAreFresh'
    BY <2>1, <2>3 DEF RowsAreFresh
  <2> QED
    BY <2>2, <2>4 DEF PatientInv
<1>13. ASSUME \/ \E r \in Records : edit(r) \/ EditAnswer(r)
              \/ \E n \in Nodes : add(n)
              \/ \E ids \in SUBSET Records : Check(ids) \/ deleteAsk(ids)
              \/ closeForm \/ Cancel \/ UNCHANGED vars
       PROVE  PatientInv'
  <2>1. UNCHANGED <<parent, tree, handlers, selectedId, rows, treeLoads, loads,
                    posts, timers, crowded, missed>>
    BY <1>13, Zenon DEF edit, EditAnswer, add, Check, deleteAsk, closeForm, Cancel, vars,
                 server, theTree, table, saving
  <2> QED
    BY <2>1, PatientStays
<1> QED
  BY <1>1, <1>2, <1>3, <1>4, <1>5, <1>6, <1>7, <1>8, <1>9, <1>10, <1>11, <1>12, <1>13
  DEF Next

(* A table that was asked for once is one list in the end, for every user. *)
LEMMA OneListAsked ==
  ASSUME OneList, NEW n, NEW k \in Nat, loadTables(n, k), selectedId' = n,
         handlers' = handlers
  PROVE  OneList'
<1>1. /\ loads' = [loads EXCEPT ![n] = @ + k] /\ loads \in [Nodes -> Nat]
      /\ rows' = <<>>
      /\ ~crowded' => k \in 0..1 /\ TableAnswered
  <2>1. ~(k > 1) => k \in 0..1
    OBVIOUS
  <2> QED
    BY <2>1, TableIsAsked DEF OneList
<1>2. loads' \in [Nodes -> Nat]
  <2>1. \A m \in Nodes : loads[m] + k \in Nat
    BY <1>1
  <2> QED
    BY <1>1, <2>1
<1>3. CASE ~crowded'
  <2>1. k \in 0..1 /\ \A m \in Nodes : loads[m] = 0
    BY <1>1, <1>3 DEF TableAnswered
  <2>2. \A m \in Nodes : loads'[m] = IF m = n THEN k ELSE 0
    BY <1>1, <2>1
  <2>3. CASE k = 0
    BY <1>1, <1>2, <2>2, <2>3 DEF OneList, TableAnswered
  <2>4. CASE k = 1
    BY <1>1, <1>2, <2>2, <2>4 DEF OneList
  <2> QED
    BY <2>1, <2>3, <2>4
<1> QED
  BY <1>2, <1>3 DEF OneList

LEMMA OneListStays ==
  ASSUME OneList, UNCHANGED <<loads, rows, crowded>>, handlers' \in Nat,
         selectedId' = selectedId
  PROVE  OneList'
BY DEF OneList, TableAnswered, ListOf

LEMMA OneListStep == OneList /\ [Next]_vars => OneList'
<1> SUFFICES ASSUME OneList, [Next]_vars PROVE OneList'
  OBVIOUS
<1>0. handlers \in Nat
  BY DEF OneList
<1>1. CASE TimerFires
  BY <1>1, OneListStays DEF TimerFires, initTree, table
<1>2. CASE TreeAnswer
  BY <1>0, <1>2, OneListStays DEF TreeAnswer, table
<1>3. CASE TreeReady
  BY <1>0, <1>3, OneListStays, OneListAsked DEF TreeReady, Changed, table
<1>4. CASE btnLoadRoot
  BY <1>4, OneListAsked DEF btnLoadRoot, theTree
<1>5. ASSUME NEW n \in Records, SelectNode(n) PROVE OneList'
  BY <1>0, <1>5, OneListAsked DEF SelectNode, Changed
<1>6. ASSUME NEW n \in Nodes, ListAnswer(n) PROVE OneList'
  <2>1. /\ loads \in [Nodes -> Nat] /\ loads[n] > 0
        /\ loads' = [loads EXCEPT ![n] = @ - 1]
        /\ rows' = Append(rows, [of |-> n, items |-> Children(n)])
        /\ UNCHANGED <<handlers, selectedId, crowded>>
    BY <1>6 DEF ListAnswer, OneList, theTree
  <2>2. loads' \in [Nodes -> Nat]
    BY <2>1
  <2>3. CASE ~crowded
    <3>1. ~TableAnswered
      BY <2>1 DEF TableAnswered
    <3>2. rows = <<>> /\ \A m \in Nodes : loads[m] = IF m = selectedId THEN 1 ELSE 0
      BY <2>3, <3>1 DEF OneList
    <3>3. n = selectedId /\ \A m \in Nodes : loads'[m] = 0
      BY <2>1, <3>2
    <3>4. TableAnswered'
      BY <2>2, <3>3 DEF TableAnswered
    <3>5. ListOf(selectedId)'
      BY <2>1, <3>2, <3>3 DEF ListOf
    <3> QED
      BY <2>1, <2>2, <3>4, <3>5, <1>0 DEF OneList
  <2> QED
    BY <1>0, <2>1, <2>2, <2>3 DEF OneList
<1>7. ASSUME NEW n \in Nodes, ListFails(n) PROVE OneList'
  <2>1. /\ loads \in [Nodes -> Nat] /\ loads[n] > 0
        /\ loads' = [loads EXCEPT ![n] = @ - 1]
        /\ UNCHANGED <<handlers, selectedId, crowded, rows>>
    BY <1>7 DEF ListFails, OneList, theTree
  <2>2. loads' \in [Nodes -> Nat]
    BY <2>1
  <2>3. CASE ~crowded
    <3>1. ~TableAnswered
      BY <2>1 DEF TableAnswered
    <3>2. rows = <<>> /\ \A m \in Nodes : loads[m] = IF m = selectedId THEN 1 ELSE 0
      BY <2>3, <3>1 DEF OneList
    <3>3. \A m \in Nodes : loads'[m] = 0
      BY <2>1, <3>2
    <3>4. TableAnswered'
      BY <2>2, <3>3 DEF TableAnswered
    <3> QED
      BY <2>1, <2>2, <3>2, <3>4, <1>0 DEF OneList
  <2> QED
    BY <1>0, <2>1, <2>2, <2>3 DEF OneList
<1>8. ASSUME \/ TreeFails \/ save \/ Confirm \/ closeForm \/ Cancel
             \/ \E i \in DOMAIN posts : PostAnswer(i) \/ PostFails(i)
             \/ \E c \in commands : Handle(c)
             \/ \E r \in Records : edit(r) \/ EditAnswer(r)
             \/ \E n \in Nodes : add(n)
             \/ \E ids \in SUBSET Records : Check(ids) \/ deleteAsk(ids)
             \/ UNCHANGED vars
      PROVE  OneList'
  <2>1. UNCHANGED <<loads, rows, crowded, handlers, selectedId>>
    BY <1>8, Zenon DEF TreeFails, save, Confirm, closeForm, Cancel, PostAnswer, PostFails,
       Handle, edit, EditAnswer, add, Check, deleteAsk, vars, theTree, table
  <2> QED
    BY <1>0, <2>1, OneListStays
<1> QED
  BY <1>1, <1>2, <1>3, <1>4, <1>5, <1>6, <1>7, <1>8 DEF Next

(* For every user, a table asked for once is in the end the list of what   *)
(* was selected last.  A user who waits asks for it once only, and when    *)
(* such a user's page has reloaded, a table below a selected node shows    *)
(* every command but those applied after that.                             *)
THEOREM ReloadsShowCommands == Spec => []ReloadShowsTheCommand
<1> DEFINE Inv == OneList /\ (user = "patient" => PatientInv)
<1>1. Init => Inv
  <2>1. Init => OneList
    BY DEF Init, OneList, TableAnswered
  <2> QED
    BY <2>1, PatientInit
<1>2. Inv /\ [Next]_vars => Inv'
  <2>1. [Next]_vars => UNCHANGED user
    BY Zenon DEF Next, TimerFires, TreeAnswer, TreeFails, TreeReady, btnLoadRoot, save,
       Confirm, Cancel, SelectNode, edit, EditAnswer, ListAnswer, ListFails, add, Check,
       deleteAsk, closeForm, PostAnswer, PostFails, Handle, vars
  <2> QED
    BY <2>1, PatientStep, OneListStep
<1>3. Inv => ReloadShowsTheCommand
  <2> SUFFICES ASSUME Inv PROVE ReloadShowsTheCommand
    OBVIOUS
  <2>1. TableAnswered /\ ~crowded => rows = <<>> \/ ListOf(selectedId)
    <3>1. \A n \in Nodes : (IF n = selectedId THEN 1 ELSE 0) = 0 => n # selectedId
      OBVIOUS
    <3> QED
      BY DEF OneList
  <2>2. ASSUME user = "patient"
        PROVE  /\ ~crowded
               /\ Quiet /\ tree.ready /\ tree.selected # None /\ ~missed =>
                    rows = <<>> \/ rows[1].items = Children(selectedId)
    BY <2>2 DEF Quiet, PatientInv, OneAtATime, RowsAreFresh
  <2> QED
    BY <2>1, <2>2 DEF ReloadShowsTheCommand
<1> QED
  BY <1>1, <1>2, <1>3, PTL DEF Spec

(******************************* MenuDialog ********************************)
RoleTrees == [there : BOOLEAN, ready : BOOLEAN, of : Roles \cup {NoRole},
              ticked : SUBSET Menus]
MenuStrings == [ids : SUBSET Menus, cut : Nat]
ListsOfRoles == [of : Roles, ids : SUBSET Menus]

DShape ==
  /\ granted \in [Roles -> SUBSET Menus] /\ gets \subseteq Roles
  /\ \A c \in published : c.ids \subseteq Menus
  /\ roleMenuId \in Roles \cup {NoRole} /\ treeLost \in BOOLEAN
  /\ menuIDs \in MenuStrings /\ roleTree \in RoleTrees
  /\ readyLists \in Seq(ListsOfRoles) /\ treeGets \in Seq(Roles)

(* The string is written when the tree gets ready, and with every tick.    *)
StringIsTheTree ==
  /\ roleTree.there => readyLists # <<>>
  /\ roleTree.ready => menuIDs.ids = roleTree.ticked

(* Who waits has one dialog on its way, and only lists of that one.        *)
OneDialog ==
  person = "patient" =>
    /\ gets # {} => treeGets = <<>> /\ \E r \in Roles : gets = {r}
    /\ treeGets \in {<<>>, <<roleMenuId>>}
    /\ \A i \in DOMAIN readyLists : readyLists[i].of = roleMenuId
    /\ roleTree.ready => roleTree.of = roleMenuId

(* An open dialog of who waits has its tree, is waiting for it, or has     *)
(* lost it; the page is reloaded when the dialog is closed.                *)
TreeIsThere ==
  person = "patient" =>
    /\ shown => roleTree.there \/ treeGets # <<>> \/ treeLost
    /\ gets # {} => saves = <<>>
    /\ reloads \in Nat /\ (reloads > 0 => ~shown /\ gets = {})

(* What is on its way to the server was cut, and is what was ticked.       *)
GoodSaves ==
  {s \in [role : Roles \cup {NoRole}, string : MenuStrings, seen : RoleTrees,
          lost : BOOLEAN] :
     /\ s.string.ids # {} => s.string.cut > 0
     /\ s.seen.ready => s.string.ids = s.seen.ticked
     /\ person = "patient" => IF s.seen.ready THEN s.role = s.seen.of ELSE s.lost}

DInv == /\ DShape /\ StringIsTheTree /\ OneDialog /\ TreeIsThere
        /\ saves \in Seq(GoodSaves) /\ NeverHalfStored

-----------------------------------------------------------------------------
(* Sequences: what is taken from one, and what it becomes.                 *)
LEMMA OneMore ==
  ASSUME NEW S, NEW s \in Seq(S), NEW x \in S
  PROVE  /\ Append(s, x) \in Seq(S) /\ Append(s, x) # <<>>
         /\ \A i \in DOMAIN Append(s, x) :
              Append(s, x)[i] = x \/ (i \in DOMAIN s /\ Append(s, x)[i] = s[i])
         /\ s = <<>> => Append(s, x) = <<x>>
<1>1. Len(s) \in Nat /\ DOMAIN s = 1..Len(s)
  OBVIOUS
<1>2. /\ Append(s, x) \in Seq(S) /\ Len(Append(s, x)) = Len(s) + 1
      /\ DOMAIN Append(s, x) = 1..(Len(s) + 1)
  OBVIOUS
<1>3. \A i \in 1..(Len(s) + 1) :
        Append(s, x)[i] = IF i = Len(s) + 1 THEN x ELSE s[i]
  BY <1>1
<1>4. Append(s, x) # <<>>
  BY <1>1, <1>2
<1>5. s = <<>> => Append(s, x) = <<x>>
  OBVIOUS
<1> QED
  BY <1>1, <1>2, <1>3, <1>4, <1>5

LEMMA Joined ==
  ASSUME NEW S, NEW s \in Seq(S), NEW t \in Seq(S)
  PROVE  s \o t \in Seq(S) /\ Len(s \o t) = Len(s) + Len(t)
OBVIOUS

LEMMA OneLess ==
  ASSUME NEW S, NEW s \in Seq(S), NEW i \in DOMAIN s
  PROVE  /\ RemoveAt(s, i) \in Seq(S) /\ s[i] \in S
         /\ \A x : s = <<x>> => RemoveAt(s, i) = <<>> /\ s[i] = x
<1> DEFINE before == SubSeq(s, 1, i - 1)
           after == SubSeq(s, i + 1, Len(s))
<1>1. Len(s) \in Nat /\ i \in 1..Len(s) /\ DOMAIN s = 1..Len(s)
  OBVIOUS
<1>2. before \in Seq(S) /\ after \in Seq(S) /\ Len(before) = i - 1 /\ Len(after) = Len(s) - i
  BY <1>1
<1>3. RemoveAt(s, i) = before \o after
  BY DEF RemoveAt
<1> HIDE DEF before, after
<1>4. before \o after \in Seq(S) /\ Len(before \o after) = Len(s) - 1
  <2>1. before \o after \in Seq(S) /\ Len(before \o after) = Len(before) + Len(after)
    BY <1>2, Joined
  <2> QED
    BY <1>1, <1>2, <2>1
<1>5. ASSUME NEW x, s = <<x>> PROVE RemoveAt(s, i) = <<>> /\ s[i] = x
  BY <1>1, <1>3, <1>4, <1>5
<1> QED
  BY <1>1, <1>3, <1>4, <1>5

LEMMA LastOf ==
  ASSUME NEW S, NEW s \in Seq(S), s # <<>>
  PROVE  Last(s) \in S /\ \E i \in DOMAIN s : Last(s) = s[i]
BY DEF Last

-----------------------------------------------------------------------------
(* GetList: the ids are as many as there are "_", and an id may be cut off *)
(* only one character of.                                                  *)
LEMMA SameMultiple ==
  ASSUME NEW d \in Nat \ {0}, NEW x \in Int, NEW y \in Int, NEW r \in 0..(d - 1),
         d * x = d * y + r
  PROVE  x = y
<1>1. ASSUME x > y PROVE FALSE
  <2>1. d * (x - y) = r /\ x - y >= 1
    BY <1>1
  <2>2. d * (x - y) >= d
    BY <2>1
  <2> QED
    BY <2>1, <2>2
<1>2. ASSUME y > x PROVE FALSE
  <2>1. d * (y - x) = 0 - r /\ y - x >= 1
    BY <1>2
  <2>2. d * (y - x) >= d
    BY <2>1
  <2> QED
    BY <2>1, <2>2
<1> QED
  BY <1>1, <1>2

(* What is read is ids that were written, some at least; all of them after *)
(* one cut, and none before the cuts are more than an id and its "_" long. *)
LEMMA GetListIs ==
  ASSUME NEW s, IsFiniteSet(s.ids), s.cut \in Nat \ {0}, NEW ids \in GetList(s)
  PROVE  /\ ids \subseteq s.ids /\ ids # {}
         /\ s.cut = 1 \/ s.cut > GuidLength + 1
         /\ s.cut = 1 => ids = s.ids
<1> DEFINE d == GuidLength + 1
           n == Cardinality(s.ids)
           left == Characters(s)
           q == left \div d
           c == s.cut
<1>1. d \in Nat \ {0} /\ d >= 2 /\ n \in Nat /\ c \in Nat \ {0}
  BY IdLength, FS_CardinalityType
<1>2. left = n * d - c /\ n * d \in Nat
  BY <1>1 DEF Characters
<1>3. left > 0 /\ left % d = d - 1 /\ ids \subseteq s.ids
      /\ Cardinality(ids) = (left + 1) \div d
  BY IdLength DEF GetList
<1> HIDE DEF d, n, left, c
<1>4. left \in Nat
  BY <1>1, <1>2, <1>3
<1>5. q \in Int /\ left = d * q + (d - 1)
  BY <1>1, <1>3, <1>4, Division
<1> HIDE DEF q
<1>6. d * q \in Int /\ d * (q + 1) = d * q + d
  BY <1>1, <1>5
<1>7. q >= 0
  <2>1. ASSUME q <= 0 - 1 PROVE FALSE
    <3>1. d * q <= 0 - d
      BY <1>1, <1>5, <2>1
    <3> QED
      BY <1>1, <1>3, <1>4, <1>5, <1>6, <3>1
  <2> QED
    BY <1>5, <2>1
<1>8. (left + 1) \div d = q + 1
  <2> DEFINE e == left + 1
             y == e \div d
  <2>1. e = d * (q + 1) /\ e \in Nat
    BY <1>1, <1>4, <1>5, <1>6
  <2>2. y \in Int /\ e % d \in 0..(d - 1) /\ e = d * y + (e % d)
    BY <1>1, <2>1, Division
  <2> HIDE DEF e, y
  <2>3. d * (q + 1) = d * y + (e % d)
    BY <2>1, <2>2
  <2>4. q + 1 = y
    BY <1>1, <1>5, <2>2, <2>3, SameMultiple
  <2> QED
    BY <2>4 DEF e, y
<1>9. Cardinality(ids) = q + 1 /\ q + 1 > 0
  BY <1>3, <1>5, <1>7, <1>8
<1>10. ids # {}
  BY ONLY <1>5, <1>9, FS_EmptySet
<1>11. d * n = d * (q + 1) + (c - 1)
  <2>1. d * n = n * d
    BY <1>1
  <2> QED
    BY <1>1, <1>2, <1>4, <1>5, <1>6, <2>1
<1>12. ASSUME ~(c > d) PROVE c = 1 /\ n = q + 1
  <2>1. c - 1 \in 0..(d - 1)
    BY <1>1, <1>12
  <2>2. n = q + 1
    BY <1>1, <1>5, <1>11, <2>1, SameMultiple
  <2>3. d * n = d * (q + 1) /\ d * n \in Int
    BY <1>1, <2>2
  <2> QED
    BY <1>1, <1>11, <2>2, <2>3
<1>13. c = 1 \/ c > d
  BY <1>12
<1>14. c = 1 => ids = s.ids
  <2>1. c = 1 => n = q + 1
    BY <1>1, <1>12
  <2>2. n = q + 1 => ids = s.ids
    BY <1>3, <1>9, FS_Subset DEF n
  <2> QED
    BY <2>1, <2>2
<1> QED
  BY <1>3, <1>10, <1>13, <1>14 DEF c, d

(* Nothing is read from a string that never had an id.                     *)
LEMMA ReadFromIds ==
  ASSUME NEW s, s.cut \in Nat, NEW ids \in GetList(s)
  PROVE  s.ids # {}
<1>1. ASSUME s.ids = {} PROVE FALSE
  <2>1. Characters(s) = 0 * (GuidLength + 1) - s.cut
    BY <1>1, FS_EmptySet DEF Characters
  <2>2. Characters(s) > 0
    BY DEF GetList
  <2> QED
    BY <2>1, <2>2, IdLength
<1> QED
  BY <1>1

(* A string that says something has been cut when it is sent.              *)
LEMMA ShortenedIs ==
  ASSUME NEW S, IsFiniteSet(S), NEW s \in [ids : SUBSET S, cut : Nat]
  PROVE  LET w == Shortened(s) IN
           /\ w \in [ids : SUBSET S, cut : Nat] /\ w.ids = s.ids
           /\ w.ids # {} => w.cut > 0
<1> DEFINE d == GuidLength + 1
           n == Cardinality(s.ids)
           w == Shortened(s)
<1>1. /\ s.ids \subseteq S /\ s.cut \in Nat
      /\ d \in Nat \ {0} /\ Characters(s) = n * d - s.cut
  BY IdLength DEF Characters
<1>2. n \in Nat /\ (s.ids # {} => n # 0)
  BY <1>1, FS_Subset, FS_CardinalityType, FS_EmptySet
<1>3. CASE Characters(s) = 0
  <2>1. w = s
    BY <1>3 DEF Shortened
  <2> HIDE DEF d, n, w
  <2>2. n * d = s.cut
    <3>1. n * d \in Nat
      BY <1>1, <1>2
    <3> QED
      BY <1>1, <1>3, <3>1
  <2>3. n # 0 => n * d >= d
    BY <1>1, <1>2
  <2> QED
    BY <1>1, <1>2, <2>1, <2>2, <2>3 DEF w
<1>4. CASE Characters(s) # 0
  <2>1. w = [s EXCEPT !.cut = @ + 1]
    BY <1>4 DEF Shortened
  <2> QED
    BY <1>1, <2>1
<1> QED
  BY <1>3, <1>4

LEMMA TicksAreMenus ==
  ASSUME NEW ms \in SUBSET Menus
  PROVE  /\ Ticked(ms) \subseteq Menus
         /\ \A m \in Menus : Unticked(ms, m) \subseteq Menus
BY DEF Ticked, Unticked, Kids

-----------------------------------------------------------------------------
(* The dialog's records, when a field of them is replaced.                 *)
LEMMA RoleTreeChanges ==
  ASSUME NEW t \in RoleTrees, NEW ms \in SUBSET Menus
  PROVE  /\ LET w == [t EXCEPT !.there = TRUE] IN
              /\ w \in RoleTrees /\ w.there /\ w.ready = t.ready
              /\ w.of = t.of /\ w.ticked = t.ticked
         /\ LET w == [t EXCEPT !.ticked = ms] IN
              /\ w \in RoleTrees /\ w.there = t.there /\ w.ready = t.ready
              /\ w.of = t.of /\ w.ticked = ms
BY DEF RoleTrees

LEMMA NoTreeIsOne == NoRoleTree \in RoleTrees
BY DEF RoleTrees, NoRoleTree

THEOREM DialogInit == DInit => DInv
<1> SUFFICES ASSUME DInit PROVE DInv
  OBVIOUS
<1>1. /\ gets = {} /\ published = {} /\ roleMenuId = NoRole /\ readyLists = <<>>
      /\ treeGets = <<>> /\ saves = <<>> /\ roleTree = NoRoleTree
      /\ menuIDs = Written({}) /\ granted \in [Roles -> Grants]
      /\ shown = FALSE /\ treeLost = FALSE /\ reloads = 0
  BY DEF DInit
<1>2. granted \in [Roles -> SUBSET Menus]
  BY <1>1, DialogConstants
<1>3. menuIDs \in MenuStrings /\ roleTree \in RoleTrees
  BY <1>1, NoTreeIsOne DEF MenuStrings, Written
<1>4. DShape
  <2>1. treeLost \in BOOLEAN
    BY <1>1, Zenon
  <2> QED
    BY <1>1, <1>2, <1>3, <2>1 DEF DShape
<1>5. StringIsTheTree /\ OneDialog /\ TreeIsThere /\ NeverHalfStored
  BY <1>1 DEF StringIsTheTree, OneDialog, TreeIsThere, NeverHalfStored, NoRoleTree
<1>6. saves \in Seq(GoodSaves)
  BY <1>1
<1> QED
  BY <1>4, <1>5, <1>6 DEF DInv

(* A step without a save or a command leaves them right.                   *)
LEMMA SavesStay ==
  ASSUME DInv, UNCHANGED <<person, saves, published>>
  PROVE  saves' \in Seq(GoodSaves)' /\ NeverHalfStored'
BY DEF DInv, GoodSaves, NeverHalfStored

LEMMA RequestsKeepDialog ==
  ASSUME DInv, NEW r \in Roles, roleMenu(r) \/ GetAnswer(r) \/ GetFails(r)
  PROVE  DInv'
<1>0. UNCHANGED <<person, granted, published, saves, menuIDs>>
  BY DEF roleMenu, GetAnswer, GetFails
<1>1. CASE roleMenu(r)
  <2>1. /\ gets' = gets \cup {r}
        /\ person = "patient" =>
             gets = {} /\ treeGets = <<>> /\ saves = <<>> /\ reloads = 0
        /\ UNCHANGED <<roleMenuId, roleTree, readyLists, treeGets, shown, treeLost,
                       reloads>>
    BY <1>1 DEF roleMenu, May, Calm
  <2>2. DShape' /\ StringIsTheTree' /\ TreeIsThere'
    BY <1>0, <2>1 DEF DInv, DShape, StringIsTheTree, TreeIsThere
  <2>3. OneDialog'
    BY <1>0, <2>1 DEF DInv, OneDialog
  <2> QED
    BY <1>0, <2>2, <2>3, SavesStay DEF DInv
<1>2. CASE GetAnswer(r)
  <2>1. /\ r \in gets /\ gets' = gets \ {r} /\ roleMenuId' = r
        /\ roleTree' = NoRoleTree /\ readyLists' = <<>> /\ treeLost' = FALSE
        /\ treeGets' = Append(treeGets, r) /\ UNCHANGED reloads
    BY <1>2 DEF GetAnswer
  <2>2. treeGets \in Seq(Roles)
    BY DEF DInv, DShape
  <2>3. /\ treeGets' \in Seq(Roles) /\ treeGets' # <<>>
        /\ (treeGets = <<>> => treeGets' = <<r>>)
    BY <2>1, <2>2, OneMore
  <2>4. DShape'
    <3>1. treeLost' \in BOOLEAN
      BY <2>1, Zenon
    <3> QED
      BY <1>0, <2>1, <2>3, <3>1, NoTreeIsOne DEF DInv, DShape
  <2>5. StringIsTheTree'
    BY <2>1 DEF StringIsTheTree, NoRoleTree
  <2>6. OneDialog'
    <3>1. person = "patient" => gets' = {} /\ treeGets' = <<r>>
      BY <2>1, <2>3 DEF DInv, OneDialog
    <3> QED
      BY <1>0, <2>1, <3>1 DEF OneDialog, NoRoleTree
  <2>7. TreeIsThere'
    BY <1>0, <2>1, <2>3 DEF DInv, TreeIsThere
  <2> QED
    BY <1>0, <2>4, <2>5, <2>6, <2>7, SavesStay DEF DInv
<1>3. CASE GetFails(r)
  <2>1. /\ gets' = gets \ {r} /\ r \in gets
        /\ UNCHANGED <<roleMenuId, roleTree, readyLists, treeGets, shown, treeLost,
                       reloads>>
    BY <1>3 DEF GetFails
  <2>2. DShape' /\ StringIsTheTree' /\ TreeIsThere'
    BY <1>0, <2>1 DEF DInv, DShape, StringIsTheTree, TreeIsThere
  <2>3. OneDialog'
    <3>1. person = "patient" => gets' = {}
      BY <2>1 DEF DInv, OneDialog
    <3> QED
      BY <1>0, <2>1, <3>1 DEF DInv, OneDialog
  <2> QED
    BY <1>0, <2>2, <2>3, SavesStay DEF DInv
<1> QED
  BY <1>1, <1>2, <1>3

LEMMA TreesKeepDialog ==
  ASSUME DInv, NEW i \in DOMAIN treeGets, RoleTreeAnswer(i) \/ RoleTreeFails(i)
  PROVE  DInv'
<1>0. UNCHANGED <<person, granted, published, roleMenuId, menuIDs, gets, saves, shown,
                  reloads>>
  BY DEF RoleTreeAnswer, RoleTreeFails
<1> DEFINE r == treeGets[i]
<1>1. treeGets \in Seq(Roles)
  BY DEF DInv, DShape
<1>2. /\ treeGets' = RemoveAt(treeGets, i) /\ treeGets' \in Seq(Roles) /\ r \in Roles
      /\ person = "patient" => treeGets' = <<>> /\ r = roleMenuId /\ gets = {}
  <2>1. treeGets' = RemoveAt(treeGets, i)
    BY DEF RoleTreeAnswer, RoleTreeFails
  <2>2. ASSUME person = "patient" PROVE treeGets = <<roleMenuId>> /\ gets = {}
    <3>1. treeGets \in {<<>>, <<roleMenuId>>} /\ treeGets # <<>>
      BY <2>2 DEF DInv, OneDialog
    <3> QED
      BY <2>2, <3>1 DEF DInv, OneDialog
  <2>3. \A x : treeGets = <<x>> => RemoveAt(treeGets, i) = <<>> /\ treeGets[i] = x
    BY <1>1, OneLess
  <2> QED
    BY <1>1, <2>1, <2>2, <2>3, OneLess
<1> HIDE DEF r
<1>3. CASE RoleTreeAnswer(i)
  <2> DEFINE list == [of |-> r, ids |-> granted[r]]
  <2>1. /\ roleTree' = [roleTree EXCEPT !.there = TRUE] /\ UNCHANGED treeLost
        /\ readyLists' = Append(readyLists, list)
    BY <1>3 DEF RoleTreeAnswer, r
  <2>2. list \in ListsOfRoles /\ list.of = r
    BY <1>2 DEF DInv, DShape, ListsOfRoles
  <2> HIDE DEF list
  <2>3. readyLists \in Seq(ListsOfRoles) /\ roleTree \in RoleTrees
    BY DEF DInv, DShape
  <2>4. /\ readyLists' \in Seq(ListsOfRoles) /\ readyLists' # <<>>
        /\ \A j \in DOMAIN readyLists' :
             \/ readyLists'[j] = list
             \/ j \in DOMAIN readyLists /\ readyLists'[j] = readyLists[j]
    BY <2>1, <2>2, <2>3, OneMore
  <2>5. /\ roleTree' \in RoleTrees /\ roleTree'.ready = roleTree.ready /\ roleTree'.there
        /\ roleTree'.of = roleTree.of /\ roleTree'.ticked = roleTree.ticked
    BY <2>1, <2>3, RoleTreeChanges
  <2>6. DShape' /\ StringIsTheTree' /\ TreeIsThere'
    BY <1>0, <1>2, <2>1, <2>4, <2>5 DEF DInv, DShape, StringIsTheTree, TreeIsThere
  <2>7. OneDialog'
    BY <1>0, <1>2, <2>2, <2>4, <2>5 DEF DInv, OneDialog
  <2> QED
    BY <1>0, <2>6, <2>7, SavesStay DEF DInv
<1>4. CASE RoleTreeFails(i)
  <2>1. UNCHANGED <<roleTree, readyLists>> /\ treeLost' = TRUE
    BY <1>4 DEF RoleTreeFails
  <2>2. DShape' /\ StringIsTheTree' /\ OneDialog' /\ TreeIsThere'
    BY <1>0, <1>2, <2>1 DEF DInv, DShape, StringIsTheTree, OneDialog, TreeIsThere
  <2> QED
    BY <1>0, <2>2, SavesStay DEF DInv
<1> QED
  BY <1>3, <1>4

LEMMA TicksKeepDialog ==
  ASSUME DInv, RoleTreeReady \/ \E m \in Menus : Tick(m)
  PROVE  DInv'
<1>0. UNCHANGED <<person, granted, published, roleMenuId, readyLists, gets, treeGets,
                  saves, shown, reloads, treeLost>>
  BY DEF RoleTreeReady, Tick
<1>1. roleTree \in RoleTrees /\ readyLists \in Seq(ListsOfRoles)
  BY DEF DInv, DShape
<1>2. \E ms \in SUBSET Menus :
        /\ menuIDs' = Written(ms)
        /\ roleTree' \in RoleTrees /\ roleTree'.ticked = ms
        /\ roleTree.there => roleTree'.there
        /\ roleTree'.there => readyLists # <<>>
        /\ person = "patient" => roleTree'.of = roleMenuId
  <2>1. CASE RoleTreeReady
    <3> DEFINE list == Last(readyLists)
               ms == Ticked(list.ids)
    <3>1. /\ readyLists # <<>> /\ menuIDs' = Written(ms)
          /\ roleTree' = [there |-> TRUE, ready |-> TRUE, of |-> list.of, ticked |-> ms]
      BY <2>1 DEF RoleTreeReady, Shows, DInv, StringIsTheTree
    <3>2. list \in ListsOfRoles /\ \E i \in DOMAIN readyLists : list = readyLists[i]
      BY <1>1, <3>1, LastOf
    <3> HIDE DEF list
    <3>3. list.of \in Roles /\ ms \in SUBSET Menus
      BY <3>2, TicksAreMenus DEF ListsOfRoles
    <3>4. person = "patient" => list.of = roleMenuId
      BY <3>2 DEF DInv, OneDialog
    <3> HIDE DEF ms
    <3>5. /\ roleTree' \in RoleTrees /\ roleTree'.ticked = ms /\ roleTree'.of = list.of
          /\ roleTree'.there
      BY <3>1, <3>3 DEF RoleTrees
    <3> QED
      BY <3>1, <3>3, <3>4, <3>5
  <2>2. ASSUME NEW m \in Menus, Tick(m)
        PROVE \E ms \in SUBSET Menus :
                /\ menuIDs' = Written(ms)
                /\ roleTree' \in RoleTrees /\ roleTree'.ticked = ms
                /\ roleTree.there => roleTree'.there
                /\ roleTree'.there => readyLists # <<>>
                /\ person = "patient" => roleTree'.of = roleMenuId
    <3> DEFINE ms == IF m \in roleTree.ticked THEN Unticked(roleTree.ticked, m)
                     ELSE Ticked(roleTree.ticked \cup {m})
    <3>1. /\ roleTree.ready /\ menuIDs' = Written(ms)
          /\ roleTree' = [roleTree EXCEPT !.ticked = ms]
      BY <2>2 DEF Tick, Shows
    <3>2. ms \in SUBSET Menus
      <4>1. roleTree.ticked \in SUBSET Menus /\ roleTree.ticked \cup {m} \in SUBSET Menus
        BY <1>1 DEF RoleTrees
      <4> QED
        BY <4>1, TicksAreMenus
    <3> HIDE DEF ms
    <3>3. /\ roleTree' \in RoleTrees /\ roleTree'.ticked = ms
          /\ roleTree'.of = roleTree.of /\ roleTree'.there = roleTree.there
      BY <1>1, <3>1, <3>2, RoleTreeChanges
    <3> QED
      BY <3>1, <3>2, <3>3 DEF DInv, StringIsTheTree, OneDialog
  <2> QED
    BY <2>1, <2>2
<1>3. menuIDs' \in MenuStrings
  BY <1>2 DEF MenuStrings, Written
<1>4. DShape'
  BY <1>0, <1>2, <1>3 DEF DInv, DShape
<1>5. StringIsTheTree' /\ OneDialog' /\ TreeIsThere'
  BY <1>0, <1>2 DEF DInv, StringIsTheTree, OneDialog, TreeIsThere, Written
<1> QED
  BY <1>0, <1>4, <1>5, SavesStay DEF DInv

LEMMA SaveKeepsDialog ==
  ASSUME DInv, roleMenuSave
  PROVE  DInv'
<1> DEFINE s == [role |-> roleMenuId, string |-> menuIDs', seen |-> roleTree,
                 lost |-> treeLost]
<1>0. UNCHANGED <<person, granted, published, roleMenuId, shown, roleTree, readyLists,
                  gets, treeGets, reloads, treeLost>>
  BY DEF roleMenuSave
<1>1. /\ menuIDs \in MenuStrings /\ roleTree \in RoleTrees /\ treeLost \in BOOLEAN
      /\ roleMenuId \in Roles \cup {NoRole} /\ saves \in Seq(GoodSaves)
  BY DEF DInv, DShape
<1>2. /\ menuIDs' \in MenuStrings /\ menuIDs'.ids = menuIDs.ids
      /\ menuIDs'.ids # {} => menuIDs'.cut > 0
  BY <1>1, DialogConstants, ShortenedIs DEF roleMenuSave, MenuStrings
<1>3. person = "patient" => gets = {} /\ (roleTree.ready \/ treeLost)
  <2> SUFFICES ASSUME person = "patient" PROVE gets = {} /\ (roleTree.ready \/ treeLost)
    OBVIOUS
  <2>1. shown /\ gets = {} /\ treeGets = <<>> /\ (roleTree.there => roleTree.ready)
    BY DEF roleMenuSave, May, Calm
  <2> QED
    BY <2>1 DEF DInv, TreeIsThere
<1>4. s \in GoodSaves
  BY <1>1, <1>2, <1>3 DEF GoodSaves, DInv, StringIsTheTree, OneDialog
<1>5. saves' = Append(saves, s)
  BY DEF roleMenuSave
<1> HIDE DEF s
<1>6. saves' \in Seq(GoodSaves) /\ GoodSaves' = GoodSaves
  BY <1>0, <1>1, <1>4, <1>5, OneMore DEF GoodSaves
<1>7. DShape' /\ StringIsTheTree' /\ OneDialog' /\ NeverHalfStored'
  BY <1>0, <1>2 DEF DInv, DShape, StringIsTheTree, OneDialog, NeverHalfStored
<1>8. TreeIsThere'
  BY <1>0, <1>3 DEF DInv, TreeIsThere
<1> QED
  BY <1>6, <1>7, <1>8 DEF DInv

(* A save that was accepted is a good command.                             *)
LEMMA CommandIs ==
  ASSUME NEW s \in GoodSaves, NEW c \in Commands(s)
  PROVE  /\ c.ids \subseteq Menus
         /\ c.string.cut = 1 \/ c.string.cut > GuidLength + 1
         /\ c.string.cut = 1 => c.ids = c.string.ids
         /\ c.seen.ready => c.string.ids = c.seen.ticked
         /\ person = "patient" => IF c.seen.ready THEN c.role = c.seen.of ELSE c.lost
<1>1. /\ s.string \in MenuStrings
      /\ s.string.ids # {} => s.string.cut > 0
      /\ s.seen.ready => s.string.ids = s.seen.ticked
      /\ person = "patient" => IF s.seen.ready THEN s.role = s.seen.of ELSE s.lost
  BY DEF GoodSaves
<1>2. PICK ids \in GetList(s.string) :
        c = [role |-> s.role, ids |-> ids, string |-> s.string, seen |-> s.seen,
             lost |-> s.lost]
  BY DEF Commands
<1>3. s.string.ids \subseteq Menus /\ s.string.cut \in Nat
  BY <1>1 DEF MenuStrings
<1>4. IsFiniteSet(s.string.ids)
  BY <1>3, DialogConstants, FS_Subset
<1>5. s.string.ids # {}
  BY <1>2, <1>3, ReadFromIds
<1>6. s.string.cut \in Nat \ {0}
  BY <1>1, <1>3, <1>5
<1>7. /\ ids \subseteq s.string.ids
      /\ s.string.cut = 1 \/ s.string.cut > GuidLength + 1
      /\ s.string.cut = 1 => ids = s.string.ids
  BY <1>4, <1>6, GetListIs
<1> QED
  BY <1>1, <1>2, <1>3, <1>7

LEMMA SaveAnswerKeepsDialog ==
  ASSUME DInv, NEW i \in DOMAIN saves, SaveAnswer(i)
  PROVE  DInv'
<1> DEFINE s == saves[i]
<1>0. UNCHANGED <<person, granted, roleMenuId, menuIDs, roleTree, readyLists, gets,
                  treeGets, treeLost>>
  BY DEF SaveAnswer
<1>1. saves \in Seq(GoodSaves)
  BY DEF DInv
<1>2. saves' \in Seq(GoodSaves) /\ s \in GoodSaves
  <2>1. saves' = RemoveAt(saves, i)
    BY DEF SaveAnswer
  <2> QED
    BY <1>1, <2>1, OneLess
<1>3. GoodSaves' = GoodSaves
  BY <1>0 DEF GoodSaves
<1>4. /\ \A c \in published' : c \in published \/ c \in Commands(s)
      /\ \/ UNCHANGED <<shown, reloads>>
         \/ shown' = FALSE /\ reloads' = reloads + 1
  BY DEF SaveAnswer
<1> HIDE DEF s
<1>5. \A c \in published' : c.ids \subseteq Menus
  BY <1>2, <1>4, CommandIs DEF DInv, DShape
<1>6. NeverHalfStored'
  BY <1>0, <1>2, <1>4, CommandIs DEF DInv, NeverHalfStored
<1>7. DShape' /\ StringIsTheTree' /\ OneDialog'
  BY <1>0, <1>5 DEF DInv, DShape, StringIsTheTree, OneDialog
<1>8. TreeIsThere'
  <2>1. saves # <<>>
    BY <1>1
  <2> QED
    BY <1>0, <1>4, <2>1 DEF DInv, TreeIsThere
<1> QED
  BY <1>2, <1>3, <1>6, <1>7, <1>8 DEF DInv

LEMMA ReloadKeepsDialog ==
  ASSUME DInv, Reload
  PROVE  DInv'
<1>0. UNCHANGED <<person, granted, published, roleMenuId, menuIDs, gets, treeGets, saves,
                  shown, treeLost>>
  BY DEF Reload
<1>1. \/ roleTree' = NoRoleTree /\ readyLists' = <<>>
      \/ UNCHANGED <<roleTree, readyLists>>
  BY DEF Reload
<1>2. DShape'
  <2>1. roleTree' \in RoleTrees
    <3>1. roleTree \in RoleTrees
      BY DEF DInv, DShape
    <3> QED
      BY <1>1, <3>1, NoTreeIsOne
  <2>2. readyLists' \in Seq(ListsOfRoles)
    <3>1. readyLists \in Seq(ListsOfRoles)
      BY DEF DInv, DShape
    <3>2. readyLists' = <<>> \/ readyLists' = readyLists
      BY <1>1
    <3>3. <<>> \in Seq(ListsOfRoles)
      OBVIOUS
    <3> QED
      BY <3>1, <3>2, <3>3, Zenon
  <2> QED
    BY <1>0, <2>1, <2>2 DEF DInv, DShape
<1>3. StringIsTheTree' /\ OneDialog'
  BY <1>0, <1>1 DEF DInv, StringIsTheTree, OneDialog, NoRoleTree
<1>4. TreeIsThere'
  <2>1. reloads > 0 /\ reloads' = reloads - 1
    BY DEF Reload
  <2> QED
    BY <1>0, <2>1 DEF DInv, TreeIsThere
<1> QED
  BY <1>0, <1>2, <1>3, <1>4, SavesStay DEF DInv

LEMMA HandleKeepsDialog ==
  ASSUME DInv, NEW c \in published, HandleRoleMenu(c)
  PROVE  DInv'
<1>0. UNCHANGED <<person, roleMenuId, menuIDs, roleTree, readyLists, gets, treeGets, saves,
                  shown, reloads, treeLost>>
  BY DEF HandleRoleMenu
<1>1. /\ published' \subseteq published
      /\ granted' = [granted EXCEPT ![c.role] = c.ids]
  BY DEF HandleRoleMenu
<1>2. granted' \in [Roles -> SUBSET Menus]
  BY <1>1 DEF DInv, DShape
<1>3. DShape' /\ StringIsTheTree' /\ OneDialog' /\ TreeIsThere' /\ NeverHalfStored'
  BY <1>0, <1>1, <1>2 DEF DInv, DShape, StringIsTheTree, OneDialog, TreeIsThere,
                          NeverHalfStored
<1>4. saves' \in Seq(GoodSaves)'
  BY <1>0 DEF DInv, GoodSaves
<1> QED
  BY <1>3, <1>4 DEF DInv

THEOREM DialogStep == DInv /\ [DNext]_dVars => DInv'
<1> SUFFICES ASSUME DInv, [DNext]_dVars PROVE DInv'
  OBVIOUS
<1>1. CASE CloseDialog \/ UNCHANGED dVars
  <2>1. /\ UNCHANGED <<person, granted, published, roleMenuId, menuIDs, roleTree,
                       readyLists, gets, treeGets, saves, reloads, treeLost>>
        /\ shown' => shown
    BY <1>1 DEF CloseDialog, dVars
  <2>2. DShape' /\ StringIsTheTree' /\ OneDialog' /\ TreeIsThere'
    BY <2>1 DEF DInv, DShape, StringIsTheTree, OneDialog, TreeIsThere
  <2> QED
    BY <2>1, <2>2, SavesStay DEF DInv
<1> QED
  BY <1>1, RequestsKeepDialog, TreesKeepDialog, TicksKeepDialog, SaveKeepsDialog,
     SaveAnswerKeepsDialog, ReloadKeepsDialog, HandleKeepsDialog DEF DNext

(******************************* BatchDialog *******************************)
BatchTrees   == [is : {"none", "loading", "ready"}, ticked : SUBSET RoleNodes]
BatchStrings == [ids : SUBSET RoleNodes, cut : Nat]
GoodBatches  ==
  {s \in [users : (SUBSET TableUsers) \ {{}}, string : BatchStrings, seen : BatchTrees] :
     /\ s.string.ids # {} => s.string.cut > 0
     /\ s.seen.is = "ready" => s.string.ids = s.seen.ticked}

BShape ==
  /\ ticked \subseteq TableUsers /\ batchUserRoleIds \subseteq TableUsers
  /\ roleBatchIDs \in BatchStrings /\ batchTree \in BatchTrees
  /\ open \/ confirmAsked => batchUserRoleIds # {}
  /\ batchTree.is = "ready" => roleBatchIDs.ids = batchTree.ticked

BInv == BShape /\ batchSaves \in Seq(GoodBatches) /\ BatchIsForTheTicked

LEMMA TreesOfABatch == \A is \in {"none", "loading", "ready"} : BatchTree(is) \in BatchTrees
BY DEF BatchTrees, BatchTree

THEOREM BatchInit == BInit => BInv
<1> SUFFICES ASSUME BInit PROVE BInv
  OBVIOUS
<1>1. /\ ticked = {} /\ batchUserRoleIds = {} /\ open = FALSE /\ confirmAsked = FALSE
      /\ roleBatchIDs = Written({}) /\ batchTree = BatchTree("none")
      /\ batchSaves = <<>> /\ applied = {}
  BY DEF BInit
<1>2. roleBatchIDs \in BatchStrings /\ batchTree \in BatchTrees
  BY <1>1, TreesOfABatch DEF BatchStrings, Written
<1>3. BShape
  BY <1>1, <1>2 DEF BShape, BatchTree
<1>4. BatchIsForTheTicked
  BY <1>1 DEF BatchIsForTheTicked
<1> QED
  BY <1>1, <1>3, <1>4 DEF BInv

LEMMA ConfirmKeepsBatch == BInv /\ ConfirmBatch => BInv'
<1> SUFFICES ASSUME BInv, ConfirmBatch PROVE BInv'
  OBVIOUS
<1> DEFINE s == [users |-> batchUserRoleIds, string |-> roleBatchIDs', seen |-> batchTree]
<1>1. /\ confirmAsked /\ roleBatchIDs' = Shortened(roleBatchIDs)
      /\ batchSaves' = Append(batchSaves, s)
      /\ UNCHANGED <<ticked, batchUserRoleIds, open, batchTree, confirmAsked, applied>>
  BY DEF ConfirmBatch
<1>2. /\ roleBatchIDs' \in BatchStrings /\ roleBatchIDs'.ids = roleBatchIDs.ids
      /\ roleBatchIDs'.ids # {} => roleBatchIDs'.cut > 0
  BY <1>1, BatchConstants, ShortenedIs DEF BInv, BShape, BatchStrings
<1>3. s \in GoodBatches /\ batchSaves \in Seq(GoodBatches)
  BY <1>1, <1>2 DEF BInv, BShape, GoodBatches
<1> HIDE DEF s
<1>4. batchSaves' \in Seq(GoodBatches)
  BY <1>1, <1>3, OneMore
<1>5. BShape' /\ BatchIsForTheTicked'
  BY <1>1, <1>2 DEF BInv, BShape, BatchIsForTheTicked
<1> QED
  BY <1>4, <1>5 DEF BInv

(* A batch that was accepted is a good one.                                *)
LEMMA BatchIs ==
  ASSUME NEW s \in GoodBatches, NEW batch \in Batches(s)
  PROVE  /\ batch.users # {} /\ batch.roles # {}
         /\ batch.string.cut = 1 \/ batch.string.cut > GuidLength + 1
         /\ batch.string.cut = 1 => batch.roles = batch.string.ids
         /\ batch.seen.is = "ready" => batch.string.ids = batch.seen.ticked
<1>1. /\ s.users # {} /\ s.string \in BatchStrings
      /\ s.string.ids # {} => s.string.cut > 0
      /\ s.seen.is = "ready" => s.string.ids = s.seen.ticked
  BY DEF GoodBatches
<1>2. PICK ids \in GetList(s.string) :
        batch = [users |-> s.users, roles |-> ids, string |-> s.string, seen |-> s.seen]
  BY DEF Batches
<1>3. s.string.ids \subseteq RoleNodes /\ s.string.cut \in Nat
  BY <1>1 DEF BatchStrings
<1>4. IsFiniteSet(s.string.ids)
  BY <1>3, BatchConstants, FS_Subset
<1>5. s.string.ids # {}
  BY <1>2, <1>3, ReadFromIds
<1>6. s.string.cut \in Nat \ {0}
  BY <1>1, <1>3, <1>5
<1>7. /\ ids \subseteq s.string.ids /\ ids # {}
      /\ s.string.cut = 1 \/ s.string.cut > GuidLength + 1
      /\ s.string.cut = 1 => ids = s.string.ids
  BY <1>4, <1>6, GetListIs
<1> QED
  BY <1>1, <1>2, <1>7

LEMMA AnswerKeepsBatch ==
  ASSUME BInv, NEW i \in DOMAIN batchSaves, BatchSaveAnswer(i)
  PROVE  BInv'
<1> DEFINE s == batchSaves[i]
<1>1. batchSaves \in Seq(GoodBatches) /\ batchSaves' = RemoveAt(batchSaves, i)
  BY DEF BInv, BatchSaveAnswer
<1>2. batchSaves' \in Seq(GoodBatches) /\ s \in GoodBatches
  BY <1>1, OneLess
<1>3. /\ \A batch \in applied' : batch \in applied \/ batch \in Batches(s)
      /\ open' => open
      /\ confirmAsked' => confirmAsked
      /\ UNCHANGED <<ticked, batchUserRoleIds, roleBatchIDs, batchTree>>
  BY DEF BatchSaveAnswer
<1> HIDE DEF s
<1>4. BShape'
  BY <1>3 DEF BInv, BShape
<1>5. BatchIsForTheTicked'
  BY <1>2, <1>3, BatchIs DEF BInv, BatchIsForTheTicked
<1> QED
  BY <1>2, <1>4, <1>5 DEF BInv

THEOREM BatchStep == BInv /\ [BNext]_bVars => BInv'
<1> SUFFICES ASSUME BInv, [BNext]_bVars PROVE BInv'
  OBVIOUS
<1>1. ASSUME NEW u \in TableUsers, TickUser(u) PROVE BInv'
  BY <1>1 DEF TickUser, Free, BInv, BShape, BatchIsForTheTicked
<1>2. CASE OpenBatch
  BY <1>2, TreesOfABatch DEF OpenBatch, BatchTree, BInv, BShape, BatchIsForTheTicked
<1>3. CASE BatchTreeReady
  <2>1. roleBatchIDs' = Written({}) /\ batchTree' = BatchTree("ready")
        /\ UNCHANGED <<ticked, batchUserRoleIds, open, confirmAsked, batchSaves, applied>>
    BY <1>3 DEF BatchTreeReady
  <2>2. roleBatchIDs' \in BatchStrings /\ batchTree' \in BatchTrees
        /\ roleBatchIDs'.ids = batchTree'.ticked
    BY <2>1, TreesOfABatch DEF BatchStrings, Written, BatchTree
  <2> QED
    BY <2>1, <2>2 DEF BInv, BShape, BatchIsForTheTicked
<1>4. ASSUME NEW r \in RoleNodes, TickRole(r) PROVE BInv'
  <2> DEFINE ids == IF r \in batchTree.ticked THEN batchTree.ticked \ {r}
                    ELSE batchTree.ticked \cup {r}
  <2>1. batchTree' = [batchTree EXCEPT !.ticked = ids] /\ roleBatchIDs' = Written(batchTree'.ticked)
        /\ UNCHANGED <<ticked, batchUserRoleIds, open, confirmAsked, batchSaves, applied>>
    BY <1>4 DEF TickRole
  <2>2. batchTree \in BatchTrees /\ ids \subseteq RoleNodes
    BY DEF BInv, BShape, BatchTrees
  <2> HIDE DEF ids
  <2>3. batchTree' \in BatchTrees /\ batchTree'.ticked = ids
    BY <2>1, <2>2 DEF BatchTrees
  <2>4. roleBatchIDs' \in BatchStrings /\ roleBatchIDs'.ids = batchTree'.ticked
    BY <2>1, <2>2, <2>3 DEF BatchStrings, Written
  <2> QED
    BY <2>1, <2>3, <2>4 DEF BInv, BShape, BatchIsForTheTicked
<1>5. CASE batchUserRoleSave
  BY <1>5 DEF batchUserRoleSave, BInv, BShape, BatchIsForTheTicked
<1>6. CASE BatchTreeAnswer \/ BatchReload
  <2>1. /\ batchTree' = batchTree \/ batchTree' = BatchTree("loading") \/ batchTree' = BatchTree("none")
        /\ \A batch \in applied' : batch \in applied
        /\ UNCHANGED <<ticked, batchUserRoleIds, open, roleBatchIDs, confirmAsked, batchSaves>>
    BY <1>6 DEF BatchTreeAnswer, BatchReload
  <2>2. batchTree' \in BatchTrees /\ (batchTree'.is = "ready" => batchTree' = batchTree)
    <3>1. BatchTree("loading").is # "ready" /\ BatchTree("none").is # "ready"
      BY DEF BatchTree
    <3> QED
      BY <2>1, <3>1, TreesOfABatch DEF BInv, BShape
  <2> QED
    BY <2>1, <2>2 DEF BInv, BShape, BatchIsForTheTicked
<1>7. CASE CloseBatch \/ CancelBatch \/ RefillTable
  <2>1. /\ open' => open
        /\ confirmAsked' => confirmAsked
        /\ ticked' = ticked \/ ticked' = {}
        /\ UNCHANGED <<batchUserRoleIds, roleBatchIDs, batchTree, batchSaves, applied>>
    BY <1>7 DEF CloseBatch, CancelBatch, RefillTable
  <2> QED
    BY <2>1 DEF BInv, BShape, BatchIsForTheTicked
<1>8. CASE UNCHANGED bVars
  BY <1>8 DEF bVars, BInv, BShape, BatchIsForTheTicked
<1> QED
  BY <1>1, <1>2, <1>3, <1>4, <1>5, <1>6, <1>7, <1>8, ConfirmKeepsBatch, AnswerKeepsBatch
  DEF BNext

(* No save of either dialog reaches the database with more or less than    *)
(* its user saw ticked at the click, but for the two cases named there:    *)
(* whatever answers came in between, or were lost.                         *)
THEOREM SavesAreForTheTicked == DSpec /\ BSpec => []SavesAreTicked
<1>1. DInv /\ BInv => SavesAreTicked
  BY DEF DInv, BInv, SavesAreTicked
<1> QED
  BY <1>1, DialogInit, DialogStep, BatchInit, BatchStep, PTL DEF DSpec, BSpec

(******************************** Paginator ********************************)
AllPages == 1..MaxPages

KShape ==
  /\ exists \in BOOLEAN
  /\ totalPages \in 0..MaxPages /\ currentPage \in Nat \ {0}
  /\ asked \in [AllPages -> Nat]

(* What is rendered is the block of a page that was there then.            *)
BlockOfAPage ==
  exists => /\ items.total \in Nat /\ items.current \in 1..items.total
            /\ items = Rendered(items.current, items.total)

(* It is the current page, with the total unless that was out of range.    *)
ShowsTheState ==
  exists => items.current = currentPage /\ (~thrown => items.total = totalPages)

(* At most one request is out, for an empty table.                         *)
RowsFollow ==
  ~overlapped =>
    \/ \E p \in AllPages : asked = RowsOf(p) /\ tableRows = NoPage
    \/ /\ asked = NoPage
       /\ \/ without /\ tableRows = NoPage
          \/ ~without /\ exists /\ tableRows = RowsOf(currentPage)

KInv == KShape /\ BlockOfAPage /\ ShowsTheState /\ RowsFollow

USE PagerAssumption

-----------------------------------------------------------------------------
(* getPages: a page is in its own block, whatever the size of the blocks.  *)
LEMMA InItsBlock ==
  ASSUME NEW c \in Nat \ {0}
  PROVE  /\ PageStart(c) \in Int
         /\ PageStart(c) <= c /\ c < PageStart(c) + NumberOfPages
<1> DEFINE d == c \div NumberOfPages
           r == c % NumberOfPages
<1>1. d \in Int /\ r \in 0..(NumberOfPages - 1) /\ c = NumberOfPages * d + r
  BY Division
<1>2. CASE r = 0
  <2>1. PageStart(c) = (d - 1) * NumberOfPages + 1
    BY <1>2 DEF PageStart
  <2> HIDE DEF d, r
  <2>2. (d - 1) * NumberOfPages = NumberOfPages * d - NumberOfPages
    BY <1>1
  <2> QED
    BY <1>1, <1>2, <2>1, <2>2
<1>3. CASE r # 0
  <2>1. PageStart(c) = d * NumberOfPages + 1
    BY <1>3 DEF PageStart
  <2> HIDE DEF d, r
  <2>2. d * NumberOfPages = NumberOfPages * d
    BY <1>1
  <2> QED
    BY <1>1, <1>3, <2>1, <2>2
<1> QED
  BY <1>2, <1>3

-----------------------------------------------------------------------------
(* Requests and rows by page.                                              *)
LEMMA PagesAre ==
  ASSUME NEW p \in AllPages
  PROVE  /\ NoPage \in [AllPages -> Nat] /\ RowsOf(p) \in [AllPages -> Nat]
         /\ More(NoPage, p) = RowsOf(p) /\ Fewer(RowsOf(p), p) = NoPage
         /\ RowsOf(p) # NoPage /\ NoPage[p] = 0
         /\ \A q \in AllPages : RowsOf(p)[q] > 0 => q = p
<1>1. NoPage = [q \in AllPages |-> 0]
  BY DEF NoPage, AllPages
<1>2. RowsOf(p) = [q \in AllPages |-> IF q = p THEN 1 ELSE 0]
  BY <1>1 DEF RowsOf
<1>3. More(NoPage, p) = RowsOf(p)
  BY <1>1, <1>2 DEF More
<1>4. Fewer(RowsOf(p), p) = NoPage
  BY <1>1, <1>2 DEF Fewer
<1>5. RowsOf(p)[p] = 1 /\ NoPage[p] = 0
  BY <1>1, <1>2
<1>6. RowsOf(p) # NoPage
  BY <1>5
<1> QED
  BY <1>1, <1>2, <1>3, <1>4, <1>5, <1>6

LEMMA Counted ==
  ASSUME NEW f \in [AllPages -> Nat], NEW p \in AllPages
  PROVE  More(f, p) \in [AllPages -> Nat] /\ (f[p] > 0 => Fewer(f, p) \in [AllPages -> Nat])
BY DEF More, Fewer

(* A page is asked for: the table is empty, and has one request if none    *)
(* was out.                                                                *)
LEMMA LoadFollows ==
  ASSUME NEW page \in AllPages, NEW pending \in [AllPages -> Nat], LoadTables(page, pending)
  PROVE  asked' \in [AllPages -> Nat] /\ RowsFollow'
<1>1. /\ tableRows' = NoPage /\ asked' = More(pending, page)
      /\ overlapped' = (pending # NoPage)
  BY DEF LoadTables
<1>2. asked' \in [AllPages -> Nat]
  BY <1>1, Counted
<1>3. CASE pending = NoPage
  <2>1. asked' = RowsOf(page)
    BY <1>1, <1>3, PagesAre
  <2>2. \E p \in AllPages : (asked = RowsOf(p) /\ tableRows = NoPage)'
    BY <1>1, <2>1 DEF RowsOf, NoPage
  <2> QED
    BY <1>2, <2>2 DEF RowsFollow
<1>4. CASE pending # NoPage
  <2>1. overlapped'
    BY <1>1, <1>4
  <2> QED
    BY <1>2, <2>1 DEF RowsFollow
<1> QED
  BY <1>3, <1>4

(* A request is answered, with rows or without.                            *)
LEMMA AnswerFollows ==
  ASSUME KShape, RowsFollow, NEW page \in AllPages, asked[page] > 0,
         asked' = Fewer(asked, page), UNCHANGED overlapped,
         \/ without' /\ UNCHANGED tableRows
         \/ /\ ~without' /\ exists' /\ currentPage' = page
            /\ tableRows' = More(tableRows, page)
  PROVE  asked' \in [AllPages -> Nat] /\ RowsFollow'
<1>1. asked' \in [AllPages -> Nat]
  BY Counted DEF KShape
<1>2. ASSUME ~overlapped
      PROVE  /\ asked' = NoPage
             /\ \/ without' /\ tableRows' = NoPage
                \/ ~without' /\ exists' /\ tableRows' = RowsOf(currentPage')
  <2>1. PICK p \in AllPages : asked = RowsOf(p) /\ tableRows = NoPage
    BY <1>2, PagesAre DEF RowsFollow
  <2>2. p = page
    BY <2>1, PagesAre
  <2> QED
    BY <2>1, <2>2, PagesAre
<1>3. (NoPage)' = NoPage /\ (RowsOf(currentPage))' = RowsOf(currentPage')
  BY DEF NoPage, RowsOf
<1> QED
  BY <1>1, <1>2, <1>3 DEF RowsFollow

-----------------------------------------------------------------------------
THEOREM KInitInv == KInit => KInv
<1> SUFFICES ASSUME KInit PROVE KInv
  OBVIOUS
<1>1. exists = FALSE /\ without = TRUE /\ asked = NoPage /\ tableRows = NoPage
  BY DEF KInit
<1>2. totalPages \in 0..MaxPages /\ currentPage \in Nat \ {0}
  BY SMT DEF KInit
<1>3. exists \in BOOLEAN
  BY <1>1, Zenon
<1>4. asked \in [AllPages -> Nat]
  BY <1>1, PagesAre DEF AllPages
<1> QED
  BY <1>1, <1>2, <1>3, <1>4 DEF KInv, KShape, BlockOfAPage, ShowsTheState, RowsFollow

LEMMA ShowKeeps ==
  ASSUME KInv, NEW page \in Int, showPage(page)
  PROVE  KInv'
<1> USE DEF KInv
<1>1. CASE page \notin 1..totalPages
  <2>1. UNCHANGED <<exists, totalPages, currentPage, items, asked, tableRows, overlapped,
                    thrown, without>>
    BY <1>1 DEF showPage
  <2> QED
    BY <2>1 DEF KShape, BlockOfAPage, ShowsTheState, RowsFollow, RowsOf, NoPage
<1>2. CASE page \in 1..totalPages
  <2>1. /\ currentPage' = page /\ items' = Rendered(page, totalPages)
        /\ IF page # currentPage THEN LoadTables(page, asked)
           ELSE UNCHANGED <<asked, tableRows, overlapped>>
        /\ exists /\ UNCHANGED <<exists, totalPages, without>>
    BY <1>2 DEF showPage, setCurrentPage
  <2>2. page \in AllPages /\ page \in Nat \ {0}
    BY <1>2 DEF KShape, AllPages
  <2>3. asked' \in [AllPages -> Nat] /\ RowsFollow'
    <3>1. CASE page = currentPage
      BY <2>1, <3>1 DEF KShape, RowsFollow, RowsOf, NoPage
    <3>2. CASE page # currentPage
      BY <2>1, <2>2, <3>2, LoadFollows DEF KShape
    <3> QED
      BY <3>1, <3>2
  <2>4. KShape'
    BY <2>1, <2>2, <2>3 DEF KShape
  <2>5. BlockOfAPage' /\ ShowsTheState'
    BY <1>2, <2>1 DEF KShape, BlockOfAPage, ShowsTheState, Rendered
  <2> QED
    BY <2>3, <2>4, <2>5
<1> QED
  BY <1>1, <1>2

(* What the pager makes of an answer with a total.                         *)
LEMMA OptionsKeep ==
  ASSUME KInv, NEW page \in AllPages, NEW total \in AllPages,
         bootstrapPaginator(page, total), asked' \in [AllPages -> Nat]
  PROVE  /\ KShape' /\ BlockOfAPage' /\ ShowsTheState'
         /\ page <= total => exists' /\ currentPage' = page
<1> USE DEF KInv
<1>1. CASE page > total
  <2>1. /\ UNCHANGED <<exists, currentPage, items>>
        /\ totalPages' \in {totalPages, total}
        /\ exists => thrown'
    BY <1>1 DEF bootstrapPaginator, setOptions, init
  <2>2. KShape'
    BY <2>1 DEF KShape, AllPages
  <2> QED
    BY <1>1, <2>1, <2>2 DEF BlockOfAPage, ShowsTheState, AllPages
<1>2. CASE ~(page > total)
  <2>1. /\ exists' = TRUE /\ totalPages' = total /\ currentPage' = page
        /\ items' = Rendered(page, total)
    BY <1>2 DEF bootstrapPaginator, setOptions, setCurrentPage, init, KShape
  <2>2. page \in 1..total /\ total \in Nat
    BY <1>2 DEF AllPages
  <2>3. KShape'
    <3>1. exists' \in BOOLEAN
      BY <2>1, Zenon
    <3>2. totalPages' \in 0..MaxPages /\ currentPage' \in Nat \ {0}
      BY <2>1, <2>2 DEF AllPages
    <3> QED
      BY <3>1, <3>2 DEF KShape
  <2>4. BlockOfAPage' /\ ShowsTheState'
    BY <2>1, <2>2 DEF BlockOfAPage, ShowsTheState, Rendered
  <2> QED
    BY <2>1, <2>3, <2>4
<1> QED
  BY <1>1, <1>2

LEMMA AnswerKeeps ==
  ASSUME KInv, NEW page \in AllPages, NEW total \in 0..MaxPages, Answer(page, total)
  PROVE  KInv'
<1>0. page \in Nat \ {0} /\ asked \in [AllPages -> Nat] /\ asked[page] > 0
  BY DEF Answer, AllPages, KInv, KShape
<1>1. Fewer(asked, page) \in [AllPages -> Nat]
  BY <1>0, Counted
<1>2. (page > total => without') /\ (~(page > total) => ~without')
  <2> DEFINE b == page > total
  <2>1. without' = b
    BY Zenon DEF Answer
  <2> HIDE DEF b
  <2>2. (b => without') /\ (~b => ~without')
    BY <2>1, Zenon
  <2> QED
    BY <2>2 DEF b
<1>3. CASE total = 0
  <2>1. /\ UNCHANGED <<exists, totalPages, currentPage, items, thrown, tableRows, overlapped>>
        /\ asked' = Fewer(asked, page) /\ without'
    BY <1>0, <1>2, <1>3 DEF Answer
  <2>2. asked' \in [AllPages -> Nat] /\ RowsFollow'
    BY <1>0, <2>1, AnswerFollows DEF KInv
  <2>3. KShape' /\ BlockOfAPage' /\ ShowsTheState'
    BY <2>1, <2>2 DEF KInv, KShape, BlockOfAPage, ShowsTheState
  <2> QED
    BY <2>2, <2>3 DEF KInv
<1>4. CASE total # 0
  <2>1. bootstrapPaginator(page, total) /\ total \in AllPages
    BY <1>4 DEF Answer, AllPages
  <2>2. CASE ~exists /\ page # 1 /\ page <= total
    <3>1. LoadTables(page, Fewer(asked, page))
      BY <2>2 DEF Answer
    <3>2. asked' \in [AllPages -> Nat] /\ RowsFollow'
      BY <1>1, <3>1, LoadFollows
    <3> QED
      BY <2>1, <3>2, OptionsKeep DEF KInv
  <2>3. CASE ~(~exists /\ page # 1 /\ page <= total)
    <3>1. /\ asked' = Fewer(asked, page) /\ UNCHANGED overlapped
          /\ tableRows' = IF page <= total THEN More(tableRows, page) ELSE tableRows
      BY <2>3 DEF Answer
    <3>2. KShape' /\ BlockOfAPage' /\ ShowsTheState'
          /\ (page <= total => exists' /\ currentPage' = page)
      BY <1>1, <2>1, <3>1, OptionsKeep
    <3>3. RowsFollow'
      <4>1. CASE page <= total
        <5>1. ~without'
          BY <1>0, <1>2, <2>1, <4>1 DEF AllPages
        <5> QED
          BY <1>0, <3>1, <3>2, <4>1, <5>1, AnswerFollows DEF KInv
      <4>2. CASE ~(page <= total)
        <5>1. without'
          BY <1>0, <1>2, <2>1, <4>2 DEF AllPages
        <5> QED
          BY <1>0, <3>1, <4>2, <5>1, AnswerFollows DEF KInv
      <4> QED
        BY <4>1, <4>2
    <3> QED
      BY <3>2, <3>3 DEF KInv
  <2> QED
    BY <2>2, <2>3
<1> QED
  BY <1>3, <1>4

LEMMA FailureKeeps ==
  ASSUME KInv, NEW page \in AllPages, RequestFails(page)
  PROVE  KInv'
<1>1. /\ asked[page] > 0 /\ asked' = Fewer(asked, page) /\ without'
      /\ UNCHANGED <<exists, totalPages, currentPage, items, thrown, tableRows, overlapped>>
  BY DEF RequestFails
<1>2. asked' \in [AllPages -> Nat] /\ RowsFollow'
  BY <1>1, AnswerFollows DEF KInv
<1> QED
  BY <1>1, <1>2 DEF KInv, KShape, BlockOfAPage, ShowsTheState

(* A click on any item, a new list, an answer with any total, however late *)
(* or out of order, and a request that fails keep the invariant.           *)
THEOREM KNextInv == KInv /\ [KNext]_kVars => KInv'
<1> SUFFICES ASSUME KInv, [KNext]_kVars PROVE KInv'
  OBVIOUS
<1>1. ASSUME NEW page \in 1..MaxPages, ClickPage(page) PROVE KInv'
  BY <1>1, ShowKeeps DEF ClickPage
<1>2. ASSUME NEW type \in {"first", "prev", "next", "last"}, Click(type) PROVE KInv'
  <2>1. Leads(type) \in Int
    BY DEF Leads, KInv, KShape
  <2> QED
    BY <1>2, <2>1, ShowKeeps DEF Click
<1>3. CASE List
  <2>1. LoadTables(1, asked) /\ 1 \in AllPages /\ asked \in [AllPages -> Nat]
    BY <1>3 DEF List, AllPages, KInv, KShape
  <2>2. asked' \in [AllPages -> Nat] /\ RowsFollow'
    BY <2>1, LoadFollows
  <2>3. UNCHANGED <<exists, totalPages, currentPage, items, thrown>>
    BY <1>3 DEF List
  <2> QED
    BY <2>2, <2>3 DEF KInv, KShape, BlockOfAPage, ShowsTheState
<1>4. ASSUME NEW page \in 1..MaxPages, NEW total \in 0..MaxPages, Answer(page, total)
      PROVE  KInv'
  BY <1>4, AnswerKeeps DEF AllPages
<1>5. ASSUME NEW page \in 1..MaxPages, RequestFails(page) PROVE KInv'
  BY <1>5, FailureKeeps DEF AllPages
<1>6. CASE UNCHANGED kVars
  BY <1>6 DEF kVars, KInv, KShape, BlockOfAPage, ShowsTheState, RowsFollow, RowsOf, NoPage
<1> QED
  BY <1>1, <1>2, <1>3, <1>4, <1>5, <1>6 DEF KNext

(* The items are those of the block of the current page, which is there,   *)
(* and the table has that page's rows, once, or is empty, but for tables   *)
(* asked for while they were asked for.                                    *)
THEOREM PagerIsRight == KSpec => []PagerShowsThePage
<1>1. KInv => PagerShowsThePage
  <2> SUFFICES ASSUME KInv PROVE PagerShowsThePage
    OBVIOUS
  <2>1. ASSUME exists
        PROVE  /\ items.pages \subseteq 1..items.total
               /\ items.current \in items.pages
               /\ \A p \in items.pages : p < PageStart(items.current) + NumberOfPages
               /\ \A p, q \in items.pages : q - p < NumberOfPages
    <3> DEFINE c == items.current
               t == items.total
    <3>1. t \in Nat /\ c \in 1..t /\ c \in Nat \ {0}
          /\ items.pages = getPages(c, t)
      BY <2>1 DEF KInv, BlockOfAPage, Rendered
    <3>2. PageStart(c) \in Int /\ PageStart(c) <= c /\ c < PageStart(c) + NumberOfPages
      BY <3>1, InItsBlock
    <3> HIDE DEF c, t
    <3>3. /\ items.pages \subseteq 1..t /\ c \in items.pages
          /\ \A p \in items.pages : p < PageStart(c) + NumberOfPages
      BY <3>1, <3>2 DEF getPages
    <3>4. \A p, q \in items.pages : q - p < NumberOfPages
      BY <3>1, <3>2 DEF getPages
    <3> QED
      BY <3>3, <3>4 DEF c, t
  <2>2. exists => items.current = currentPage /\ (~thrown => items.total = totalPages)
    BY DEF KInv, ShowsTheState
  <2>3. ~overlapped => IF asked # NoPage \/ without THEN tableRows = NoPage
                       ELSE exists /\ tableRows = RowsOf(currentPage)
    <3>1. \A p \in AllPages : RowsOf(p) # NoPage
      BY PagesAre
    <3> QED
      BY <3>1 DEF KInv, RowsFollow
  <2> QED
    BY <2>1, <2>2, <2>3 DEF PagerShowsThePage
<1> QED
  BY <1>1, KInitInv, KNextInv, PTL DEF KSpec

(***************************************************************************)
(* jstree: the ways in which the tree is written down agree after an edit  *)
(* if they did before.                                                     *)
(***************************************************************************)
LEMMA RangeOf ==
  ASSUME NEW S, NEW s \in Seq(S)
  PROVE  /\ Len(s) \in Nat /\ DOMAIN s = 1..Len(s) /\ Range(s) \subseteq S
         /\ \A k \in 1..Len(s) : s[k] \in Range(s)
         /\ \A v \in Range(s) : \E k \in 1..Len(s) : s[k] = v
BY DEF Range

(* A sequence is one over any set that has its entries.                    *)
LEMMA SeqInto ==
  ASSUME NEW S, NEW s \in Seq(S), NEW R, Range(s) \subseteq R
  PROVE  s \in Seq(R)
<1>1. Len(s) \in Nat /\ s \in [1..Len(s) -> S]
  BY SeqDef
<1>2. \A k \in 1..Len(s) : s[k] \in R
  BY RangeOf
<1>3. s \in [1..Len(s) -> R]
  BY <1>1, <1>2
<1> QED
  BY <1>1, <1>3, SeqDef

(* A sequence without repetitions, one entry of which comes.               *)
LEMMA Inserted ==
  ASSUME NEW S, NEW s \in Seq(S), IsInjective(s), NEW e \in S, e \notin Range(s),
         NEW at \in 1..(Len(s) + 1)
  PROVE  LET r == InsertAt(s, at, e) IN
         r \in Seq(S) /\ IsInjective(r) /\ Range(r) = Range(s) \cup {e}
<1> DEFINE r == InsertAt(s, at, e)
<1>1. /\ r \in Seq(S) /\ Len(r) = Len(s) + 1
      /\ \A k \in 1..Len(r) : r[k] = IF k < at THEN s[k] ELSE IF k = at THEN e ELSE s[k-1]
  <2> DEFINE pre == SubSeq(s, 1, at - 1)
             b == SubSeq(s, at, Len(s))
  <2>1. pre \in Seq(S) /\ Len(pre) = at - 1 /\ \A k \in 1..(at - 1) : pre[k] = s[k]
    OBVIOUS
  <2>2. b \in Seq(S) /\ Len(b) = Len(s) - at + 1
        /\ \A k \in 1..(Len(s) - at + 1) : b[k] = s[at + k - 1]
    OBVIOUS
  <2>3. r = (pre \o <<e>>) \o b
    BY DEF InsertAt
  <2> DEFINE c == pre \o <<e>>
  <2> HIDE DEF pre, b
  <2>4. c \in Seq(S) /\ Len(c) = at /\ \A k \in 1..at : c[k] = IF k < at THEN s[k] ELSE e
    BY <2>1
  <2> HIDE DEF c
  <2>5. r = c \o b
    BY <2>3 DEF c
  <2>6. r \in Seq(S) /\ Len(r) = Len(s) + 1
    <3>1. r \in Seq(S) /\ Len(r) = Len(c) + Len(b)
      BY ONLY <2>2, <2>4, <2>5, ConcatProperties
    <3>2. Len(s) \in Nat /\ at \in 1..(Len(s) + 1)
      OBVIOUS
    <3> QED
      BY ONLY <2>2, <2>4, <3>1, <3>2
  <2>7. ASSUME NEW k \in 1..Len(r)
        PROVE  r[k] = IF k < at THEN s[k] ELSE IF k = at THEN e ELSE s[k-1]
    <3>1. r[k] = IF k <= at THEN c[k] ELSE b[k - at]
      BY <2>2, <2>4, <2>5, <2>6
    <3>2. CASE k <= at
      BY <2>4, <2>6, <3>1, <3>2
    <3>3. CASE k > at
      <4>1. k - at \in 1..(Len(s) - at + 1) /\ at + (k - at) - 1 = k - 1
        BY <2>6, <3>3
      <4> QED
        BY <2>2, <3>1, <3>3, <4>1
    <3> QED
      BY <2>6, <3>2, <3>3
  <2> QED
    BY <2>6, <2>7
<1> HIDE DEF r
<1>2. /\ DOMAIN s = 1..Len(s) /\ DOMAIN r = 1..(Len(s) + 1) /\ Len(s) \in Nat
      /\ \A k \in 1..Len(s) : s[k] # e
  BY <1>1 DEF Range
<1>3. IsInjective(r)
  <2> SUFFICES ASSUME NEW i \in DOMAIN r, NEW j \in DOMAIN r, r[i] = r[j] PROVE i = j
    BY DEF IsInjective
  <2>1. \A k, l \in 1..Len(s) : s[k] = s[l] => k = l
    BY <1>2 DEF IsInjective
  <2>2. i \in 1..(Len(s) + 1) /\ j \in 1..(Len(s) + 1)
    BY <1>2
  <2>3. CASE i = at \/ j = at
    BY <1>1, <1>2, <2>2, <2>3
  <2>4. CASE i # at /\ j # at
    <3> DEFINE back(k) == IF k < at THEN k ELSE k - 1
    <3>1. /\ back(i) \in 1..Len(s) /\ r[i] = s[back(i)]
          /\ back(j) \in 1..Len(s) /\ r[j] = s[back(j)]
      BY <1>1, <1>2, <2>2, <2>4
    <3>2. back(i) = back(j)
      BY <2>1, <3>1
    <3> QED
      BY <2>2, <2>4, <3>2
  <2> QED
    BY <2>3, <2>4
<1>4. ASSUME NEW v PROVE v \in Range(r) <=> v \in Range(s) \cup {e}
  <2>1. ASSUME NEW k \in 1..(Len(s) + 1) PROVE r[k] \in Range(s) \cup {e}
    <3>1. r[k] = IF k < at THEN s[k] ELSE IF k = at THEN e ELSE s[k-1]
      BY <1>1, <1>2
    <3>2. CASE k < at
      <4>1. k \in 1..Len(s)
        BY <1>2, <3>2
      <4> QED
        BY <1>2, <3>1, <3>2, <4>1 DEF Range
    <3>3. CASE k = at
      BY <3>1, <3>3
    <3>4. CASE k > at
      <4>1. k - 1 \in 1..Len(s)
        BY <1>2, <3>4
      <4> QED
        BY <1>2, <3>1, <3>4, <4>1 DEF Range
    <3> QED
      BY <1>2, <3>2, <3>3, <3>4
  <2>2. ASSUME NEW k \in 1..Len(s) PROVE s[k] \in Range(r)
    <3>1. CASE k < at
      BY <1>1, <1>2, <3>1 DEF Range
    <3>2. CASE k >= at
      <4>1. k + 1 \in 1..(Len(s) + 1) /\ ~(k + 1 < at) /\ k + 1 # at
        BY <1>2, <3>2
      <4>2. r[k + 1] = s[k]
        BY <1>1, <1>2, <4>1
      <4> QED
        BY <1>2, <4>1, <4>2 DEF Range
    <3> QED
      BY <1>2, <3>1, <3>2
  <2>3. e \in Range(r)
    BY <1>1, <1>2 DEF Range
  <2> QED
    BY <1>2, <2>1, <2>2, <2>3 DEF Range
<1> QED
  BY <1>1, <1>3, <1>4 DEF r

(* And one entry of which goes.                                            *)
LEMMA Removed ==
  ASSUME NEW S, NEW s \in Seq(S), IsInjective(s), NEW i \in 1..Len(s)
  PROVE  LET r == RemoveAt(s, i) IN
         /\ r \in Seq(S) /\ Len(r) = Len(s) - 1 /\ IsInjective(r)
         /\ Range(r) = Range(s) \ {s[i]}
<1> DEFINE r == RemoveAt(s, i)
<1>1. /\ r \in Seq(S) /\ Len(r) = Len(s) - 1
      /\ \A k \in 1..Len(r) : r[k] = IF k < i THEN s[k] ELSE s[k + 1]
  <2> DEFINE pre == SubSeq(s, 1, i - 1)
             b == SubSeq(s, i + 1, Len(s))
  <2>1. pre \in Seq(S) /\ Len(pre) = i - 1 /\ \A k \in 1..(i - 1) : pre[k] = s[k]
    OBVIOUS
  <2>2. b \in Seq(S) /\ Len(b) = Len(s) - i
        /\ \A k \in 1..(Len(s) - i) : b[k] = s[i + k]
    OBVIOUS
  <2> HIDE DEF pre, b
  <2>3. r = pre \o b /\ Len(s) \in Nat /\ i \in 1..Len(s)
    BY DEF RemoveAt, pre, b
  <2> HIDE DEF r
  <2>4. r \in Seq(S) /\ Len(r) = Len(s) - 1
    <3>1. r \in Seq(S) /\ Len(r) = Len(pre) + Len(b)
      BY ONLY <2>1, <2>2, <2>3, ConcatProperties
    <3> QED
      BY ONLY <2>1, <2>2, <2>3, <3>1
  <2>5. ASSUME NEW k \in 1..Len(r) PROVE r[k] = IF k < i THEN s[k] ELSE s[k + 1]
    <3>1. r[k] = IF k <= i - 1 THEN pre[k] ELSE b[k - (i - 1)]
      BY <2>1, <2>2, <2>3, <2>4
    <3>2. CASE k < i
      BY <2>1, <2>3, <2>4, <3>1, <3>2
    <3>3. CASE k >= i
      <4>1. k - (i - 1) \in 1..(Len(s) - i) /\ i + (k - (i - 1)) = k + 1 /\ ~(k <= i - 1)
        BY <2>3, <2>4, <3>3
      <4>2. b[k - (i - 1)] = s[k + 1]
        BY <2>2, <4>1
      <4> QED
        BY <2>3, <2>4, <3>1, <3>3, <4>1, <4>2
    <3> QED
      BY <2>3, <2>4, <3>2, <3>3
  <2> QED
    BY <2>4, <2>5
<1> HIDE DEF r
<1>2. DOMAIN s = 1..Len(s) /\ DOMAIN r = 1..(Len(s) - 1) /\ Len(s) \in Nat
  BY <1>1
<1>3. \A k, l \in 1..Len(s) : s[k] = s[l] => k = l
  BY <1>2 DEF IsInjective
<1>4. IsInjective(r)
  BY <1>1, <1>2, <1>3 DEF IsInjective
<1>5. ASSUME NEW v PROVE v \in Range(r) <=> v \in Range(s) \ {s[i]}
  <2>1. ASSUME NEW k \in 1..(Len(s) - 1) PROVE r[k] \in Range(s) \ {s[i]}
    BY <1>1, <1>2, <1>3 DEF Range
  <2>2. ASSUME NEW k \in 1..Len(s), k # i PROVE s[k] \in Range(r)
    <3>1. CASE k < i
      BY <1>1, <1>2, <3>1 DEF Range
    <3>2. CASE k > i
      <4>1. k - 1 \in 1..(Len(s) - 1) /\ ~(k - 1 < i)
        BY <1>2, <3>2
      <4>2. r[k - 1] = s[k]
        BY <1>1, <1>2, <4>1
      <4> QED
        BY <1>2, <4>1, <4>2 DEF Range
    <3> QED
      BY <2>2, <3>1, <3>2
  <2> QED
    BY <1>2, <2>1, <2>2 DEF Range
<1> QED
  BY <1>1, <1>4, <1>5 DEF r

(* The lists of one node.                                                  *)
LEMMA AgreesAt ==
  ASSUME NEW t, Agrees(t), NEW x \in DOMAIN t.node
  PROVE  LET n == t.node[x] IN
         /\ n.parents \in Seq(DOMAIN t.node) /\ n.children \in Seq(DOMAIN t.node)
         /\ Len(n.parents) \in Nat /\ Len(n.children) \in Nat
         /\ x # TreeRoot => n.parents # <<>> /\ n.parent = n.parents[1]
         /\ n.children_d = {y \in DOMAIN t.node : x \in Parents(t, y)}
         /\ IsInjective(n.children)
         /\ Range(n.children) = {y \in DOMAIN t.node \ {TreeRoot} : t.node[y].parent = x}
<1> DEFINE n == t.node[x]
<1>1. /\ n.parents \in Seq(DOMAIN t.node) /\ n.children \in Seq(DOMAIN t.node)
      /\ x # TreeRoot => n.parents # <<>> /\ n.parent = n.parents[1]
      /\ n.children_d = {y \in DOMAIN t.node : x \in Range(t.node[y].parents)}
      /\ IsInjective(n.children)
      /\ Range(n.children) = {y \in DOMAIN t.node \ {TreeRoot} : t.node[y].parent = x}
  BY DEF Agrees
<1>2. n.children_d = {y \in DOMAIN t.node : x \in Parents(t, y)}
  BY <1>1 DEF Parents
<1> HIDE DEF n
<1>3. Len(n.parents) \in Nat /\ Len(n.children) \in Nat
  BY <1>1
<1> QED
  BY <1>1, <1>2, <1>3 DEF n

(* A node and the i-th above it: the list of that one is the rest of its.  *)
OnLine(t, x, i) ==
  LET p == t.node[x].parents
      q == t.node[p[i]].parents IN
  /\ p[i] \in DOMAIN t.node /\ p[i] \in Parents(t, x)
  /\ p \in Seq(DOMAIN t.node) /\ q \in Seq(DOMAIN t.node)
  /\ Len(q) = Len(p) - i /\ \A k \in 1..(Len(p) - i) : q[k] = p[i + k]

LEMMA Line ==
  ASSUME NEW t, Agrees(t), NEW x \in DOMAIN t.node,
         NEW i \in 1..Len(t.node[x].parents)
  PROVE  OnLine(t, x, i)
<1> DEFINE p == t.node[x].parents
           q == t.node[p[i]].parents
<1>1. p \in Seq(DOMAIN t.node) /\ q = SubSeq(p, i + 1, Len(p))
  BY DEF Agrees
<1>2. p[i] \in DOMAIN t.node
  BY <1>1
<1>3. q \in Seq(DOMAIN t.node)
  BY <1>2 DEF Agrees
<1>4. p[i] \in Range(p)
  BY <1>1 DEF Range
<1> HIDE DEF p, q
<1>5. Len(q) = Len(p) - i /\ \A k \in 1..(Len(p) - i) : q[k] = p[i + k]
  BY <1>1, i \in 1..Len(p) DEF p
<1> QED
  BY <1>1, <1>2, <1>3, <1>4, <1>5 DEF p, q, Parents, OnLine

(* What is above a node has a place in its list.                           *)
LEMMA Above ==
  ASSUME NEW t, Agrees(t), NEW x \in DOMAIN t.node, NEW y \in Parents(t, x)
  PROVE  \E i \in 1..Len(t.node[x].parents) : t.node[x].parents[i] = y
<1>1. t.node[x].parents \in Seq(DOMAIN t.node)
  BY DEF Agrees
<1> QED
  BY <1>1 DEF Parents, Range

(* A node above another has less above itself, and never itself.           *)
LEMMA Upward ==
  ASSUME NEW t, Agrees(t), NEW x \in DOMAIN t.node, NEW y \in Parents(t, x)
  PROVE  /\ y \in DOMAIN t.node
         /\ Len(t.node[x].parents) \in Nat /\ Len(t.node[y].parents) \in Nat
         /\ Len(t.node[y].parents) < Len(t.node[x].parents)
         /\ Parents(t, y) \subseteq Parents(t, x) /\ y \notin Parents(t, y)
<1>1. PICK i \in 1..Len(t.node[x].parents) : t.node[x].parents[i] = y
  BY Above
<1> DEFINE p == t.node[x].parents
           q == t.node[y].parents
<1>2. /\ y \in DOMAIN t.node /\ p \in Seq(DOMAIN t.node) /\ q \in Seq(DOMAIN t.node)
      /\ Len(q) = Len(p) - i /\ \A k \in 1..(Len(p) - i) : q[k] = p[i + k]
  <2> DEFINE o == t.node[p[i]].parents
  <2>1. /\ p[i] \in DOMAIN t.node /\ p \in Seq(DOMAIN t.node) /\ o \in Seq(DOMAIN t.node)
        /\ Len(o) = Len(p) - i /\ \A k \in 1..(Len(p) - i) : o[k] = p[i + k]
    <3>1. OnLine(t, x, i)
      BY Line
    <3> QED
      BY <3>1 DEF OnLine
  <2>2. o = q
    BY <1>1
  <2> HIDE DEF o, q
  <2> QED
    BY <1>1, <2>1, <2>2
<1>3. ASSUME NEW z \in Parents(t, y) PROVE z \in Parents(t, x)
  <2>1. PICK k \in 1..Len(q) : q[k] = z
    BY <1>2, Above
  <2>0. i \in 1..Len(p)
    BY <1>1
  <2> HIDE DEF p, q
  <2>2. i + k \in 1..Len(p) /\ p[i + k] = z
    BY <1>2, <2>0, <2>1
  <2>3. z \in Range(p)
    BY <1>2, <2>2 DEF Range
  <2> QED
    BY <2>3 DEF Parents, p
<1>4. y \notin Parents(t, y)
  <2> SUFFICES ASSUME y \in Parents(t, y) PROVE FALSE
    OBVIOUS
  <2>1. PICK k \in 1..Len(q) : q[k] = y
    BY <1>2, Above
  <2>2. Len(t.node[q[k]].parents) = Len(q) - k
    <3>1. OnLine(t, y, k)
      BY <1>2, <2>1, Line
    <3> QED
      BY <3>1 DEF OnLine
  <2>3. t.node[q[k]].parents = q
    BY <2>1
  <2> HIDE DEF q
  <2> QED
    BY <1>2, <2>1, <2>2, <2>3
<1>5. Len(p) \in Nat /\ Len(q) \in Nat /\ Len(q) < Len(p)
  BY <1>2
<1> QED
  BY <1>2, <1>3, <1>4, <1>5

(* What comes later in the list of a node's parents is further up.         *)
LEMMA Further ==
  ASSUME NEW t, Agrees(t), NEW x \in DOMAIN t.node,
         NEW pre \in 1..Len(t.node[x].parents), NEW b \in 1..Len(t.node[x].parents), pre < b
  PROVE  t.node[x].parents[b] \in Parents(t, t.node[x].parents[pre])
<1> DEFINE p == t.node[x].parents
           q == t.node[p[pre]].parents
<1>1. p \in Seq(DOMAIN t.node)
  BY DEF Agrees
<1>2. /\ q \in Seq(DOMAIN t.node) /\ Len(q) = Len(p) - pre
      /\ \A k \in 1..(Len(p) - pre) : q[k] = p[pre + k]
  <2>1. OnLine(t, x, pre)
    BY Line
  <2> QED
    BY <2>1 DEF OnLine
<1>3. pre \in 1..Len(p) /\ b \in 1..Len(p)
  OBVIOUS
<1> HIDE DEF p, q
<1>4. b - pre \in 1..(Len(p) - pre) /\ pre + (b - pre) = b
  BY <1>1, <1>3, pre < b
<1>5. b - pre \in 1..Len(q) /\ q[b - pre] = p[b]
  BY <1>2, <1>4
<1>6. p[b] \in Range(q)
  BY <1>2, <1>5 DEF Range
<1> QED
  BY <1>6 DEF p, q, Parents

(* Of two nodes above a third, one is above the other.                     *)
LEMMA Comparable ==
  ASSUME NEW t, Agrees(t), NEW x \in DOMAIN t.node,
         NEW y \in Parents(t, x), NEW z \in Parents(t, x)
  PROVE  y = z \/ y \in Parents(t, z) \/ z \in Parents(t, y)
<1> DEFINE p == t.node[x].parents
<1>1. PICK i \in 1..Len(p) : p[i] = y
  BY Above
<1>2. PICK j \in 1..Len(p) : p[j] = z
  BY Above
<1>3. p \in Seq(DOMAIN t.node)
  BY DEF Agrees
<1>4. ASSUME NEW pre \in 1..Len(p), NEW b \in 1..Len(p), pre < b
      PROVE  p[b] \in Parents(t, p[pre])
  BY <1>4, Further
<1>5. CASE i < j
  BY <1>1, <1>2, <1>4, <1>5
<1>6. CASE j < i
  BY <1>1, <1>2, <1>4, <1>6
<1>7. CASE i = j
  BY <1>1, <1>2, <1>7
<1> HIDE DEF p
<1> QED
  BY <1>1, <1>2, <1>3, <1>5, <1>6, <1>7

(* What a subtree leaves behind when it is cut off: G is all of it.        *)
Pruned(t, u, G) ==
  /\ TreeRoot \notin G /\ DOMAIN u.node = DOMAIN t.node \ G
  /\ \A z \in DOMAIN t.node : Parents(t, z) \cap G # {} => z \in G
  /\ \A x \in DOMAIN u.node :
       /\ u.node[x].parent = t.node[x].parent /\ u.node[x].parents = t.node[x].parents
       /\ u.node[x].children_d = t.node[x].children_d \ G
       /\ u.node[x].children \in Seq(AllIds) /\ IsInjective(u.node[x].children)
       /\ Range(u.node[x].children) = Range(t.node[x].children) \ G

(* Without the subtree the rest agrees.                                    *)
LEMMA PrunedAgrees ==
  ASSUME NEW t, Agrees(t), NEW u, NEW G, Pruned(t, u, G)
  PROVE  Agrees(u)
<1> DEFINE N == DOMAIN t.node
           M == DOMAIN u.node
<1>1. M = N \ G /\ TreeRoot \in M
  BY DEF Pruned, Agrees
<1>2. u.node[TreeRoot].parents = <<>>
  BY <1>1 DEF Pruned, Agrees
<1>3. ASSUME NEW x \in M
      PROVE  LET n == u.node[x] IN
             /\ n.parents \in Seq(M) /\ n.children \in Seq(M)
             /\ x # TreeRoot => n.parents # <<>> /\ n.parent = n.parents[1]
             /\ \A i \in 1..Len(n.parents) :
                  u.node[n.parents[i]].parents = SubSeq(n.parents, i + 1, Len(n.parents))
             /\ n.children_d = {y \in M : x \in Range(u.node[y].parents)}
             /\ IsInjective(n.children)
             /\ Range(n.children) = {y \in M \ {TreeRoot} : u.node[y].parent = x}
  <2> DEFINE n == u.node[x]
             o == t.node[x]
  <2>1. /\ x \in N /\ x \notin G /\ n.parent = o.parent /\ n.parents = o.parents
        /\ n.children_d = o.children_d \ G
        /\ n.children \in Seq(AllIds) /\ IsInjective(n.children)
        /\ Range(n.children) = Range(o.children) \ G
    BY <1>1 DEF Pruned
  <2>2. /\ o.parents \in Seq(N)
        /\ x # TreeRoot => o.parents # <<>> /\ o.parent = o.parents[1]
        /\ \A i \in 1..Len(o.parents) :
             t.node[o.parents[i]].parents = SubSeq(o.parents, i + 1, Len(o.parents))
        /\ o.children_d = {y \in N : x \in Range(t.node[y].parents)}
        /\ Range(o.children) = {y \in N \ {TreeRoot} : t.node[y].parent = x}
    BY <2>1 DEF Agrees
  <2>3. Range(o.parents) \subseteq M
    <3>1. Range(o.parents) \subseteq N
      BY <2>2, RangeOf
    <3>2. Range(o.parents) \cap G = {}
      BY <2>1 DEF Pruned, Parents
    <3> QED
      BY <1>1, <3>1, <3>2
  <2>4. n.parents \in Seq(M)
    BY <2>1, <2>2, <2>3, SeqInto
  <2>5. n.children \in Seq(M)
    <3>1. Range(n.children) \subseteq M
      BY <1>1, <2>1, <2>2
    <3> QED
      BY <2>1, <3>1, SeqInto
  <2>6. ASSUME NEW i \in 1..Len(n.parents)
        PROVE  u.node[n.parents[i]].parents = SubSeq(n.parents, i + 1, Len(n.parents))
    <3>1. n.parents[i] \in M
      BY <2>4
    <3>2. u.node[n.parents[i]].parents = t.node[n.parents[i]].parents
      BY <3>1 DEF Pruned
    <3> QED
      BY <2>1, <2>2, <3>2
  <2>7. \A y \in M : /\ y \in N /\ y \notin G /\ u.node[y].parents = t.node[y].parents
                     /\ u.node[y].parent = t.node[y].parent
    BY <1>1 DEF Pruned
  <2>8. n.children_d = {y \in M : x \in Range(u.node[y].parents)}
    BY <1>1, <2>1, <2>2, <2>7
  <2>9. Range(n.children) = {y \in M \ {TreeRoot} : u.node[y].parent = x}
    BY <1>1, <2>1, <2>2, <2>7
  <2> QED
    BY <2>1, <2>2, <2>4, <2>5, <2>6, <2>8, <2>9
<1> QED
  BY <1>1, <1>2, <1>3 DEF Agrees

(* A new leaf.                                                             *)
Grown(t, u, id, par) ==
  /\ par \in DOMAIN t.node /\ id \notin DOMAIN t.node
  /\ DOMAIN u.node = DOMAIN t.node \cup {id}
  /\ u.node[id].parent = par /\ u.node[id].parents = <<par>> \o t.node[par].parents
  /\ u.node[id].children = <<>> /\ u.node[id].children_d = {}
  /\ \A x \in DOMAIN t.node :
       /\ u.node[x].parent = t.node[x].parent /\ u.node[x].parents = t.node[x].parents
       /\ u.node[x].children_d = t.node[x].children_d \cup
            (IF x = par \/ x \in Parents(t, par) THEN {id} ELSE {})
       /\ IF x = par
          THEN /\ u.node[x].children \in Seq(AllIds) /\ IsInjective(u.node[x].children)
               /\ Range(u.node[x].children) = Range(t.node[x].children) \cup {id}
          ELSE u.node[x].children = t.node[x].children

(* With the leaf everything agrees.                                        *)
LEMMA GrownAgrees ==
  ASSUME NEW t, Agrees(t), NEW u, NEW id, NEW par, Grown(t, u, id, par)
  PROVE  Agrees(u)
<1> DEFINE N == DOMAIN t.node
           M == DOMAIN u.node
           ps == t.node[par].parents
<1>0. par \in N /\ id \notin N
  BY DEF Grown
<1>1. M = N \cup {id} /\ TreeRoot \in N /\ u.node[TreeRoot].parents = <<>>
  BY DEF Grown, Agrees
<1>2. /\ ps \in Seq(N) /\ ps \in Seq(M)
      /\ \A i \in 1..Len(ps) : t.node[ps[i]].parents = SubSeq(ps, i + 1, Len(ps))
  BY <1>0, <1>1 DEF Agrees
<1>3. u.node[id].parents = <<par>> \o ps /\ u.node[id].parent = par
      /\ u.node[id].children = <<>> /\ u.node[id].children_d = {}
  BY DEF Grown
<1>4. ASSUME NEW y \in N
      PROVE  /\ u.node[y].parent = t.node[y].parent /\ u.node[y].parents = t.node[y].parents
             /\ t.node[y].parents \in Seq(N) /\ Range(t.node[y].parents) \subseteq N
             /\ y # TreeRoot => t.node[y].parents # <<>> /\ t.node[y].parent = t.node[y].parents[1]
             /\ \A i \in 1..Len(t.node[y].parents) :
                  t.node[t.node[y].parents[i]].parents
                    = SubSeq(t.node[y].parents, i + 1, Len(t.node[y].parents))
             /\ y # TreeRoot => t.node[y].parent \in N
  <2>1. u.node[y].parent = t.node[y].parent /\ u.node[y].parents = t.node[y].parents
    BY DEF Grown
  <2>2. /\ t.node[y].parents \in Seq(N)
        /\ y # TreeRoot => t.node[y].parents # <<>> /\ t.node[y].parent = t.node[y].parents[1]
        /\ \A i \in 1..Len(t.node[y].parents) :
                  t.node[t.node[y].parents[i]].parents
                    = SubSeq(t.node[y].parents, i + 1, Len(t.node[y].parents))
    BY DEF Agrees
  <2>3. Range(t.node[y].parents) \subseteq N
    BY <2>2 DEF Range
  <2> QED
    BY <2>1, <2>2, <2>3
<1> DEFINE q == <<par>> \o ps
<1>5. /\ q \in Seq(M) /\ Len(q) = Len(ps) + 1 /\ q[1] = par /\ q # <<>>
      /\ \A i \in 1..Len(ps) : q[i + 1] = ps[i]
      /\ Range(q) = {par} \cup Range(ps)
  <2>1. q \in Seq(M) /\ Len(q) = Len(ps) + 1 /\ q[1] = par /\ q # <<>>
        /\ \A i \in 1..Len(ps) : q[i + 1] = ps[i]
    BY <1>0, <1>1, <1>2
  <2> HIDE DEF q
  <2>2. Range(q) = {par} \cup Range(ps)
    <3>0. /\ Len(ps) \in Nat /\ DOMAIN ps = 1..Len(ps) /\ DOMAIN q = 1..Len(q)
          /\ \A k \in 1..Len(ps) : k + 1 \in 1..Len(q)
          /\ \A k \in 1..Len(q) : k = 1 \/ k - 1 \in 1..Len(ps)
      BY <1>2, <2>1
    <3>1. ASSUME NEW k \in 1..Len(q) PROVE q[k] \in {par} \cup Range(ps)
      <4>1. CASE k = 1
        BY <2>1, <4>1
      <4>2. CASE k # 1
        <5>1. k - 1 \in 1..Len(ps) /\ (k - 1) + 1 = k
          BY <3>0, <4>2
        <5>2. q[k] = ps[k - 1]
          BY <2>1, <5>1
        <5> QED
          BY <3>0, <5>1, <5>2 DEF Range
      <4> QED
        BY <4>1, <4>2
    <3>2. ASSUME NEW k \in 1..Len(ps) PROVE ps[k] \in Range(q)
      BY <2>1, <3>0 DEF Range
    <3>3. 1 \in 1..Len(q)
      BY <2>1, <3>0
    <3>4. par \in Range(q)
      BY <2>1, <3>0, <3>3 DEF Range
    <3>5. Range(ps) \subseteq Range(q)
      BY <3>0, <3>2 DEF Range
    <3>6. Range(q) \subseteq {par} \cup Range(ps)
      <4>1. \A v \in Range(q) : \E k \in 1..Len(q) : v = q[k]
        BY <3>0 DEF Range
      <4> QED
        BY <3>1, <4>1
    <3> QED
      BY <3>4, <3>5, <3>6
  <2> QED
    BY <2>1, <2>2
<1>6. ASSUME NEW i \in 1..Len(q)
      PROVE  u.node[q[i]].parents = SubSeq(q, i + 1, Len(q))
  <2> HIDE DEF q, ps
  <2>1. CASE i = 1
    <3>1. SubSeq(q, 2, Len(q)) = ps
      BY <1>2, <1>5
    <3>2. u.node[par].parents = ps
      BY <1>0, <1>4 DEF ps
    <3> QED
      BY <1>5, <2>1, <3>1, <3>2
  <2>2. CASE i # 1
    <3>1. i - 1 \in 1..Len(ps) /\ q[i] = ps[i - 1]
      BY <1>2, <1>5, <2>2
    <3>2. ps[i - 1] \in N
      BY <1>2, <3>1
    <3>3. u.node[ps[i - 1]].parents = SubSeq(ps, i, Len(ps))
      <4>1. t.node[ps[i - 1]].parents = SubSeq(ps, (i - 1) + 1, Len(ps))
        BY <1>2, <3>1 DEF ps
      <4>2. (i - 1) + 1 = i
        OBVIOUS
      <4>3. u.node[ps[i - 1]].parents = t.node[ps[i - 1]].parents
        BY <1>4, <3>2
      <4> QED
        BY <4>1, <4>2, <4>3
    <3>4. SubSeq(q, i + 1, Len(q)) = SubSeq(ps, i, Len(ps))
      BY <1>2, <1>5, <3>1
    <3> QED
      BY <3>1, <3>3, <3>4
  <2> QED
    BY <2>1, <2>2
<1>7. ASSUME NEW x \in M
      PROVE  LET n == u.node[x] IN
             /\ n.parents \in Seq(M)
             /\ x # TreeRoot => n.parents # <<>> /\ n.parent = n.parents[1]
             /\ \A i \in 1..Len(n.parents) :
                  u.node[n.parents[i]].parents = SubSeq(n.parents, i + 1, Len(n.parents))
  <2>1. CASE x = id
    <3> HIDE DEF q
    <3>1. u.node[id].parents = q
      BY <1>3 DEF q
    <3> QED
      BY <1>3, <1>5, <1>6, <2>1, <3>1
  <2>2. CASE x # id
    <3>1. x \in N
      BY <1>1, <2>2
    <3>2. \A i \in 1..Len(t.node[x].parents) : t.node[x].parents[i] \in N
      BY <1>4, <3>1
    <3>3. t.node[x].parents \in Seq(M)
      BY <1>1, <1>4, <3>1
    <3>4. u.node[x].parents = t.node[x].parents /\ u.node[x].parent = t.node[x].parent
      BY <1>4, <3>1
    <3>5. x # TreeRoot => u.node[x].parents # <<>> /\ u.node[x].parent = u.node[x].parents[1]
      BY <1>4, <3>1, <3>4
    <3>6. ASSUME NEW i \in 1..Len(u.node[x].parents)
          PROVE  u.node[u.node[x].parents[i]].parents
                   = SubSeq(u.node[x].parents, i + 1, Len(u.node[x].parents))
      <4> DEFINE p == t.node[x].parents
      <4>1. t.node[p[i]].parents = SubSeq(p, i + 1, Len(p)) /\ p[i] \in N
        BY <1>4, <3>1, <3>2, <3>4
      <4>2. u.node[p[i]].parents = t.node[p[i]].parents
        BY <1>4, <4>1
      <4> QED
        BY <3>4, <4>1, <4>2
    <3> QED
      BY <3>3, <3>4, <3>5, <3>6
  <2> QED
    BY <2>1, <2>2
<1>8. ASSUME NEW x \in M
      PROVE  u.node[x].children_d = {y \in M : x \in Range(u.node[y].parents)}
  <2>0. Range(u.node[id].parents) = {par} \cup Range(ps) /\ Range(ps) = Parents(t, par)
    BY <1>3, <1>5 DEF Parents
  <2>1. CASE x = id
    <3>1. id \notin Range(u.node[id].parents)
      BY <1>0, <1>4, <2>0 DEF Parents
    <3> QED
      BY <1>0, <1>1, <1>3, <1>4, <2>1, <3>1
  <2>2. CASE x # id
    <3>1. x \in N /\ t.node[x].children_d = {y \in N : x \in Range(t.node[y].parents)}
      BY <1>1, <2>2 DEF Agrees
    <3>2. u.node[x].children_d = t.node[x].children_d \cup
            (IF x = par \/ x \in Parents(t, par) THEN {id} ELSE {})
      BY <3>1 DEF Grown
    <3> QED
      BY <1>0, <1>1, <1>4, <2>0, <3>1, <3>2
  <2> QED
    BY <2>1, <2>2
<1>9. ASSUME NEW x \in M
      PROVE  /\ u.node[x].children \in Seq(M) /\ IsInjective(u.node[x].children)
             /\ Range(u.node[x].children) = {y \in M \ {TreeRoot} : u.node[y].parent = x}
  <2>1. CASE x = id
    <3>1. u.node[x].children = <<>> /\ Range(<<>>) = {} /\ IsInjective(<<>>)
      BY <1>3, <2>1 DEF Range, IsInjective
    <3>2. \A y \in M \ {TreeRoot} : u.node[y].parent # id
      BY <1>0, <1>1, <1>3, <1>4
    <3> QED
      BY <2>1, <3>1, <3>2
  <2>2. CASE x # id
    <3>1. /\ x \in N /\ t.node[x].children \in Seq(N) /\ IsInjective(t.node[x].children)
          /\ Range(t.node[x].children) = {y \in N \ {TreeRoot} : t.node[y].parent = x}
      BY <1>1, <2>2 DEF Agrees
    <3>2. CASE x = par
      <4>1. /\ u.node[x].children \in Seq(AllIds) /\ IsInjective(u.node[x].children)
            /\ Range(u.node[x].children) = Range(t.node[x].children) \cup {id}
        BY <3>1, <3>2 DEF Grown
      <4>2. Range(u.node[x].children) = {y \in M \ {TreeRoot} : u.node[y].parent = x}
        <5>1. u.node[id].parent = x /\ id \in M \ {TreeRoot}
          BY <1>0, <1>1, <1>3, <3>2
        <5>2. \A y \in N : y \in M /\ u.node[y].parent = t.node[y].parent
          BY <1>1, <1>4
        <5>3. \A y \in M : y \in N \/ y = id
          BY <1>1
        <5> QED
          BY <3>1, <4>1, <5>1, <5>2, <5>3
      <4>3. u.node[x].children \in Seq(M)
        BY <4>1, <4>2, SeqInto
      <4> QED
        BY <4>1, <4>2, <4>3
    <3>3. CASE x # par
      <4>1. u.node[x].children = t.node[x].children
        BY <3>1, <3>3 DEF Grown
      <4>2. Range(u.node[x].children) = {y \in M \ {TreeRoot} : u.node[y].parent = x}
        <5>1. \A y \in M \ {TreeRoot} : u.node[y].parent = x => y \in N
          BY <1>1, <1>3, <3>3
        <5>2. \A y \in N : y \in M /\ u.node[y].parent = t.node[y].parent
          BY <1>1, <1>4
        <5> QED
          BY <3>1, <4>1, <5>1, <5>2
      <4>3. t.node[x].children \in Seq(M)
        BY <1>1, <3>1
      <4> QED
        BY <3>1, <4>1, <4>2, <4>3
    <3> QED
      BY <3>2, <3>3
  <2> QED
    BY <2>1, <2>2
<1> QED
  BY <1>1, <1>7, <1>8, <1>9 DEF Agrees

(* A prefix of one sequence, then an element and another sequence.         *)
Graft(p, o, e, q) == SubSeq(p, 1, o) \o (<<e>> \o q)
IsGraft(r, S, p, o, e, q) ==
  /\ r \in Seq(S) /\ Len(r) = o + 1 + Len(q)
  /\ \A k \in 1..o : r[k] = p[k]
  /\ r[o + 1] = e
  /\ \A k \in 1..Len(q) : r[o + 1 + k] = q[k]

LEMMA Grafted ==
  ASSUME NEW S, NEW p \in Seq(S), NEW e \in S, NEW q \in Seq(S), NEW o \in 0..Len(p)
  PROVE  IsGraft(Graft(p, o, e, q), S, p, o, e, q)
<1> DEFINE pre == SubSeq(p, 1, o)
           b == <<e>> \o q
           r == pre \o b
<1>1. pre \in Seq(S) /\ Len(pre) = o /\ \A k \in 1..o : pre[k] = p[k]
  OBVIOUS
<1>2. b \in Seq(S) /\ Len(b) = 1 + Len(q) /\ b[1] = e /\ \A k \in 1..Len(q) : b[1 + k] = q[k]
  OBVIOUS
<1>3. o \in Nat /\ Len(q) \in Nat
  OBVIOUS
<1> HIDE DEF pre, b
<1>4. /\ r \in Seq(S) /\ Len(r) = Len(pre) + Len(b)
      /\ \A k \in 1..Len(pre) + Len(b) : r[k] = IF k <= Len(pre) THEN pre[k] ELSE b[k - Len(pre)]
  <2>1. pre \in Seq(S) /\ b \in Seq(S)
    BY <1>1, <1>2
  <2> QED
    BY ONLY <2>1, ConcatProperties
<1> HIDE DEF r
<1>5. \A k \in 1..o : r[k] = p[k]
  BY ONLY <1>1, <1>2, <1>3, <1>4
<1>6. r[o + 1] = e
  <2>1. (o + 1) - o = 1 /\ o + 1 \in 1..o + (1 + Len(q)) /\ ~(o + 1 <= o)
    BY ONLY <1>3
  <2> QED
    BY ONLY <1>1, <1>2, <1>4, <2>1
<1>7. ASSUME NEW k \in 1..Len(q) PROVE r[o + 1 + k] = q[k]
  <2>1. (o + 1 + k) - o = 1 + k /\ o + 1 + k \in 1..o + (1 + Len(q)) /\ ~(o + 1 + k <= o)
    BY ONLY <1>3, k \in 1..Len(q)
  <2> QED
    BY ONLY <1>1, <1>2, <1>4, <2>1, k \in 1..Len(q)
<1>8. Len(r) = o + 1 + Len(q)
  BY ONLY <1>1, <1>2, <1>3, <1>4
<1> QED
  BY <1>4, <1>5, <1>6, <1>7, <1>8 DEF r, pre, b, Graft, IsGraft

(* A node and all below it come to be below par.                           *)
Moved(t, u, n, par) ==
  /\ n \in DOMAIN t.node \ {TreeRoot} /\ par \in DOMAIN t.node \ Family(t, n)
  /\ DOMAIN u.node = DOMAIN t.node /\ u.node[n].parent = par
  /\ \A x \in DOMAIN t.node \ {n} : u.node[x].parent = t.node[x].parent
  /\ \A x \in DOMAIN t.node :
       /\ u.node[x].parents =
            IF x \in Family(t, n)
            THEN SubSeq(t.node[x].parents, 1,
                        Len(t.node[x].parents) - Len(t.node[n].parents))
                   \o (<<par>> \o t.node[par].parents)
            ELSE t.node[x].parents
       /\ u.node[x].children_d =
            (t.node[x].children_d \ (IF x \in Parents(t, n) THEN Family(t, n) ELSE {}))
            \cup (IF x = par \/ x \in Parents(t, par) THEN Family(t, n) ELSE {})
       /\ u.node[x].children \in Seq(AllIds) /\ IsInjective(u.node[x].children)
       /\ Range(u.node[x].children) =
            (Range(t.node[x].children) \ {n}) \cup (IF x = par THEN {n} ELSE {})

(* What is above the nodes that move, below n and then.                    *)
MovedList(t, u, n, par, x) ==
  LET p == t.node[x].parents
      o == Len(p) - Len(t.node[n].parents)
      q == t.node[par].parents
      r == u.node[x].parents IN
  /\ x \in DOMAIN t.node /\ x # TreeRoot
  /\ p \in Seq(DOMAIN t.node) /\ q \in Seq(DOMAIN t.node)
  /\ r \in Seq(DOMAIN t.node)
  /\ Len(p) \in Nat /\ Len(q) \in Nat /\ Len(t.node[n].parents) \in Nat
  /\ o \in Nat /\ Len(r) = o + 1 + Len(q) /\ (o = 0 <=> x = n)
  /\ \A k \in 1..o : k \in 1..Len(p) /\ r[k] = p[k]
  /\ r[o + 1] = par
  /\ \A k \in 1..Len(q) : r[o + 1 + k] = q[k]
  /\ \A k \in 1..o : p[k] \in Family(t, n)
  /\ \A k \in 1..Len(p) : k > o => p[k] \in Parents(t, n)

LEMMA MovedParents ==
  ASSUME NEW t, Agrees(t), NEW u, NEW n, NEW par, Moved(t, u, n, par),
         NEW x \in Family(t, n)
  PROVE  MovedList(t, u, n, par, x)
<1> DEFINE p == t.node[x].parents
           m == t.node[n].parents
           o == Len(p) - Len(m)
           q == t.node[par].parents
           r == u.node[x].parents
<1>1. /\ n \in DOMAIN t.node /\ n # TreeRoot /\ par \in DOMAIN t.node
      /\ t.node[n].children_d = {y \in DOMAIN t.node : n \in Parents(t, y)}
  <2>1. n \in DOMAIN t.node /\ n # TreeRoot /\ par \in DOMAIN t.node
    BY DEF Moved
  <2> QED
    BY <2>1 DEF Agrees, Parents
<1>2. x \in DOMAIN t.node /\ (x = n \/ n \in Parents(t, x))
  BY <1>1 DEF Family
<1>3. x # TreeRoot
  <2>1. Parents(t, TreeRoot) = {}
    BY DEF Agrees, Parents, Range
  <2> QED
    BY <1>1, <1>2, <2>1
<1>4. /\ p \in Seq(DOMAIN t.node) /\ q \in Seq(DOMAIN t.node) /\ m \in Seq(DOMAIN t.node)
      /\ Len(p) \in Nat /\ Len(q) \in Nat /\ Len(m) \in Nat
  BY <1>1, <1>2, AgreesAt
<1>5. /\ o \in Nat /\ (o = 0 <=> x = n)
      /\ \A k \in 1..o : k \in 1..Len(p) /\ p[k] \in Family(t, n)
      /\ \A k \in 1..Len(p) : k > o => p[k] \in Parents(t, n)
  <2>1. CASE x = n
    <3>1. o = 0
      BY <1>4, <2>1
    <3>2. \A k \in 1..Len(p) : p[k] \in Range(p)
      BY <1>4, RangeOf
    <3> QED
      BY <2>1, <3>1, <3>2 DEF Parents
  <2>2. CASE x # n
    <3>1. n \in Parents(t, x)
      BY <1>2, <2>2
    <3>2. PICK i \in 1..Len(p) : p[i] = n
      BY <1>2, <3>1, Above
    <3>3. Len(t.node[p[i]].parents) = Len(p) - i
      <4>1. OnLine(t, x, i)
        BY <1>2, Line
      <4> QED
        BY <4>1 DEF OnLine
    <3>4. Len(m) = Len(p) - i
      BY <3>2, <3>3
    <3>5. o = i
      BY <1>4, <3>4
    <3>6. ASSUME NEW k \in 1..Len(p), NEW l \in 1..Len(p), k < l
          PROVE  p[l] \in Parents(t, p[k])
      BY <1>2, <3>6, Further
    <3>7. ASSUME NEW k \in 1..o PROVE k \in 1..Len(p) /\ p[k] \in Family(t, n)
      <4>1. k \in 1..Len(p) /\ k <= i
        <5>1. k \in 1..i /\ i \in 1..Len(p) /\ Len(p) \in Nat
          <6> HIDE DEF p, o
          <6> QED
            BY <1>4, <3>2, <3>5, <3>7
        <5> HIDE DEF p
        <5> QED
          BY ONLY <5>1
      <4>4. p[k] \in DOMAIN t.node
        BY <1>4, <4>1
      <4>2. CASE k = i
        BY <3>2, <4>1, <4>2 DEF Family
      <4>3. CASE k # i
        <5>1. k < i
          BY <4>1, <4>3
        <5>2. n \in Parents(t, p[k])
          BY <3>2, <3>6, <4>1, <5>1
        <5> QED
          BY <1>1, <4>1, <4>4, <5>2 DEF Family
      <4> QED
        BY <4>2, <4>3
    <3>8. ASSUME NEW k \in 1..Len(p), k > o PROVE p[k] \in Parents(t, n)
      BY <3>2, <3>5, <3>6, <3>8
    <3>9. i \in Nat /\ i # 0
      BY <1>4, <3>2
    <3> QED
      BY <2>2, <3>5, <3>7, <3>8, <3>9
  <2> QED
    BY <2>1, <2>2
<1>6. r = SubSeq(p, 1, o) \o (<<par>> \o q)
  BY <1>2 DEF Moved
<1> HIDE DEF p, m, o, q, r
<1>7. o \in 0..Len(p)
  BY <1>4, <1>5 DEF o
<1>8. /\ r \in Seq(DOMAIN t.node) /\ Len(r) = o + 1 + Len(q)
      /\ \A k \in 1..o : r[k] = p[k]
      /\ r[o + 1] = par
      /\ \A k \in 1..Len(q) : r[o + 1 + k] = q[k]
  <2>1. r = Graft(p, o, par, q)
    BY <1>6 DEF Graft
  <2> QED
    <3>1. IsGraft(Graft(p, o, par, q), DOMAIN t.node, p, o, par, q)
      BY <1>1, <1>4, <1>7, Grafted
    <3> QED
      BY <2>1, <3>1 DEF IsGraft
<1> QED
  BY <1>2, <1>3, <1>4, <1>5, <1>8 DEF p, m, o, q, r, MovedList

(* The rest of a sequence.                                                 *)
LEMMA TailIs ==
  ASSUME NEW S, NEW r \in Seq(S), NEW s \in Seq(S), NEW i \in 1..Len(r),
         Len(s) = Len(r) - i, \A k \in 1..(Len(r) - i) : s[k] = r[i + k]
  PROVE  s = SubSeq(r, i + 1, Len(r))
<1>1. LET w == SubSeq(r, i + 1, Len(r)) IN
      /\ w \in Seq(S) /\ Len(w) = Len(r) - i
      /\ \A k \in 1..(Len(r) - i) : w[k] = r[i + k]
  OBVIOUS
<1> DEFINE w == SubSeq(r, i + 1, Len(r))
<1>2. w \in Seq(S) /\ Len(w) = Len(s) /\ \A k \in 1..Len(s) : w[k] = s[k]
  BY <1>1
<1> HIDE DEF w
<1>3. s = w
  BY <1>2
<1> QED
  BY <1>3 DEF w

(* Where the nodes that move are, and those they leave and come to.        *)
LEMMA MovedApart ==
  ASSUME NEW t, Agrees(t), NEW u, NEW n, NEW par, Moved(t, u, n, par)
  PROVE  /\ n \in DOMAIN t.node /\ n # TreeRoot /\ par \in DOMAIN t.node
         /\ DOMAIN u.node = DOMAIN t.node
         /\ Family(t, n) \subseteq DOMAIN t.node
         /\ \A z \in DOMAIN t.node : z \in Family(t, n) <=> z = n \/ n \in Parents(t, z)
         /\ par \notin Family(t, n)
         /\ \A x \in DOMAIN t.node : x \notin Family(t, n) =>
              /\ u.node[x].parents = t.node[x].parents
              /\ Parents(t, x) \cap Family(t, n) = {}
         /\ Parents(t, n) \cap Family(t, n) = {}
<1>1. /\ n \in DOMAIN t.node /\ n # TreeRoot /\ par \in DOMAIN t.node
      /\ DOMAIN u.node = DOMAIN t.node /\ par \notin Family(t, n)
  BY DEF Moved
<1>2. t.node[n].children_d = {y \in DOMAIN t.node : n \in Parents(t, y)}
  BY <1>1, AgreesAt
<1>3. /\ Family(t, n) \subseteq DOMAIN t.node
      /\ \A z \in DOMAIN t.node : z \in Family(t, n) <=> z = n \/ n \in Parents(t, z)
  BY <1>1, <1>2 DEF Family
<1>4. ASSUME NEW x \in DOMAIN t.node, x \notin Family(t, n)
      PROVE  Parents(t, x) \cap Family(t, n) = {}
  <2> SUFFICES ASSUME NEW z \in Parents(t, x), z \in Family(t, n) PROVE FALSE
    OBVIOUS
  <2>1. Parents(t, z) \subseteq Parents(t, x)
    BY Upward
  <2>2. n \in Parents(t, x)
    BY <1>3, <2>1
  <2> QED
    BY <1>3, <1>4, <2>2
<1>5. ASSUME NEW x \in DOMAIN t.node, x \notin Family(t, n)
      PROVE  u.node[x].parents = t.node[x].parents
  BY <1>5 DEF Moved
<1>6. Parents(t, n) \cap Family(t, n) = {}
  <2> SUFFICES ASSUME NEW z \in Parents(t, n), z \in Family(t, n) PROVE FALSE
    OBVIOUS
  <2>1. z \in DOMAIN t.node /\ Parents(t, z) \subseteq Parents(t, n) /\ z \notin Parents(t, z)
    BY <1>1, Upward
  <2>2. n \in Parents(t, n)
    BY <1>3, <2>1
  <2>3. n \notin Parents(t, n)
    BY <1>1, <2>2, Upward
  <2> QED
    BY <2>2, <2>3
<1> QED
  BY <1>1, <1>3, <1>4, <1>5, <1>6

(* Within the nodes that move nothing changes; all of them are below par.  *)
LEMMA MovedBelow ==
  ASSUME NEW t, Agrees(t), NEW u, NEW n, NEW par, Moved(t, u, n, par),
         NEW x \in Family(t, n)
  PROVE  /\ x \in DOMAIN t.node
         /\ \A z : z \in Parents(u, x) <=>
              (z \in Family(t, n) /\ z \in Parents(t, x)) \/ z = par \/ z \in Parents(t, par)
         /\ \A z \in Parents(t, x) : z \in Family(t, n) \/ z \in Parents(t, n)
<1> DEFINE p == t.node[x].parents
           o == Len(p) - Len(t.node[n].parents)
           q == t.node[par].parents
           r == u.node[x].parents
<1>1. /\ x \in DOMAIN t.node /\ p \in Seq(DOMAIN t.node) /\ q \in Seq(DOMAIN t.node)
      /\ r \in Seq(DOMAIN t.node)
      /\ Len(p) \in Nat /\ Len(q) \in Nat
      /\ o \in Nat /\ Len(r) = o + 1 + Len(q)
      /\ \A k \in 1..o : k \in 1..Len(p) /\ r[k] = p[k]
      /\ r[o + 1] = par
      /\ \A k \in 1..Len(q) : r[o + 1 + k] = q[k]
      /\ \A k \in 1..o : p[k] \in Family(t, n)
      /\ \A k \in 1..Len(p) : k > o => p[k] \in Parents(t, n)
  <2>1. MovedList(t, u, n, par, x)
    BY MovedParents
  <2> QED
    BY <2>1 DEF MovedList
<1>2. Parents(u, x) = Range(r) /\ Parents(t, x) = Range(p) /\ Parents(t, par) = Range(q)
  BY DEF Parents
<1>3. Parents(t, n) \cap Family(t, n) = {}
  BY MovedApart
<1> HIDE DEF p, o, q, r
<1>4. /\ \A k \in 1..Len(p) : p[k] \in Range(p)
      /\ \A v \in Range(p) : \E k \in 1..Len(p) : p[k] = v
      /\ \A k \in 1..Len(q) : q[k] \in Range(q)
      /\ \A v \in Range(q) : \E k \in 1..Len(q) : q[k] = v
      /\ \A k \in 1..Len(r) : r[k] \in Range(r)
      /\ \A v \in Range(r) : \E k \in 1..Len(r) : r[k] = v
  <2>1. p \in Seq(DOMAIN t.node) /\ q \in Seq(DOMAIN t.node) /\ r \in Seq(DOMAIN t.node)
    BY <1>1
  <2>2. ASSUME NEW s \in Seq(DOMAIN t.node)
        PROVE  /\ \A k \in 1..Len(s) : s[k] \in Range(s)
               /\ \A v \in Range(s) : \E k \in 1..Len(s) : s[k] = v
    BY RangeOf
  <2> QED
    BY ONLY <2>1, <2>2
<1>5. ASSUME NEW z \in Range(p) PROVE z \in Family(t, n) \/ z \in Parents(t, n)
  <2>1. PICK k \in 1..Len(p) : p[k] = z
    BY <1>4
  <2>2. CASE k <= o
    <3>1. k \in 1..o
      BY <1>1, <2>1, <2>2
    <3> QED
      BY <1>1, <2>1, <3>1
  <2>3. CASE k > o
    BY <1>1, <2>1, <2>3
  <2> QED
    BY <1>1, <2>2, <2>3
<1>6. ASSUME NEW z \in Range(r)
      PROVE  (z \in Family(t, n) /\ z \in Range(p)) \/ z = par \/ z \in Range(q)
  <2>1. PICK k \in 1..Len(r) : r[k] = z
    BY <1>4
  <2>2. CASE k <= o
    <3>1. k \in 1..o
      BY <1>1, <2>1, <2>2
    <3> QED
      BY <1>1, <1>4, <2>1, <3>1
  <2>3. CASE k = o + 1
    BY <1>1, <2>1, <2>3
  <2>4. CASE k > o + 1
    <3>1. k - (o + 1) \in 1..Len(q) /\ (o + 1) + (k - (o + 1)) = k
      BY <1>1, <2>1, <2>4
    <3>2. r[k] = q[k - (o + 1)]
      BY <1>1, <3>1
    <3> QED
      BY <1>4, <2>1, <3>1, <3>2
  <2> QED
    BY <1>1, <2>2, <2>3, <2>4
<1>7. ASSUME NEW z \in Range(p), z \in Family(t, n) PROVE z \in Range(r)
  <2>1. PICK k \in 1..Len(p) : p[k] = z
    BY <1>4
  <2>2. CASE k <= o
    <3>1. k \in 1..o /\ k \in 1..Len(r)
      BY <1>1, <2>1, <2>2
    <3> QED
      BY <1>1, <1>4, <2>1, <3>1
  <2>3. CASE k > o
    BY <1>1, <1>3, <1>7, <2>1, <2>3
  <2> QED
    BY <1>1, <2>2, <2>3
<1>8. par \in Range(r)
  <2>1. o + 1 \in 1..Len(r)
    BY <1>1
  <2> QED
    BY <1>1, <1>4, <2>1
<1>9. ASSUME NEW z \in Range(q) PROVE z \in Range(r)
  <2>1. PICK k \in 1..Len(q) : q[k] = z
    BY <1>4
  <2>2. o + 1 + k \in 1..Len(r)
    BY <1>1, <2>1
  <2> QED
    BY <1>1, <1>4, <2>1, <2>2
<1> QED
  BY <1>1, <1>2, <1>5, <1>6, <1>7, <1>8, <1>9

(* The list of a node goes on with the list of any node in it.             *)
LEMMA MovedTails ==
  ASSUME NEW t, Agrees(t), NEW u, NEW n, NEW par, Moved(t, u, n, par),
         NEW x \in DOMAIN t.node, NEW i \in 1..Len(u.node[x].parents)
  PROVE  LET r == u.node[x].parents IN
         /\ r \in Seq(DOMAIN t.node)
         /\ u.node[r[i]].parents = SubSeq(r, i + 1, Len(r))
<1> DEFINE F == Family(t, n)
           N == DOMAIN t.node
           r == u.node[x].parents
           s == u.node[r[i]].parents
<1>0. i \in 1..Len(r)
  OBVIOUS
<1>1. /\ n \in N /\ par \in N /\ par \notin F /\ F \subseteq N
      /\ \A z \in N : z \notin F =>
           /\ u.node[z].parents = t.node[z].parents
           /\ Parents(t, z) \cap F = {}
  BY MovedApart
<1>2. CASE x \notin F
  <2> DEFINE p == t.node[x].parents
  <2>1. r = p /\ Parents(t, x) \cap F = {}
    BY <1>1, <1>2
  <2>2. p \in Seq(N) /\ t.node[p[i]].parents = SubSeq(p, i + 1, Len(p))
    BY <2>1 DEF Agrees
  <2>3. p[i] \in N /\ p[i] \in Range(p)
    BY <1>0, <2>1, <2>2, RangeOf
  <2>4. p[i] \notin F
    BY <2>1, <2>3 DEF Parents
  <2>5. u.node[p[i]].parents = t.node[p[i]].parents
    BY <1>1, <2>3, <2>4
  <2> QED
    BY <2>1, <2>2, <2>5
<1>3. CASE x \in F
  <2> DEFINE p == t.node[x].parents
             m == t.node[n].parents
             o == Len(p) - Len(m)
             q == t.node[par].parents
  <2>1. /\ x \in N /\ p \in Seq(N) /\ q \in Seq(N) /\ r \in Seq(N)
        /\ Len(p) \in Nat /\ Len(q) \in Nat /\ Len(m) \in Nat
        /\ o \in Nat /\ Len(r) = o + 1 + Len(q)
        /\ \A k \in 1..o : k \in 1..Len(p) /\ r[k] = p[k]
        /\ r[o + 1] = par
        /\ \A k \in 1..Len(q) : r[o + 1 + k] = q[k]
        /\ \A k \in 1..o : p[k] \in F
    <3>1. MovedList(t, u, n, par, x)
      BY <1>3, MovedParents
    <3> QED
      BY <3>1 DEF MovedList
  <2>2. CASE i <= o
    <3> DEFINE y  == p[i]
               py == t.node[y].parents
    <3>1. i \in 1..o /\ i \in 1..Len(p)
      BY <1>0, <2>1, <2>2
    <3>2. r[i] = y /\ y \in F
      BY <2>1, <3>1
    <3>3. py \in Seq(N) /\ Len(py) = Len(p) - i /\ \A k \in 1..(Len(p) - i) : py[k] = p[i + k]
      <4>1. OnLine(t, x, i)
        BY <3>1, Line
      <4> QED
        BY <4>1 DEF OnLine
    <3>4. MovedList(t, u, n, par, y)
      BY <3>2, MovedParents
    <3> DEFINE ry == u.node[y].parents
    <3>5. /\ ry \in Seq(N) /\ Len(ry) = (Len(py) - Len(m)) + 1 + Len(q)
          /\ \A k \in 1..(Len(py) - Len(m)) : ry[k] = py[k]
          /\ ry[(Len(py) - Len(m)) + 1] = par
          /\ \A k \in 1..Len(q) : ry[(Len(py) - Len(m)) + 1 + k] = q[k]
      BY <3>4 DEF MovedList
    <3>6. s = ry
      BY <3>2
    <3>7. Len(py) - Len(m) = o - i
      <4>1. Len(p) \in Nat /\ Len(m) \in Nat /\ i \in 1..Len(p) /\ Len(py) = Len(p) - i
        BY <2>1, <3>1, <3>3
      <4> HIDE DEF p, m, py
      <4> QED
        BY <4>1
    <3> HIDE DEF y, py, ry, p, m, q, r, s
    <3>8. Len(ry) = Len(r) - i
      <4> HIDE DEF o
      <4>1. o \in Nat /\ Len(q) \in Nat /\ i \in 1..o /\ Len(r) = o + 1 + Len(q)
        BY <2>1, <3>1
      <4>2. Len(ry) = (o - i) + 1 + Len(q)
        BY <3>5, <3>7
      <4> QED
        BY ONLY <4>1, <4>2
    <3>9. ASSUME NEW k \in 1..(Len(r) - i) PROVE ry[k] = r[i + k]
      <4> HIDE DEF o
      <4>1. CASE k <= o - i
        <5>1. k \in 1..(o - i) /\ i + k \in 1..o /\ k \in 1..(Len(p) - i)
          <6>1. o \in Nat /\ o <= Len(p) /\ Len(p) \in Nat /\ i \in 1..o
            BY <2>1, <3>1 DEF o
          <6>2. k \in 1..(Len(r) - i) /\ k <= o - i
            BY <4>1
          <6>3. k \in Int /\ 1 <= k
            BY <6>2
          <6> QED
            BY ONLY <6>1, <6>2, <6>3
        <5>2. ry[k] = py[k] /\ py[k] = p[i + k] /\ r[i + k] = p[i + k]
          BY <2>1, <3>3, <3>5, <3>7, <5>1
        <5> QED
          BY <5>2
      <4>2. CASE k = (o - i) + 1
        <5>1. i + k = o + 1
          BY <2>1, <3>1, <4>2
        <5> QED
          BY <2>1, <3>5, <3>7, <4>2, <5>1
      <4>3. CASE k > (o - i) + 1
        <5> DEFINE l == k - ((o - i) + 1)
        <5>1. l \in 1..Len(q) /\ (o - i) + 1 + l = k /\ o + 1 + l = i + k
          BY <2>1, <3>1, <4>3
        <5> HIDE DEF l
        <5>2. ry[k] = q[l] /\ r[i + k] = q[l]
          BY <2>1, <3>5, <3>7, <5>1
        <5> QED
          BY <5>2
      <4> QED
        BY <2>1, <3>1, <4>1, <4>2, <4>3
    <3>10. ry = SubSeq(r, i + 1, Len(r))
      BY <1>0, <2>1, <3>5, <3>8, <3>9, TailIs
    <3> QED
      BY <2>1, <3>6, <3>10 DEF r, s
  <2>3. CASE i = o + 1
    <3>1. r[i] = par
      BY <2>1, <2>3
    <3>2. s = q
      BY <1>1, <3>1
    <3> HIDE DEF p, m, o, q, r, s
    <3>3. Len(q) = Len(r) - i
      BY <2>1, <2>3
    <3>4. ASSUME NEW k \in 1..(Len(r) - i) PROVE q[k] = r[i + k]
      BY <2>1, <2>3, <3>3
    <3>5. q = SubSeq(r, i + 1, Len(r))
      BY <1>0, <2>1, <3>3, <3>4, TailIs
    <3> QED
      BY <2>1, <3>2, <3>5 DEF r, s
  <2>4. CASE i > o + 1
    <3> DEFINE j  == i - (o + 1)
               qj == t.node[q[j]].parents
    <3>1. j \in 1..Len(q) /\ (o + 1) + j = i
      <4> HIDE DEF p, m, q, r, o
      <4> QED
        BY <1>0, <2>1, <2>4
    <3>2. r[i] = q[j]
      <4> HIDE DEF j
      <4> QED
        BY <2>1, <3>1
    <3>3. /\ q[j] \in N /\ q[j] \in Parents(t, par) /\ qj \in Seq(N)
          /\ Len(qj) = Len(q) - j /\ \A k \in 1..(Len(q) - j) : qj[k] = q[j + k]
      <4>1. OnLine(t, par, j)
        <5> HIDE DEF j
        <5> QED
          BY <1>1, <3>1, Line
      <4> QED
        BY <4>1 DEF OnLine
    <3>4. q[j] \notin F
      BY <1>1, <3>3
    <3>5. u.node[q[j]].parents = qj
      BY <1>1, <3>3, <3>4
    <3> HIDE DEF p, m, q, r, s, o, j, qj
    <3>6. s = qj
      BY <3>2, <3>5 DEF s
    <3>7. Len(qj) = Len(r) - i
      <4>1. o \in Nat /\ Len(q) \in Nat /\ j \in 1..Len(q) /\ (o + 1) + j = i
            /\ Len(r) = o + 1 + Len(q) /\ Len(qj) = Len(q) - j
        BY <2>1, <3>1, <3>3
      <4> QED
        BY ONLY <4>1
    <3>8. ASSUME NEW k \in 1..(Len(r) - i) PROVE qj[k] = r[i + k]
      <4>1. k \in 1..(Len(q) - j) /\ j + k \in 1..Len(q) /\ (o + 1) + (j + k) = i + k
        <5>1. o \in Nat /\ Len(q) \in Nat /\ j \in 1..Len(q) /\ (o + 1) + j = i
              /\ Len(r) = o + 1 + Len(q)
          BY <2>1, <3>1
        <5>2. k \in 1..(Len(r) - i)
          OBVIOUS
        <5> QED
          BY ONLY <5>1, <5>2
      <4>2. r[(o + 1) + (j + k)] = q[j + k]
        BY <2>1, <4>1
      <4> QED
        BY <3>3, <4>1, <4>2
    <3>9. qj = SubSeq(r, i + 1, Len(r))
      BY <1>0, <2>1, <3>3, <3>7, <3>8, TailIs
    <3> QED
      BY <2>1, <3>6, <3>9 DEF r, s
  <2>5. i <= o \/ i = o + 1 \/ i > o + 1
    <3>1. i \in Nat /\ o \in Nat
      <4> HIDE DEF r, o
      <4> QED
        BY <1>0, <2>1
    <3> HIDE DEF o
    <3> QED
      BY <3>1
  <2> HIDE DEF o
  <2> QED
    BY <2>2, <2>3, <2>4, <2>5
<1> QED
  BY <1>2, <1>3

(* With the subtree in its new place everything agrees.                    *)
LEMMA MovedAgrees ==
  ASSUME NEW t, Agrees(t), NEW u, NEW n, NEW par, Moved(t, u, n, par)
  PROVE  Agrees(u)
<1> DEFINE N == DOMAIN t.node
           F == Family(t, n)
<1>1. /\ n \in N /\ n # TreeRoot /\ par \in N /\ par \notin F /\ F \subseteq N /\ n \in F
      /\ DOMAIN u.node = N
      /\ \A z \in N : z \in F <=> z = n \/ n \in Parents(t, z)
      /\ \A z \in N : z \notin F =>
           u.node[z].parents = t.node[z].parents /\ Parents(t, z) \cap F = {}
      /\ Parents(t, n) \cap F = {}
  BY MovedApart DEF Family
<1>2. TreeRoot \in N /\ t.node[TreeRoot].parents = <<>>
  BY DEF Agrees
<1>3. u.node[TreeRoot].parents = <<>>
  <2>1. TreeRoot \notin F
    <3>1. Parents(t, TreeRoot) = {}
      BY <1>2 DEF Parents, Range
    <3> QED
      BY <1>1, <1>2, <3>1
  <2> QED
    BY <1>1, <1>2, <2>1
<1>4. ASSUME NEW x \in N
      PROVE  /\ u.node[x].parents \in Seq(N)
             /\ \A i \in 1..Len(u.node[x].parents) :
                  u.node[u.node[x].parents[i]].parents
                    = SubSeq(u.node[x].parents, i + 1, Len(u.node[x].parents))
  <2>1. u.node[x].parents \in Seq(N)
    <3>1. CASE x \in F
      <4>1. MovedList(t, u, n, par, x)
        BY <3>1, MovedParents
      <4> QED
        BY <4>1 DEF MovedList
    <3>2. CASE x \notin F
      BY <1>1, <3>2, AgreesAt
    <3> QED
      BY <3>1, <3>2
  <2> QED
    BY <2>1, MovedTails
<1>5. ASSUME NEW x \in N, x # TreeRoot
      PROVE  u.node[x].parents # <<>> /\ u.node[x].parent = u.node[x].parents[1]
  <2>0. t.node[x].parents # <<>> /\ t.node[x].parent = t.node[x].parents[1]
    BY <1>5, AgreesAt
  <2>1. CASE x \notin F
    <3>1. x # n
      BY <1>1, <2>1
    <3>2. u.node[x].parent = t.node[x].parent
      BY <3>1 DEF Moved
    <3> QED
      BY <1>1, <2>0, <2>1, <3>2
  <2>2. CASE x \in F
    <3> DEFINE p == t.node[x].parents
               m == t.node[n].parents
               o == Len(p) - Len(m)
               q == t.node[par].parents
               r == u.node[x].parents
    <3>1. /\ r \in Seq(N) /\ Len(q) \in Nat
          /\ o \in Nat /\ Len(r) = o + 1 + Len(q) /\ (o = 0 <=> x = n)
          /\ \A k \in 1..o : r[k] = p[k]
          /\ r[o + 1] = par
      <4>1. MovedList(t, u, n, par, x)
        BY <2>2, MovedParents
      <4> QED
        BY <4>1 DEF MovedList
    <3> HIDE DEF p, m, o, q, r
    <3>2. Len(r) # 0 /\ r # <<>>
      BY <3>1
    <3>3. CASE x = n
      <4>1. r[1] = par
        BY <3>1, <3>3
      <4>2. u.node[x].parent = par
        BY <3>3 DEF Moved
      <4> QED
        BY <3>2, <4>1, <4>2 DEF r
    <3>4. CASE x # n
      <4>1. r[1] = p[1]
        <5>1. 1 \in 1..o
          BY <3>1, <3>4
        <5> QED
          BY <3>1, <5>1
      <4>2. u.node[x].parent = t.node[x].parent
        BY <3>4 DEF Moved
      <4> QED
        BY <2>0, <3>2, <4>1, <4>2 DEF r, p
    <3> QED
      BY <3>3, <3>4
  <2> QED
    BY <2>1, <2>2
<1>6. ASSUME NEW x \in N
      PROVE  u.node[x].children_d = {y \in N : x \in Range(u.node[y].parents)}
  <2>1. /\ t.node[x].children_d = {y \in N : x \in Parents(t, y)}
    BY AgreesAt
  <2>2. u.node[x].children_d =
          (t.node[x].children_d \ (IF x \in Parents(t, n) THEN F ELSE {}))
            \cup (IF x = par \/ x \in Parents(t, par) THEN F ELSE {})
    BY DEF Moved
  <2>3. ASSUME NEW y \in N PROVE y \in u.node[x].children_d <=> x \in Parents(u, y)
    <3>1. CASE y \notin F
      <4>1. Parents(u, y) = Parents(t, y)
        BY <1>1, <3>1 DEF Parents
      <4> HIDE DEF F
      <4> QED
        BY <2>1, <2>2, <3>1, <4>1
    <3>2. CASE y \in F
      <4>1. /\ x \in Parents(u, y) <=>
                 (x \in F /\ x \in Parents(t, y)) \/ x = par \/ x \in Parents(t, par)
            /\ x \in Parents(t, y) => x \in F \/ x \in Parents(t, n)
        BY <3>2, MovedBelow
      <4>2. x \in F => x \notin Parents(t, n)
        BY <1>1
      <4> HIDE DEF F
      <4> QED
        BY <2>1, <2>2, <3>2, <4>1, <4>2
    <3> QED
      BY <3>1, <3>2
  <2>4. u.node[x].children_d \subseteq N
    <3> HIDE DEF F
    <3> QED
      BY <1>1, <2>1, <2>2
  <2> QED
    BY <2>3, <2>4 DEF Parents
<1>7. ASSUME NEW x \in N
      PROVE  /\ u.node[x].children \in Seq(N) /\ IsInjective(u.node[x].children)
             /\ Range(u.node[x].children) = {y \in N \ {TreeRoot} : u.node[y].parent = x}
  <2>1. Range(t.node[x].children) = {y \in N \ {TreeRoot} : t.node[y].parent = x}
    BY AgreesAt
  <2>2. /\ u.node[x].children \in Seq(AllIds) /\ IsInjective(u.node[x].children)
        /\ Range(u.node[x].children) =
             (Range(t.node[x].children) \ {n}) \cup (IF x = par THEN {n} ELSE {})
    BY DEF Moved
  <2>3. u.node[n].parent = par /\ \A y \in N \ {n} : u.node[y].parent = t.node[y].parent
    BY DEF Moved
  <2>4. Range(u.node[x].children) = {y \in N \ {TreeRoot} : u.node[y].parent = x}
    BY <1>1, <2>1, <2>2, <2>3
  <2>5. Range(u.node[x].children) \subseteq N
    BY <2>4
  <2> QED
    BY <2>2, <2>4, <2>5, SeqInto
<1> HIDE DEF N, F
<1>8. ASSUME NEW x \in N
      PROVE  LET w == u.node[x] IN
             /\ w.parents \in Seq(N) /\ w.children \in Seq(N)
             /\ x # TreeRoot => w.parents # <<>> /\ w.parent = w.parents[1]
             /\ \A i \in 1..Len(w.parents) :
                  u.node[w.parents[i]].parents = SubSeq(w.parents, i + 1, Len(w.parents))
             /\ w.children_d = {y \in N : x \in Range(u.node[y].parents)}
             /\ IsInjective(w.children)
             /\ Range(w.children) = {y \in N \ {TreeRoot} : u.node[y].parent = x}
  BY <1>4, <1>5, <1>6, <1>7
<1> QED
  BY ONLY <1>1, <1>2, <1>3, <1>8 DEF Agrees

\* v is o with other children and other descendants.
Only(v, o, kids, d) ==
  /\ v.parent = o.parent /\ v.parents = o.parents
  /\ v.children = kids /\ v.children_d = d

(* What a node is made of.                                                 *)
LEMMA MadeOf ==
  ASSUME NEW t, WellMade(t), NEW x \in DOMAIN t.node
  PROVE  /\ x \in AllIds /\ t.node[x] \in NodeRecords
         /\ t.node[x].parents \in Seq(AllIds) /\ t.node[x].children \in Seq(AllIds)
         /\ t.node[x].children_d \subseteq AllIds
         /\ t.node \in [DOMAIN t.node -> NodeRecords]
<1>1. t.node \in [DOMAIN t.node -> NodeRecords] /\ x \in AllIds
  BY DEF WellMade
<1>2. t.node[x] \in NodeRecords
  BY <1>1
<1> QED
  BY <1>1, <1>2 DEF NodeRecords

(* Descendants come, descendants go.                                       *)
LEMMA DescendIs ==
  ASSUME NEW t, WellMade(t), NEW ps, NEW more \in SUBSET AllIds
  PROVE  LET u == Descend(t, ps, more) IN
         /\ WellMade(u) /\ DOMAIN u.node = DOMAIN t.node
         /\ \A x \in DOMAIN t.node :
              Only(u.node[x], t.node[x], t.node[x].children,
                   t.node[x].children_d \cup (IF x \in ps THEN more ELSE {}))
<1> DEFINE N == DOMAIN t.node
           nw == [x \in N |-> IF x \in ps THEN [t.node[x] EXCEPT !.children_d = @ \cup more]
                              ELSE t.node[x]]
           u == Descend(t, ps, more)
<1>1. ASSUME NEW x \in N
      PROVE  /\ nw[x] \in NodeRecords
             /\ Only(nw[x], t.node[x], t.node[x].children,
                     t.node[x].children_d \cup (IF x \in ps THEN more ELSE {}))
  <2>1. t.node[x] \in NodeRecords
    BY MadeOf
  <2>2. CASE x \in ps
    <3>1. nw[x] = [t.node[x] EXCEPT !.children_d = @ \cup more]
      BY <2>2
    <3>2. nw[x] \in NodeRecords
      BY <2>1, <3>1 DEF NodeRecords
    <3> QED
      BY <2>1, <2>2, <3>1, <3>2 DEF NodeRecords, Only
  <2>3. CASE x \notin ps
    <3>1. nw[x] = t.node[x]
      BY <2>3
    <3> QED
      BY <2>1, <2>3, <3>1 DEF NodeRecords, Only
  <2> QED
    BY <2>2, <2>3
<1>2. nw \in [N -> NodeRecords] /\ DOMAIN nw = N
  BY <1>1
<1>3. u = [t EXCEPT !.node = nw]
  BY DEF Descend
<1> HIDE DEF nw
<1>4. u.node = nw /\ WellMade(u)
  BY <1>2, <1>3 DEF WellMade
<1> HIDE DEF u
<1> QED
  BY <1>1, <1>2, <1>4 DEF u

LEMMA ForgetIs ==
  ASSUME NEW t, WellMade(t), NEW ps, NEW gone
  PROVE  LET u == Forget(t, ps, gone) IN
         /\ WellMade(u) /\ DOMAIN u.node = DOMAIN t.node
         /\ \A x \in DOMAIN t.node :
              Only(u.node[x], t.node[x], t.node[x].children,
                   t.node[x].children_d \ (IF x \in ps THEN gone ELSE {}))
<1> DEFINE N == DOMAIN t.node
           nw == [x \in N |-> IF x \in ps THEN [t.node[x] EXCEPT !.children_d = @ \ gone]
                              ELSE t.node[x]]
           u == Forget(t, ps, gone)
<1>1. ASSUME NEW x \in N
      PROVE  /\ nw[x] \in NodeRecords
             /\ Only(nw[x], t.node[x], t.node[x].children,
                     t.node[x].children_d \ (IF x \in ps THEN gone ELSE {}))
  <2>1. t.node[x] \in NodeRecords
    BY MadeOf
  <2>2. CASE x \in ps
    <3>1. nw[x] = [t.node[x] EXCEPT !.children_d = @ \ gone]
      BY <2>2
    <3>2. nw[x] \in NodeRecords
      BY <2>1, <3>1 DEF NodeRecords
    <3> QED
      BY <2>1, <2>2, <3>1, <3>2 DEF NodeRecords, Only
  <2>3. CASE x \notin ps
    <3>1. nw[x] = t.node[x]
      BY <2>3
    <3> QED
      BY <2>1, <2>3, <3>1 DEF NodeRecords, Only
  <2> QED
    BY <2>2, <2>3
<1>2. nw \in [N -> NodeRecords] /\ DOMAIN nw = N
  BY <1>1
<1>3. u = [t EXCEPT !.node = nw]
  BY DEF Forget
<1> HIDE DEF nw
<1>4. u.node = nw /\ WellMade(u)
  BY <1>2, <1>3 DEF WellMade
<1> HIDE DEF u
<1> QED
  BY <1>1, <1>2, <1>4 DEF u

(* The list of the children of p is another one.                           *)
Relisted(t, u, p, kids) ==
  /\ WellMade(u) /\ DOMAIN u.node = DOMAIN t.node
  /\ \A x \in DOMAIN t.node :
       Only(u.node[x], t.node[x], IF x = p THEN kids ELSE t.node[x].children,
            t.node[x].children_d)

(* The two forms in which the model gives a node another list.             *)
LEMMA RelistedIs ==
  ASSUME NEW t, WellMade(t), NEW p \in DOMAIN t.node, NEW kids \in Seq(AllIds),
         NEW lost \in SUBSET AllIds
  PROVE  /\ Relisted(t, [t EXCEPT !.node[p].children = kids], p, kids)
         /\ Relisted(t, [t EXCEPT !.node[p].children = kids, !.lost = lost], p, kids)
<1> DEFINE N == DOMAIN t.node
           w == [t.node[p] EXCEPT !.children = kids]
           nw == [t.node EXCEPT ![p] = w]
<1>1. t.node[p] \in NodeRecords /\ t.node \in [N -> NodeRecords]
  BY MadeOf
<1>2. /\ w \in NodeRecords /\ Only(w, t.node[p], kids, t.node[p].children_d)
  BY <1>1 DEF NodeRecords, Only
<1> HIDE DEF w
<1>3. /\ nw \in [N -> NodeRecords] /\ DOMAIN nw = N
      /\ \A x \in N : nw[x] = IF x = p THEN w ELSE t.node[x]
  BY <1>1, <1>2
<1>4. ASSUME NEW x \in N
      PROVE  Only(nw[x], t.node[x], IF x = p THEN kids ELSE t.node[x].children,
                  t.node[x].children_d)
  <2>1. CASE x = p
    BY <1>2, <1>3, <2>1
  <2>2. CASE x # p
    BY <1>3, <2>2 DEF Only
  <2> QED
    BY <2>1, <2>2
<1>5. ASSUME NEW u, u = [t EXCEPT !.node = nw] \/ u = [t EXCEPT !.node = nw, !.lost = lost]
      PROVE  Relisted(t, u, p, kids)
  <2> HIDE DEF nw
  <2>1. u.node = nw /\ WellMade(u)
    BY <1>3, <1>5 DEF WellMade
  <2> QED
    BY <1>3, <1>4, <2>1 DEF Relisted
<1>6. /\ [t EXCEPT !.node[p].children = kids] = [t EXCEPT !.node = nw]
      /\ [t EXCEPT !.node[p].children = kids, !.lost = lost]
           = [t EXCEPT !.node = nw, !.lost = lost]
  BY DEF nw, w
<1> HIDE DEF nw
<1> QED
  BY <1>5, <1>6

(* Where a node is in the list of its parent, and the list without it.     *)
LEMMA Siblinghood ==
  ASSUME NEW t, WellMade(t), Agrees(t), NEW n \in DOMAIN t.node \ {TreeRoot}
  PROVE  LET par == t.node[n].parent
             kids == t.node[par].children IN
         /\ par \in DOMAIN t.node /\ par \in Parents(t, n)
         /\ kids \in Seq(AllIds) /\ Len(kids) \in Nat
         /\ n \in Range(kids) /\ IsInjective(kids)
         /\ Position(t, n) \in 1..Len(kids)
         /\ Others(t, n) \in Seq(AllIds) /\ IsInjective(Others(t, n))
         /\ Len(Others(t, n)) = Len(kids) - 1
         /\ Range(Others(t, n)) = Range(kids) \ {n}
<1> DEFINE par == t.node[n].parent
           kids == t.node[par].children
<1>1. /\ t.node[n].parents \in Seq(DOMAIN t.node) /\ t.node[n].parents # <<>>
      /\ par = t.node[n].parents[1]
  BY AgreesAt
<1>2. 1 \in 1..Len(t.node[n].parents) /\ par \in DOMAIN t.node
  BY <1>1
<1>3. par \in Parents(t, n)
  BY <1>1, <1>2, RangeOf DEF Parents
<1>4. /\ IsInjective(kids) /\ n \in Range(kids) /\ Len(kids) \in Nat
  <2>1. /\ IsInjective(kids) /\ Len(kids) \in Nat
        /\ Range(kids) = {y \in DOMAIN t.node \ {TreeRoot} : t.node[y].parent = par}
    <3> HIDE DEF par
    <3> QED
      BY <1>2, AgreesAt
  <2> HIDE DEF kids
  <2> QED
    BY <2>1
<1>5. kids \in Seq(AllIds)
  BY <1>2, MadeOf
<1>6. Siblings(t, n) = kids
  BY DEF Siblings
<1> HIDE DEF kids, par
<1>7. Position(t, n) \in 1..Len(kids) /\ kids[Position(t, n)] = n
  <2>1. \E i \in 1..Len(kids) : kids[i] = n
    BY <1>4, <1>5, RangeOf
  <2>2. Position(t, n) = CHOOSE i \in 1..Len(kids) : kids[i] = n
    BY <1>4, <1>6 DEF Position
  <2> QED
    BY <2>1, <2>2
<1>8. Others(t, n) = RemoveAt(kids, Position(t, n))
  BY <1>6, <1>7 DEF Others
<1>9. /\ Others(t, n) \in Seq(AllIds) /\ IsInjective(Others(t, n))
      /\ Len(Others(t, n)) = Len(kids) - 1
      /\ Range(Others(t, n)) = Range(kids) \ {n}
  BY <1>4, <1>5, <1>7, <1>8, Removed
<1> QED
  BY <1>2, <1>3, <1>4, <1>5, <1>7, <1>9 DEF par, kids

(* n is in the list of its new parent, its family known to all above.      *)
Attached(t, u, n, place) ==
  /\ WellMade(u) /\ DOMAIN u.node = DOMAIN t.node
  /\ \A x \in DOMAIN t.node :
       Only(u.node[x], t.node[x],
            IF x = place.par THEN InsertAt(t.node[x].children, place.at, n)
            ELSE t.node[x].children,
            t.node[x].children_d \cup
              (IF x = place.par \/ x \in Parents(t, place.par) THEN Family(t, n) ELSE {}))

(* Attach is that.                                                         *)
LEMMA AttachIs ==
  ASSUME NEW t, WellMade(t), NEW n, Family(t, n) \subseteq AllIds,
         NEW place, place.par \in DOMAIN t.node,
         InsertAt(t.node[place.par].children, place.at, n) \in Seq(AllIds)
  PROVE  Attached(t, Attach(t, n, place), n, place)
<1> DEFINE N == DOMAIN t.node
           par == place.par
           kids == InsertAt(t.node[par].children, place.at, n)
           lost == t.lost \cup Lose(t, par, Family(t, n))
           w == [t EXCEPT !.node[par].children = kids, !.lost = lost]
           ps == {par} \cup Parents(t, par)
           u == Descend(w, ps, Family(t, n))
<1>1. lost \in SUBSET AllIds
  <2>1. t.lost \subseteq AllIds
    BY DEF WellMade
  <2>2. Lose(t, par, Family(t, n)) \subseteq Family(t, n)
    BY DEF Lose
  <2> QED
    BY <2>1, <2>2
<1>2. Relisted(t, w, par, kids)
  <2> HIDE DEF lost, kids
  <2>1. kids \in Seq(AllIds)
    BY DEF kids
  <2> QED
    BY <1>1, <2>1, RelistedIs
<1>3. Attach(t, n, place) = u
  BY DEF Attach
<1> HIDE DEF w, kids, lost
<1>4. /\ WellMade(w) /\ DOMAIN w.node = N
      /\ \A x \in N :
           Only(w.node[x], t.node[x], IF x = par THEN kids ELSE t.node[x].children,
                t.node[x].children_d)
  BY <1>2 DEF Relisted
<1>5. /\ WellMade(u) /\ DOMAIN u.node = DOMAIN w.node
      /\ \A x \in DOMAIN w.node :
           Only(u.node[x], w.node[x], w.node[x].children,
                w.node[x].children_d \cup (IF x \in ps THEN Family(t, n) ELSE {}))
  <2>1. Family(t, n) \in SUBSET AllIds /\ WellMade(w)
    BY <1>4
  <2> HIDE DEF ps
  <2> QED
    BY ONLY <2>1, DescendIs
<1> HIDE DEF u
<1>6. ASSUME NEW x \in N
      PROVE  Only(u.node[x], t.node[x],
                  IF x = par THEN InsertAt(t.node[x].children, place.at, n)
                  ELSE t.node[x].children,
                  t.node[x].children_d \cup
                    (IF x = par \/ x \in Parents(t, par) THEN Family(t, n) ELSE {}))
  <2>1. Only(w.node[x], t.node[x], IF x = par THEN kids ELSE t.node[x].children,
             t.node[x].children_d)
    BY <1>4
  <2>2. Only(u.node[x], w.node[x], w.node[x].children,
             w.node[x].children_d \cup (IF x \in ps THEN Family(t, n) ELSE {}))
    BY <1>4, <1>5
  <2>3. x \in ps <=> x = par \/ x \in Parents(t, par)
    OBVIOUS
  <2> HIDE DEF ps, par
  <2>4. (IF x = par THEN kids ELSE t.node[x].children)
          = IF x = par THEN InsertAt(t.node[x].children, place.at, n)
            ELSE t.node[x].children
    BY DEF kids
  <2> QED
    BY ONLY <2>1, <2>2, <2>3, <2>4 DEF Only
<1> QED
  BY <1>3, <1>4, <1>5, <1>6 DEF Attached

(* n is in no list, its family known to nobody above.                      *)
Detached(t, u, n) ==
  /\ WellMade(u) /\ DOMAIN u.node = DOMAIN t.node
  /\ \A x \in DOMAIN t.node :
       Only(u.node[x], t.node[x],
            IF x = t.node[n].parent THEN Others(t, n) ELSE t.node[x].children,
            t.node[x].children_d \ (IF x \in Parents(t, n) THEN Family(t, n) ELSE {}))

(* Detach is that.                                                         *)
LEMMA DetachIs ==
  ASSUME NEW t, WellMade(t), Agrees(t), NEW n \in DOMAIN t.node \ {TreeRoot}
  PROVE  Detached(t, Detach(t, n), n)
<1> DEFINE N == DOMAIN t.node
           par == t.node[n].parent
           kids == Others(t, n)
           w == [t EXCEPT !.node[par].children = kids]
           u == Forget(w, Parents(t, n), Family(t, n))
<1>1. par \in N /\ kids \in Seq(AllIds)
  BY Siblinghood
<1>2. Relisted(t, w, par, kids)
  <2> HIDE DEF kids, par
  <2>1. {} \in SUBSET AllIds
    OBVIOUS
  <2> QED
    BY <1>1, <2>1, RelistedIs
<1>3. Detach(t, n) = u
  BY DEF Detach
<1> HIDE DEF w, kids, par
<1>4. /\ WellMade(w) /\ DOMAIN w.node = N
      /\ \A x \in N :
           Only(w.node[x], t.node[x], IF x = par THEN kids ELSE t.node[x].children,
                t.node[x].children_d)
  BY <1>2 DEF Relisted
<1>5. /\ WellMade(u) /\ DOMAIN u.node = DOMAIN w.node
      /\ \A x \in DOMAIN w.node :
           Only(u.node[x], w.node[x], w.node[x].children,
                w.node[x].children_d \ (IF x \in Parents(t, n) THEN Family(t, n) ELSE {}))
  BY <1>4, ForgetIs
<1> HIDE DEF u
<1>6. ASSUME NEW x \in N
      PROVE  Only(u.node[x], t.node[x], IF x = par THEN kids ELSE t.node[x].children,
                  t.node[x].children_d \ (IF x \in Parents(t, n) THEN Family(t, n) ELSE {}))
  <2>1. Only(w.node[x], t.node[x], IF x = par THEN kids ELSE t.node[x].children,
             t.node[x].children_d)
    BY <1>4
  <2>2. Only(u.node[x], w.node[x], w.node[x].children,
             w.node[x].children_d \ (IF x \in Parents(t, n) THEN Family(t, n) ELSE {}))
    BY <1>4, <1>5
  <2> QED
    BY ONLY <2>1, <2>2 DEF Only
<1> QED
  BY <1>3, <1>4, <1>5, <1>6 DEF Detached, par, kids

(* Drop takes nodes out of the model and leaves the others as they are.    *)
LEMMA DropIs ==
  ASSUME NEW t, WellMade(t), NEW gone
  PROVE  /\ WellMade(Drop(t, gone)) /\ DOMAIN Drop(t, gone).node = DOMAIN t.node \ gone
         /\ \A x \in DOMAIN t.node \ gone : Drop(t, gone).node[x] = t.node[x]
<1> DEFINE N == DOMAIN t.node \ gone
           nw == Restrict(t.node, N)
           u == Drop(t, gone)
<1>1. t.node \in [DOMAIN t.node -> NodeRecords]
  BY DEF WellMade
<1>2. nw \in [N -> NodeRecords] /\ DOMAIN nw = N /\ \A x \in N : nw[x] = t.node[x]
  BY <1>1 DEF Restrict
<1>3. u = [t EXCEPT !.node = nw, !.on = @ \ gone]
  BY DEF Drop
<1> HIDE DEF nw, N
<1>4. u.node = nw /\ WellMade(u)
  <2>1. N \subseteq DOMAIN t.node
    BY DEF N
  <2> QED
    BY <1>2, <1>3, <2>1 DEF WellMade
<1> QED
  BY <1>2, <1>4 DEF N

(* A node with its subtree is taken out of the tree.                       *)
LEMMA DeleteKeeps ==
  ASSUME NEW t, WellMade(t), Agrees(t), NEW n \in DOMAIN t.node \ {TreeRoot}
  PROVE  LET u == Drop(Detach(t, n), Family(t, n)) IN WellMade(u) /\ Agrees(u)
<1> DEFINE N == DOMAIN t.node
           G == Family(t, n)
           d == Detach(t, n)
           u == Drop(d, G)
           par == t.node[n].parent
<1>1. Detached(t, d, n)
  BY DetachIs
<1> HIDE DEF d
<1>2. /\ WellMade(d) /\ DOMAIN d.node = N
      /\ \A x \in N :
           Only(d.node[x], t.node[x], IF x = par THEN Others(t, n) ELSE t.node[x].children,
                t.node[x].children_d \ (IF x \in Parents(t, n) THEN G ELSE {}))
  BY <1>1 DEF Detached
<1>3. /\ WellMade(u) /\ DOMAIN u.node = N \ G
      /\ \A x \in N \ G : u.node[x] = d.node[x]
  BY <1>2, DropIs
<1> HIDE DEF u
<1>4. /\ n \in G /\ G \subseteq N /\ \A z \in N : z \in G <=> z = n \/ n \in Parents(t, z)
  BY AgreesAt DEF Family
<1>5. TreeRoot \notin G
  <2>1. Parents(t, TreeRoot) = {} /\ TreeRoot \in N
    BY DEF Agrees, Parents, Range
  <2> QED
    BY <1>4, <2>1
<1>6. ASSUME NEW z \in N, Parents(t, z) \cap G # {} PROVE z \in G
  <2>1. PICK y \in Parents(t, z) : y \in G
    BY <1>6
  <2>2. Parents(t, y) \subseteq Parents(t, z)
    BY <2>1, Upward
  <2> QED
    BY <1>4, <2>1, <2>2
<1> HIDE DEF G
<1>7. ASSUME NEW x \in N \ G
      PROVE  /\ u.node[x].parent = t.node[x].parent /\ u.node[x].parents = t.node[x].parents
             /\ u.node[x].children_d = t.node[x].children_d \ G
             /\ u.node[x].children \in Seq(AllIds) /\ IsInjective(u.node[x].children)
             /\ Range(u.node[x].children) = Range(t.node[x].children) \ G
  <2>1. Only(u.node[x], t.node[x], IF x = par THEN Others(t, n) ELSE t.node[x].children,
             t.node[x].children_d \ (IF x \in Parents(t, n) THEN G ELSE {}))
    BY <1>2, <1>3
  <2>2. /\ t.node[x].children_d = {y \in N : x \in Parents(t, y)}
        /\ Range(t.node[x].children) = {y \in N \ {TreeRoot} : t.node[y].parent = x}
        /\ IsInjective(t.node[x].children) /\ t.node[x].children \in Seq(AllIds)
    BY AgreesAt, MadeOf
  <2>3. u.node[x].children_d = t.node[x].children_d \ G
    <3>1. CASE x \in Parents(t, n)
      BY <2>1, <3>1 DEF Only
    <3>2. CASE x \notin Parents(t, n)
      <4>1. ASSUME NEW y \in G, x \in Parents(t, y) PROVE FALSE
        <5>1. y \in N /\ (y = n \/ n \in Parents(t, y))
          BY <1>4
        <5>2. n \in Parents(t, y) /\ y \in N
          BY <3>2, <4>1, <5>1
        <5>3. x = n \/ x \in Parents(t, n) \/ n \in Parents(t, x)
          BY <4>1, <5>2, Comparable
        <5> QED
          BY <1>4, <3>2, <5>3
      <4>2. t.node[x].children_d \cap G = {}
        BY <2>2, <4>1
      <4> QED
        BY <2>1, <3>2, <4>2 DEF Only
    <3> QED
      BY <3>1, <3>2
  <2>4. Range(t.node[x].children) \cap G \subseteq {n}
    <3> SUFFICES ASSUME NEW y \in Range(t.node[x].children), y \in G, y # n PROVE FALSE
      OBVIOUS
    <3>1. y \in N \ {TreeRoot} /\ t.node[y].parent = x
      BY <2>2
    <3>2. n \in Parents(t, y) /\ x \in Parents(t, y) /\ x = t.node[y].parents[1]
      BY <1>4, <3>1, Siblinghood, AgreesAt
    <3>3. x # n /\ n \notin Parents(t, x)
      BY <1>4
    <3>4. PICK i \in 1..Len(t.node[y].parents) : t.node[y].parents[i] = n
      BY <3>1, <3>2, Above
    <3>5. 1 < i /\ 1 \in 1..Len(t.node[y].parents)
      <4>1. i # 1
        BY <3>2, <3>3, <3>4
      <4>2. Len(t.node[y].parents) \in Nat
        BY <3>1, AgreesAt
      <4> QED
        BY <3>4, <4>1, <4>2
    <3>6. t.node[y].parents[i] \in Parents(t, t.node[y].parents[1])
      BY <3>1, <3>4, <3>5, Further
    <3> QED
      BY <3>2, <3>3, <3>4, <3>6
  <2>5. /\ u.node[x].children \in Seq(AllIds) /\ IsInjective(u.node[x].children)
        /\ Range(u.node[x].children) = Range(t.node[x].children) \ G
    <3>1. CASE x = par
      <4>1. /\ Others(t, n) \in Seq(AllIds) /\ IsInjective(Others(t, n))
            /\ Range(Others(t, n)) = Range(t.node[par].children) \ {n}
        BY Siblinghood
      <4>2. u.node[x].children = Others(t, n)
        BY <2>1, <3>1 DEF Only
      <4> QED
        BY <1>4, <2>4, <3>1, <4>1, <4>2
    <3>2. CASE x # par
      <4>1. u.node[x].children = t.node[x].children
        BY <2>1, <3>2 DEF Only
      <4>2. n \notin Range(t.node[x].children)
        BY <2>2, <3>2
      <4> QED
        BY <2>2, <2>4, <4>1, <4>2
    <3> QED
      BY <3>1, <3>2
  <2> QED
    BY <2>1, <2>3, <2>5 DEF Only
<1>8. Pruned(t, u, G)
  BY <1>3, <1>5, <1>6, <1>7 DEF Pruned
<1> QED
  BY <1>3, <1>8, PrunedAgrees DEF u, G, d

(* A node that is not loaded.                                              *)
LEMMA BareIs ==
  ASSUME NEW v \in NodeRecords
  PROVE  LET w == [v EXCEPT !.children = <<>>, !.children_d = {}, !.loaded = FALSE] IN
         /\ w \in NodeRecords /\ w.parent = v.parent /\ w.parents = v.parents
         /\ w.children = <<>> /\ w.children_d = {}
<1>1. <<>> \in Seq(AllIds) /\ {} \in SUBSET AllIds /\ FALSE \in BOOLEAN
  OBVIOUS
<1> QED
  BY <1>1 DEF NodeRecords

(* A node forgets what is below it.                                        *)
LEMMA UnloadKeeps ==
  ASSUME NEW t, WellMade(t), Agrees(t), NEW n \in DOMAIN t.node
  PROVE  WellMade(Unload(t, n)) /\ Agrees(Unload(t, n))
<1> DEFINE N == DOMAIN t.node
           G == t.node[n].children_d
           f == Forget(t, Parents(t, n), G)
           d == Drop(f, G)
           bare == [d.node[n] EXCEPT !.children = <<>>, !.children_d = {}, !.loaded = FALSE]
           nw == [d.node EXCEPT ![n] = bare]
           u == Unload(t, n)
<1>1. /\ WellMade(f) /\ DOMAIN f.node = N
      /\ \A x \in N :
           Only(f.node[x], t.node[x], t.node[x].children,
                t.node[x].children_d \ (IF x \in Parents(t, n) THEN G ELSE {}))
  BY ForgetIs
<1> HIDE DEF f
<1>2. /\ WellMade(d) /\ DOMAIN d.node = N \ G
      /\ \A x \in N \ G : d.node[x] = f.node[x]
  BY <1>1, DropIs
<1>3. G = {y \in N : n \in Parents(t, y)}
  BY AgreesAt
<1>4. n \notin G /\ TreeRoot \notin G
  <2>1. n \notin Parents(t, n)
    <3> SUFFICES ASSUME n \in Parents(t, n) PROVE FALSE
      OBVIOUS
    <3> QED
      BY Upward
  <2>2. Parents(t, TreeRoot) = {} /\ TreeRoot \in N
    BY DEF Agrees, Parents, Range
  <2> HIDE DEF G
  <2> QED
    BY <1>3, <2>1, <2>2
<1>5. u = [d EXCEPT !.list = @ \ G, !.node = nw]
  BY DEF Unload, f
<1> HIDE DEF d, u
<1>6. n \in DOMAIN d.node /\ d.node[n] \in NodeRecords
      /\ d.node \in [N \ G -> NodeRecords]
  <2> HIDE DEF G
  <2> QED
    BY <1>2, <1>4, MadeOf
<1>7. /\ bare \in NodeRecords
      /\ bare.parent = d.node[n].parent /\ bare.parents = d.node[n].parents
      /\ bare.children = <<>> /\ bare.children_d = {}
  BY <1>6, BareIs
<1> HIDE DEF bare, G
<1>8. /\ nw \in [N \ G -> NodeRecords] /\ DOMAIN nw = N \ G
      /\ \A x \in N \ G : nw[x] = IF x = n THEN bare ELSE d.node[x]
  BY <1>2, <1>6, <1>7
<1> HIDE DEF nw
<1>9. u.node = nw /\ WellMade(u)
  BY <1>2, <1>5, <1>8 DEF WellMade
<1>10. ASSUME NEW z \in N, Parents(t, z) \cap G # {} PROVE z \in G
  <2>1. PICK y \in Parents(t, z) : y \in G
    BY <1>10
  <2>2. Parents(t, y) \subseteq Parents(t, z)
    BY <2>1, Upward
  <2> QED
    BY <1>3, <2>1, <2>2
<1>11. ASSUME NEW x \in N \ G
       PROVE  /\ u.node[x].parent = t.node[x].parent /\ u.node[x].parents = t.node[x].parents
              /\ u.node[x].children_d = t.node[x].children_d \ G
              /\ u.node[x].children \in Seq(AllIds) /\ IsInjective(u.node[x].children)
              /\ Range(u.node[x].children) = Range(t.node[x].children) \ G
  <2>1. Only(d.node[x], t.node[x], t.node[x].children,
             t.node[x].children_d \ (IF x \in Parents(t, n) THEN G ELSE {}))
    BY <1>1, <1>2
  <2>2. /\ t.node[x].children_d = {y \in N : x \in Parents(t, y)}
        /\ Range(t.node[x].children) = {y \in N \ {TreeRoot} : t.node[y].parent = x}
        /\ IsInjective(t.node[x].children) /\ t.node[x].children \in Seq(AllIds)
    BY AgreesAt, MadeOf
  <2>3. CASE x = n
    <3>1. u.node[x] = bare
      BY <1>8, <1>9, <2>3
    <3>2. bare.parent = t.node[x].parent /\ bare.parents = t.node[x].parents
      BY <1>7, <2>1, <2>3 DEF Only
    <3>3. t.node[x].children_d \ G = {}
      BY <1>3, <2>2, <2>3
    <3>4. Range(t.node[x].children) \subseteq G
      <4> SUFFICES ASSUME NEW y \in Range(t.node[x].children) PROVE y \in G
        OBVIOUS
      <4>1. y \in N \ {TreeRoot} /\ t.node[y].parent = n
        BY <2>2, <2>3
      <4>2. n \in Parents(t, y)
        BY <4>1, Siblinghood
      <4> QED
        BY <1>3, <4>1, <4>2
    <3>5. <<>> \in Seq(AllIds) /\ IsInjective(<<>>) /\ Range(<<>>) = {}
      BY DEF IsInjective, Range
    <3> QED
      BY <1>7, <3>1, <3>2, <3>3, <3>4, <3>5
  <2>4. CASE x # n
    <3>1. u.node[x] = d.node[x]
      BY <1>8, <1>9, <2>4
    <3>2. x \notin Parents(t, n) => t.node[x].children_d \cap G = {}
      <4> SUFFICES ASSUME x \notin Parents(t, n), NEW y \in G, y \in t.node[x].children_d
                   PROVE  FALSE
        OBVIOUS
      <4>1. y \in N /\ n \in Parents(t, y) /\ x \in Parents(t, y)
        BY <1>3, <2>2
      <4>2. n \in Parents(t, x)
        BY <2>4, <4>1, Comparable
      <4> QED
        BY <1>3, <4>2
    <3>3. u.node[x].children_d = t.node[x].children_d \ G
      BY <2>1, <3>1, <3>2 DEF Only
    <3>4. Range(t.node[x].children) \cap G = {}
      <4> SUFFICES ASSUME NEW y \in Range(t.node[x].children), y \in G PROVE FALSE
        OBVIOUS
      <4>1. y \in N \ {TreeRoot} /\ t.node[y].parent = x
        BY <2>2
      <4>2. n \in Parents(t, y) /\ x = t.node[y].parents[1]
        BY <1>3, <4>1, AgreesAt
      <4>3. PICK i \in 1..Len(t.node[y].parents) : t.node[y].parents[i] = n
        BY <4>1, <4>2, Above
      <4>4. 1 < i /\ 1 \in 1..Len(t.node[y].parents)
        <5>1. i # 1
          BY <2>4, <4>2, <4>3
        <5>2. Len(t.node[y].parents) \in Nat
          BY <4>1, AgreesAt
        <5> QED
          BY <4>3, <5>1, <5>2
      <4>5. t.node[y].parents[i] \in Parents(t, t.node[y].parents[1])
        BY <4>1, <4>3, <4>4, Further
      <4>6. n \in Parents(t, x)
        BY <4>2, <4>3, <4>5
      <4> QED
        BY <1>3, <4>6
    <3> QED
      BY <2>1, <2>2, <3>1, <3>3, <3>4 DEF Only
  <2> QED
    BY <2>3, <2>4
<1>12. Pruned(t, u, G)
  BY <1>4, <1>8, <1>9, <1>10, <1>11 DEF Pruned
<1> QED
  BY <1>9, <1>12, PrunedAgrees DEF u

(* Where a child may be put: the list of its new parent has the place.     *)
LEMMA PlaceIs ==
  ASSUME NEW t, WellMade(t), Agrees(t), NEW n \in DOMAIN t.node, NEW pos
  PROVE  LET place == Place(t, n, pos) IN
         /\ place.par \in DOMAIN t.node
         /\ place.at \in 1..(Len(t.node[place.par].children) + 1)
<1>1. CASE pos \in {"before", "after"} /\ n # TreeRoot
  <2> DEFINE par == t.node[n].parent
             kids == t.node[par].children
             at == IF pos = "before" THEN Position(t, n) ELSE Position(t, n) + 1
  <2>1. par \in DOMAIN t.node /\ Len(kids) \in Nat /\ Position(t, n) \in 1..Len(kids)
    BY <1>1, Siblinghood
  <2>2. Place(t, n, pos) = [par |-> par, at |-> at]
    BY <1>1 DEF Place
  <2>3. Place(t, n, pos).par = par /\ Place(t, n, pos).at = at
    BY <2>2
  <2> HIDE DEF kids, par
  <2>4. at \in 1..(Len(kids) + 1)
    BY <2>1
  <2> QED
    BY <2>1, <2>3, <2>4 DEF kids
<1>2. CASE ~(pos \in {"before", "after"} /\ n # TreeRoot)
  <2> DEFINE kids == t.node[n].children
             at == IF pos \in {"first", "before"} THEN 1 ELSE Len(kids) + 1
  <2>1. Len(kids) \in Nat
    BY AgreesAt
  <2>2. Place(t, n, pos) = [par |-> n, at |-> at]
    BY <1>2 DEF Place
  <2>3. Place(t, n, pos).par = n /\ Place(t, n, pos).at = at
    BY <2>2
  <2> HIDE DEF kids
  <2>4. at \in 1..(Len(kids) + 1)
    BY <2>1
  <2> QED
    BY <2>3, <2>4 DEF kids
<1> QED
  BY <1>1, <1>2

(* A new node.                                                             *)
LEMMA BlankIs ==
  ASSUME NEW par \in AllIds, NEW ps \in Seq(AllIds), NEW lazy \in BOOLEAN
  PROVE  LET v == Blank(par, ps, lazy) IN
         /\ v \in NodeRecords /\ v.parent = par /\ v.parents = ps
         /\ v.children = <<>> /\ v.children_d = {}
<1>1. <<>> \in Seq(AllIds) /\ {} \in SUBSET AllIds /\ FALSE \in BOOLEAN
  OBVIOUS
<1> QED
  BY <1>1 DEF NodeRecords, Blank

(* Born adds one and leaves the others as they are.                        *)
BornUnder(t, u, id, par) ==
  /\ WellMade(u) /\ DOMAIN u.node = DOMAIN t.node \cup {id}
  /\ \A x \in DOMAIN t.node : u.node[x] = t.node[x]
  /\ u.node[id].parent = par /\ u.node[id].parents = <<par>> \o t.node[par].parents
  /\ u.node[id].children = <<>> /\ u.node[id].children_d = {}

LEMMA BornIs ==
  ASSUME NEW t, WellMade(t), NEW id \in AllIds \ DOMAIN t.node,
         NEW par \in DOMAIN t.node
  PROVE  BornUnder(t, Born(t, id, par), id, par)
<1> DEFINE N == DOMAIN t.node
           ps == <<par>> \o t.node[par].parents
           v == Blank(par, ps, FALSE)
           nw == [x \in N \cup {id} |-> IF x = id THEN v ELSE t.node[x]]
           u == Born(t, id, par)
<1>1. par \in AllIds /\ ps \in Seq(AllIds)
  <2>1. par \in AllIds /\ t.node[par].parents \in Seq(AllIds)
    BY MadeOf
  <2> QED
    BY <2>1
<1>2. v \in NodeRecords /\ v.parent = par /\ v.parents = ps
      /\ v.children = <<>> /\ v.children_d = {}
  BY <1>1, BlankIs
<1>3. u = [t EXCEPT !.node = nw, !.on = @ \ {id}]
  BY DEF Born
<1> HIDE DEF v, ps
<1>4. /\ nw \in [N \cup {id} -> NodeRecords] /\ DOMAIN nw = N \cup {id}
      /\ \A x \in N \cup {id} : nw[x] = IF x = id THEN v ELSE t.node[x]
  BY <1>2, MadeOf
<1> HIDE DEF nw, u
<1>5. u.node = nw /\ WellMade(u)
  <2>1. N \cup {id} \subseteq AllIds
    BY DEF WellMade
  <2> QED
    BY <1>3, <1>4, <2>1 DEF WellMade
<1>6. \A x \in N : u.node[x] = t.node[x]
  BY <1>4, <1>5
<1>7. u.node[id] = v
  BY <1>4, <1>5
<1> QED
  BY <1>2, <1>4, <1>5, <1>6, <1>7 DEF u, ps, BornUnder

(* A new leaf at a place of the list of its parent.                        *)
LEMMA CreateKeeps ==
  ASSUME NEW t, WellMade(t), Agrees(t), NEW id \in AllIds \ DOMAIN t.node,
         NEW place, place.par \in DOMAIN t.node,
         place.at \in 1..(Len(t.node[place.par].children) + 1)
  PROVE  LET u == Attach(Born(t, id, place.par), id, place) IN WellMade(u) /\ Agrees(u)
<1> DEFINE N == DOMAIN t.node
           par == place.par
           kids == t.node[par].children
           more == InsertAt(kids, place.at, id)
           b == Born(t, id, par)
           u == Attach(b, id, place)
<1>1. /\ WellMade(b) /\ DOMAIN b.node = N \cup {id} /\ id \notin N /\ par \in N
      /\ \A x \in N : b.node[x] = t.node[x]
      /\ b.node[id].parent = par /\ b.node[id].parents = <<par>> \o t.node[par].parents
      /\ b.node[id].children = <<>> /\ b.node[id].children_d = {}
  <2>1. par \in N /\ id \in AllIds \ N
    OBVIOUS
  <2>2. BornUnder(t, b, id, par)
    <3> HIDE DEF par
    <3> QED
      BY <2>1, BornIs
  <2> HIDE DEF par, b
  <2> QED
    BY <2>1, <2>2 DEF BornUnder
<1> HIDE DEF b
<1>2. kids \in Seq(AllIds) /\ IsInjective(kids) /\ Range(kids) \subseteq N
  BY MadeOf, AgreesAt
<1>3. /\ more \in Seq(AllIds) /\ IsInjective(more) /\ Range(more) = Range(kids) \cup {id}
  <2> HIDE DEF kids
  <2>1. id \in AllIds /\ id \notin Range(kids) /\ place.at \in 1..(Len(kids) + 1)
    BY <1>2 DEF kids
  <2> QED
    BY <1>2, <2>1, Inserted
<1>4. Family(b, id) = {id} /\ Parents(b, par) = Parents(t, par)
  BY <1>1 DEF Family, Parents
<1>5. Attached(b, u, id, place)
  <2>1. InsertAt(b.node[place.par].children, place.at, id) \in Seq(AllIds)
    BY <1>1, <1>3
  <2>2. Family(b, id) \subseteq AllIds /\ place.par \in DOMAIN b.node
    BY <1>1, <1>4
  <2> QED
    BY <1>1, <2>1, <2>2, AttachIs
<1> HIDE DEF u
<1>6. /\ WellMade(u) /\ DOMAIN u.node = N \cup {id}
      /\ \A x \in N \cup {id} :
           Only(u.node[x], b.node[x],
                IF x = par THEN InsertAt(b.node[x].children, place.at, id)
                ELSE b.node[x].children,
                b.node[x].children_d \cup
                  (IF x = par \/ x \in Parents(t, par) THEN {id} ELSE {}))
  BY <1>1, <1>4, <1>5 DEF Attached
<1>7. ASSUME NEW x \in N
      PROVE  /\ u.node[x].parent = t.node[x].parent /\ u.node[x].parents = t.node[x].parents
             /\ u.node[x].children_d = t.node[x].children_d \cup
                  (IF x = par \/ x \in Parents(t, par) THEN {id} ELSE {})
             /\ u.node[x].children = IF x = par THEN more ELSE t.node[x].children
  <2>1. Only(u.node[x], b.node[x],
             IF x = par THEN InsertAt(b.node[x].children, place.at, id)
             ELSE b.node[x].children,
             b.node[x].children_d \cup
               (IF x = par \/ x \in Parents(t, par) THEN {id} ELSE {}))
    BY <1>6
  <2>2. b.node[x] = t.node[x]
    BY <1>1
  <2> QED
    BY <2>1, <2>2 DEF Only
<1>8. /\ u.node[id].parent = par /\ u.node[id].parents = <<par>> \o t.node[par].parents
      /\ u.node[id].children = <<>> /\ u.node[id].children_d = {}
  <2>1. Only(u.node[id], b.node[id],
             IF id = par THEN InsertAt(b.node[id].children, place.at, id)
             ELSE b.node[id].children,
             b.node[id].children_d \cup
               (IF id = par \/ id \in Parents(t, par) THEN {id} ELSE {}))
    BY <1>6
  <2>2. id # par /\ id \notin Parents(t, par)
    BY <1>1, Upward
  <2> QED
    BY <1>1, <2>1, <2>2 DEF Only
<1>9. Grown(t, u, id, par)
  BY <1>1, <1>3, <1>6, <1>7, <1>8 DEF Grown
<1> QED
  BY <1>6, <1>9, GrownAgrees DEF u, b

(* The children of one node in another order.                              *)
LEMMA ReorderKeeps ==
  ASSUME NEW t, WellMade(t), Agrees(t), NEW n \in DOMAIN t.node \ {TreeRoot},
         NEW place, place.par = t.node[n].parent,
         place.at \in 1..(Len(t.node[place.par].children) + 1)
  PROVE  WellMade(Reorder(t, n, place)) /\ Agrees(Reorder(t, n, place))
<1> DEFINE N == DOMAIN t.node
           par == place.par
           kids == t.node[par].children
           rest == Others(t, n)
           old == Position(t, n)
           at == IF old > 0 /\ place.at > old THEN place.at - 1 ELSE place.at
           all == InsertAt(rest, at, n)
           u == Reorder(t, n, place)
<1>1. /\ par \in N /\ kids \in Seq(AllIds) /\ Len(kids) \in Nat
      /\ n \in Range(kids) /\ IsInjective(kids) /\ old \in 1..Len(kids)
      /\ rest \in Seq(AllIds) /\ IsInjective(rest)
      /\ Len(rest) = Len(kids) - 1 /\ Range(rest) = Range(kids) \ {n}
  BY Siblinghood
<1>2. at \in 1..(Len(rest) + 1)
  <2>0. place.at \in 1..(Len(kids) + 1)
    OBVIOUS
  <2> HIDE DEF kids, rest, old
  <2> QED
    BY <1>1, <2>0
<1>3. n \in AllIds
  BY MadeOf
<1>4. u = [t EXCEPT !.node[par].children = all]
  BY DEF Reorder
<1>5. all \in Seq(AllIds) /\ IsInjective(all) /\ Range(all) = Range(kids)
  <2> HIDE DEF rest, at, kids
  <2>1. n \notin Range(rest)
    BY <1>1
  <2>2. all \in Seq(AllIds) /\ IsInjective(all) /\ Range(all) = Range(rest) \cup {n}
    BY <1>1, <1>2, <1>3, <2>1, Inserted
  <2> QED
    BY <1>1, <2>2
<1> HIDE DEF all
<1>6. Relisted(t, u, par, all)
  <2>1. {} \in SUBSET AllIds
    OBVIOUS
  <2>2. Relisted(t, [t EXCEPT !.node[par].children = all], par, all)
    BY <1>1, <1>5, <2>1, RelistedIs
  <2> QED
    BY <1>4, <2>2
<1> HIDE DEF u
<1>7. WellMade(u) /\ DOMAIN u.node = N
  BY <1>6 DEF Relisted
<1>8. ASSUME NEW x \in N
      PROVE  /\ u.node[x].parent = t.node[x].parent /\ u.node[x].parents = t.node[x].parents
             /\ u.node[x].children_d = t.node[x].children_d \ {}
             /\ u.node[x].children \in Seq(AllIds) /\ IsInjective(u.node[x].children)
             /\ Range(u.node[x].children) = Range(t.node[x].children) \ {}
  <2>1. Only(u.node[x], t.node[x], IF x = par THEN all ELSE t.node[x].children,
             t.node[x].children_d)
    BY <1>6 DEF Relisted
  <2>2. t.node[x].children \in Seq(AllIds) /\ IsInjective(t.node[x].children)
    BY MadeOf, AgreesAt
  <2>3. u.node[x].children = IF x = par THEN all ELSE t.node[x].children
    BY <2>1 DEF Only
  <2>4. /\ u.node[x].children \in Seq(AllIds) /\ IsInjective(u.node[x].children)
        /\ Range(u.node[x].children) = Range(t.node[x].children)
    BY <1>5, <2>2, <2>3
  <2> QED
    BY <2>1, <2>4 DEF Only
<1>9. Pruned(t, u, {})
  BY <1>7, <1>8 DEF Pruned
<1> QED
  BY <1>7, <1>9, PrunedAgrees DEF u

(* A sequence after nothing.                                               *)
LEMMA NothingBefore ==
  ASSUME NEW S, NEW p \in Seq(S), NEW s \in Seq(S)
  PROVE  SubSeq(p, 1, 0) \o s = s
<1>1. SubSeq(p, 1, 0) = <<>>
  OBVIOUS
<1> QED
  BY <1>1

(* The lists of the parents of n and of what is below it begin with par.   *)
Rechained(t, u, n, par) ==
  /\ WellMade(u) /\ DOMAIN u.node = DOMAIN t.node
  /\ u.node[n].parent = par
  /\ \A x \in DOMAIN t.node \ {n} : u.node[x].parent = t.node[x].parent
  /\ \A x \in DOMAIN t.node :
       /\ u.node[x].children = t.node[x].children
       /\ u.node[x].children_d = t.node[x].children_d
       /\ u.node[x].parents =
            IF x \in Family(t, n)
            THEN SubSeq(t.node[x].parents, 1,
                        Len(t.node[x].parents) - Len(t.node[n].parents))
                   \o (<<par>> \o t.node[par].parents)
            ELSE t.node[x].parents

(* Rechain is that.                                                        *)
LEMMA RechainIs ==
  ASSUME NEW t, WellMade(t), NEW n \in DOMAIN t.node, NEW par \in DOMAIN t.node,
         \A x \in DOMAIN t.node : x \in Family(t, n) =>
           Len(t.node[n].parents) \in 0..Len(t.node[x].parents)
  PROVE  Rechained(t, Rechain(t, n, par), n, par)
<1> DEFINE N == DOMAIN t.node
           ps == <<par>> \o t.node[par].parents
           old == Len(t.node[n].parents)
           Onto(s) == SubSeq(s, 1, Len(s) - old) \o ps
           nw == [x \in N |->
                    IF x = n THEN [t.node[x] EXCEPT !.parent = par, !.parents = ps]
                    ELSE IF x \in t.node[n].children_d
                    THEN [t.node[x] EXCEPT !.parents = Onto(@)] ELSE t.node[x]]
           u == Rechain(t, n, par)
<1>1. par \in AllIds /\ ps \in Seq(AllIds) /\ old \in Nat
  <2>1. par \in AllIds /\ t.node[par].parents \in Seq(AllIds)
        /\ t.node[n].parents \in Seq(AllIds)
    BY MadeOf
  <2> QED
    BY <2>1
<1>2. u = [t EXCEPT !.node = nw]
  BY DEF Rechain
<1>3. Family(t, n) = {n} \cup t.node[n].children_d
  BY DEF Family
<1>4. ASSUME NEW x \in N, x \in Family(t, n) PROVE Onto(t.node[x].parents) \in Seq(AllIds)
  <2> DEFINE p == t.node[x].parents
  <2>1. p \in Seq(AllIds) /\ old \in 0..Len(p)
    BY <1>4, MadeOf
  <2> HIDE DEF p, old, ps
  <2>2. SubSeq(p, 1, Len(p) - old) \in Seq(AllIds)
    <3>1. Len(p) \in Nat /\ Len(p) - old \in 0..Len(p)
      BY <2>1
    <3>2. \A m \in 0..Len(p) : SubSeq(p, 1, m) \in Seq(AllIds)
      BY <2>1
    <3> QED
      BY <3>1, <3>2
  <2> QED
    BY <1>1, <2>2 DEF p
<1> HIDE DEF ps, old
<1>5. ASSUME NEW x \in N
      PROVE  /\ nw[x] \in NodeRecords
             /\ nw[x].children = t.node[x].children
             /\ nw[x].children_d = t.node[x].children_d
             /\ nw[x].parent = IF x = n THEN par ELSE t.node[x].parent
             /\ nw[x].parents = IF x \in Family(t, n) THEN Onto(t.node[x].parents)
                                ELSE t.node[x].parents
  <2>0. t.node[x] \in NodeRecords
    BY MadeOf
  <2>1. CASE x = n
    <3>1. nw[x] = [t.node[x] EXCEPT !.parent = par, !.parents = ps]
      BY <2>1
    <3> HIDE DEF nw
    <3>2. /\ nw[x] \in NodeRecords /\ nw[x].parent = par /\ nw[x].parents = ps
          /\ nw[x].children = t.node[x].children
          /\ nw[x].children_d = t.node[x].children_d
      BY <1>1, <2>0, <3>1 DEF NodeRecords
    <3>3. Onto(t.node[x].parents) = ps
      <4>1. t.node[x].parents \in Seq(AllIds) /\ Len(t.node[x].parents) - old = 0
        BY <1>1, <2>1, MadeOf DEF old
      <4> QED
        BY <1>1, <4>1, NothingBefore
    <3> HIDE DEF Onto
    <3> QED
      BY <1>3, <2>1, <3>2, <3>3
  <2>2. CASE x # n /\ x \in t.node[n].children_d
    <3> DEFINE on == Onto(t.node[x].parents)
    <3>1. nw[x] = [t.node[x] EXCEPT !.parents = on]
      BY <2>2
    <3>2. on \in Seq(AllIds) /\ x \in Family(t, n)
      BY <1>3, <1>4, <2>2
    <3> HIDE DEF nw, on
    <3>3. /\ nw[x] \in NodeRecords /\ nw[x].parents = on
          /\ nw[x].parent = t.node[x].parent
          /\ nw[x].children = t.node[x].children
          /\ nw[x].children_d = t.node[x].children_d
      BY <2>0, <3>1, <3>2 DEF NodeRecords
    <3> QED
      BY <2>2, <3>2, <3>3 DEF on
  <2>3. CASE x # n /\ x \notin t.node[n].children_d
    <3>1. nw[x] = t.node[x] /\ x \notin Family(t, n)
      BY <1>3, <2>3
    <3> HIDE DEF nw, Onto
    <3> QED
      BY <2>0, <2>3, <3>1
  <2> QED
    BY <2>1, <2>2, <2>3
<1>6. nw \in [N -> NodeRecords] /\ DOMAIN nw = N
  <2>1. DOMAIN nw = N /\ nw = [x \in N |-> nw[x]]
    OBVIOUS
  <2> HIDE DEF nw
  <2> QED
    BY <1>5, <2>1
<1> HIDE DEF nw, u
<1>7. u.node = nw /\ WellMade(u)
  BY <1>2, <1>6 DEF WellMade
<1>8. \A x \in N : Onto(t.node[x].parents)
        = SubSeq(t.node[x].parents, 1, Len(t.node[x].parents) - Len(t.node[n].parents))
            \o (<<par>> \o t.node[par].parents)
  BY DEF ps, old
<1> HIDE DEF Onto
<1> QED
  BY <1>5, <1>6, <1>7, <1>8 DEF Rechained, u

(* A node with its subtree comes under another parent.                     *)
LEMMA TransplantKeeps ==
  ASSUME NEW t, WellMade(t), Agrees(t), NEW n \in DOMAIN t.node \ {TreeRoot},
         NEW place, place.par \in DOMAIN t.node \ Family(t, n),
         place.at \in 1..(Len(t.node[place.par].children) + 1),
         place.par # t.node[n].parent
  PROVE  LET u == Rechain(Attach(Detach(t, n), n, place), n, place.par) IN
         WellMade(u) /\ Agrees(u)
<1> DEFINE N == DOMAIN t.node
           F == Family(t, n)
           par == place.par
           from == t.node[n].parent
           kids == t.node[par].children
           more == InsertAt(kids, place.at, n)
           d == Detach(t, n)
           pre == Attach(d, n, place)
           u == Rechain(pre, n, par)
<1>1. Detached(t, d, n)
  BY DetachIs
<1> HIDE DEF d
<1>2. /\ WellMade(d) /\ DOMAIN d.node = N
      /\ \A x \in N :
           Only(d.node[x], t.node[x], IF x = from THEN Others(t, n) ELSE t.node[x].children,
                t.node[x].children_d \ (IF x \in Parents(t, n) THEN F ELSE {}))
  BY <1>1 DEF Detached
<1>3. /\ n \in F /\ F \subseteq N /\ F \subseteq AllIds
      /\ \A z \in N : z \in F <=> z = n \/ n \in Parents(t, z)
  <2>1. t.node[n].children_d = {y \in N : n \in Parents(t, y)} /\ N \subseteq AllIds
    BY AgreesAt DEF WellMade
  <2> QED
    BY <2>1 DEF Family
<1>4. n \notin Parents(t, n)
  <2> SUFFICES ASSUME n \in Parents(t, n) PROVE FALSE
    OBVIOUS
  <2> QED
    BY Upward
<1>5. par \in N /\ par \notin F /\ par # n /\ n \notin Parents(t, par)
  BY <1>3
<1>6. Family(d, n) = F /\ Parents(d, par) = Parents(t, par)
      /\ d.node[par].children = kids
  BY <1>2, <1>4, <1>5 DEF Only, Family, Parents
<1> HIDE DEF F
<1>7. /\ more \in Seq(AllIds) /\ IsInjective(more) /\ Range(more) = Range(kids) \cup {n}
  <2>1. /\ kids \in Seq(AllIds) /\ IsInjective(kids) /\ n \in AllIds
        /\ Range(kids) = {y \in N \ {TreeRoot} : t.node[y].parent = par}
    BY <1>5, MadeOf, AgreesAt
  <2>2. n \notin Range(kids) /\ place.at \in 1..(Len(kids) + 1)
    BY <2>1
  <2> HIDE DEF kids
  <2> QED
    BY <2>1, <2>2, Inserted
<1>8. Attached(d, pre, n, place)
  <2>1. InsertAt(d.node[place.par].children, place.at, n) \in Seq(AllIds)
    BY <1>6, <1>7
  <2>2. Family(d, n) \subseteq AllIds /\ place.par \in DOMAIN d.node
    BY <1>2, <1>3, <1>5, <1>6
  <2> QED
    BY <1>2, <2>1, <2>2, AttachIs
<1> HIDE DEF pre
<1>9. /\ WellMade(pre) /\ DOMAIN pre.node = N
      /\ \A x \in N :
           Only(pre.node[x], d.node[x],
                IF x = par THEN InsertAt(d.node[x].children, place.at, n)
                ELSE d.node[x].children,
                d.node[x].children_d \cup
                  (IF x = par \/ x \in Parents(t, par) THEN F ELSE {}))
  BY <1>2, <1>6, <1>8 DEF Attached
<1> HIDE DEF from, kids
<1>10. ASSUME NEW x \in N
       PROVE  /\ pre.node[x].parent = t.node[x].parent /\ pre.node[x].parents = t.node[x].parents
              /\ pre.node[x].children_d =
                   (t.node[x].children_d \ (IF x \in Parents(t, n) THEN F ELSE {}))
                     \cup (IF x = par \/ x \in Parents(t, par) THEN F ELSE {})
              /\ pre.node[x].children = IF x = par THEN more
                                      ELSE IF x = from THEN Others(t, n)
                                      ELSE t.node[x].children
  <2>1. Only(d.node[x], t.node[x], IF x = from THEN Others(t, n) ELSE t.node[x].children,
             t.node[x].children_d \ (IF x \in Parents(t, n) THEN F ELSE {}))
    BY <1>2
  <2>2. Only(pre.node[x], d.node[x],
             IF x = par THEN InsertAt(d.node[x].children, place.at, n)
             ELSE d.node[x].children,
             d.node[x].children_d \cup
               (IF x = par \/ x \in Parents(t, par) THEN F ELSE {}))
    BY <1>9
  <2>3. x = par => InsertAt(d.node[x].children, place.at, n) = more
    BY <1>6
  <2> HIDE DEF more, par
  <2>4. /\ pre.node[x].parent = t.node[x].parent /\ pre.node[x].parents = t.node[x].parents
        /\ pre.node[x].children_d =
             (t.node[x].children_d \ (IF x \in Parents(t, n) THEN F ELSE {}))
               \cup (IF x = par \/ x \in Parents(t, par) THEN F ELSE {})
    BY ONLY <2>1, <2>2 DEF Only
  <2>5. pre.node[x].children = IF x = par THEN more
                             ELSE IF x = from THEN Others(t, n) ELSE t.node[x].children
    BY ONLY <2>1, <2>2, <2>3 DEF Only
  <2> QED
    BY <2>4, <2>5
<1>11. Family(pre, n) = F
  <2>1. pre.node[n].children_d = t.node[n].children_d
    <3>1. pre.node[n].children_d =
            (t.node[n].children_d \ (IF n \in Parents(t, n) THEN F ELSE {}))
              \cup (IF n = par \/ n \in Parents(t, par) THEN F ELSE {})
      BY <1>10
    <3> HIDE DEF par
    <3> QED
      BY <1>4, <1>5, <3>1
  <2> QED
    BY <2>1 DEF F, Family
<1>12. Rechained(pre, u, n, par)
  <2>1. ASSUME NEW x \in N, x \in F
        PROVE  Len(pre.node[n].parents) \in 0..Len(pre.node[x].parents)
    <3>1. pre.node[n].parents = t.node[n].parents /\ pre.node[x].parents = t.node[x].parents
      BY <1>10
    <3>2. Len(t.node[n].parents) \in Nat /\ Len(t.node[x].parents) \in Nat
      BY AgreesAt
    <3>3. x = n \/ Len(t.node[n].parents) < Len(t.node[x].parents)
      BY <1>3, <2>1, Upward
    <3> QED
      BY <3>1, <3>2, <3>3
  <2> QED
    BY <1>5, <1>9, <1>11, <2>1, RechainIs
<1> HIDE DEF u
<1>13. /\ WellMade(u) /\ DOMAIN u.node = N /\ u.node[n].parent = par
       /\ \A x \in N \ {n} : u.node[x].parent = t.node[x].parent
  BY <1>9, <1>10, <1>12 DEF Rechained
<1>14. ASSUME NEW x \in N
       PROVE  /\ u.node[x].parents =
                   IF x \in F
                   THEN SubSeq(t.node[x].parents, 1,
                               Len(t.node[x].parents) - Len(t.node[n].parents))
                          \o (<<par>> \o t.node[par].parents)
                   ELSE t.node[x].parents
              /\ u.node[x].children_d =
                   (t.node[x].children_d \ (IF x \in Parents(t, n) THEN F ELSE {}))
                     \cup (IF x = par \/ x \in Parents(t, par) THEN F ELSE {})
              /\ u.node[x].children \in Seq(AllIds) /\ IsInjective(u.node[x].children)
              /\ Range(u.node[x].children) =
                   (Range(t.node[x].children) \ {n}) \cup (IF x = par THEN {n} ELSE {})
  <2>1. /\ u.node[x].children = pre.node[x].children
        /\ u.node[x].children_d = pre.node[x].children_d
        /\ u.node[x].parents =
             IF x \in F
             THEN SubSeq(pre.node[x].parents, 1,
                         Len(pre.node[x].parents) - Len(pre.node[n].parents))
                    \o (<<par>> \o pre.node[par].parents)
             ELSE pre.node[x].parents
    BY <1>9, <1>11, <1>12 DEF Rechained
  <2>2. /\ pre.node[x].parents = t.node[x].parents /\ pre.node[n].parents = t.node[n].parents
        /\ pre.node[par].parents = t.node[par].parents
    BY <1>5, <1>10
  <2>3. /\ t.node[x].children \in Seq(AllIds) /\ IsInjective(t.node[x].children)
        /\ Range(t.node[x].children) = {y \in N \ {TreeRoot} : t.node[y].parent = x}
    BY MadeOf, AgreesAt
  <2>4. /\ u.node[x].children \in Seq(AllIds) /\ IsInjective(u.node[x].children)
        /\ Range(u.node[x].children) =
             (Range(t.node[x].children) \ {n}) \cup (IF x = par THEN {n} ELSE {})
    <3>1. CASE x = par
      <4>1. n \notin Range(kids)
        BY <2>3, <3>1 DEF kids
      <4>2. u.node[x].children = more
        BY <1>10, <2>1, <3>1
      <4> HIDE DEF more
      <4>3. Range(more) = (Range(t.node[x].children) \ {n}) \cup {n}
        BY <1>7, <3>1, <4>1 DEF kids
      <4> QED
        BY <1>7, <3>1, <4>2, <4>3
    <3>2. CASE x # par /\ x = from
      <4>1. u.node[x].children = Others(t, n)
        BY <1>10, <2>1, <3>2
      <4>2. /\ Others(t, n) \in Seq(AllIds) /\ IsInjective(Others(t, n))
            /\ Range(Others(t, n)) = Range(t.node[from].children) \ {n}
        BY Siblinghood DEF from
      <4> QED
        BY <3>2, <4>1, <4>2
    <3>3. CASE x # par /\ x # from
      <4>1. u.node[x].children = t.node[x].children
        BY <1>10, <2>1, <3>3
      <4>2. n \notin Range(t.node[x].children)
        BY <2>3, <3>3 DEF from
      <4> QED
        BY <2>3, <3>3, <4>1, <4>2
    <3> QED
      BY <3>1, <3>2, <3>3
  <2>5. u.node[x].children_d =
          (t.node[x].children_d \ (IF x \in Parents(t, n) THEN F ELSE {}))
            \cup (IF x = par \/ x \in Parents(t, par) THEN F ELSE {})
    BY <1>10, <2>1
  <2> HIDE DEF par, N
  <2> QED
    BY <2>1, <2>2, <2>4, <2>5
<1>15. Moved(t, u, n, par)
  <2>1. n \in N \ {TreeRoot} /\ par \in N \ F
    BY <1>5
  <2> QED
    BY <1>13, <1>14, <2>1 DEF Moved, F
<1> QED
  BY <1>13, <1>15, MovedAgrees DEF u, pre, d

(* A node is moved, to another parent or among its siblings.               *)
LEMMA MoveKeeps ==
  ASSUME NEW t, WellMade(t), Agrees(t), NEW n \in DOMAIN t.node \ {TreeRoot},
         NEW place, place.par \in DOMAIN t.node,
         place.at \in 1..(Len(t.node[place.par].children) + 1),
         check(t, n, place, TRUE)
  PROVE  WellMade(Transplant(t, n, place)) /\ Agrees(Transplant(t, n, place))
<1>1. CASE place.par = t.node[n].parent
  BY <1>1, ReorderKeeps DEF Transplant
<1>2. CASE place.par # t.node[n].parent
  <2>1. place.par \in DOMAIN t.node \ Family(t, n)
    BY DEF check, Family
  <2>2. Transplant(t, n, place) = Rechain(Attach(Detach(t, n), n, place), n, place.par)
    BY <1>2 DEF Transplant
  <2> QED
    BY <1>2, <2>1, <2>2, TransplantKeeps
<1> QED
  BY <1>1, <1>2

\* An edit of the tree, of all that create_node, delete_node, move_node and
\* the load of a loaded node (load_node) do to the lists of the nodes.
Edit(t, u) ==
  \/ \E n \in DOMAIN t.node, id \in AllIds \ DOMAIN t.node,
        pos \in {"before", "after", "first", "last"} :
       LET place == Place(t, n, pos) IN
       u = Attach(Born(t, id, place.par), id, place)
  \/ \E n \in DOMAIN t.node \ {TreeRoot} : u = Drop(Detach(t, n), Family(t, n))
  \/ \E n \in DOMAIN t.node \ {TreeRoot}, m \in DOMAIN t.node,
        pos \in {"before", "after", "first", "last"} :
       LET place == Place(t, m, pos) IN
       check(t, n, place, TRUE) /\ u = Transplant(t, n, place)
  \/ \E n \in DOMAIN t.node : u = Unload(t, n)

(* If parent, parents, children and children_d agree on every node, they   *)
(* still do after any one of create_node, delete_node, move_node and the   *)
(* reload of a node, wherever it goes and whatever is below it.  What the  *)
(* redraw and the checkbox plugin do besides is not written in these.      *)
THEOREM EditsKeepAgreement ==
  ASSUME NEW t, WellMade(t), Agrees(t), NEW u, Edit(t, u)
  PROVE  WellMade(u) /\ Agrees(u)
<1>1. ASSUME NEW n \in DOMAIN t.node, NEW id \in AllIds \ DOMAIN t.node, NEW pos,
             u = Attach(Born(t, id, Place(t, n, pos).par), id, Place(t, n, pos))
      PROVE  WellMade(u) /\ Agrees(u)
  BY <1>1, PlaceIs, CreateKeeps
<1>2. ASSUME NEW n \in DOMAIN t.node \ {TreeRoot}, u = Drop(Detach(t, n), Family(t, n))
      PROVE  WellMade(u) /\ Agrees(u)
  BY <1>2, DeleteKeeps
<1>3. ASSUME NEW n \in DOMAIN t.node \ {TreeRoot}, NEW m \in DOMAIN t.node, NEW pos,
             check(t, n, Place(t, m, pos), TRUE), u = Transplant(t, n, Place(t, m, pos))
      PROVE  WellMade(u) /\ Agrees(u)
  BY <1>3, PlaceIs, MoveKeeps
<1>4. ASSUME NEW n \in DOMAIN t.node, u = Unload(t, n)
      PROVE  WellMade(u) /\ Agrees(u)
  BY <1>4, UnloadKeeps
<1> QED
  BY <1>1, <1>2, <1>3, <1>4 DEF Edit
=============================================================================
