------------------------------- MODULE JsTree -------------------------------
(* A jstree whose nodes are asked for from the server: the loads under     *)
(* way, the worker that parses an answer into a copy of the model, the     *)
(* answers that queue for it, what waits for several loads, and the user.  *)
(* A step runs until the code returns: it is computed on a record of all   *)
(* variables, the world.                                                   *)
EXTENDS JsTreeModel

CONSTANTS Threads,  \* bound: values of threads
          Threes,   \* bound: three-state checkboxes, or not
          MaxOps    \* bound: what the user does

VARIABLES threads,   \* settings.core.worker, and a browser that has one
          tree,      \* _model and _data.core.selected
          calls,     \* requests: a node and what its load is for
          work, worker_queue,
          groups,    \* _load_nodes: nodes, done, what then
          timers,    \* nodes open_node is called for again
          state,     \* _data.core.state
          excused,   \* nodes that load forever for a reason named below
          ops

jVars == <<threads, tree, calls, work, worker_queue, groups, timers, state,
           excused, ops>>

\* Walked from the root, as the elements are drawn.
RECURSIVE Under(_, _)
Under(t, n) == {n} \cup UNION {Under(t, c) : c \in Range(t.node[n].children)}
Reach(t) == Under(t, TreeRoot)
Shown(t) == {n \in Reach(t) \ {TreeRoot} :
               \A p \in Parents(t, n) \ {TreeRoot} : t.node[p].opened /\ t.node[p].loaded}

(*************************** the checkbox plugin ***************************)
Tick(t, ms)   == [t EXCEPT !.on = @ \cup ms, !.list = @ \cup ms]
Untick(t, ms) == [t EXCEPT !.on = @ \ ms, !.list = @ \ ms]
AllTicked(t, p) == Range(t.node[p].children) \subseteq t.on
Top(t, p) == p = TreeRoot \/ ~Has(t, p)

RECURSIVE Rise(_, _)
Rise(t, p) == IF Top(t, p) \/ ~AllTicked(t, p) THEN t
              ELSE Rise(Tick(t, {p}), t.node[p].parent)

RECURSIVE Settle(_, _)
Settle(t, p) ==
  IF Top(t, p) THEN t
  ELSE IF AllTicked(t, p) THEN Settle(Tick(t, {p}), t.node[p].parent)
  ELSE IF p \in t.on THEN Settle(Untick(t, {p}), t.node[p].parent)
  ELSE t

\* A mutant for the runs: the parent that is left is not looked at.
LeftAlone(t, p) == t

RECURSIVE Left(_, _)
Left(t, p) ==
  IF Top(t, p) \/ p \in t.on \/ t.node[p].children = <<>> \/ ~AllTicked(t, p) THEN t
  ELSE Left(Tick(t, {p}), t.node[p].parent)

onModel(t, par, new) ==
  LET down == IF par \in t.on THEN new
              ELSE UNION {t.node[x].children_d : x \in new \cap t.on}
      ticked == Tick(t, down)
      leaves == {x \in t.node[par].children_d : t.node[x].children = <<>>}
  IN IF ~t.three THEN t
     ELSE FoldSet(LAMBDA p, s : Rise(s, p), ticked, {t.node[x].parent : x \in leaves})

onSelect(t, n) ==
  IF ~t.three THEN t ELSE Rise(Tick(t, t.node[n].children_d), t.node[n].parent)
onDeselect(t, n) ==
  IF ~t.three THEN t ELSE Untick(t, t.node[n].children_d \cup Parents(t, n))
onDelete(t, par) == IF ~t.three THEN t ELSE Left(t, par)
onMove(t, old, new) == IF ~t.three THEN t ELSE Settle(Left(t, old), new)

(********************************* selection *******************************)
select_node(t, n) ==
  IF n \in t.on THEN t ELSE onSelect(Tick(t, {n}), n)
deselect_node(t, n) ==
  IF n \notin t.on THEN t ELSE onDeselect(Untick(t, {n}), n)
select_all(t) ==
  LET all == t.node[TreeRoot].children_d IN
  [t EXCEPT !.list = all, !.on = @ \cup all]
deselect_all(t) == [t EXCEPT !.on = @ \ t.list, !.list = {}]

(******************************** the world ********************************)
Idle == [is |-> "idle"]
\* working is true and nothing works; torn: it stopped amid an Install.
Dead(job, torn) ==
  [is |-> "dead", node |-> job.node, then |-> job.then, torn |-> torn]
NoState == [none |-> TRUE]
Loaded  == [do |-> "nothing"]

World == [tree |-> tree, calls |-> calls, work |-> work, queue |-> worker_queue,
          groups |-> groups, timers |-> timers, state |-> state,
          excused |-> excused, thrown |-> FALSE]
Become(w) ==
  /\ tree' = w.tree /\ calls' = w.calls /\ work' = w.work
  /\ worker_queue' = w.queue /\ groups' = w.groups /\ timers' = w.timers
  /\ state' = w.state /\ excused' = w.excused

JInit ==
  /\ threads \in Threads
  /\ tree \in {[Emptied(three, {}, {}) EXCEPT !.node[TreeRoot].loading = TRUE] :
                three \in Threes}
  /\ calls = <<[node |-> TreeRoot, then |-> Loaded]>> /\ work = Idle
  /\ worker_queue = <<>> /\ groups = <<>> /\ timers = {} /\ state = NoState
  /\ excused = {} /\ ops = 0

Throw(w) == [w EXCEPT !.thrown = TRUE]
Flag(w, n, on) == [w EXCEPT !.tree.node[n].loading = on]

\* A node that is drawn while it is open and not loaded is closed, and
\* opened again from a timer.
redraw(w, ns) ==
  LET half == {n \in ns \cap Shown(w.tree) :
                 w.tree.node[n].opened /\ ~w.tree.node[n].loaded}
  IN [w EXCEPT !.timers = @ \cup half,
        !.tree.node = [n \in DOMAIN w.tree.node |->
           [w.tree.node[n] EXCEPT !.opened = @ /\ n \notin half]]]
redraw_node(w, n) ==
  redraw(w, IF n = TreeRoot THEN DOMAIN w.tree.node ELSE Family(w.tree, n))

load_node(w, n, then) ==
  LET t == IF w.tree.node[n].loaded THEN Unload(w.tree, n) ELSE w.tree IN
  [w EXCEPT !.tree = [t EXCEPT !.node[n] = [@ EXCEPT !.failed = FALSE, !.loading = TRUE]],
            !.calls = Append(@, [node |-> n, then |-> then])]

open_node(w, n, then) ==
  IF ~Has(w.tree, n) \/ n = TreeRoot \/ ~is_closed(w.tree, n) THEN w
  ELSE IF w.tree.node[n].loaded THEN [w EXCEPT !.tree.node[n].opened = TRUE]
  ELSE IF w.tree.node[n].loading THEN [w EXCEPT !.timers = @ \cup {n}]
  ELSE load_node(w, n, then)
Opening == [do |-> "open"]

OpenAllOf(w, ns) == FoldSet(LAMBDA n, v : open_node(v, n, Opening), w, ns)

\* The user sees what he selects: the parents are opened before the plugin
\* hears of it.
select(w, n, prevent_open) ==
  IF ~Has(w.tree, n) \/ n \in w.tree.on THEN w
  ELSE LET v == IF prevent_open THEN w ELSE OpenAllOf(w, Parents(w.tree, n)) IN
       [v EXCEPT !.tree = select_node(@, n)]

close_node(w, n) == [w EXCEPT !.tree.node[n].opened = FALSE]

\* Nodes shown only now are opened in their turn.
RECURSIVE open_all(_, _)
open_all(w, n) ==
  LET closed == {x \in Under(w.tree, n) \cap Shown(w.tree) : is_closed(w.tree, x)}
      v == FoldSet(LAMBDA x, u : open_node(u, x, [do |-> "open_all"]), w, closed)
  IN IF \A x \in closed : ~w.tree.node[x].loaded THEN v ELSE open_all(v, n)

(*************************** what edits the tree ***************************)
create_node(w, n, pos, id, is_loaded) ==
  IF ~Has(w.tree, n) THEN w
  ELSE IF pos \notin {"before", "after"} /\ ~is_loaded /\ ~w.tree.node[n].loaded
  THEN load_node(w, n, [do |-> "create", pos |-> pos, id |-> id])
  ELSE LET place == Place(w.tree, n, pos)
           t == onModel(Born(w.tree, id, place.par), place.par, {id})
       IN redraw_node([w EXCEPT !.tree = Attach(t, id, place)], place.par)

delete_node(w, n) ==
  LET t   == w.tree
      par == t.node[n].parent
      gone == Family(t, n)
      told == onDelete([Detach(t, n) EXCEPT !.list = @ \ gone], par)
  IN redraw_node([w EXCEPT !.tree = Drop(told, gone)], par)

\* Bound: lost nodes are not moved, the code makes cycles of them.
move_node(w, x, n, pos, is_loaded) ==
  IF ~Has(w.tree, n) \/ ~Has(w.tree, x) \/ {n, x} \cap w.tree.lost # {} THEN w
  ELSE IF pos \notin {"before", "after"} /\ ~is_loaded /\ ~w.tree.node[n].loaded
  THEN load_node(w, n, [do |-> "move", id |-> x, pos |-> pos])
  ELSE LET place == Place(w.tree, n, pos)
           old   == w.tree.node[x].parent
           moved == [w EXCEPT !.tree = Transplant(@, x, place)]
       IN IF ~check(w.tree, x, place, TRUE) THEN w
          ELSE LET v == redraw_node(redraw_node(moved, old), place.par) IN
               [v EXCEPT !.tree = onMove(@, old, place.par)]

copy_node(w, x, n, pos, names, is_loaded) ==
  IF ~Has(w.tree, n) \/ ~Has(w.tree, x) THEN w
  ELSE IF pos \notin {"before", "after"} /\ ~is_loaded /\ ~w.tree.node[n].loaded
  THEN load_node(w, n, [do |-> "copy", id |-> x, pos |-> pos, names |-> names])
  ELSE LET place == Place(w.tree, n, pos)
           rows  == CopyRows(w.tree, x, place.par, names)
           t == onModel(parse(w.tree, place.par, rows), place.par, RowIds(rows))
       IN IF ~check(w.tree, x, place, FALSE) \/ ~Family(w.tree, x) \subseteq DOMAIN names
          THEN w
          ELSE redraw_node([w EXCEPT !.tree = Attach(t, names[x], place)], place.par)

(**************************** what loads nodes *****************************)
Unloaded(w, ns) == {n \in ns : Has(w.tree, n) /\ ~w.tree.node[n].loaded}
Due(w, ns)      == {n \in Unloaded(w, ns) : ~w.tree.node[n].failed}

RECURSIVE _load_nodes(_, _, _), Then(_, _, _), load_all(_, _), set_state(_, _)

\* Nodes somebody else loads are waited for, but nobody says when they are
\* there: the group is excused.
_load_nodes(w, g, force) ==
  LET due  == Due(w, w.groups[g].nodes)
               \cup (IF force THEN {n \in w.groups[g].nodes : Has(w.tree, n)} ELSE {})
      idle == {n \in due : ~w.tree.node[n].loading}
      v == FoldSet(LAMBDA n, u : IF Has(u.tree, n)
                                 THEN load_node(u, n, [do |-> "group", g |-> g]) ELSE u,
                   w, idle)
      mine == {n \in due : \E i \in 1..Len(v.calls) :
                 v.calls[i].node = n /\ v.calls[i].then = [do |-> "group", g |-> g]}
  IN IF due # {} THEN [v EXCEPT !.groups[g].excused = @ \/ due \ mine # {}]
     ELSE IF w.groups[g].done THEN w
     ELSE Then([w EXCEPT !.groups[g].done = TRUE], w.groups[g].then,
               {n \in w.groups[g].nodes : Has(w.tree, n) /\ w.tree.node[n].loaded})

Group(w, ns, then, force) ==
  LET v == [w EXCEPT !.groups =
              Append(@, [nodes |-> ns, then |-> then, done |-> FALSE, excused |-> FALSE])]
  IN _load_nodes(v, Len(v.groups), force)

\* A node that failed is never loaded and never due: the function calls
\* itself until the stack is full.
load_all(w, n) ==
  LET todo == Unloaded(w, Family(w.tree, n)) IN
  IF todo = {} THEN w
  ELSE IF Due(w, todo) = {} THEN Throw(w)
  ELSE Group(w, todo, [do |-> "load_all", node |-> n], FALSE)

\* The nodes that were open, then the selection.
set_state(w, st) ==
  IF st.open # {} THEN Group(w, st.open, [do |-> "set_state", st |-> st], FALSE)
  ELSE FoldSet(LAMBDA n, v : select(v, n, TRUE),
               [w EXCEPT !.tree = deselect_all(@)], st.selected)

\* then, for the nodes a group waited for.
Then(w, then, ns) ==
  CASE then.do = "load_all"  -> IF Has(w.tree, then.node) THEN load_all(w, then.node) ELSE w
    [] then.do = "set_state" -> set_state(OpenAllOf(w, ns), [then.st EXCEPT !.open = {}])
    [] then.do = "refresh_node" ->
         FoldSet(LAMBDA n, v : select(v, n, FALSE), OpenAllOf(w, then.opened), then.selected)

\* load_node's callback.
Called(w, n, ok, then) ==
  LET t == [w.tree EXCEPT !.node[n] =
             [@ EXCEPT !.loading = FALSE, !.loaded = ok, !.failed = ~ok]]
      v == [w EXCEPT !.tree = t]
  IN CASE then.do = "nothing"  -> v
       [] then.do = "open"     -> IF ok THEN open_node(v, n, Opening) ELSE v
       [] then.do = "open_all" -> IF ok THEN open_all(open_node(v, n, Opening), n) ELSE v
       [] then.do = "create"   -> create_node(v, n, then.pos, then.id, TRUE)
       [] then.do = "move"     -> move_node(v, then.id, n, then.pos, TRUE)
       [] then.do = "copy"     -> copy_node(v, then.id, n, then.pos, then.names, TRUE)
       [] then.do = "group"    -> _load_nodes(v, then.g, FALSE)
       [] then.do = "refresh"  ->
            [(IF ok /\ v.state # NoState THEN set_state(v, v.state) ELSE v)
               EXCEPT !.state = NoState]

(******************************* the worker ********************************)
\* What the worker or the function itself makes of the rows, put in place
\* of the model (rslt).
Install(w, t, p, rows) ==
  LET now == w.tree
      Still(x) == t.node[x].loading \/ (Has(now, x) /\ now.node[x].loading)
      own == Picked(rows)
      deselected == (t.list \ own) \ now.list
      selected   == now.list \ t.list
      undone == {x \in DOMAIN t.node \ RowIds(rows) :
                   \/ ~Has(now, x)
                   \/ now.node[x].children # IF x = p THEN <<>> ELSE t.node[x].children}
      u == [t EXCEPT !.node = [x \in DOMAIN t.node |->
                                 [t.node[x] EXCEPT !.loading = Still(x)]],
                     !.on = (@ \ deselected) \cup selected, !.list = now.list \cup own,
                     !.undone = @ \cup undone]
      told == onModel(u, p, RowIds(rows))
  IN IF ~selected \subseteq DOMAIN t.node
     THEN Throw([w EXCEPT !.tree = [u EXCEPT !.on = @ \cap DOMAIN t.node,
                                             !.list = now.list],
                          !.work = Dead(@, TRUE)])
     ELSE redraw_node([w EXCEPT !.tree = told], p)

\* A mutant for the runs: the selection is the one of the copy.
InstallCopy(w, t, p, rows) ==
  LET u == [t EXCEPT !.list = @ \cup Picked(rows)] IN
  redraw_node([w EXCEPT !.tree = onModel(u, p, RowIds(rows))], p)

\* The model is copied when the worker gets it.
Post(w, job) == [w EXCEPT !.work = [is |-> "busy", tree |-> w.tree,
                                    node |-> job.node, then |-> job.then]]

_append_json_data(w, job, rows) ==
  LET v == [w EXCEPT !.tree = EmptyOut(@, job.node)] IN
  IF ~threads
  THEN Called(Install(v, Adopt(parse(v.tree, job.node, rows), job.node, rows),
                      job.node, rows), job.node, TRUE, job.then)
  ELSE IF w.work = Idle THEN Post(v, job)
  ELSE [v EXCEPT !.queue = Append(@, job)]

\* Ids the answers may bring: the server knows each node once.
Free(t, p) == Ids \ (Reach(t) \cup {p} \cup Parents(t, p))
Row(x, p, lazy, picked) == [id |-> x, parent |-> p, lazy |-> lazy, picked |-> picked]
Answers(t, p) ==
  {<<>>}
  \cup {<<Row(x, p, lazy, picked)>> : x \in Free(t, p), lazy \in BOOLEAN, picked \in BOOLEAN}
  \cup UNION {{<<Row(s[1], p, FALSE, FALSE), Row(s[2], q, TRUE, picked)>> :
                q \in {p, s[1]}, picked \in BOOLEAN} :
             s \in {r \in Free(t, p) \X Free(t, p) : r[1] # r[2]}}
\* An answer that is no data, or one for a node that is gone, which throws:
\* a group never hears of it.
Excuse(w, then) == IF then.do = "group" THEN [w EXCEPT !.groups[then.g].excused = TRUE]
                   ELSE w

Fails(i) ==
  LET call == calls[i]
      w == [World EXCEPT !.calls = RemoveAt(@, i)]
  IN /\ UNCHANGED <<threads, ops>>
     /\ Become(IF Has(tree, call.node) THEN Called(w, call.node, FALSE, call.then)
               ELSE Excuse(w, call.then))

Answered(i) ==
  LET call == calls[i]
      w == [World EXCEPT !.calls = RemoveAt(@, i)]
  IN /\ UNCHANGED <<threads, ops>>
     /\ IF ~Has(tree, call.node) THEN Become(Excuse(w, call.then))
        ELSE IF threads THEN Become(_append_json_data(w, call, <<>>))
        ELSE \E rows \in Answers(tree, call.node) :
               Become(_append_json_data(w, call, rows))

\* A mutant for the runs: what waits is left to the next answer.
NextIsLater(w) == [w EXCEPT !.work = IF w.thrown THEN Dead(@, FALSE) ELSE Idle]

\* An error in onmessage, be it that the next job's node is gone, leaves the
\* worker working.
Next(w) ==
  IF w.thrown THEN [w EXCEPT !.work = Dead(@, FALSE)]
  ELSE IF w.queue = <<>> THEN [w EXCEPT !.work = Idle]
  ELSE LET job == Head(w.queue)
           v   == [w EXCEPT !.queue = Tail(@)]
       IN IF Has(w.tree, job.node)
          THEN Post([v EXCEPT !.tree = EmptyOut(@, job.node)], job)
          ELSE [v EXCEPT !.work = Dead(job, FALSE)]

Worked ==
  LET job == work IN
  /\ work.is = "busy" /\ UNCHANGED <<threads, ops>>
  /\ \E rows \in Answers(job.tree, job.node) :
     \E t \in {Adopt(parse(job.tree, job.node, rows), job.node, rows)} :
       LET deaf == {x \in DOMAIN t.node : t.node[x].loading /\ x # job.node
                                          /\ ~(Has(tree, x) /\ tree.node[x].loading)}
           v == Install([World EXCEPT !.excused = @ \cup deaf], t, job.node, rows)
       IN Become(IF v.thrown THEN v ELSE Next(Called(v, job.node, TRUE, job.then)))

\* A row whose parent is unknown: nobody listens to the worker's error.
WorkerThrows ==
  /\ work.is = "busy" /\ Free(work.tree, work.node) # {}
  /\ Become([World EXCEPT !.work = Dead(@, FALSE)]) /\ UNCHANGED <<threads, ops>>

Timer(n) ==
  /\ n \in timers /\ UNCHANGED <<threads, ops>>
  /\ Become(open_node([World EXCEPT !.timers = @ \ {n}], n, Opening))

(******************************** the user *********************************)
\* What he may act on, as long as he does anything.
Places == IF ops < MaxOps THEN Reach(tree) ELSE {}
Nodes  == Places \ {TreeRoot}
\* Ids for new nodes, none of them promised to a load.
Fresh == LET later == Range([i \in 1..Len(calls) |-> calls[i].then])
                      \cup Range([i \in 1..Len(worker_queue) |-> worker_queue[i].then])
                      \cup (IF work.is = "busy" THEN {work.then} ELSE {})
         IN (NewIds \ DOMAIN tree.node)
            \ (UNION {IF x.do = "create" THEN {x.id}
                      ELSE IF x.do = "copy" THEN Range(x.names) ELSE {} : x \in later}
               \cup (IF work.is = "busy" THEN DOMAIN work.tree.node ELSE {}))

Does(w) == ops < MaxOps /\ ops' = ops + 1 /\ UNCHANGED threads /\ Become(w)

toggle_node(n) == Does(IF is_closed(tree, n) THEN open_node(World, n, Opening)
                       ELSE close_node(World, n))
openAll == Does(open_all(World, TreeRoot))
close_all == Does([World EXCEPT !.tree.node =
    [x \in DOMAIN tree.node |-> [tree.node[x] EXCEPT !.opened = FALSE]]])
activate_node(n, adds) ==
  LET w == World IN
  Does(IF adds \/ tree.three
       THEN IF n \in tree.on THEN [w EXCEPT !.tree = deselect_node(@, n)]
            ELSE select(w, n, FALSE)
       ELSE select([w EXCEPT !.tree = deselect_all(@)], n, FALSE))
selectAll == Does(redraw_node([World EXCEPT !.tree = select_all(@)], TreeRoot))
create(n, pos) == \E id \in Fresh : Does(create_node(World, n, pos, id, FALSE))
delete(n) == Does(delete_node(World, n))
move(x, n, pos) == Does(move_node(World, x, n, pos, FALSE))
copy(x, n, pos) ==
  \E names \in [Family(tree, x) -> Fresh] :
    IsInjective(names) /\ Does(copy_node(World, x, n, pos, names, FALSE))
loadAll == Does(load_all(World, TreeRoot))
reload(n) == Does(load_node(World, n, Loaded))
refresh ==
  LET known == DOMAIN tree.node \ {TreeRoot} IN
  Does(load_node([World EXCEPT
         !.state = [open |-> {n \in known : tree.node[n].opened},
                    selected |-> tree.on],
         !.tree = Emptied(tree.three, tree.lost, tree.undone)], TreeRoot, [do |-> "refresh"]))
refresh_node(n) ==
  LET open == {x \in Under(tree, n) \cap Shown(tree) : tree.node[x].opened} IN
  Does(Group(World, {n} \cup open,
             [do |-> "refresh_node", selected |-> tree.list, opened |-> open], TRUE))

JNext ==
  \/ \E i \in 1..Len(calls) : Fails(i) \/ Answered(i)
  \/ Worked \/ WorkerThrows
  \/ \E n \in timers : Timer(n)
  \/ openAll \/ close_all \/ selectAll \/ loadAll \/ refresh
  \/ \E n \in Nodes : \/ toggle_node(n) \/ delete(n) \/ reload(n) \/ refresh_node(n)
                      \/ \E adds \in BOOLEAN : activate_node(n, adds)
  \/ \E n \in Places, pos \in {"before", "after", "first", "last"} :
       \/ create(n, pos)
       \/ \E x \in Nodes : move(x, n, pos) \/ copy(x, n, pos)

JSpec == JInit /\ [][JNext]_jVars

Symmetry == Permutations(Ids)
-----------------------------------------------------------------------------
\* The worker's answer threw when the copy was in place and the selection,
\* which has a node that the copy does not know, was not.
Torn == work.is = "dead" /\ work.torn

(* However loads, edits and the worker meet, what the root reaches is a    *)
(* tree that its four ways of being written down agree on, but for nodes   *)
(* that a second answer, or a copy's, pushed out of their parent's lists   *)
(* (lost), which a move may bring back without their ancestors noticing;   *)
(* no list names a node that is gone; and the selected nodes are those     *)
(* that say so, unless the tree is torn.                                   *)
ModelIsATree ==
  LET t == tree
      there == Reach(t)
  IN /\ \A n \in there :
          LET kids == SelectSeq(t.node[n].children, LAMBDA c : c \notin t.lost) IN
          /\ IsInjective(kids) /\ t.node[n].children_d \subseteq DOMAIN t.node
          /\ \A c \in Range(kids) : /\ t.node[c].parent = n
                                    /\ t.node[c].parents = <<n>> \o t.node[n].parents
          /\ (t.node[n].children_d \cap there) \ t.lost
                = Under(t, n) \ ({n} \cup t.lost)
     /\ t.lost = {} => WellMade(t) /\ Agrees(t)
     /\ ~Torn => (t.list \cap there) \ t.lost = (t.on \cap there) \ t.lost

(* A node with children is ticked if and only if all of them are, but for  *)
(* a node whose children were edited while the worker had a copy, which    *)
(* brings them back as they were and does not look at their ticks          *)
(* (undone); a node that is lost, or has such a child; and every node once *)
(* the tree is torn.  No node is created selected here.                    *)
ThreeState ==
  tree.three /\ ~Torn =>
    \A n \in Reach(tree) \ ({TreeRoot} \cup tree.undone) :
      LET kids == Range(tree.node[n].children) IN
      kids # {} /\ ({n} \cup kids) \cap tree.lost = {} =>
        (n \in tree.on <=> kids \subseteq tree.on)

(* When no answer, timer or parsing is under way, nothing waits but for    *)
(* four reasons: a node says that it loads since the worker's copy, older  *)
(* than its answer, was put in place; a group wants a node that another    *)
(* load brings; the node a group asked for was gone when the answer came   *)
(* (excused, all three); or the worker is dead, and what waits is the job  *)
(* it died of or stands in its queue.                                      *)
QuietMeansDone ==
  calls = <<>> /\ timers = {} /\ work.is # "busy" =>
    LET stuck == IF work = Idle THEN {} ELSE {work} \cup Range(worker_queue) IN
    /\ work = Idle => worker_queue = <<>>
    /\ \A n \in DOMAIN tree.node \ excused :
         tree.node[n].loading => \E job \in stuck : job.node = n
    /\ \A g \in 1..Len(groups) :
         \/ groups[g].done \/ groups[g].excused
         \/ \E job \in stuck : job.then = [do |-> "group", g |-> g]
=============================================================================
