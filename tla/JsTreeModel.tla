----------------------------- MODULE JsTreeModel ----------------------------
(* The model of a jstree: the nodes it knows with their lists, and the     *)
(* selection, kept twice: in the nodes (on) and as a list (list).  A list  *)
(* of descendants is a set here: two entries of one id are one.  three     *)
(* says whether the checkbox plugin is there.                              *)
EXTENDS Naturals, SequencesExt, FiniteSetsExt, Functions, TLC

CONSTANTS TreeRoot, Ids, NewIds, Missing

Blank(p, ps, lazy) ==
  [parent |-> p, parents |-> ps, children |-> <<>>, children_d |-> {},
   loaded |-> ~lazy, loading |-> FALSE, failed |-> FALSE, opened |-> FALSE]

\* What is remembered for the properties.  lost: nodes an answer once pushed
\* out of their parent's lists without taking them out of the model; undone:
\* nodes whose children were edited while the worker had a copy.
Emptied(three, lost, undone) ==
  [node |-> (TreeRoot :> Blank(Missing, <<>>, TRUE)), on |-> {}, list |-> {},
   three |-> three, lost |-> lost, undone |-> undone]

Has(t, n) == n \in DOMAIN t.node
Parents(t, n) == Range(t.node[n].parents)
Family(t, n)  == {n} \cup t.node[n].children_d

is_parent(t, n) == ~t.node[n].loaded \/ t.node[n].children # <<>>
is_closed(t, n) == is_parent(t, n) /\ ~t.node[n].opened

Descend(t, ps, more) ==
  [t EXCEPT !.node = [x \in DOMAIN t.node |->
     IF x \in ps THEN [t.node[x] EXCEPT !.children_d = @ \cup more] ELSE t.node[x]]]
Forget(t, ps, gone) ==
  [t EXCEPT !.node = [x \in DOMAIN t.node |->
     IF x \in ps THEN [t.node[x] EXCEPT !.children_d = @ \ gone] ELSE t.node[x]]]
Drop(t, gone) ==
  [t EXCEPT !.node = Restrict(t.node, DOMAIN t.node \ gone), !.on = @ \ gone]

(***************************** what is parsed ******************************)
\* rows: nodes with their parents, in the order of the data.
RowIds(rows)   == {rows[i].id : i \in 1..Len(rows)}
Picked(rows)   == {rows[i].id : i \in {j \in 1..Len(rows) : rows[j].picked}}
Heads(rows, p) == LET mine == SelectSeq(rows, LAMBDA r : r.parent = p) IN
                  [i \in 1..Len(mine) |-> mine[i].id]

\* The nodes of the rows are put into the model; p does not know them yet.
parse(t, p, rows) ==
  LET RowOf(x)  == CHOOSE r \in Range(rows) : r.id = x
      chain[x \in RowIds(rows)] ==
        IF RowOf(x).parent = p THEN <<p>> \o t.node[p].parents
        ELSE <<RowOf(x).parent>> \o chain[RowOf(x).parent]
      Made(x) == [Blank(RowOf(x).parent, chain[x], RowOf(x).lazy) EXCEPT
                    !.children = Heads(rows, x),
                    !.children_d = {y \in RowIds(rows) : x \in Range(chain[y])}]
  IN [t EXCEPT !.node = [x \in RowIds(rows) |-> Made(x)] @@ t.node,
               !.on = (@ \ RowIds(rows)) \cup Picked(rows)]

\* What comes with or below a lost node is lost.
Lose(t, p, ns) == IF ({p} \cup ns) \cap t.lost # {} THEN ns ELSE {}

\* What the answer's nodes are to p, whose lists were emptied before.
Adopt(t, p, rows) ==
  Descend([t EXCEPT !.node[p] = [@ EXCEPT !.children = Heads(rows, p),
                                          !.children_d = RowIds(rows)],
                    !.lost = @ \cup Lose(t, p, RowIds(rows))],
          Parents(t, p), RowIds(rows))

\* load_node of a node that is loaded, and _append_json_data, which forgets
\* the children without telling the ancestors.
Unload(t, n) ==
  LET gone == t.node[n].children_d IN
  [Drop(Forget(t, Parents(t, n), gone), gone) EXCEPT
     !.list = @ \ gone,
     !.node[n] = [@ EXCEPT !.children = <<>>, !.children_d = {}, !.loaded = FALSE]]
EmptyOut(t, n) ==
  [t EXCEPT !.node[n] = [@ EXCEPT !.children = <<>>, !.children_d = {}],
            !.lost = @ \cup t.node[n].children_d]

(***************************** what is edited ******************************)
\* 0: the parent's list has lost it.
Siblings(t, n) == t.node[t.node[n].parent].children
Position(t, n) == LET kids == Siblings(t, n) IN
  IF n \in Range(kids) THEN CHOOSE i \in 1..Len(kids) : kids[i] = n ELSE 0
Others(t, n)   == LET i == Position(t, n) IN
  IF i = 0 THEN Siblings(t, n) ELSE RemoveAt(Siblings(t, n), i)
\* Where a new child goes: under n, or beside it.
Place(t, n, pos) ==
  IF pos \in {"before", "after"} /\ n # TreeRoot
  THEN [par |-> t.node[n].parent,
        at |-> IF pos = "before" THEN Position(t, n) ELSE Position(t, n) + 1]
  ELSE [par |-> n, at |-> IF pos \in {"first", "before"} THEN 1
                          ELSE Len(t.node[n].children) + 1]

\* A new node, below par but in no list yet.
Born(t, n, par) ==
  [t EXCEPT !.node = [x \in DOMAIN t.node \cup {n} |->
     IF x = n THEN Blank(par, <<par>> \o t.node[par].parents, FALSE) ELSE t.node[x]],
            !.on = @ \ {n}]

Attach(t, n, place) ==
  Descend([t EXCEPT !.node[place.par].children = InsertAt(@, place.at, n),
                    !.lost = @ \cup Lose(t, place.par, Family(t, n))],
          {place.par} \cup Parents(t, place.par), Family(t, n))

\* A mutant for the runs: the ancestors further up keep the node.
DetachFromParentOnly(t, n) ==
  Forget([t EXCEPT !.node[t.node[n].parent].children = Others(t, n)],
         {t.node[n].parent}, Family(t, n))

Detach(t, n) ==
  Forget([t EXCEPT !.node[t.node[n].parent].children = Others(t, n)],
         Parents(t, n), Family(t, n))

Reorder(t, n, place) ==
  LET old == Position(t, n)
      at  == IF old > 0 /\ place.at > old THEN place.at - 1 ELSE place.at
  IN [t EXCEPT !.node[place.par].children = InsertAt(Others(t, n), at, n)]

Rechain(t, n, par) ==
  LET ps  == <<par>> \o t.node[par].parents
      old == Len(t.node[n].parents)
      Cut(s) == SubSeq(s, 1, Len(s) - old)
  IN [t EXCEPT !.node = [x \in DOMAIN t.node |->
        IF x = n THEN [t.node[x] EXCEPT !.parent = par, !.parents = ps]
        ELSE IF x \in t.node[n].children_d
        THEN [t.node[x] EXCEPT !.parents = Cut(@) \o ps] ELSE t.node[x]]]

Transplant(t, n, place) ==
  IF place.par = t.node[n].parent THEN Reorder(t, n, place)
  ELSE Rechain(Attach(Detach(t, n), n, place), n, place.par)

check(t, n, place, moves) ==
  /\ n # place.par /\ place.par \notin t.node[n].children_d
  /\ moves /\ place.par = t.node[n].parent => Position(t, n) # place.at

\* The copy of a node has the children the tree knows, none of them lazy
\* but the first; names gives every node its new id.
CopyRows(t, n, par, names) ==
  LET all == SetToSortSeq({x \in Family(t, n) : Has(t, x)},
                          LAMBDA a, b : Len(t.node[a].parents) < Len(t.node[b].parents))
      RowFor(x) == [id |-> names[x], picked |-> FALSE,
                    parent |-> IF x = n THEN par ELSE names[t.node[x].parent],
                    lazy |-> x = n /\ ~t.node[x].loaded]
  IN [i \in 1..Len(all) |-> RowFor(all[i])]

-----------------------------------------------------------------------------
(* What a tree is made of.                                                 *)
AllIds == Ids \cup NewIds \cup {TreeRoot}
NodeRecords ==
  [parent : AllIds \cup {Missing}, parents : Seq(AllIds), children : Seq(AllIds),
   children_d : SUBSET AllIds, loaded : BOOLEAN, loading : BOOLEAN,
   failed : BOOLEAN, opened : BOOLEAN]
WellMade(t) ==
  /\ DOMAIN t.node \subseteq AllIds
  /\ t \in [node : [DOMAIN t.node -> NodeRecords], on : SUBSET AllIds,
            list : SUBSET AllIds, three : BOOLEAN,
            lost : SUBSET AllIds, undone : SUBSET AllIds]

(* The ways in which the tree is written down agree: the list of a node's  *)
(* parents begins with its parent and goes on with the list of that one,   *)
(* and children and descendants are those that have the node there.        *)
Agrees(t) ==
  LET ns == DOMAIN t.node IN
  /\ TreeRoot \in ns /\ t.node[TreeRoot].parents = <<>>
  /\ \A x \in ns :
       LET n == t.node[x] IN
       /\ n.parents \in Seq(ns) /\ n.children \in Seq(ns)
       /\ x # TreeRoot => n.parents # <<>> /\ n.parent = n.parents[1]
       /\ \A i \in 1..Len(n.parents) :
            t.node[n.parents[i]].parents = SubSeq(n.parents, i + 1, Len(n.parents))
       /\ n.children_d = {y \in ns : x \in Range(t.node[y].parents)}
       /\ IsInjective(n.children)
       /\ Range(n.children) = {y \in ns \ {TreeRoot} : t.node[y].parent = x}
=============================================================================
