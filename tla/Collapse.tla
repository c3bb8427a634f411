------------------------------ MODULE Collapse ------------------------------
(* Bootstrap's accordion: panels 1..N of one parent in their order on the  *)
(* page, at most one of which the markup has open.  An element's data is   *)
(* an object made when it is first needed; its transitioning flag guards   *)
(* the element only while the element still has that object.  The page's   *)
(* own calls of the plugin are left out, every click is on a link.         *)
EXTENDS Naturals, SequencesExt, FiniteSetsExt

CONSTANTS N, MaxClicks   \* MaxClicks: bound

Panels == 1..N

VARIABLES acc, clicks

lVars == <<acc, clicks>>

LInit ==
  /\ \E open \in SUBSET Panels :
       /\ Cardinality(open) <= 1
       /\ acc = [in |-> open, collapsing |-> {},   \* the classes
                 data    |-> [p \in Panels |-> 0],
                 objects |-> <<>>,   \* [panel, parent, transitioning]
                 waits   |-> <<>>,   \* [panel, object, opens]
                 raced   |-> FALSE]  \* one began to open while one moved that
                                     \* had lost its data
  /\ clicks = 0

\* The constructor; only the options of a link name the parent.
New(a, p, parent) ==
  [a EXCEPT !.objects = Append(@, [panel |-> p, parent |-> parent, transitioning |-> FALSE]),
            !.data[p] = Len(a.objects) + 1]

Begins(a, o, opens) ==
  LET p == a.objects[o].panel IN
  [a EXCEPT !.objects[o].transitioning = TRUE, !.collapsing = @ \cup {p},
            !.waits = Append(@, [panel |-> p, object |-> o, opens |-> opens])]

hide(a, o) ==
  IF a.objects[o].transitioning \/ a.objects[o].panel \notin a.in THEN a
  ELSE Begins([a EXCEPT !.in = @ \ {a.objects[o].panel}], o, FALSE)

\* Plugin.call(actives, "hide").
Hides(a, p) == LET b == IF a.data[p] = 0 THEN New(a, p, FALSE) ELSE a IN
               hide(b, b.data[p])

Actives(a, o) == IF a.objects[o].parent
                 THEN SetToSortSeq(a.in \cup a.collapsing, LAMBDA p, q : p < q)
                 ELSE <<>>
InTransition(a, o) == o # 0 /\ a.objects[o].transitioning

\* The actives close; if the first had no data, they all lose theirs.
Closed(a, actives) ==
  LET b == FoldLeft(Hides, a, actives) IN
  IF actives = <<>> \/ a.data[Head(actives)] # 0 THEN b
  ELSE [b EXCEPT !.data = [p \in Panels |-> IF p \in ToSet(actives) THEN 0 ELSE @[p]]]

Opens(a, o, actives) ==
  Begins([Closed(a, actives) EXCEPT
            !.raced = @ \/ \E p \in a.collapsing : ~InTransition(a, a.data[p])], o, TRUE)

\* A mutant for the runs: show does not wait for another panel.
showAtOnce(a, o) ==
  IF InTransition(a, o) \/ a.objects[o].panel \in a.in THEN a
  ELSE Opens(a, o, Actives(a, o))

show(a, o) ==
  LET actives == Actives(a, o) IN
  IF \/ InTransition(a, o) \/ a.objects[o].panel \in a.in
     \/ actives # <<>> /\ InTransition(a, a.data[Head(actives)])
  THEN a
  ELSE Opens(a, o, actives)

toggle(a, o) == IF a.objects[o].panel \in a.in THEN hide(a, o) ELSE show(a, o)

\* complete of show and of hide.
Completes(a, w) ==
  [a EXCEPT !.objects[w.object].transitioning = FALSE,
            !.collapsing = @ \ {w.panel},
            !.in = IF w.opens THEN @ \cup {w.panel} ELSE @]

\* A click on the link of a panel.
Click(p) ==
  /\ clicks < MaxClicks /\ clicks' = clicks + 1
  /\ LET a == IF acc.data[p] = 0 THEN New(acc, p, TRUE) ELSE acc IN
     acc' = toggle(a, a.data[p])

\* The transition of a panel ends.
End(p) ==
  LET There(w) == w.panel = p IN
  /\ \E i \in DOMAIN acc.waits : There(acc.waits[i])
  /\ acc' = FoldLeft(Completes, [acc EXCEPT !.waits = SelectSeq(@, LAMBDA w : ~There(w))],
                     SelectSeq(acc.waits, There))
  /\ UNCHANGED clicks

LNext == \E p \in Panels : Click(p) \/ End(p)

LSpec == LInit /\ [][LNext]_lVars

(* When nothing moves, at most one panel of the accordion is open, unless  *)
(* one began to open while another moved that had lost its data, and with  *)
(* it the flag that guards it.  A panel that the markup opened loses it    *)
(* when it closes the first time, and a panel beside it may, too.          *)
OneIsOpen ==
  acc.waits = <<>> =>
    /\ acc.collapsing = {}
    /\ acc.raced \/ Cardinality(acc.in) <= 1
=============================================================================
