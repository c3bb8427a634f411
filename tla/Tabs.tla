-------------------------------- MODULE Tabs --------------------------------
(* Bootstrap's tabs: the links of a list and their panes.  The link changes *)
(* at once, the pane after the old one has faded.  Menus below a link are   *)
(* left out, and events that a page prevents.                               *)
EXTENDS Naturals, SequencesExt, FiniteSetsExt

CONSTANTS Panes, MaxTaps   \* MaxTaps: bound, clicks

VARIABLES fades,   \* the panes have the class fade
          tabs, taps

bVars == <<fades, tabs, taps>>

BInit ==
  /\ fades \in BOOLEAN
  /\ \E p \in Panes :
       tabs = [links |-> {p}, active |-> {p}, in |-> {p},   \* the classes
               waits |-> <<>>,       \* [on, olds, pane]
               hasty |-> FALSE]      \* a click while a pane faded
  /\ taps = 0

\* next of activate: the panes that were active then, and the new one.
Next(t, w) == [t EXCEPT !.active = (@ \ w.olds) \cup {w.pane},
                        !.in = IF fades THEN @ \cup {w.pane} ELSE @]

\* activate, of the pane; a handler waits on each old one.
Activated(t, p) ==
  LET olds == t.active
      w(o) == [on |-> o, olds |-> olds, pane |-> p] IN
  IF fades /\ olds # {}
  THEN [t EXCEPT !.waits = @ \o SetToSeq({w(o) : o \in olds}), !.in = @ \ olds]
  ELSE [Next(t, [on |-> p, olds |-> olds, pane |-> p]) EXCEPT !.in = @ \ olds]

\* show: nothing happens for the link that is active.
show(p) ==
  /\ taps < MaxTaps /\ taps' = taps + 1
  /\ tabs' = IF p \in tabs.links THEN tabs
             ELSE Activated([tabs EXCEPT !.links = {p},
                                         !.hasty = @ \/ tabs.waits # <<>>], p)
  /\ UNCHANGED fades

\* The old panes have faded, those of one click together.
End(p) ==
  LET first == SelectInSeq(tabs.waits, LAMBDA w : w.on = p)
      There(w) == w.on \in tabs.waits[first].olds IN
  /\ first > 0
  /\ tabs' = FoldLeft(Next, [tabs EXCEPT !.waits = SelectSeq(@, LAMBDA w : ~There(w))],
                      SelectSeq(tabs.waits, There))
  /\ UNCHANGED <<fades, taps>>

BNext == \E p \in Panes : show(p) \/ End(p)

BSpec == BInit /\ [][BNext]_bVars

(* One link is active, and when nothing fades, its pane is; it is the only *)
(* one unless there was a click while a pane faded: both clicks saw the    *)
(* same old pane, and both bring theirs.                                   *)
PaneOfTheLink ==
  /\ Cardinality(tabs.links) = 1
  /\ tabs.waits = <<>> =>
       /\ tabs.links \subseteq tabs.active
       /\ tabs.hasty \/ tabs.active = tabs.links
=============================================================================
