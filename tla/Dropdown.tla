------------------------------ MODULE Dropdown ------------------------------
(* Bootstrap's dropdown menus 1..Menus of a page, in their order, each     *)
(* with its toggle and two items, one of which has an input: clicks, keys, *)
(* and the backdrop that stands in for clicks elsewhere on touch devices.  *)
(* The page's handlers may keep a menu open or closed.                     *)
EXTENDS Naturals, FiniteSets

CONSTANTS Menus, MaxKeys   \* MaxKeys: bound, clicks and keys

AllMenus == 1..Menus
NItems == 2

VARIABLES page,   \* touch; disabled toggles; menus whose events are prevented
          menu, keys

mVars == <<page, menu, keys>>

Nowhere == [menu |-> 0, item |-> 0]
Toggle(i) == [menu |-> i, item |-> 0]

MInit ==
  /\ page \in [touch : BOOLEAN, disabled : {{}, {2}}, keeps : {{}, {1}}, refuses : {{}, {2}}]
  /\ menu = [open |-> {}, backdrop |-> FALSE, focus |-> Nowhere]
  /\ keys = 0

\* clearMenus; within is the menu whose input was clicked, 0 for any other
\* click.  The loop overwrites its event, so the input counts only before the
\* first menu that it closes.
clearMenus(m, within) ==
  [m EXCEPT !.backdrop = FALSE,
            !.open = {i \in @ : i \in page.keeps \/ (i = within /\ \A j \in m.open : i <= j)}]

\* toggle; when it does not stop the click, the document clears the menus.
toggle(m, i) ==
  IF i \in page.disabled \/ (i \notin m.open /\ i \in page.refuses)
  THEN clearMenus(m, 0)
  ELSE IF i \in m.open THEN clearMenus(m, 0)
  ELSE [clearMenus(m, 0) EXCEPT !.open = @ \cup {i}, !.backdrop = page.touch,
                                !.focus = Toggle(i)]

\* An arrow or the space bar in an open menu.
Moved(k, item) ==
  IF item = 0 THEN 1
  ELSE IF k = "up" /\ item > 1 THEN item - 1
  ELSE IF k = "down" /\ item < NItems THEN item + 1 ELSE item

keydown(m, k) ==
  LET i      == m.focus.menu
      active == i \in m.open
      e      == IF k = "escape" THEN [m EXCEPT !.focus = Toggle(i)] ELSE m IN
  IF m.focus.item = 0 /\ i \in page.disabled THEN m
  ELSE IF active = (k = "escape")
  THEN IF m.focus.item = 0 THEN toggle(e, i) ELSE clearMenus(e, 0)
  ELSE IF active THEN [m EXCEPT !.focus.item = Moved(k, @)] ELSE m

Act(m) == keys < MaxKeys /\ keys' = keys + 1 /\ menu' = m /\ UNCHANGED page

Click(i) == Act(toggle(menu, i))
Elsewhere == Act(clearMenus([menu EXCEPT !.focus = Nowhere], 0))
ClickInput(i) == i \in menu.open
                 /\ Act(clearMenus([menu EXCEPT !.focus = Nowhere], i))
Tab(i) == Act([menu EXCEPT !.focus = Toggle(i)])
Key(k) == menu.focus # Nowhere /\ Act(keydown(menu, k))

MNext ==
  \/ \E i \in AllMenus : Click(i) \/ ClickInput(i) \/ Tab(i)
  \/ Elsewhere \/ \E k \in {"up", "down", "space", "escape"} : Key(k)

MSpec == MInit /\ [][MNext]_mVars

(* At most one menu is open besides those that the page keeps open, and a  *)
(* menu that was asked not to open never is; the backdrop is there only    *)
(* with an open menu.                                                      *)
OneMenuIsOpen ==
  /\ Cardinality(menu.open \ page.keeps) <= 1
  /\ menu.open \cap (page.refuses \cup page.disabled) = {}
  /\ menu.backdrop => page.touch /\ menu.open # {}
=============================================================================
