------------------------------ MODULE Dialogs ------------------------------
(* Bootstrap's modal dialogs: several of them share the body of the page,  *)
(* its scrollbar and the trap of the focus, and each brings a backdrop of  *)
(* its own.  A handler of one('bsTransitionEnd') waits for the end of a    *)
(* transition of its element; the emulated end comes when the browser's    *)
(* does not, and whichever is first runs all handlers that wait there.     *)
(* Padding against overflow, resize, and the shown event are left out.     *)
EXTENDS Naturals, SequencesExt

CONSTANTS Modals, Nobody, MaxOps   \* MaxOps: bound, calls and clicks

VARIABLES style,   \* of each dialog: whether it fades, and its backdrop option
          dlg,     \* the dialogs and the body
          ops

dVars == <<style, dlg, ops>>

None == [m \in Modals |-> FALSE]

DInit ==
  /\ style \in [Modals -> [fade : BOOLEAN, backdrop : {"none", "closes", "static"}]]
  /\ dlg = [shown |-> None, there |-> None,   \* isShown; the element is displayed
            drop  |-> [m \in Modals |-> 0],   \* $backdrop
            pad0  |-> [m \in Modals |-> 0],   \* originalBodyPad
            ignore |-> None,                  \* ignoreBackdropClick
            asks  |-> {}, back |-> {},        \* waiting to give the focus back,
                                              \* once shown and once hidden
            open  |-> FALSE, pad |-> 0,       \* the body: modal-open, padding
            trap  |-> Nobody,                 \* whose focusin handler is on
            drops |-> {}, made |-> 0,         \* backdrops in the page; made so far
            waits |-> {}, clock |-> 0,        \* handlers, by when they were added
            due   |-> {},                     \* those of the transition that ended
            stack |-> <<>>,                   \* shown and not hidden yet, in order,
                                              \* as long as none was crossed
            hasty |-> FALSE,       \* one was shown again before it was hidden
            crossed |-> FALSE,     \* hidden in another order than they were shown
            early |-> FALSE]       \* one was hidden before it was displayed
  /\ ops = 0

Wait(d, id, m, does) == [drop |-> id, m |-> m, does |-> does, at |-> d.clock]
Later(d, id, m, does) ==
  [d EXCEPT !.waits = @ \cup {Wait(d, id, m, does)}, !.clock = @ + 1]
Awaits(d, m, whats) == \E w \in d.waits : w.m = m /\ w.does \in whats

(********************************* the code ********************************)
\* The focus is taken away from other dialogs.
enforceFocus(d, m) == [d EXCEPT !.trap = m]

\* The callback of show, when the backdrop is there.
Displayed(d, m) == enforceFocus([d EXCEPT !.there[m] = TRUE], m)

\* The callback of hideModal: the body as this dialog found it.
Hidden(d, m) ==
  [d EXCEPT !.open = FALSE, !.pad = d.pad0[m], !.back = @ \ {m},
            !.crossed = @ \/ (d.stack # <<>> /\ Last(d.stack) # m),
            !.stack = IF @ = <<>> THEN @ ELSE Front(@)]

Then(d, m, does) == IF does = "display" THEN Displayed(d, m) ELSE Hidden(d, m)

\* The backdrop goes, with every handler on it.
removeBackdrop(d, m) ==
  IF d.drop[m] = 0 THEN d
  ELSE [d EXCEPT !.drops = @ \ {d.drop[m]}, !.drop[m] = 0,
                 !.waits = {w \in @ : w.drop # d.drop[m]}]

\* Brings the backdrop of a dialog that is shown, and takes that of one that
\* is not.
backdrop(d, m, does) ==
  LET id == d.made + 1
      e  == [d EXCEPT !.made = id, !.drop[m] = id, !.drops = @ \cup {id}] IN
  IF d.shown[m] /\ style[m].backdrop # "none"
  THEN IF style[m].fade THEN Later(e, id, m, does) ELSE Then(e, m, does)
  ELSE IF ~d.shown[m] /\ d.drop[m] # 0
  THEN IF style[m].fade THEN Later(d, d.drop[m], m, "remove")
       ELSE Then(removeBackdrop(d, m), m, does)
  ELSE Then(d, m, does)

hideModal(d, m) == backdrop([d EXCEPT !.there[m] = FALSE], m, "hidden")

\* A long page has a scrollbar, unless a dialog is open: the padding takes
\* its place.
Opened(d, m) ==
  [d EXCEPT !.shown[m] = TRUE, !.open = TRUE, !.pad0[m] = d.pad,
            !.pad = IF d.open THEN @ ELSE @ + 1,
            !.stack = Append(@, m),
            !.hasty = @ \/ Awaits(d, m, {"hideModal", "remove"})]

\* The show event is triggered before show looks whether the dialog is shown.
Asked(d, m) == IF m \in d.asks
               THEN [d EXCEPT !.asks = @ \ {m}, !.back = @ \cup {m}] ELSE d

\* A mutant for the runs: show does not look whether the dialog is shown.
showAgain(d, m) == backdrop(Opened(Asked(d, m), m), m, "display")

show(d, m) == IF d.shown[m] THEN Asked(d, m)
              ELSE backdrop(Opened(Asked(d, m), m), m, "display")

hide(d, m) ==
  LET e == [d EXCEPT !.shown[m] = FALSE, !.trap = Nobody,
                     !.early = @ \/ Awaits(d, m, {"display"})] IN
  IF ~d.shown[m] THEN d
  ELSE IF style[m].fade THEN Later(e, 0, m, "hideModal") ELSE hideModal(e, m)

toggle(d, m) == IF d.shown[m] THEN hide(d, m) ELSE show(d, m)

Handle(d, w) ==
  CASE w.does = "hideModal" -> hideModal(d, w.m)
    [] w.does = "remove"    -> Hidden(removeBackdrop(d, w.m), w.m)
    [] OTHER                -> Then(d, w.m, w.does)

(******************************** the actions ******************************)
Op(d) == /\ dlg.due = {} /\ ops < MaxOps /\ ops' = ops + 1 /\ dlg' = d /\ UNCHANGED style

Show(m) == Op(show(dlg, m))
\* Also a dismiss button, and the escape key.
Hide(m) == Op(hide(dlg, m))

\* A link with data-toggle wants the focus back from the dialog it shows.
Toggle(m) == Op(toggle([dlg EXCEPT !.asks = @ \cup {m}], m))

\* The mouse is pressed inside of the dialog and let go outside.
Drag(m) == /\ dlg.shown[m] /\ dlg.there[m]
           /\ Op([dlg EXCEPT !.ignore[m] = TRUE])

ClickBackdrop(m) ==
  /\ dlg.shown[m] /\ dlg.there[m] /\ style[m].backdrop # "none"
  /\ Op(IF dlg.ignore[m] THEN [dlg EXCEPT !.ignore[m] = FALSE]
        ELSE IF style[m].backdrop = "static" THEN dlg ELSE hide(dlg, m))

\* A transition ends.  That of a backdrop is the shortest, so it ends before
\* what began later.
End(id, m) ==
  LET its  == {w \in dlg.waits : w.drop = id /\ (id = 0 => w.m = m)}
      rest == dlg.waits \ its IN
  /\ dlg.due = {}
  /\ \E w \in its : \A v \in rest : v.at < w.at => v.drop = 0
  /\ dlg' = [dlg EXCEPT !.waits = rest, !.due = its,
                        !.clock = IF rest = {} THEN 0 ELSE @]
  /\ UNCHANGED <<style, ops>>

\* The handlers that waited for it run, the oldest first, also those that
\* are taken off meanwhile.
Run(w) ==
  /\ \A v \in dlg.due : w.at <= v.at
  /\ dlg' = Handle([dlg EXCEPT !.due = @ \ {w}], w)
  /\ UNCHANGED <<style, ops>>

DNext ==
  \/ \E m \in Modals : Show(m) \/ Hide(m) \/ Toggle(m) \/ Drag(m) \/ ClickBackdrop(m)
  \/ \E m \in Modals : \E id \in {0, dlg.drop[m]} \cup dlg.drops : End(id, m)
  \/ \E w \in dlg.due : Run(w)

DSpec == DInit /\ [][DNext]_dVars

(******************************** properties *******************************)
(* When no transition is under way, a dialog is displayed exactly while it *)
(* is shown, the page has exactly the backdrops of those that are shown,   *)
(* and when none is, the body is as it was and nobody waits for the focus. *)
(* A dialog shown again while it fades out breaks that; the padding stays  *)
(* when dialogs close in another order than they opened, and the trap of   *)
(* the focus when one is hidden before it is displayed.                    *)
DialogsLeaveNothing ==
  dlg.waits = {} /\ dlg.due = {} /\ ~dlg.hasty =>
    /\ dlg.there = dlg.shown
    /\ dlg.drops = {dlg.drop[m] : m \in {n \in Modals : dlg.shown[n] /\
                                                  style[n].backdrop # "none"}}
    /\ dlg.shown = None =>
         /\ ~dlg.open /\ dlg.back = {}
         /\ dlg.crossed \/ dlg.pad = 0
         /\ dlg.early \/ dlg.trap = Nobody
=============================================================================
