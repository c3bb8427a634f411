-------------------------------- MODULE Tips --------------------------------
(* Bootstrap's tooltip of one element, and the popover, which is a tooltip *)
(* that comes with a click: the states it is in, the timers of its delays, *)
(* and the handlers that wait for its fading to end, all of which run at   *)
(* the end of whichever fades first.  The options do not change; the       *)
(* element stays in the page.  Of the placement, the axis along the edge   *)
(* is modelled, in whole units; auto placement, the arrow, the other axis, *)
(* and tips of a selector are left out.                                    *)
EXTENDS Integers, SequencesExt

CONSTANT MaxMoves   \* bound: what the user and the page do

VARIABLES options,   \* trigger, delay and animation
          layout,    \* the element, the tip and the viewport along one axis
          tip, moves

tVars == <<options, layout, tip, moves>>

PopoverTrigger == "click"
Triggers == {"hover focus", "manual", PopoverTrigger}
Layouts  == [pos : {0, 8}, size : {2}, tip : {2, 6}, from : {1}, length : {8},
             padding : {0, 1}, scroll : {1}]

TInit ==
  /\ options \in [trigger : Triggers, delay : BOOLEAN, animation : BOOLEAN]
  /\ layout \in Layouts
  /\ tip = [inState |-> {}, hoverState |-> "null", timeout |-> "none",
            attached |-> FALSE, in |-> FALSE, fade |-> FALSE,
            waits |-> <<>>, enabled |-> TRUE, there |-> TRUE,
            threw |-> FALSE,
            manual |-> FALSE,    \* the page called it, too
            undone |-> FALSE,    \* moved while both its coming and going faded
            late |-> FALSE]      \* came while it was being destroyed
  /\ moves = 0

Awaits(t, what) == \E i \in DOMAIN t.waits : t.waits[i] = what

(******************************* the placement *****************************)
\* getCalculatedOffset, and getViewportAdjustedDelta.
Offset == layout.pos + (layout.size - layout.tip) \div 2
Delta ==
  LET near == Offset - layout.padding - layout.scroll
      far  == Offset + layout.padding - layout.scroll + layout.tip
      end  == layout.from + layout.length IN
  IF near < layout.from THEN layout.from - near
  ELSE IF far > end THEN end - far ELSE 0
Placed == Offset + Delta

(********************************* the code ********************************)
\* complete of hide, and the callback of destroy.
HideCompletes(t, destroys) ==
  LET h == [t EXCEPT !.attached = @ /\ t.hoverState = "in"] IN
  IF destroys THEN [h EXCEPT !.attached = FALSE, !.there = FALSE] ELSE h

hide(t, destroys) ==
  LET h == [t EXCEPT !.in = FALSE] IN
  [(IF h.fade THEN [h EXCEPT !.waits = Append(@, IF destroys THEN "destroyed" ELSE "hidden")]
    ELSE HideCompletes(h, destroys)) EXCEPT !.hoverState = "null"]

Leaves(t) ==
  LET l == [t EXCEPT !.timeout = "none", !.hoverState = "out"] IN
  IF t.inState # {} THEN t
  ELSE IF options.delay THEN [l EXCEPT !.timeout = "hide"] ELSE hide(l, FALSE)

\* complete of show; after destroy the element is null.
ShowCompletes(t) ==
  LET s == [t EXCEPT !.hoverState = "null"] IN
  IF ~t.there THEN [t EXCEPT !.threw = TRUE]
  ELSE IF t.hoverState = "out" THEN Leaves(s) ELSE s

show(t) ==
  LET s == [t EXCEPT !.attached = TRUE, !.in = TRUE, !.fade = options.animation,
                     !.late = @ \/ Awaits(t, "destroyed")] IN
  IF ~t.there THEN [t EXCEPT !.threw = TRUE]
  ELSE IF ~t.enabled THEN t
  ELSE IF s.fade THEN [s EXCEPT !.waits = Append(@, "shown")] ELSE ShowCompletes(s)

Enters(t) ==
  LET e == [t EXCEPT !.timeout = "none", !.hoverState = "in"] IN
  IF t.in \/ t.hoverState = "in" THEN [t EXCEPT !.hoverState = "in"]
  ELSE IF options.delay
  THEN [e EXCEPT !.timeout = "show", !.late = @ \/ Awaits(t, "destroyed")]
  ELSE show(e)

Runs(t, what) ==
  IF t.threw THEN t
  ELSE IF what = "shown" THEN ShowCompletes(t) ELSE HideCompletes(t, what = "destroyed")

(******************************* the actions *******************************)
Moves(t) == /\ moves < MaxMoves /\ tip.there /\ ~tip.threw
            /\ moves' = moves + 1 /\ UNCHANGED <<options, layout>>
            /\ tip' = [t EXCEPT !.undone = @ \/ (Awaits(tip, "shown") /\ Awaits(tip, "hidden"))]

\* mouseenter and focusin, mouseleave and focusout.
enter(why) == /\ options.trigger = "hover focus" /\ why \notin tip.inState
              /\ Moves(Enters([tip EXCEPT !.inState = @ \cup {why}]))
leave(why) == /\ options.trigger = "hover focus" /\ why \in tip.inState
              /\ Moves(Leaves([tip EXCEPT !.inState = @ \ {why}]))

click ==
  /\ options.trigger = "click"
  /\ Moves(IF "click" \in tip.inState
           THEN Leaves([tip EXCEPT !.inState = @ \ {"click"}])
           ELSE Enters([tip EXCEPT !.inState = @ \cup {"click"}]))

\* The plugin's methods.
Method(name) ==
  LET t == [tip EXCEPT !.manual = TRUE] IN
  Moves(CASE name = "show"    -> show(t)
          [] name = "hide"    -> hide(t, FALSE)
          [] name = "toggle"  -> IF t.in THEN Leaves(t) ELSE Enters(t)
          [] name = "disable" -> [t EXCEPT !.enabled = FALSE]
          [] name = "enable"  -> [t EXCEPT !.enabled = TRUE]
          [] name = "destroy" -> hide([t EXCEPT !.timeout = "none"], TRUE))

\* The delay is over.
Timeout ==
  /\ tip.timeout # "none"
  /\ LET t == [tip EXCEPT !.timeout = "none"] IN
     tip' = CASE tip.timeout = "show" /\ tip.hoverState = "in"  -> show(t)
              [] tip.timeout = "hide" /\ tip.hoverState = "out" -> hide(t, FALSE)
              [] OTHER -> t
  /\ UNCHANGED <<options, layout, moves>>

\* The fading ends, for all that wait.
End == /\ tip.waits # <<>>
       /\ tip' = FoldLeft(Runs, [tip EXCEPT !.waits = <<>>], tip.waits)
       /\ UNCHANGED <<options, layout, moves>>

TNext ==
  \/ \E why \in {"hover", "focus"} : enter(why) \/ leave(why)
  \/ click \/ Timeout \/ End
  \/ \E m \in {"show", "hide", "toggle", "enable", "disable", "destroy"} : Method(m)

TSpec == TInit /\ [][TNext]_tVars

(******************************** properties *******************************)
(* When nothing fades and no delay runs, the tip is in the page exactly    *)
(* while the mouse, the focus or a click holds it, if the page itself did  *)
(* not call it.  Who moves while the handlers of its coming and of its     *)
(* going both wait breaks that: they run at one end, and each spoils the   *)
(* hoverState that the other goes by.  A tip in the page lies              *)
(* inside of the viewport if it fits, and nothing runs after destroy if    *)
(* nobody entered meanwhile.                                               *)
TipsComeAndGo ==
  /\ tip.waits = <<>> /\ tip.timeout = "none" /\ ~tip.manual /\ ~tip.undone =>
       /\ tip.attached = (tip.inState # {})
       /\ tip.in = tip.attached
  /\ tip.attached /\ layout.tip + 2 * layout.padding <= layout.length =>
       /\ Placed - layout.scroll >= layout.from + layout.padding
       /\ Placed - layout.scroll + layout.tip
            <= layout.from + layout.length - layout.padding
  /\ tip.threw => tip.late
=============================================================================
