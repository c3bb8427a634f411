------------------------------ MODULE Controls ------------------------------
(* Bootstrap's buttons and alerts.  A button that loads shows another text *)
(* and is disabled, from a task of its own; buttons of a group are radio   *)
(* buttons or checkboxes, whose input the browser changes itself when the  *)
(* click hits it.  An alert fades out and is removed.                      *)
EXTENDS Naturals, Sequences, FiniteSets

CONSTANTS Buttons, MaxPresses   \* MaxPresses: bound

VARIABLES group,   \* "radio" or "checkbox"
          active, checked,      \* the class of a button; its input
          text, resetText, loading, disabled, states,   \* one button: its text,
                                \* the kept one, isLoading; tasks of setState
          alert,   \* "shown", "fading", "gone"; removals that wait
          presses

gVars == <<group, active, checked, text, resetText, loading, disabled, states,
           alert, presses>>

GInit ==
  /\ group \in {"radio", "checkbox"}
  /\ active = {} /\ checked = {}
  /\ text = "save" /\ resetText = "none" /\ loading = FALSE /\ disabled = FALSE
  /\ states = <<>>
  /\ alert = [is |-> "shown", waits |-> 0, closed |-> 0]
  /\ presses = 0

Press == presses < MaxPresses /\ presses' = presses + 1

groupVars == <<active, checked>>
loadVars  == <<text, resetText, loading, disabled, states>>

\* toggle, of a click on the button, or on its input; the browser unchecks
\* the other radio buttons.
toggle(b, onInput) ==
  LET browser == IF ~onInput THEN checked
                 ELSE IF group = "radio" THEN {b}
                 ELSE IF b \in checked THEN checked \ {b} ELSE checked \cup {b}
      new == IF group = "radio" THEN {b}
             ELSE IF b \in active THEN active \ {b} ELSE active \cup {b} IN
  /\ Press
  /\ active' = new
  /\ checked' = IF group = "radio" THEN {b}
                ELSE IF b \in new THEN browser \cup {b} ELSE browser \ {b}
  /\ UNCHANGED <<group, loadVars, alert>>

\* setState: the text to come back to is kept the first time.
setState(state) ==
  /\ Press
  /\ resetText' = IF resetText = "none" THEN text ELSE resetText
  /\ states' = Append(states, state)
  /\ UNCHANGED <<group, groupVars, text, loading, disabled, alert>>

\* The task of setState.
Task ==
  /\ states # <<>> /\ states' = Tail(states)
  /\ text' = IF Head(states) = "loading" THEN "loading" ELSE resetText
  /\ \/ Head(states) = "loading" /\ loading' = TRUE /\ disabled' = TRUE
     \/ Head(states) = "reset" /\ loading /\ loading' = FALSE /\ disabled' = FALSE
     \/ Head(states) = "reset" /\ ~loading /\ UNCHANGED <<loading, disabled>>
  /\ UNCHANGED <<group, groupVars, resetText, alert, presses>>

\* close: a second click while the alert fades waits, too.
close(fades) ==
  /\ Press /\ alert.is # "gone"
  /\ alert' = IF fades THEN [alert EXCEPT !.is = "fading", !.waits = @ + 1]
              ELSE [is |-> "gone", waits |-> 0, closed |-> alert.closed + 1]
  /\ UNCHANGED <<group, groupVars, loadVars>>

\* removeElement, of each that waits: the first takes the handlers along.
removeElement ==
  /\ alert.waits > 0
  /\ alert' = [is |-> "gone", waits |-> 0, closed |-> alert.closed + 1]
  /\ UNCHANGED <<group, groupVars, loadVars, presses>>

GNext ==
  \/ \E b \in Buttons, onInput \in BOOLEAN : toggle(b, onInput)
  \/ \E s \in {"loading", "reset"} : setState(s)
  \/ Task \/ removeElement
  \/ \E fades \in BOOLEAN : close(fades)

GSpec == GInit /\ [][GNext]_gVars

(* A button of a group is active exactly while its input is checked, and   *)
(* one radio button at most; when no task is due, the button that loads is *)
(* disabled, and one that was reset has its own text; an alert is closed   *)
(* at most once.                                                           *)
ControlsAgree ==
  /\ active = checked
  /\ group = "radio" => Cardinality(active) <= 1
  /\ states = <<>> => disabled = loading /\ loading = (text = "loading")
  /\ alert.closed <= 1
=============================================================================
