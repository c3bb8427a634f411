------------------------------ MODULE Carousel ------------------------------
(* Bootstrap's carousel of items 0..Items - 1: sliding, by the user, the   *)
(* page or the clock, with calls of to() that wait for the slid event, and *)
(* the clock that pauses under the mouse.  Indicators, touch devices, the  *)
(* bubbling of the pause's own transition end, which reaches no handler,   *)
(* and slides that a page prevents are left out.                           *)
EXTENDS Integers, SequencesExt, FiniteSetsExt

CONSTANTS Items, MaxActs   \* MaxActs: bound

VARIABLES setup,   \* options wrap and interval; whether it is animated
          car, acts

sVars == <<setup, car, acts>>

SInit ==
  /\ setup \in [wrap : BOOLEAN, clock : BOOLEAN, slide : BOOLEAN]
  /\ car = [active |-> {0}, sliding |-> FALSE,
            slides |-> <<>>,      \* [old, new]: handlers that wait on the old item
            interval |-> setup.clock, paused |-> FALSE,
            hovers |-> FALSE,
            slids |-> 0,          \* slid events due
            tos |-> <<>>,         \* calls of to that wait for one
            woken |-> FALSE]      \* the clock was started under the mouse
  /\ acts = 0

Active(c) == CHOOSE i \in c.active : TRUE

\* pause() and cycle() without an event.
pause(c) == [c EXCEPT !.paused = TRUE, !.interval = FALSE]
cycle(c) == [c EXCEPT !.paused = FALSE, !.interval = setup.clock]

getItemForDirection(c, direction) ==
  LET i == Active(c)
      willWrap == IF direction = "prev" THEN i = 0 ELSE i = Items - 1 IN
  IF willWrap /\ ~setup.wrap THEN i
  ELSE (i + (IF direction = "prev" THEN Items - 1 ELSE 1)) % Items

\* slide: it stops the clock and starts it again, if it ran.
slide(c, next) ==
  LET s == IF c.interval THEN cycle(pause(c)) ELSE c IN
  IF next \in c.active THEN [c EXCEPT !.sliding = FALSE]
  ELSE IF setup.slide THEN [s EXCEPT !.sliding = TRUE,
                                     !.slides = Append(@, [old |-> Active(c), new |-> next])]
  ELSE [s EXCEPT !.active = {next}, !.slids = @ + 1]

to(c, pos) ==
  IF pos \notin 0..(Items - 1) THEN c
  ELSE IF c.sliding THEN [c EXCEPT !.tos = Append(@, pos)]
  ELSE IF pos \in c.active
  THEN [cycle(pause(c)) EXCEPT !.woken = @ \/ c.hovers]
  ELSE slide(c, pos)

Act(c) == acts < MaxActs /\ acts' = acts + 1 /\ car' = c /\ UNCHANGED setup

\* next and prev, of the keyboard, of the arrows, and of the clock.
Turn(direction) ==
  Act(IF car.sliding THEN car ELSE slide(car, getItemForDirection(car, direction)))
Tick == car.interval /\ Turn("next")

To(pos) == Act(to(car, pos))

\* The mouse; cycle with an event does not end a pause of the page.
Enter == ~car.hovers /\ Act([car EXCEPT !.hovers = TRUE, !.interval = FALSE])
Leave == /\ car.hovers
         /\ Act([car EXCEPT !.hovers = FALSE, !.woken = FALSE,
                            !.interval = setup.clock /\ ~car.paused])

Pause == Act(pause(car))
Cycle == Act([cycle(car) EXCEPT !.woken = @ \/ car.hovers])

\* The end of the transition of an old item; slid comes later.
Slides(c, w) == [c EXCEPT !.active = (@ \cup {w.new}) \ {w.old}, !.sliding = FALSE,
                          !.slids = @ + 1]
End(i) ==
  LET There(w) == w.old = i IN
  /\ \E k \in DOMAIN car.slides : There(car.slides[k])
  /\ car' = FoldLeft(Slides, [car EXCEPT !.slides = SelectSeq(@, LAMBDA w : ~There(w))],
                     SelectSeq(car.slides, There))
  /\ UNCHANGED <<setup, acts>>

\* slid: each waiting call of to looks again whether it slides.
Slid == /\ car.slids > 0
        /\ car' = FoldLeft(to, [car EXCEPT !.slids = @ - 1, !.tos = <<>>], car.tos)
        /\ UNCHANGED <<setup, acts>>

SNext ==
  \/ \E d \in {"next", "prev"} : Turn(d)
  \/ \E pos \in -1..Items : To(pos)
  \/ Tick \/ Enter \/ Leave \/ Pause \/ Cycle \/ Slid
  \/ \E i \in 0..(Items - 1) : End(i)

SSpec == SInit /\ [][SNext]_sVars

(* One item is active at any time; when it neither slides nor has an event *)
(* to tell, no call of to() is left waiting; a paused carousel has no      *)
(* clock, nor has one under the mouse, if nothing started it there: to()   *)
(* the item that is shown does, and slides that follow keep it going.      *)
OneSlideAtATime ==
  /\ Cardinality(car.active) = 1
  /\ ~car.sliding /\ car.slids = 0 => car.tos = <<>>
  /\ car.interval => ~car.paused /\ (car.hovers => car.woken)
=============================================================================
