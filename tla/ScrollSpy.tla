------------------------------ MODULE ScrollSpy ------------------------------
(* Bootstrap's scrollspy: the link of the section that is scrolled to is   *)
(* active.  The places of the sections are measured when the scrollspy is  *)
(* made, when the page asks, and after a scroll that finds the page higher *)
(* or lower than before; that scroll still goes by the old places.         *)
(* Sections follow each other, a section without height is not visible.    *)
EXTENDS Naturals, SequencesExt, FiniteSetsExt

CONSTANTS Sections, Header, Window, Offset, MaxLooks
          \* sections 1..Sections below a header; MaxLooks: bound

AllSections == 1..Sections
Heights == {0, 2, 4}

VARIABLES heights, scrollTop, spy, looks

yVars == <<heights, scrollTop, spy, looks>>

Top(s) == Header + MapThenSumSet(LAMBDA t : heights[t], 1..(s - 1))
ScrollHeight == Window + Top(Sections + 1)

\* What refresh finds: the visible sections, by their place.
Targets == SetToSortSeq({s \in AllSections : heights[s] > 0}, LAMBDA s, t : s < t)
Measured == [i \in DOMAIN Targets |-> [at |-> Top(Targets[i]), target |-> Targets[i]]]

YInit ==
  /\ heights = [s \in AllSections |-> 2] /\ scrollTop = 0
  /\ spy = [offsets |-> Measured, height |-> ScrollHeight, active |-> 0,
            knew |-> FALSE]   \* it has looked with the right places
  /\ looks = 0

\* process: the target that is active then, 0 for none.
Seen(offsets, active) ==
  LET top == scrollTop + Offset
      n   == Len(offsets)
      In(i) == top >= offsets[i].at /\ (i < n => top < offsets[i + 1].at) IN
  IF top >= Offset + ScrollHeight - Window
  THEN IF n = 0 THEN 0 ELSE offsets[n].target
  ELSE IF active # 0 /\ n > 0 /\ top < offsets[1].at THEN 0
  ELSE IF \E i \in 1..n : In(i)
  THEN offsets[CHOOSE i \in 1..n : In(i)].target ELSE active

process ==
  spy' = [spy EXCEPT !.active = Seen(spy.offsets, spy.active),
                     !.offsets = IF spy.height = ScrollHeight THEN @ ELSE Measured,
                     !.height = ScrollHeight,
                     !.knew = (spy.offsets = Measured)]

Look == looks < MaxLooks /\ looks' = looks + 1

\* Scrolling is told after it happened.
Scroll(s) == /\ s <= ScrollHeight - Window /\ Look
             /\ scrollTop' = s /\ spy' = [spy EXCEPT !.knew = FALSE]
             /\ UNCHANGED heights
Scrolled == process /\ Look /\ UNCHANGED <<heights, scrollTop>>

\* The page changes a section, and may ask to measure again.
Change(s, h) ==
  /\ h # heights[s] /\ heights' = [heights EXCEPT ![s] = h] /\ Look
  /\ scrollTop + heights[s] <= ScrollHeight - Window + h
  /\ spy' = [spy EXCEPT !.knew = FALSE]
  /\ UNCHANGED scrollTop
refresh == /\ spy' = [spy EXCEPT !.offsets = Measured, !.height = ScrollHeight,
                                 !.knew = FALSE]
           /\ Look /\ UNCHANGED <<heights, scrollTop>>

YNext ==
  \/ \E s \in 0..(Header + 4 * Sections) : Scroll(s)
  \/ Scrolled \/ refresh
  \/ \E s \in AllSections, h \in Heights : Change(s, h)

YSpec == YInit /\ [][YNext]_yVars

(* After a look that knew the places of the sections, the active target is *)
(* the last section that begins above the line, or the last one at the     *)
(* bottom of the page, or none above the first, if any is visible.  A      *)
(* change that keeps the height of the page is never measured, and any     *)
(* other is one scroll late.                                               *)
TheSectionIsActive ==
  LET above == {i \in DOMAIN Measured : Measured[i].at <= scrollTop + Offset}
      n     == Len(Measured) IN
  spy.knew /\ n > 0 =>
    IF scrollTop >= ScrollHeight - Window
    THEN spy.active = Measured[n].target
    ELSE spy.active = (IF above = {} THEN 0 ELSE Measured[Max(above)].target)
=============================================================================
