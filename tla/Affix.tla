-------------------------------- MODULE Affix --------------------------------
(* Bootstrap's affix: an element that scrolls with the page until it meets *)
(* the top offset, then stays where it is in the window, until it meets    *)
(* the bottom one.  Positions are whole units; checkPosition runs after    *)
(* every scroll and click, and the page may grow and shrink in between.    *)
(* The offsets are numbers, and no page prevents an event.                 *)
EXTENDS Integers

CONSTANTS Height, Window, OffsetTop, OffsetBottom, Pinned, MaxPage, MaxScrolls
          \* Height of the element, Pinned: its place in the window when it is
          \* fixed; MaxPage and MaxScrolls: bounds

VARIABLES pageHeight, scrollTop,
          affixed,   \* "null", "top", "none" for false, "bottom"
          top,       \* of the element in the page, when it is not fixed
          scrolls

xVars == <<pageHeight, scrollTop, affixed, top, scrolls>>

XInit == /\ pageHeight = MaxPage /\ scrollTop = 0
         /\ affixed = "null" /\ top = OffsetTop /\ scrolls = 0

Position(a, t) == IF a = "none" THEN scrollTop + Pinned ELSE t

\* getState; before the first check the window is the collider.
getState(a, t) ==
  LET collider == IF a = "null" THEN scrollTop + Window ELSE Position(a, t) + Height IN
  IF a = "top" THEN IF scrollTop < OffsetTop THEN "top" ELSE "none"
  ELSE IF a = "bottom" THEN IF scrollTop + Pinned <= t THEN "none" ELSE "bottom"
  ELSE IF scrollTop <= OffsetTop THEN "top"
  ELSE IF collider >= pageHeight - OffsetBottom THEN "bottom" ELSE "none"

\* Where the element is then; at the bottom it is placed at every check.
TopOf(a) == IF a = "bottom" THEN pageHeight - Height - OffsetBottom ELSE OffsetTop

checkPosition ==
  LET a == getState(affixed, top) IN
  /\ scrolls < MaxScrolls /\ scrolls' = scrolls + 1
  /\ affixed' = a /\ top' = TopOf(a)
  /\ UNCHANGED <<pageHeight, scrollTop>>

\* The next check follows at once.
Scroll(s) == /\ s \in 0..(pageHeight - Window)
             /\ scrollTop' = s
             /\ UNCHANGED <<pageHeight, affixed, top, scrolls>>

\* The content changes; the browser keeps the window in the page.
Resize(h) == /\ h \in Window..MaxPage /\ h >= OffsetTop + Height + OffsetBottom
             /\ pageHeight' = h
             /\ scrollTop' = IF scrollTop > h - Window THEN h - Window ELSE scrollTop
             /\ UNCHANGED <<affixed, top, scrolls>>

XNext == \/ checkPosition
         \/ \E s \in 0..MaxPage : Scroll(s)
         \/ \E h \in 0..MaxPage : Resize(h)

XSpec == XInit /\ [][XNext]_xVars

(* Below the top offset two checks suffice: a third changes nothing, except *)
(* where the element just meets an offset: there every check changes it to  *)
(* and fro.  And an element that two checks leave fixed is above the bottom *)
(* offset.                                                                  *)
ChecksSettle ==
  LET a == getState(affixed, top)
      b == getState(a, TopOf(a))
      meets == \/ scrollTop = OffsetTop
               \/ scrollTop + Pinned + Height = pageHeight - OffsetBottom IN
  /\ affixed # "null" /\ a = "none" /\ b = "none" =>
       scrollTop + Pinned + Height < pageHeight - OffsetBottom
  /\ ~meets /\ affixed # "null" /\ scrollTop > OffsetTop =>
       getState(b, TopOf(b)) = b
=============================================================================
