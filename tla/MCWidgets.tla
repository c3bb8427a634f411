----------------------------- MODULE MCWidgets -----------------------------
(* The widgets of the pages: Bootstrap's plugins, and the pager below the  *)
(* tables.  part, chosen at the start, is the one that is used.            *)
EXTENDS Dialogs, Paginator, TLC

VARIABLES part,
          options, layout, tip, moves,
          acc, clicks,
          fades, tabs, taps,
          setup, car, acts,
          document, menu, keys,
          group, active, checked, text, resetText, loading, disabled, states,
          alert, presses,
          pageHeight, scrollTop, affixed, top, scrolls,
          heights, spyTop, spy, looks,
          lay, opens

tVars == <<options, layout, tip, moves>>
lVars == <<acc, clicks>>
bVars == <<fades, tabs, taps>>
sVars == <<setup, car, acts>>
mVars == <<document, menu, keys>>
gVars == <<group, active, checked, text, resetText, loading, disabled, states,
           alert, presses>>
xVars == <<pageHeight, scrollTop, affixed, top, scrolls>>
yVars == <<heights, spyTop, spy, looks>>
oVars == <<lay, opens>>

T == INSTANCE Tips WITH MaxMoves <- 5
L == INSTANCE Collapse WITH N <- 3, MaxClicks <- 6
B == INSTANCE Tabs WITH Panes <- 1..3, MaxTaps <- 6
S == INSTANCE Carousel WITH Items <- 3, MaxActs <- 6
M == INSTANCE Dropdown WITH Menus <- 3, MaxKeys <- 5, page <- document
G == INSTANCE Controls WITH Buttons <- 1..2, MaxPresses <- 6
X == INSTANCE Affix WITH Height <- 2, Window <- 4, OffsetTop <- 2,
       OffsetBottom <- 2, Pinned <- 1, MaxPage <- 12, MaxScrolls <- 4
Y == INSTANCE ScrollSpy WITH Sections <- 2, Header <- 2, Window <- 3, Offset <- 1,
       MaxLooks <- 6, scrollTop <- spyTop
O == INSTANCE Layers WITH MaxOpens <- 3

MCInit ==
  /\ part \in {"dialogs", "tips", "collapse", "tabs", "carousel", "dropdown",
               "controls", "affix", "scrollspy", "layers", "paginator"}
  /\ DInit
  /\ part = "dialogs" \/ style = [m \in Modals |-> [fade |-> TRUE, backdrop |-> "closes"]]
  /\ T!TInit
  /\ \/ part = "tips"
     \/ /\ options = [trigger |-> "click", delay |-> FALSE, animation |-> TRUE]
        /\ layout = CHOOSE l \in T!Layouts : TRUE
  /\ L!LInit /\ (part = "collapse" \/ acc.in = {})
  /\ B!BInit /\ (part = "tabs" \/ (fades /\ tabs.active = {1}))
  /\ S!SInit /\ (part = "carousel" \/ (setup.wrap /\ setup.clock /\ setup.slide))
  /\ M!MInit
  /\ \/ part = "dropdown"
     \/ document = [touch |-> FALSE, disabled |-> {}, keeps |-> {}, refuses |-> {}]
  /\ G!GInit /\ (part = "controls" \/ group = "radio")
  /\ X!XInit /\ Y!YInit /\ O!OInit /\ KInit

MCNext ==
  /\ UNCHANGED part
  /\ \/ /\ part = "dialogs" /\ DNext
        /\ UNCHANGED <<tVars, lVars, bVars, sVars, mVars, gVars, xVars, yVars, oVars, kVars>>
     \/ /\ part = "tips" /\ T!TNext
        /\ UNCHANGED <<dVars, lVars, bVars, sVars, mVars, gVars, xVars, yVars, oVars, kVars>>
     \/ /\ part = "collapse" /\ L!LNext
        /\ UNCHANGED <<dVars, tVars, bVars, sVars, mVars, gVars, xVars, yVars, oVars, kVars>>
     \/ /\ part = "tabs" /\ B!BNext
        /\ UNCHANGED <<dVars, tVars, lVars, sVars, mVars, gVars, xVars, yVars, oVars, kVars>>
     \/ /\ part = "carousel" /\ S!SNext
        /\ UNCHANGED <<dVars, tVars, lVars, bVars, mVars, gVars, xVars, yVars, oVars, kVars>>
     \/ /\ part = "dropdown" /\ M!MNext
        /\ UNCHANGED <<dVars, tVars, lVars, bVars, sVars, gVars, xVars, yVars, oVars, kVars>>
     \/ /\ part = "controls" /\ G!GNext
        /\ UNCHANGED <<dVars, tVars, lVars, bVars, sVars, mVars, xVars, yVars, oVars, kVars>>
     \/ /\ part = "affix" /\ X!XNext
        /\ UNCHANGED <<dVars, tVars, lVars, bVars, sVars, mVars, gVars, yVars, oVars, kVars>>
     \/ /\ part = "scrollspy" /\ Y!YNext
        /\ UNCHANGED <<dVars, tVars, lVars, bVars, sVars, mVars, gVars, xVars, oVars, kVars>>
     \/ /\ part = "paginator" /\ KNext
        /\ UNCHANGED <<dVars, tVars, lVars, bVars, sVars, mVars, gVars, xVars, yVars, oVars>>
     \/ /\ part = "layers" /\ O!ONext
        /\ UNCHANGED <<dVars, tVars, lVars, bVars, sVars, mVars, gVars, xVars, yVars, kVars>>

MCSpec == MCInit /\ [][MCNext]_<<part, dVars, tVars, lVars, bVars, sVars, mVars,
                                 gVars, xVars, yVars, oVars, kVars>>

Symmetry == Permutations(Modals)

(* A widget shows what it was last told, once its transitions are over: a  *)
(* tip is there while something holds it, one panel of an accordion, one   *)
(* pane, one slide, one menu and one alert are open, buttons agree with    *)
(* their inputs, and affix and scrollspy go by where the page is.          *)
WidgetsComeToRest ==
  /\ T!TipsComeAndGo /\ L!OneIsOpen /\ B!PaneOfTheLink /\ S!OneSlideAtATime
  /\ M!OneMenuIsOpen /\ G!ControlsAgree /\ X!ChecksSettle /\ Y!TheSectionIsActive

(* Layers that open and close others, from their callbacks as well, leave  *)
(* nothing of those that are gone, and tell each end once (Layers names    *)
(* the two exceptions).                                                    *)
LayersEndOnce == O!LayersClose
=============================================================================
