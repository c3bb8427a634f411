SPECIFICATION MCSpec
CONSTANTS
  NumberOfPages = 2
  MaxPages = 5
  MaxShows = 4
  Modals = {m, n}
  Nobody = Nobody
  MaxOps = 4
CHECK_DEADLOCK FALSE
SYMMETRY Symmetry
INVARIANTS
  DialogsLeaveNothing
  WidgetsComeToRest
  LayersEndOnce
  PagerShowsThePage
