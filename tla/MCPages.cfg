SPECIFICATION MCSpec
CONSTANTS
  Roles = {r1, r2}
  top = top
  leaf = leaf
  other = other
  Menus = {top, leaf, other}
  NoRole = NoRole
  NoMenu = NoMenu
  MenuParent <- TopMenus
  People = {"patient"}
  GuidLength = 1
  MaxClicks = 3
  MaxRequests = 2
  Grants <- FirstGrants
  a = a
  Records = {a, b}
  Users = {"patient"}
  InFlight = 2
  Root = Root
  None = None
  TableUsers = {u1, u2}
  RoleNodes = {g1}
  MaxCuts = 2
CHECK_DEADLOCK FALSE
SYMMETRY Symmetry
INVARIANTS
  TitleMatchesForm
  ReloadShowsTheCommand
  SavesAreTicked
