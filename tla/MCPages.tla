------------------------------ MODULE MCPages ------------------------------
(* The pages of the web front end: the page with a tree and a table, with  *)
(* a patient user on two records and a hasty one on one; the dialog of a   *)
(* role's menus, with a patient user on a tree of three and a hasty one on *)
(* two menus apart; and the dialog of a batch of users.  openPage, chosen  *)
(* at the start, is the one that is open.                                  *)
EXTENDS MenuDialog, ListPage, BatchDialog, TLC

CONSTANTS top, leaf, other,      \* menus, the first above the two others
          a                      \* a record

VARIABLES openPage

TopMenus    == [m \in {top, leaf, other} |-> IF m = top THEN NoMenu ELSE top]
FirstGrants == {{}, {leaf}, {top}}

Hasty == INSTANCE ListPage WITH Records <- {a}, Users <- {"hasty"}
HastyDialog ==
  INSTANCE MenuDialog WITH Menus <- {leaf, other}, People <- {"hasty"},
    MenuParent <- [m \in {leaf, other} |-> NoMenu], Grants <- {{leaf, other}},
    MaxClicks <- 2

MCInit == /\ openPage \in {"patient", "hasty", "menus", "hasty menus", "batch"}
          /\ IF openPage = "hasty" THEN Hasty!Init ELSE Init
          /\ IF openPage = "hasty menus" THEN HastyDialog!DInit ELSE DInit
          /\ BInit
          /\ openPage \notin {"menus", "hasty menus"} => granted = [r \in Roles |-> {}]
          /\ openPage \notin {"patient", "hasty"} => parent = <<>> /\ stored = None

MCNext ==
  /\ UNCHANGED openPage
  /\ \/ openPage = "patient" /\ Next   /\ UNCHANGED <<dVars, bVars>>
     \/ openPage = "hasty" /\ Hasty!Next /\ UNCHANGED <<dVars, bVars>>
     \/ openPage = "menus" /\ DNext    /\ UNCHANGED <<vars, bVars>>
     \/ openPage = "hasty menus" /\ HastyDialog!DNext /\ UNCHANGED <<vars, bVars>>
     \/ openPage = "batch" /\ BNext    /\ UNCHANGED <<vars, dVars>>

MCSpec == MCInit /\ [][MCNext]_<<openPage, vars, dVars, bVars>>

Symmetry == Permutations(Roles) \cup Permutations(TableUsers)

(* No save reaches the database with more or less than its user saw ticked *)
(* at the click, neither a role's menus nor a batch of users and roles, but *)
(* for the two cases both dialogs have: no tree was in sight, when it is   *)
(* the selection of the dialog before, or save was clicked on and on until *)
(* a whole id was cut off.                                                 *)
SavesAreTicked == NeverHalfStored /\ BatchIsForTheTicked
=============================================================================
