----------------------------- MODULE MenuDialog -----------------------------
(* The dialog that gives a role its menus (page of roles; the page of      *)
(* authorities gives a user its roles the same way): it asks for the       *)
(* record, shows itself, asks for the tree, and ticks in the ready tree    *)
(* what the role has.  The string of ids to save is written by the tree,   *)
(* and not emptied when a dialog opens or its tree does not come.          *)
EXTENDS IdStrings, SequencesExt, FiniteSetsExt

CONSTANTS Roles, Menus, NoRole, NoMenu,
          MenuParent,   \* external: the menus' tree, NoMenu at the top
          People,       \* "patient": waits until the page is quiet; "hasty"
          MaxClicks,    \* bound: saves in a row
          MaxRequests,  \* bound: requests under way when the user acts
          Grants        \* the menus a role may have at the start

\* Two levels of menus are a bound.
ASSUME DialogConstants ==
  /\ IsFiniteSet(Menus) /\ Grants \subseteq SUBSET Menus
  /\ MenuParent \in [Menus -> Menus \cup {NoMenu}]
  /\ NoMenu \notin Menus /\ NoRole \notin Roles
  /\ \A m \in Menus : MenuParent[m] # NoMenu => MenuParent[MenuParent[m]] = NoMenu

VARIABLES person, granted, published,   \* the user; the roles' menus; commands
          roleMenuId, shown,            \* roleMenuModal
          menuIDs, roleTree, readyLists,
          gets, treeGets, saves, reloads,
          treeLost                      \* the tree's request failed

dVars == <<person, granted, published, roleMenuId, shown, menuIDs, roleTree,
           readyLists, gets, treeGets, saves, reloads, treeLost>>

NoRoleTree == [there |-> FALSE, ready |-> FALSE, of |-> NoRole, ticked |-> {}]

UnderWay == Cardinality(gets) + Len(treeGets) + Len(saves) + reloads
            + Cardinality(published)

\* Nothing is under way.
Calm == /\ gets = {} /\ treeGets = <<>> /\ saves = <<>> /\ reloads = 0
        /\ published = {} /\ (roleTree.there => roleTree.ready)
May  == /\ UnderWay < MaxRequests
        /\ person = "patient" => Calm

DInit ==
  /\ person \in People
  /\ granted \in [Roles -> Grants] /\ published = {}
  /\ roleMenuId = NoRole /\ shown = FALSE
  /\ menuIDs = Written({}) /\ roleTree = NoRoleTree
  /\ readyLists = <<>> /\ gets = {} /\ treeGets = <<>> /\ saves = <<>>
  /\ reloads = 0 /\ treeLost = FALSE

(*************************** the checkbox plugin ***************************)
Kids(m) == {k \in Menus : MenuParent[k] = m}

\* A menu brings its children, and children that are all ticked their parent.
Ticked(ms) ==
  LET down == ms \cup UNION {Kids(m) : m \in ms} IN
  down \cup {m \in Menus : Kids(m) # {} /\ Kids(m) \subseteq down}

Unticked(ms, m) == ms \ ({m, MenuParent[m]} \cup Kids(m))

\* changed.jstree: the string is written anew.
Shows(ms) == menuIDs' = Written(ms)

(******************************* the dialog ********************************)
roleMenu(r) ==
  /\ May /\ ~shown
  /\ gets' = gets \cup {r}
  /\ UNCHANGED <<person, granted, published, roleMenuId, shown, menuIDs,
                 roleTree, readyLists, treeGets, saves, reloads, treeLost>>

\* initRoleMenuTree: the tree goes, the string stays.
GetAnswer(r) ==
  /\ r \in gets /\ gets' = gets \ {r}
  /\ roleMenuId' = r /\ shown' = TRUE /\ treeLost' = FALSE
  /\ roleTree' = NoRoleTree /\ readyLists' = <<>>
  /\ treeGets' = Append(treeGets, r)
  /\ UNCHANGED <<person, granted, published, menuIDs, saves, reloads>>

GetFails(r) ==
  /\ r \in gets /\ gets' = gets \ {r}
  /\ UNCHANGED <<person, granted, published, roleMenuId, shown, menuIDs,
                 roleTree, readyLists, treeGets, saves, reloads, treeLost>>

\* A tree that is there already stays; the list of this answer is ticked
\* after those of the answers before, when the tree gets ready.
RoleTreeAnswer(i) ==
  LET r == treeGets[i] IN
  /\ treeGets' = RemoveAt(treeGets, i)
  /\ roleTree' = [roleTree EXCEPT !.there = TRUE]
  /\ readyLists' = Append(readyLists, [of |-> r, ids |-> granted[r]])
  /\ UNCHANGED <<person, granted, published, roleMenuId, shown, menuIDs, gets,
                 saves, reloads, treeLost>>

RoleTreeFails(i) ==
  /\ treeGets' = RemoveAt(treeGets, i) /\ treeLost' = TRUE
  /\ UNCHANGED <<person, granted, published, roleMenuId, shown, menuIDs,
                 roleTree, readyLists, gets, saves, reloads>>

\* ready.jstree: each handler unticks everything and ticks its list.
RoleTreeReady ==
  /\ roleTree.there /\ ~roleTree.ready
  /\ LET list == Last(readyLists) IN
     /\ roleTree' = [there |-> TRUE, ready |-> TRUE, of |-> list.of,
                     ticked |-> Ticked(list.ids)]
     /\ Shows(Ticked(list.ids))
  /\ UNCHANGED <<person, granted, published, roleMenuId, shown, readyLists,
                 gets, treeGets, saves, reloads, treeLost>>

Tick(m) ==
  /\ May /\ shown /\ roleTree.ready
  /\ LET ms == IF m \in roleTree.ticked THEN Unticked(roleTree.ticked, m)
               ELSE Ticked(roleTree.ticked \cup {m}) IN
     roleTree' = [roleTree EXCEPT !.ticked = ms] /\ Shows(ms)
  /\ UNCHANGED <<person, granted, published, roleMenuId, shown, readyLists,
                 gets, treeGets, saves, reloads, treeLost>>

CloseDialog ==
  /\ May /\ shown /\ shown' = FALSE
  /\ UNCHANGED <<person, granted, published, roleMenuId, menuIDs, roleTree,
                 readyLists, gets, treeGets, saves, reloads, treeLost>>

\* The cut string is kept: the next click cuts it again.  seen is the tree
\* the user looks at.
roleMenuSave ==
  /\ May /\ shown /\ menuIDs.cut < MaxClicks
  /\ menuIDs' = Shortened(menuIDs)
  /\ saves' = Append(saves, [role |-> roleMenuId, string |-> menuIDs',
                             seen |-> roleTree, lost |-> treeLost])
  /\ UNCHANGED <<person, granted, published, roleMenuId, shown, roleTree,
                 readyLists, gets, treeGets, reloads, treeLost>>

\* The command of s, if its string is a list of ids.
Commands(s) == {[role |-> s.role, ids |-> ids, string |-> s.string,
                 seen |-> s.seen, lost |-> s.lost] : ids \in GetList(s.string)}

\* The save is refused or lost, or the answer to a command is.
SaveAnswer(i) ==
  /\ saves' = RemoveAt(saves, i)
  /\ \/ UNCHANGED <<published, shown, reloads>>
     \/ \E c \in Commands(saves[i]) :
          /\ published' = published \cup {c}
          /\ \/ UNCHANGED <<shown, reloads>>
             \/ shown' = FALSE /\ reloads' = reloads + 1
  /\ UNCHANGED <<person, granted, roleMenuId, menuIDs, roleTree, readyLists,
                 gets, treeGets, treeLost>>

\* delayLoad("initTree()"): the page of authorities destroys every tree, the
\* dialog's as well; the page of roles reloads its table only.
Reload ==
  /\ reloads > 0 /\ reloads' = reloads - 1
  /\ \/ roleTree' = NoRoleTree /\ readyLists' = <<>>
     \/ UNCHANGED <<roleTree, readyLists>>
  /\ UNCHANGED <<person, granted, published, roleMenuId, shown, menuIDs, gets,
                 treeGets, saves, treeLost>>

HandleRoleMenu(c) ==
  /\ c \in published /\ published' = published \ {c}
  /\ granted' = [granted EXCEPT ![c.role] = c.ids]
  /\ UNCHANGED <<person, roleMenuId, shown, menuIDs, roleTree, readyLists,
                 gets, treeGets, saves, reloads, treeLost>>

DNext ==
  \/ \E r \in Roles : roleMenu(r) \/ GetAnswer(r) \/ GetFails(r)
  \/ \E i \in DOMAIN treeGets : RoleTreeAnswer(i) \/ RoleTreeFails(i)
  \/ RoleTreeReady \/ CloseDialog \/ roleMenuSave \/ Reload
  \/ \E m \in Menus : Tick(m)
  \/ \E i \in DOMAIN saves : SaveAnswer(i)
  \/ \E c \in published : HandleRoleMenu(c)

DSpec == DInit /\ [][DNext]_dVars

(******************************* properties ********************************)
(* What reaches the database is what the user saw ticked at the click,     *)
(* whole.  Of the clicks between two ticks only the first is published,    *)
(* until as many as an id and its "_" have characters were clicked, when   *)
(* whole ids are missing.  For a user who waits it is published for the    *)
(* role whose tree was seen.  Without a tree in sight it is the string of  *)
(* the dialog before; a user who waits can click then only when the tree's *)
(* request has failed.                                                     *)
NeverHalfStored ==
  \A c \in published :
    /\ c.string.cut = 1 \/ c.string.cut > GuidLength + 1
    /\ c.string.cut = 1 => c.ids = c.string.ids
    /\ c.seen.ready => c.string.ids = c.seen.ticked
    /\ person = "patient" => IF c.seen.ready THEN c.role = c.seen.of ELSE c.lost
=============================================================================
