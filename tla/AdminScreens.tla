---------------------------- MODULE AdminScreens ----------------------------
(***************************************************************************)
(* The screens for users, tools and work categories (src/frontend/src/     *)
(* views/UsersView.vue, ToolsView.vue and CategoriesView.vue): lists that  *)
(* are loaded page by page, one modal dialog, and one save at a time that  *)
(* ends with a load of its own.  The backend may change between any two    *)
(* requests, so an answer may bring any rows; a page holds one row.        *)
(***************************************************************************)
EXTENDS Naturals, FiniteSets

CONSTANTS
    Rows,       \* ids of rows
    Own,        \* the user who is logged in; in the list of categories, COMMON
    Nobody,     \* no row
    MaxTotal,   \* bound: rows in a list
    MaxLoads    \* bound: loads under way that the user has asked for

ASSUME ScreensAssumption ==
    /\ Own \in Rows
    /\ Nobody \notin Rows
    /\ MaxTotal \in Nat \ {0}
    /\ MaxLoads \in Nat \ {0}

VARIABLES
    screen,     \* which of the three screens is mounted, and who looks at it
    panel,      \* its refs
    lists,      \* the list requests under way
    save        \* the request of the dialog under way

panelVars == <<screen, panel, lists, save>>

States  == {"ACTIVE", "INACTIVE"}
Item    == [id : Rows, status : States]
NoItem  == [id |-> Nobody, status |-> "INACTIVE"]
Dialogs == {"none", "create", "edit", "status", "reissue", "password"}

NoSave == [dialog |-> "none", row |-> NoItem]

(* password is the id of the user whose temporary password is on display.  *)
Panel ==
    [page : 1..(MaxTotal + 1), total : 0..MaxTotal, items : SUBSET Item,
     loading : BOOLEAN, saving : BOOLEAN, error : BOOLEAN, dialog : Dialogs,
     selected : Item \cup {NoItem}, password : Rows \cup {Nobody}]

(* A load tells whether it ends a save.                                    *)
List == [id : Nat, page : 1..(MaxTotal + 1), after : {"nothing", "save"}]

ScreensTypeOK ==
    /\ screen \in [name : {"users", "tools", "categories"}, admin : BOOLEAN]
    /\ panel \in Panel
    /\ lists \subseteq List
    /\ save \in [dialog : Dialogs, row : Item \cup {NoItem}]

(* The router admits workers to the tools only; a screen loads its list    *)
(* when it is mounted.                                                     *)
ScreensInit ==
    /\ screen \in [name : {"users", "categories"}, admin : {TRUE}]
                  \cup [name : {"tools"}, admin : BOOLEAN]
    /\ panel = [page |-> 1, total |-> 0, items |-> {}, loading |-> TRUE,
                saving |-> FALSE, error |-> FALSE, dialog |-> "none",
                selected |-> NoItem, password |-> Nobody]
    /\ lists = {[id |-> 1, page |-> 1, after |-> "nothing"]}
    /\ save = NoSave
-----------------------------------------------------------------------------
(* What the templates offer.                                               *)
At(name) == screen.name = name

PageCount(p) == IF p.total = 0 THEN 1 ELSE p.total

(* A modal dialog keeps the rest of the screen out of reach.               *)
InReach == panel.dialog = "none"

MayLoad == InReach /\ Cardinality(lists) < MaxLoads

Listed == IF panel.loading THEN {} ELSE panel.items

UserFilterOffered == MayLoad /\ ~panel.loading

UserRowsOffered(mode) ==
    IF ~InReach THEN {}
    ELSE {r \in Listed : mode = "status" => r.id # Own}

UserPagesOffered ==
    IF ~MayLoad \/ PageCount(panel) = 1 THEN {}
    ELSE {n \in 1..(MaxTotal + 1) :
            \/ n + 1 = panel.page
            \/ n = panel.page + 1 /\ panel.page # PageCount(panel)}

UserButtonsOffered == panel.dialog # "none" /\ ~panel.saving

ToolFilterOffered == MayLoad /\ ~panel.loading

ToolRowsOffered == IF InReach /\ screen.admin THEN Listed ELSE {}

ToolPagesOffered ==
    IF ~MayLoad \/ panel.loading \/ panel.total <= 1 THEN {}
    ELSE {n \in 1..PageCount(panel) : n + 1 = panel.page \/ n = panel.page + 1}

ToolButtonsOffered == panel.dialog # "none" /\ ~panel.saving

CategoryFilterOffered == MayLoad /\ ~panel.loading

CategoryRowsOffered(mode) ==
    IF ~InReach THEN {}
    ELSE {r \in Listed : mode = "status" => r.id # Own}

CategoryButtonsOffered == panel.dialog # "none" /\ ~panel.saving
-----------------------------------------------------------------------------
(* Lists.                                                                  *)
NewId == CHOOSE n \in 1..(Cardinality(lists) + 1) : \A l \in lists : l.id # n

StartLoad(p, others, after) ==
    /\ panel' = [p EXCEPT !.loading = TRUE, !.error = FALSE]
    /\ lists' = others \cup {[id |-> NewId, page |-> p.page, after |-> after]}

(* The end of a load, which is also the end of the save it belongs to.     *)
EndLoad_KeepsBusy(p, l) ==
    /\ panel' = [p EXCEPT !.loading = FALSE]
    /\ lists' = lists \ {l}

EndLoad(p, l) ==
    /\ panel' = [p EXCEPT !.loading = FALSE,
                          !.saving = @ /\ l.after # "save"]
    /\ lists' = lists \ {l}

(* What the backend may answer: a page past the last one is empty.         *)
Received(l) ==
    {a \in [items : {{}} \cup {{r} : r \in Item}, total : 0..MaxTotal] :
        a.items = {} <=> a.total < l.page}

WithAnswer(a) == [panel EXCEPT !.items = a.items, !.total = a.total]

UsersLoaded(l) ==
    /\ At("users")
    /\ \E a \in Received(l) : EndLoad(WithAnswer(a), l)
    /\ UNCHANGED <<screen, save>>

ToolsLoaded_AnyPage(l) ==
    /\ At("tools")
    /\ \E a \in Received(l) : EndLoad(WithAnswer(a), l)
    /\ UNCHANGED <<screen, save>>

(* A page that has gone is left for the last one, within the same load.    *)
ToolsLoaded(l) ==
    /\ At("tools")
    /\ \E a \in Received(l) : LET p == WithAnswer(a) IN
          IF p.page > PageCount(p)
          THEN StartLoad([p EXCEPT !.page = PageCount(p)], lists \ {l}, l.after)
          ELSE EndLoad(p, l)
    /\ UNCHANGED <<screen, save>>

CategoriesLoaded(l) ==
    /\ At("categories")
    /\ \E its \in {{}} \cup {{r} : r \in Item} :
          EndLoad([panel EXCEPT !.items = its], l)
    /\ UNCHANGED <<screen, save>>

LoadFails(l) ==
    /\ EndLoad([panel EXCEPT !.error = TRUE], l)
    /\ UNCHANGED <<screen, save>>

Reload(p) ==
    /\ StartLoad(p, lists, "nothing")
    /\ UNCHANGED <<screen, save>>

FilterUsers == At("users") /\ UserFilterOffered /\ Reload([panel EXCEPT !.page = 1])

MoveUsersPage ==
    /\ At("users")
    /\ \E n \in UserPagesOffered : Reload([panel EXCEPT !.page = n])

FilterTools == At("tools") /\ ToolFilterOffered /\ Reload([panel EXCEPT !.page = 1])

MoveToolsPage ==
    /\ At("tools")
    /\ \E n \in ToolPagesOffered : Reload([panel EXCEPT !.page = n])

FilterCategories == At("categories") /\ CategoryFilterOffered /\ Reload(panel)
-----------------------------------------------------------------------------
(* Dialogs.                                                                *)
OpenDialog(mode, row) ==
    /\ panel' = [panel EXCEPT !.error = FALSE, !.selected = row, !.dialog = mode]
    /\ UNCHANGED <<screen, lists, save>>

OpenCreateUser == At("users") /\ InReach /\ OpenDialog("create", NoItem)

OpenEditUser ==
    At("users") /\ \E r \in UserRowsOffered("edit") : OpenDialog("edit", r)

OpenUserAction ==
    /\ At("users")
    /\ \E mode \in {"status", "reissue"} :
          \E r \in UserRowsOffered(mode) : OpenDialog(mode, r)

OpenCreateTool == At("tools") /\ InReach /\ screen.admin /\ OpenDialog("create", NoItem)

OpenEditTool == At("tools") /\ \E r \in ToolRowsOffered : OpenDialog("edit", r)

OpenToolStatus == At("tools") /\ \E r \in ToolRowsOffered : OpenDialog("status", r)

OpenCreateCategory == At("categories") /\ InReach /\ OpenDialog("create", NoItem)

OpenEditCategory ==
    At("categories") /\ \E r \in CategoryRowsOffered("edit") : OpenDialog("edit", r)

OpenCategoryStatus ==
    At("categories") /\ \E r \in CategoryRowsOffered("status") : OpenDialog("status", r)

CloseUserDialog_EvenWhileSaving ==
    /\ At("users") /\ panel.dialog # "none"
    /\ panel' = [panel EXCEPT !.dialog = "none", !.selected = NoItem,
                              !.password = Nobody, !.error = FALSE]
    /\ UNCHANGED <<screen, lists, save>>

CloseUserDialog_KeepsPassword ==
    /\ At("users") /\ panel.dialog # "none" /\ ~panel.saving
    /\ panel' = [panel EXCEPT !.dialog = "none", !.selected = NoItem, !.error = FALSE]
    /\ UNCHANGED <<screen, lists, save>>

(* The buttons and the Escape key; a save under way keeps the dialog.      *)
CloseUserDialog ==
    /\ At("users") /\ panel.dialog # "none" /\ ~panel.saving
    /\ panel' = [panel EXCEPT !.dialog = "none", !.selected = NoItem,
                              !.password = Nobody, !.error = FALSE]
    /\ UNCHANGED <<screen, lists, save>>

CloseToolDialog ==
    /\ At("tools") /\ panel.dialog # "none" /\ ~panel.saving
    /\ panel' = [panel EXCEPT !.dialog = "none", !.selected = NoItem, !.error = FALSE]
    /\ UNCHANGED <<screen, lists, save>>

CloseCategoryDialog ==
    /\ At("categories") /\ panel.dialog # "none" /\ ~panel.saving
    /\ panel' = [panel EXCEPT !.dialog = "none", !.selected = NoItem, !.error = FALSE]
    /\ UNCHANGED <<screen, lists, save>>
-----------------------------------------------------------------------------
(* Saves.                                                                  *)
SendSave ==
    /\ panel' = [panel EXCEPT !.saving = TRUE, !.error = FALSE]
    /\ save' = [dialog |-> panel.dialog, row |-> panel.selected]
    /\ UNCHANGED <<screen, lists>>

(* An input that the form refuses: nothing is sent.                        *)
Invalid ==
    /\ panel' = [panel EXCEPT !.error = TRUE]
    /\ UNCHANGED <<screen, lists, save>>

Filled == panel.dialog \in {"create", "edit"}

SaveUser == At("users") /\ UserButtonsOffered /\ Filled /\ (SendSave \/ Invalid)

ChangeUserStatus == At("users") /\ UserButtonsOffered /\ panel.dialog = "status" /\ SendSave

ReissuePassword == At("users") /\ UserButtonsOffered /\ panel.dialog = "reissue" /\ SendSave

SaveTool == At("tools") /\ ToolButtonsOffered /\ Filled /\ (SendSave \/ Invalid)

ChangeToolStatus == At("tools") /\ ToolButtonsOffered /\ panel.dialog = "status" /\ SendSave

SaveCategory == At("categories") /\ CategoryButtonsOffered /\ Filled /\ (SendSave \/ Invalid)

ChangeCategoryStatus ==
    At("categories") /\ CategoryButtonsOffered /\ panel.dialog = "status" /\ SendSave

(* The clipboard may be out of reach.                                      *)
CopyPassword ==
    /\ At("users") /\ panel.dialog = "password"
    /\ \E failed \in BOOLEAN : panel' = [panel EXCEPT !.error = @ \/ failed]
    /\ UNCHANGED <<screen, lists, save>>

Saved(p) ==
    /\ StartLoad(p, lists, "save")
    /\ save' = NoSave
    /\ UNCHANGED screen

(* A user who has been created or has a new temporary password: the dialog *)
(* turns to the password, and to the row of the answer.                    *)
PasswordIssued(r) ==
    Saved([panel EXCEPT !.password = r.id, !.selected = r, !.dialog = "password"])

UserCreated ==
    /\ At("users") /\ save.dialog = "create"
    /\ \E r \in Item : r.id # Own /\ PasswordIssued(r)

PasswordReissued ==
    /\ At("users") /\ save.dialog = "reissue"
    /\ \E s \in States : PasswordIssued([save.row EXCEPT !.status = s])

UserUpdated ==
    /\ At("users") /\ save.dialog \in {"edit", "status"}
    /\ Saved([panel EXCEPT !.dialog = "none"])

ToolSaved ==
    /\ At("tools") /\ save.dialog # "none"
    /\ Saved([panel EXCEPT !.dialog = "none"])

CategorySaved ==
    /\ At("categories") /\ save.dialog # "none"
    /\ Saved([panel EXCEPT !.dialog = "none"])

SaveFails_StaysBusy ==
    /\ save.dialog # "none"
    /\ panel' = [panel EXCEPT !.error = TRUE]
    /\ save' = NoSave
    /\ UNCHANGED <<screen, lists>>

SaveFails ==
    /\ save.dialog # "none"
    /\ panel' = [panel EXCEPT !.error = TRUE, !.saving = FALSE]
    /\ save' = NoSave
    /\ UNCHANGED <<screen, lists>>
-----------------------------------------------------------------------------
Answered ==
    \/ UserCreated \/ PasswordReissued \/ UserUpdated
    \/ ToolSaved \/ CategorySaved \/ SaveFails

ListAnswered(l) ==
    UsersLoaded(l) \/ ToolsLoaded(l) \/ CategoriesLoaded(l) \/ LoadFails(l)

Clicks ==
    \/ FilterUsers \/ MoveUsersPage \/ FilterTools \/ MoveToolsPage \/ FilterCategories
    \/ OpenCreateUser \/ OpenEditUser \/ OpenUserAction
    \/ OpenCreateTool \/ OpenEditTool \/ OpenToolStatus
    \/ OpenCreateCategory \/ OpenEditCategory \/ OpenCategoryStatus
    \/ CloseUserDialog \/ CloseToolDialog \/ CloseCategoryDialog
    \/ SaveUser \/ ChangeUserStatus \/ ReissuePassword \/ CopyPassword
    \/ SaveTool \/ ChangeToolStatus \/ SaveCategory \/ ChangeCategoryStatus

ScreensNext == Clicks \/ Answered \/ \E l \in lists : ListAnswered(l)

ScreensSpec == ScreensInit /\ [][ScreensNext]_panelVars

(* No request stays open for ever: it is answered, or its connection       *)
(* breaks.                                                                 *)
ScreensFairness ==
    /\ WF_panelVars(Answered)
    /\ \A n \in 1..(MaxLoads + 2) :
         WF_panelVars(\E l \in lists : l.id = n /\ ListAnswered(l))

FairScreensSpec == ScreensSpec /\ ScreensFairness
-----------------------------------------------------------------------------
(* Properties.                                                             *)

(* The answer to a save finds the dialog that sent it, still open on the   *)
(* same row, although its buttons, the Escape key and the reload of an     *)
(* earlier save are at work meanwhile: it never closes another dialog.     *)
AnswersMeetTheirDialog ==
    [][Answered => save = [dialog |-> panel.dialog, row |-> panel.selected]]_panelVars

(* A temporary password is on display in the dialog of its own user only,  *)
(* and it is gone when that dialog is closed.                              *)
PasswordOfSelected ==
    panel.password # Nobody =>
        panel.dialog = "password" /\ panel.selected.id = panel.password

(* The tools never stay on a page that has gone, whatever filters, saves   *)
(* and other administrators leave of the list.                             *)
ToolPageExists == At("tools") => panel.page <= PageCount(panel)

(* A screen that says it is busy waits for an answer: neither flag outlives*)
(* the requests it stands for, one failing after another included.         *)
BusyMeansWaiting ==
    /\ panel.loading => lists # {}
    /\ panel.saving => save # NoSave \/ \E l \in lists : l.after = "save"

(* Together, with the types.                                               *)
ScreensInv == ScreensTypeOK /\ PasswordOfSelected /\ ToolPageExists /\ BusyMeansWaiting

(* A save ends, and the dialog can be closed or used again, unless pages of*)
(* a list that shrinks and grows are turned for ever: a reload that finds  *)
(* its page gone starts over, and the save with it.                        *)
SavesEnd ==
    <>[][~MoveToolsPage]_panelVars => (panel.saving ~> ~panel.saving)

=============================================================================
