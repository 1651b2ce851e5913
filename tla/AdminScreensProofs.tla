------------------------- MODULE AdminScreensProofs -------------------------
(***************************************************************************)
(* Theorems about AdminScreens, for all rows and lists of any length.      *)
(***************************************************************************)
EXTENDS AdminScreens, FiniteSetTheorems, TLAPS

(* A save under way has its dialog open on its row, and its buttons dead.  *)
SaveOK ==
    save # NoSave =>
        /\ panel.saving
        /\ save.dialog = panel.dialog /\ save.row = panel.selected
        /\ save.dialog \in {"create", "edit", "status", "reissue"}

(* The reload that ends a save is the only one, and no other save runs.    *)
EndOK ==
    \A l \in lists : l.after = "save" =>
        /\ panel.saving /\ save = NoSave
        /\ \A k \in lists : k.after = "save" => k = l

(* Only the users' screen has passwords on display, and a password is      *)
(* reissued for a row of the list.                                         *)
DialogOK ==
    /\ ~At("users") => panel.password = Nobody
    /\ panel.dialog = "reissue" => panel.selected \in Item

(* The inductive invariant.                                                *)
AllScreensInv == ScreensInv /\ IsFiniteSet(lists) /\ SaveOK /\ EndOK /\ DialogOK

LEMMA PageCountBounds ==
    ASSUME NEW p \in Panel
    PROVE  PageCount(p) \in 1..MaxTotal
  BY ScreensAssumption DEF PageCount, Panel

LEMMA InitInv == ScreensInit => AllScreensInv
  <1> SUFFICES ASSUME ScreensInit PROVE AllScreensInv
    OBVIOUS
  <1>1. panel \in Panel
    BY ScreensAssumption DEF ScreensInit, Panel, Dialogs
  <1>2. IsFiniteSet(lists)
    BY FS_Singleton DEF ScreensInit
  <1>3. [id |-> 1, page |-> 1, after |-> "nothing"] \in List
    BY ScreensAssumption DEF List
  <1>4. ScreensTypeOK
    <2>1. save \in [dialog : Dialogs, row : Item \cup {NoItem}]
      BY DEF ScreensInit, NoSave, Dialogs
    <2>2. screen \in [name : {"users", "tools", "categories"}, admin : BOOLEAN]
      BY DEF ScreensInit
    <2> QED BY <1>1, <1>3, <2>1, <2>2 DEF ScreensTypeOK, ScreensInit
  <1>5. PasswordOfSelected /\ ToolPageExists /\ BusyMeansWaiting
    BY DEF ScreensInit, PasswordOfSelected, ToolPageExists, BusyMeansWaiting, PageCount
  <1>6. SaveOK /\ EndOK /\ DialogOK
    BY DEF ScreensInit, SaveOK, EndOK, DialogOK
  <1> QED BY <1>2, <1>4, <1>5, <1>6 DEF AllScreensInv, ScreensInv

(* A load can always be given a name that no load under way has.           *)
LEMMA NewIdIsNew ==
    ASSUME IsFiniteSet(lists), lists \subseteq List
    PROVE  NewId \in Nat /\ \A l \in lists : l.id # NewId
  <1> DEFINE k == Cardinality(lists)
             ids == {l.id : l \in lists}
  <1>1. k \in Nat
    BY FS_CardinalityType
  <1>2. IsFiniteSet(ids) /\ Cardinality(ids) <= k
    <2> DEFINE f == [l \in lists |-> l.id]
    <2>1. f \in Surjection(lists, ids)
      BY DEF Surjection
    <2> QED BY <2>1, FS_Surjection
  <1>3. IsFiniteSet(1..(k + 1)) /\ Cardinality(1..(k + 1)) = k + 1
    BY <1>1, FS_Interval
  <1>4. ~(1..(k + 1) \subseteq ids)
    <2> SUFFICES ASSUME 1..(k + 1) \subseteq ids PROVE FALSE
      OBVIOUS
    <2> HIDE DEF ids, k
    <2>1. Cardinality(1..(k + 1)) <= Cardinality(ids)
      BY <1>2, FS_Subset
    <2>2. Cardinality(ids) \in Nat
      BY <1>2, FS_CardinalityType
    <2> QED BY <1>1, <1>2, <1>3, <2>1, <2>2
  <1>5. \E n \in 1..(k + 1) : \A l \in lists : l.id # n
    BY <1>4
  <1> QED BY <1>1, <1>5 DEF NewId

(* A step of the panel only, on the page and with the busy flags it has.   *)
LEMMA PanelStep ==
    ASSUME AllScreensInv, UNCHANGED <<screen, lists, save>>,
           panel' \in Panel,
           panel'.saving = panel.saving, panel'.loading = panel.loading,
           panel'.page = panel.page, panel'.total = panel.total,
           save # NoSave => panel'.dialog = panel.dialog /\ panel'.selected = panel.selected,
           panel'.password \in {panel.password, Nobody},
           panel'.password # Nobody =>
               panel'.dialog = "password" /\ panel'.selected.id = panel'.password,
           panel'.dialog = "reissue" => panel'.selected \in Item
    PROVE  AllScreensInv'
  <1>1. ScreensTypeOK'
    BY DEF AllScreensInv, ScreensInv, ScreensTypeOK
  <1>2. PasswordOfSelected' /\ ToolPageExists' /\ BusyMeansWaiting'
    BY DEF AllScreensInv, ScreensInv, PasswordOfSelected, ToolPageExists, BusyMeansWaiting,
           PageCount, At
  <1>3. SaveOK' /\ EndOK' /\ DialogOK'
    BY DEF AllScreensInv, SaveOK, EndOK, DialogOK, At
  <1> QED BY <1>1, <1>2, <1>3 DEF AllScreensInv, ScreensInv

(* A load that begins leaves the dialog and the save alone.                *)
LEMMA ReloadStep ==
    ASSUME AllScreensInv, NEW n \in 1..(MaxTotal + 1),
           At("tools") => n <= PageCount(panel),
           Reload([panel EXCEPT !.page = n])
    PROVE  AllScreensInv'
  <1> DEFINE new == [id |-> NewId, page |-> n, after |-> "nothing"]
  <1>1. panel \in Panel /\ lists \subseteq List /\ IsFiniteSet(lists)
    BY DEF AllScreensInv, ScreensInv, ScreensTypeOK
  <1>2. new \in List
    BY <1>1, NewIdIsNew DEF List
  <1>3. /\ panel' = [panel EXCEPT !.page = n, !.loading = TRUE, !.error = FALSE]
        /\ lists' = lists \cup {new}
        /\ UNCHANGED <<screen, save>>
    BY <1>1 DEF Reload, StartLoad, Panel
  <1> HIDE DEF new
  <1>4. panel' \in Panel
    BY <1>1, <1>3 DEF Panel
  <1>5. /\ panel'.page = n /\ panel'.loading = TRUE
        /\ panel'.saving = panel.saving /\ panel'.total = panel.total
        /\ panel'.dialog = panel.dialog /\ panel'.selected = panel.selected
        /\ panel'.password = panel.password
    BY <1>1, <1>3 DEF Panel
  <1>6. ScreensTypeOK'
    BY <1>2, <1>3, <1>4 DEF AllScreensInv, ScreensInv, ScreensTypeOK
  <1>7. IsFiniteSet(lists')
    BY <1>1, <1>3, FS_AddElement
  <1>8. PasswordOfSelected' /\ ToolPageExists'
    BY <1>3, <1>5 DEF AllScreensInv, ScreensInv, PasswordOfSelected, ToolPageExists, PageCount, At
  <1>9. BusyMeansWaiting'
    BY <1>3, <1>5 DEF AllScreensInv, ScreensInv, BusyMeansWaiting
  <1>10. SaveOK' /\ DialogOK'
    BY <1>3, <1>5 DEF AllScreensInv, SaveOK, DialogOK, At
  <1>11. EndOK'
    <2>1. new.after = "nothing"
      BY DEF new
    <2> QED BY <1>3, <1>5, <2>1 DEF AllScreensInv, EndOK
  <1> QED BY <1>6, <1>7, <1>8, <1>9, <1>10, <1>11 DEF AllScreensInv, ScreensInv
-----------------------------------------------------------------------------
(* Answers of the list.                                                    *)
Same(p) ==
    /\ p.page = panel.page /\ p.loading = panel.loading /\ p.saving = panel.saving
    /\ p.dialog = panel.dialog /\ p.selected = panel.selected
    /\ p.password = panel.password

LEMMA ReceivedFields ==
    ASSUME panel \in Panel, NEW l \in List, NEW a \in Received(l)
    PROVE  WithAnswer(a) \in Panel /\ Same(WithAnswer(a))
  <1>1. a.items \in SUBSET Item /\ a.total \in 0..MaxTotal
    BY DEF Received
  <1> QED BY <1>1 DEF WithAnswer, Panel, Same

(* The end of a load is the end of its save only.                          *)
LEMMA EndStep ==
    ASSUME AllScreensInv, NEW l \in lists, NEW p \in Panel, Same(p),
           At("tools") => p.page <= PageCount(p),
           EndLoad(p, l), UNCHANGED <<screen, save>>
    PROVE  AllScreensInv'
  <1>1. lists \subseteq List /\ IsFiniteSet(lists)
    BY DEF AllScreensInv, ScreensInv, ScreensTypeOK
  <1>2. /\ panel' = [p EXCEPT !.loading = FALSE, !.saving = @ /\ l.after # "save"]
        /\ lists' = lists \ {l}
    BY DEF EndLoad
  <1>3. p.saving \in BOOLEAN
    BY DEF Panel
  <1>4. /\ panel' \in Panel
        /\ panel'.loading = FALSE /\ panel'.saving = (p.saving /\ l.after # "save")
        /\ panel'.page = p.page /\ panel'.total = p.total
        /\ panel'.dialog = p.dialog /\ panel'.selected = p.selected
        /\ panel'.password = p.password
    BY <1>2, <1>3 DEF Panel
  <1>5. ScreensTypeOK' /\ IsFiniteSet(lists')
    BY <1>1, <1>2, <1>4, FS_RemoveElement DEF AllScreensInv, ScreensInv, ScreensTypeOK
  <1>6. PasswordOfSelected' /\ ToolPageExists'
    BY <1>4 DEF AllScreensInv, ScreensInv, PasswordOfSelected, ToolPageExists, PageCount,
                At, Same
  <1>7. BusyMeansWaiting'
    BY <1>2, <1>4 DEF AllScreensInv, ScreensInv, BusyMeansWaiting, Same
  <1>8. SaveOK' /\ DialogOK'
    BY <1>4 DEF AllScreensInv, SaveOK, EndOK, Same, DialogOK, At
  <1>9. EndOK'
    BY <1>2, <1>4 DEF AllScreensInv, EndOK, Same
  <1> QED BY <1>5, <1>6, <1>7, <1>8, <1>9 DEF AllScreensInv, ScreensInv

(* A load of the tools that starts over stays the load it was.             *)
LEMMA RestartStep ==
    ASSUME AllScreensInv, NEW l \in lists, NEW p \in Panel, Same(p),
           StartLoad([p EXCEPT !.page = PageCount(p)], lists \ {l}, l.after),
           UNCHANGED <<screen, save>>
    PROVE  AllScreensInv'
  <1> DEFINE n == PageCount(p)
             new == [id |-> NewId, page |-> n, after |-> l.after]
  <1>1. lists \subseteq List /\ IsFiniteSet(lists) /\ l \in List
    BY DEF AllScreensInv, ScreensInv, ScreensTypeOK
  <1>2. n \in 1..MaxTotal
    BY PageCountBounds
  <1>3. new \in List
    BY <1>1, <1>2, NewIdIsNew, ScreensAssumption DEF List
  <1>4. /\ panel' = [p EXCEPT !.page = n, !.loading = TRUE, !.error = FALSE]
        /\ lists' = (lists \ {l}) \cup {new}
    BY DEF StartLoad, Panel
  <1>5. new.after = l.after
    OBVIOUS
  <1>6. n = PageCount(p)
    OBVIOUS
  <1> HIDE DEF new, n
  <1>7. n \in 1..(MaxTotal + 1)
    BY <1>2, ScreensAssumption
  <1>8. panel' \in Panel
    BY <1>4, <1>7 DEF Panel
  <1>9. /\ panel'.page = n /\ panel'.loading = TRUE
        /\ panel'.saving = p.saving /\ panel'.total = p.total
        /\ panel'.dialog = p.dialog /\ panel'.selected = p.selected
        /\ panel'.password = p.password
    BY <1>4 DEF Panel
  <1>10. ScreensTypeOK'
    BY <1>3, <1>4, <1>8, <1>9 DEF AllScreensInv, ScreensInv, ScreensTypeOK
  <1>11. IsFiniteSet(lists')
    BY <1>1, <1>4, FS_AddElement, FS_RemoveElement
  <1>12. PasswordOfSelected' /\ ToolPageExists'
    BY <1>2, <1>6, <1>8, <1>9
       DEF AllScreensInv, ScreensInv, PasswordOfSelected, ToolPageExists, PageCount, At, Same
  <1>13. BusyMeansWaiting'
    BY <1>4, <1>5, <1>8, <1>9 DEF AllScreensInv, ScreensInv, BusyMeansWaiting, Same
  <1>14. SaveOK' /\ DialogOK'
    BY <1>8, <1>9 DEF AllScreensInv, SaveOK, Same, DialogOK, At
  <1>15. EndOK'
    BY <1>4, <1>5, <1>8, <1>9 DEF AllScreensInv, EndOK, Same
  <1> QED BY <1>10, <1>11, <1>12, <1>13, <1>14, <1>15 DEF AllScreensInv, ScreensInv

LEMMA ListAnsweredStep ==
    ASSUME AllScreensInv, NEW l \in lists, ListAnswered(l)
    PROVE  AllScreensInv'
  <1>1. panel \in Panel /\ l \in List
    BY DEF AllScreensInv, ScreensInv, ScreensTypeOK
  <1>2. CASE UsersLoaded(l)
    <2>1. PICK a \in Received(l) : EndLoad(WithAnswer(a), l)
      BY <1>2 DEF UsersLoaded
    <2>2. ~At("tools") /\ UNCHANGED <<screen, save>>
      BY <1>2 DEF UsersLoaded, At
    <2> QED BY <1>1, <2>1, <2>2, ReceivedFields, EndStep
  <1>3. CASE ToolsLoaded(l)
    <2>1. PICK a \in Received(l) : LET p == WithAnswer(a) IN
             IF p.page > PageCount(p)
             THEN StartLoad([p EXCEPT !.page = PageCount(p)], lists \ {l}, l.after)
             ELSE EndLoad(p, l)
      BY <1>3 DEF ToolsLoaded
    <2>2. UNCHANGED <<screen, save>>
      BY <1>3 DEF ToolsLoaded
    <2> DEFINE p == WithAnswer(a)
    <2>3. p \in Panel /\ Same(p)
      BY <1>1, ReceivedFields
    <2> HIDE DEF p
    <2>4. CASE p.page > PageCount(p)
      BY <2>1, <2>2, <2>3, <2>4, RestartStep DEF p
    <2>5. CASE ~(p.page > PageCount(p))
      <3>1. p.page <= PageCount(p)
        BY <2>3, <2>5, PageCountBounds DEF Panel
      <3> QED BY <2>1, <2>2, <2>3, <2>5, <3>1, EndStep DEF p
    <2> QED BY <2>4, <2>5
  <1>4. CASE CategoriesLoaded(l)
    <2>1. PICK its \in {{}} \cup {{r} : r \in Item} : EndLoad([panel EXCEPT !.items = its], l)
      BY <1>4 DEF CategoriesLoaded
    <2> DEFINE p == [panel EXCEPT !.items = its]
    <2>2. p \in Panel /\ Same(p)
      <3>1. its \in SUBSET Item
        BY <2>1
      <3> QED BY <1>1, <3>1 DEF Panel, Same
    <2>3. ~At("tools") /\ UNCHANGED <<screen, save>>
      BY <1>4 DEF CategoriesLoaded, At
    <2> HIDE DEF p
    <2> QED BY <2>1, <2>2, <2>3, EndStep DEF p
  <1>5. CASE LoadFails(l)
    <2> DEFINE p == [panel EXCEPT !.error = TRUE]
    <2>1. p \in Panel /\ Same(p) /\ p.total = panel.total
      BY <1>1 DEF Panel, Same
    <2>2. EndLoad(p, l) /\ UNCHANGED <<screen, save>>
      BY <1>5 DEF LoadFails
    <2> HIDE DEF p
    <2>3. At("tools") => p.page <= PageCount(p)
      BY <2>1 DEF AllScreensInv, ScreensInv, ToolPageExists, PageCount, Same
    <2> QED BY <2>1, <2>2, <2>3, EndStep
  <1> QED BY <1>2, <1>3, <1>4, <1>5 DEF ListAnswered
-----------------------------------------------------------------------------
(* Dialogs.                                                                *)
LEMMA NoRow == NoItem \notin Item /\ NoItem.id = Nobody
  BY ScreensAssumption DEF NoItem, Item

(* A dialog opens when none is open, so no save and no password is there.  *)
LEMMA OpenStep ==
    ASSUME AllScreensInv, InReach, NEW mode \in Dialogs \ {"none", "password"},
           NEW row \in Item \cup {NoItem}, OpenDialog(mode, row),
           mode = "reissue" => row \in Item
    PROVE  AllScreensInv'
  <1>1. panel \in Panel
    BY DEF AllScreensInv, ScreensInv, ScreensTypeOK
  <1>2. panel' = [panel EXCEPT !.error = FALSE, !.selected = row, !.dialog = mode]
    BY DEF OpenDialog
  <1>3. panel' \in Panel
    BY <1>1, <1>2 DEF Panel
  <1>4. /\ panel'.saving = panel.saving /\ panel'.loading = panel.loading
        /\ panel'.page = panel.page /\ panel'.total = panel.total
        /\ panel'.password = panel.password
        /\ panel'.dialog = mode /\ panel'.selected = row
    BY <1>1, <1>2 DEF Panel
  <1>5. panel.password = Nobody
    BY DEF AllScreensInv, ScreensInv, PasswordOfSelected, InReach
  <1>6. save = NoSave
    BY DEF AllScreensInv, SaveOK, InReach
  <1> QED BY <1>3, <1>4, <1>5, <1>6, PanelStep DEF OpenDialog

LEMMA OpensStep ==
    ASSUME AllScreensInv,
           \/ OpenCreateUser \/ OpenEditUser \/ OpenUserAction
           \/ OpenCreateTool \/ OpenEditTool \/ OpenToolStatus
           \/ OpenCreateCategory \/ OpenEditCategory \/ OpenCategoryStatus
    PROVE  AllScreensInv'
  <1>1. Listed \subseteq Item
    BY DEF AllScreensInv, ScreensInv, ScreensTypeOK, Panel, Listed
  <1>2. \A mode : UserRowsOffered(mode) # {} => InReach /\ UserRowsOffered(mode) \subseteq Item
    BY <1>1 DEF UserRowsOffered
  <1>3. ToolRowsOffered # {} => InReach /\ ToolRowsOffered \subseteq Item
    BY <1>1 DEF ToolRowsOffered
  <1>4. \A mode : CategoryRowsOffered(mode) # {}
                    => InReach /\ CategoryRowsOffered(mode) \subseteq Item
    BY <1>1 DEF CategoryRowsOffered
  <1>5. InReach /\ \E mode \in Dialogs \ {"none", "password"}, row \in Item \cup {NoItem} :
           OpenDialog(mode, row) /\ (mode = "reissue" => row \in Item)
    <2>1. CASE OpenCreateUser \/ OpenCreateTool \/ OpenCreateCategory
      BY <2>1 DEF OpenCreateUser, OpenCreateTool, OpenCreateCategory, Dialogs
    <2>2. CASE OpenEditUser \/ OpenUserAction
      BY <1>2, <2>2 DEF OpenEditUser, OpenUserAction, Dialogs
    <2>3. CASE OpenEditTool \/ OpenToolStatus
      BY <1>3, <2>3 DEF OpenEditTool, OpenToolStatus, Dialogs
    <2>4. CASE OpenEditCategory \/ OpenCategoryStatus
      BY <1>4, <2>4 DEF OpenEditCategory, OpenCategoryStatus, Dialogs
    <2> QED BY <2>1, <2>2, <2>3, <2>4
  <1> QED BY <1>5, OpenStep

(* A dialog closes when no save is under way; a user's password goes too.  *)
LEMMA CloseStep ==
    ASSUME AllScreensInv, CloseUserDialog \/ CloseToolDialog \/ CloseCategoryDialog
    PROVE  AllScreensInv'
  <1>1. panel \in Panel /\ ~panel.saving /\ UNCHANGED <<screen, lists, save>>
    BY DEF AllScreensInv, ScreensInv, ScreensTypeOK, CloseUserDialog, CloseToolDialog,
           CloseCategoryDialog
  <1>2. save = NoSave
    BY <1>1 DEF AllScreensInv, SaveOK
  <1>3. CASE CloseUserDialog
    <2>1. panel' = [panel EXCEPT !.dialog = "none", !.selected = NoItem,
                                 !.password = Nobody, !.error = FALSE]
      BY <1>3 DEF CloseUserDialog
    <2>2. panel' \in Panel
      BY <1>1, <2>1 DEF Panel, Dialogs
    <2>3. /\ panel'.saving = panel.saving /\ panel'.loading = panel.loading
          /\ panel'.page = panel.page /\ panel'.total = panel.total
          /\ panel'.password = Nobody /\ panel'.dialog = "none"
      BY <1>1, <2>1 DEF Panel
    <2> QED BY <1>1, <1>2, <2>2, <2>3, PanelStep
  <1>4. CASE CloseToolDialog \/ CloseCategoryDialog
    <2>1. panel' = [panel EXCEPT !.dialog = "none", !.selected = NoItem, !.error = FALSE]
      BY <1>4 DEF CloseToolDialog, CloseCategoryDialog
    <2>2. panel' \in Panel
      BY <1>1, <2>1 DEF Panel, Dialogs
    <2>3. /\ panel'.saving = panel.saving /\ panel'.loading = panel.loading
          /\ panel'.page = panel.page /\ panel'.total = panel.total
          /\ panel'.password = panel.password /\ panel'.dialog = "none"
      BY <1>1, <2>1 DEF Panel
    <2>4. panel.password = Nobody
      BY <1>4 DEF CloseToolDialog, CloseCategoryDialog, At, AllScreensInv, DialogOK
    <2> QED BY <1>1, <1>2, <2>2, <2>3, <2>4, PanelStep
  <1> QED BY <1>3, <1>4
-----------------------------------------------------------------------------
(* Saves.                                                                  *)

(* A request is sent by a dialog that waits for none.                      *)
LEMMA SendStep ==
    ASSUME AllScreensInv, SendSave, ~panel.saving,
           panel.dialog \in {"create", "edit", "status", "reissue"}
    PROVE  AllScreensInv'
  <1>1. panel \in Panel
    BY DEF AllScreensInv, ScreensInv, ScreensTypeOK
  <1>2. /\ panel' = [panel EXCEPT !.saving = TRUE, !.error = FALSE]
        /\ save' = [dialog |-> panel.dialog, row |-> panel.selected]
        /\ UNCHANGED <<screen, lists>>
    BY DEF SendSave
  <1>3. panel' \in Panel
    BY <1>1, <1>2 DEF Panel
  <1>4. /\ panel'.saving = TRUE /\ panel'.loading = panel.loading
        /\ panel'.page = panel.page /\ panel'.total = panel.total
        /\ panel'.dialog = panel.dialog /\ panel'.selected = panel.selected
        /\ panel'.password = panel.password
    BY <1>1, <1>2 DEF Panel
  <1>5. save'.dialog = panel.dialog /\ save'.row = panel.selected /\ save' # NoSave
    BY <1>2 DEF NoSave
  <1>6. ScreensTypeOK'
    <2>1. save' \in [dialog : Dialogs, row : Item \cup {NoItem}]
      BY <1>1, <1>2 DEF Panel
    <2> QED BY <1>2, <1>3, <2>1 DEF AllScreensInv, ScreensInv, ScreensTypeOK
  <1>7. PasswordOfSelected' /\ ToolPageExists'
    BY <1>2, <1>4 DEF AllScreensInv, ScreensInv, PasswordOfSelected, ToolPageExists,
                      PageCount, At
  <1>8. BusyMeansWaiting'
    BY <1>2, <1>4, <1>5 DEF AllScreensInv, ScreensInv, BusyMeansWaiting
  <1>9. SaveOK' /\ DialogOK'
    BY <1>2, <1>4, <1>5 DEF AllScreensInv, SaveOK, DialogOK, At
  <1>10. EndOK' /\ IsFiniteSet(lists')
    BY <1>2 DEF AllScreensInv, EndOK
  <1> QED BY <1>6, <1>7, <1>8, <1>9, <1>10 DEF AllScreensInv, ScreensInv

(* A save that is done reloads the list; its dialog closes or turns to the *)
(* new password.                                                           *)
LEMMA SavedStep ==
    ASSUME AllScreensInv, save # NoSave, NEW p \in Panel, Saved(p),
           p.saving = panel.saving, p.page = panel.page, p.total = panel.total,
           ~At("users") => p.password = Nobody,
           p.password # Nobody => p.dialog = "password" /\ p.selected.id = p.password,
           p.dialog # "reissue"
    PROVE  AllScreensInv'
  <1> DEFINE new == [id |-> NewId, page |-> p.page, after |-> "save"]
  <1>1. panel \in Panel /\ lists \subseteq List /\ IsFiniteSet(lists)
    BY DEF AllScreensInv, ScreensInv, ScreensTypeOK
  <1>2. new \in List
    BY <1>1, NewIdIsNew DEF List, Panel
  <1>3. /\ panel' = [p EXCEPT !.loading = TRUE, !.error = FALSE]
        /\ lists' = lists \cup {new} /\ save' = NoSave /\ UNCHANGED screen
    BY DEF Saved, StartLoad
  <1>4. new.after = "save"
    OBVIOUS
  <1> HIDE DEF new
  <1>5. panel' \in Panel
    BY <1>3 DEF Panel
  <1>6. /\ panel'.page = p.page /\ panel'.total = p.total /\ panel'.loading = TRUE
        /\ panel'.saving = p.saving /\ panel'.dialog = p.dialog
        /\ panel'.selected = p.selected /\ panel'.password = p.password
    BY <1>3 DEF Panel
  <1>7. ScreensTypeOK'
    <2>1. save' \in [dialog : Dialogs, row : Item \cup {NoItem}]
      BY <1>3 DEF NoSave, Dialogs
    <2> QED BY <1>2, <1>3, <1>5, <2>1 DEF AllScreensInv, ScreensInv, ScreensTypeOK
  <1>8. IsFiniteSet(lists')
    BY <1>1, <1>3, FS_AddElement
  <1>9. PasswordOfSelected' /\ ToolPageExists' /\ DialogOK'
    BY <1>3, <1>6 DEF AllScreensInv, ScreensInv, PasswordOfSelected, ToolPageExists,
                      PageCount, At, DialogOK
  <1>10. BusyMeansWaiting'
    BY <1>3, <1>4, <1>6 DEF AllScreensInv, ScreensInv, BusyMeansWaiting
  <1>11. SaveOK'
    BY <1>3 DEF SaveOK
  <1>12. EndOK'
    <2>1. panel.saving /\ \A l \in lists : l.after # "save"
      BY DEF AllScreensInv, SaveOK, EndOK
    <2> QED BY <1>3, <1>4, <1>6, <2>1 DEF EndOK
  <1> QED BY <1>7, <1>8, <1>9, <1>10, <1>11, <1>12 DEF AllScreensInv, ScreensInv

LEMMA AnsweredStep == ASSUME AllScreensInv, Answered PROVE AllScreensInv'
  <1>1. panel \in Panel /\ save \in [dialog : Dialogs, row : Item \cup {NoItem}]
    BY DEF AllScreensInv, ScreensInv, ScreensTypeOK
  <1>2. save # NoSave
    BY DEF Answered, UserCreated, PasswordReissued, UserUpdated, ToolSaved, CategorySaved,
           SaveFails, NoSave
  <1>3. SaveOK /\ panel.saving
    BY <1>2 DEF AllScreensInv, SaveOK
  <1>4. ASSUME NEW r \in Item, At("users"), PasswordIssued(r) PROVE AllScreensInv'
    <2> DEFINE p == [panel EXCEPT !.password = r.id, !.selected = r, !.dialog = "password"]
    <2>1. p \in Panel
      BY <1>1 DEF Panel, Item, Dialogs
    <2>2. /\ p.saving = panel.saving /\ p.page = panel.page /\ p.total = panel.total
          /\ p.dialog = "password" /\ p.selected = r /\ p.password = r.id
      BY <1>1 DEF Panel
    <2>3. Saved(p)
      BY <1>4 DEF PasswordIssued
    <2> HIDE DEF p
    <2> QED BY <1>2, <1>4, <2>1, <2>2, <2>3, SavedStep
  <1>5. CASE UserCreated
    BY <1>4, <1>5 DEF UserCreated
  <1>6. CASE PasswordReissued
    <2>1. PICK s \in States : PasswordIssued([save.row EXCEPT !.status = s])
      BY <1>6 DEF PasswordReissued
    <2>2. save.row \in Item
      BY <1>2, <1>6 DEF PasswordReissued, AllScreensInv, SaveOK, DialogOK
    <2>3. [save.row EXCEPT !.status = s] \in Item
      BY <2>2 DEF Item
    <2> QED BY <1>4, <1>6, <2>1, <2>3 DEF PasswordReissued
  <1>7. ASSUME Saved([panel EXCEPT !.dialog = "none"]), panel.password = Nobody
        PROVE  AllScreensInv'
    <2> DEFINE p == [panel EXCEPT !.dialog = "none"]
    <2>1. p \in Panel
      BY <1>1 DEF Panel, Dialogs
    <2>2. /\ p.saving = panel.saving /\ p.page = panel.page /\ p.total = panel.total
          /\ p.password = panel.password /\ p.dialog = "none"
      BY <1>1 DEF Panel
    <2>3. Saved(p)
      BY <1>7
    <2> HIDE DEF p
    <2> QED BY <1>2, <1>7, <2>1, <2>2, <2>3, SavedStep
  <1>8. CASE UserUpdated \/ ToolSaved \/ CategorySaved
    <2>1. panel.password = Nobody
      BY <1>2 DEF AllScreensInv, ScreensInv, SaveOK, PasswordOfSelected
    <2> QED BY <1>7, <1>8, <2>1 DEF UserUpdated, ToolSaved, CategorySaved
  <1>9. CASE SaveFails
    <2>1. /\ panel' = [panel EXCEPT !.error = TRUE, !.saving = FALSE]
          /\ save' = NoSave /\ UNCHANGED <<screen, lists>>
      BY <1>9 DEF SaveFails
    <2>2. panel' \in Panel
      BY <1>1, <2>1 DEF Panel
    <2>3. /\ panel'.saving = FALSE /\ panel'.loading = panel.loading
          /\ panel'.page = panel.page /\ panel'.total = panel.total
          /\ panel'.dialog = panel.dialog /\ panel'.selected = panel.selected
          /\ panel'.password = panel.password
      BY <1>1, <2>1 DEF Panel
    <2>4. ScreensTypeOK'
      <3>1. save' \in [dialog : Dialogs, row : Item \cup {NoItem}]
        BY <2>1 DEF NoSave, Dialogs
      <3> QED BY <2>1, <2>2, <3>1 DEF AllScreensInv, ScreensInv, ScreensTypeOK
    <2>5. PasswordOfSelected' /\ ToolPageExists' /\ DialogOK'
      BY <2>1, <2>3 DEF AllScreensInv, ScreensInv, PasswordOfSelected, ToolPageExists,
                        PageCount, At, DialogOK
    <2>6. BusyMeansWaiting' /\ SaveOK'
      BY <2>1, <2>3 DEF AllScreensInv, ScreensInv, BusyMeansWaiting, SaveOK
    <2>7. EndOK' /\ IsFiniteSet(lists')
      BY <1>2, <2>1 DEF AllScreensInv, EndOK
    <2> QED BY <2>4, <2>5, <2>6, <2>7 DEF AllScreensInv, ScreensInv
  <1> QED BY <1>5, <1>6, <1>8, <1>9 DEF Answered

LEMMA SendsStep ==
    ASSUME AllScreensInv,
           \/ SaveUser \/ ChangeUserStatus \/ ReissuePassword \/ CopyPassword
           \/ SaveTool \/ ChangeToolStatus \/ SaveCategory \/ ChangeCategoryStatus
    PROVE  AllScreensInv'
  <1>1. panel \in Panel
    BY DEF AllScreensInv, ScreensInv, ScreensTypeOK
  <1>2. ASSUME NEW e \in BOOLEAN, panel' = [panel EXCEPT !.error = e],
               UNCHANGED <<screen, lists, save>>
        PROVE  AllScreensInv'
    <2>1. panel' \in Panel
      BY <1>1, <1>2 DEF Panel
    <2>2. /\ panel'.saving = panel.saving /\ panel'.loading = panel.loading
          /\ panel'.page = panel.page /\ panel'.total = panel.total
          /\ panel'.dialog = panel.dialog /\ panel'.selected = panel.selected
          /\ panel'.password = panel.password
      BY <1>1, <1>2 DEF Panel
    <2>3. PasswordOfSelected /\ DialogOK
      BY DEF AllScreensInv, ScreensInv
    <2> QED BY <1>2, <2>1, <2>2, <2>3, PanelStep DEF PasswordOfSelected, DialogOK
  <1>3. CASE Invalid
    BY <1>2, <1>3 DEF Invalid
  <1>4. CASE CopyPassword
    <2>1. PICK failed \in BOOLEAN : panel' = [panel EXCEPT !.error = @ \/ failed]
      BY <1>4 DEF CopyPassword
    <2>2. (panel.error \/ failed) \in BOOLEAN
      OBVIOUS
    <2> QED BY <1>2, <1>4, <2>1, <2>2 DEF CopyPassword
  <1>5. CASE /\ SendSave /\ ~panel.saving
             /\ panel.dialog \in {"create", "edit", "status", "reissue"}
    BY <1>5, SendStep
  <1> QED BY <1>3, <1>4, <1>5
          DEF SaveUser, ChangeUserStatus, ReissuePassword, SaveTool, ChangeToolStatus,
              SaveCategory, ChangeCategoryStatus, Filled, UserButtonsOffered,
              ToolButtonsOffered, CategoryButtonsOffered

LEMMA LoadsStep ==
    ASSUME AllScreensInv,
           \/ FilterUsers \/ MoveUsersPage
           \/ FilterTools \/ MoveToolsPage \/ FilterCategories
    PROVE  AllScreensInv'
  <1>1. panel \in Panel
    BY DEF AllScreensInv, ScreensInv, ScreensTypeOK
  <1>2. PageCount(panel) \in 1..MaxTotal
    BY <1>1, PageCountBounds
  <1>3. \E n \in 1..(MaxTotal + 1) :
           (At("tools") => n <= PageCount(panel)) /\ Reload([panel EXCEPT !.page = n])
    <2>1. CASE FilterUsers \/ FilterTools
      BY <1>2, <2>1, ScreensAssumption DEF FilterUsers, FilterTools
    <2>2. CASE MoveUsersPage
      <3>1. PICK n \in UserPagesOffered : Reload([panel EXCEPT !.page = n])
        BY <2>2 DEF MoveUsersPage
      <3>2. n \in 1..(MaxTotal + 1) /\ ~At("tools")
        BY <2>2 DEF MoveUsersPage, UserPagesOffered, At
      <3> QED BY <3>1, <3>2
    <2>3. CASE MoveToolsPage
      <3>1. PICK n \in ToolPagesOffered : Reload([panel EXCEPT !.page = n])
        BY <2>3 DEF MoveToolsPage
      <3>2. n \in 1..PageCount(panel)
        BY DEF ToolPagesOffered
      <3> QED BY <1>2, <3>1, <3>2, ScreensAssumption
    <2>4. CASE FilterCategories
      <3>1. panel = [panel EXCEPT !.page = panel.page] /\ panel.page \in 1..(MaxTotal + 1)
        BY <1>1 DEF Panel
      <3>2. Reload(panel) /\ ~At("tools")
        BY <2>4 DEF FilterCategories, At
      <3> QED BY <3>1, <3>2
    <2> QED BY <2>1, <2>2, <2>3, <2>4
  <1> QED BY <1>3, ReloadStep
-----------------------------------------------------------------------------
LEMMA NextInv == ASSUME AllScreensInv, [ScreensNext]_panelVars PROVE AllScreensInv'
  <1>1. CASE Clicks
    BY <1>1, LoadsStep, OpensStep, CloseStep, SendsStep DEF Clicks
  <1>2. CASE Answered
    BY <1>2, AnsweredStep
  <1>3. CASE \E l \in lists : ListAnswered(l)
    BY <1>3, ListAnsweredStep
  <1>4. CASE UNCHANGED panelVars
    BY <1>4 DEF panelVars, AllScreensInv, ScreensInv, ScreensTypeOK, PasswordOfSelected,
                ToolPageExists, BusyMeansWaiting, PageCount, At, SaveOK, EndOK, DialogOK
  <1> QED BY <1>1, <1>2, <1>3, <1>4 DEF ScreensNext

LEMMA AllInvAlways == ScreensSpec => []AllScreensInv
  <1> QED BY InitInv, NextInv, PTL DEF ScreensSpec

(* For any rows and lists of any length: a temporary password is shown in  *)
(* its user's dialog only, the tools are on a page that exists, and a      *)
(* screen that is busy waits for an answer.                                *)
THEOREM ScreensInvAlways == ScreensSpec => []ScreensInv
  <1>1. AllScreensInv => ScreensInv
    BY DEF AllScreensInv
  <1> QED BY <1>1, AllInvAlways, PTL

(* The answer to a save finds the dialog that sent it, on the same row.    *)
THEOREM AnswersMeetTheirDialogAlways == ScreensSpec => AnswersMeetTheirDialog
  <1>1. ASSUME AllScreensInv, [ScreensNext]_panelVars
        PROVE  [Answered => save = [dialog |-> panel.dialog, row |-> panel.selected]]_panelVars
    <2> SUFFICES ASSUME Answered
                 PROVE  save = [dialog |-> panel.dialog, row |-> panel.selected]
      OBVIOUS
    <2>1. save # NoSave
      BY DEF Answered, UserCreated, PasswordReissued, UserUpdated, ToolSaved, CategorySaved,
             SaveFails, NoSave
    <2>2. save.dialog = panel.dialog /\ save.row = panel.selected
      BY <1>1, <2>1 DEF AllScreensInv, SaveOK
    <2>3. save \in [dialog : Dialogs, row : Item \cup {NoItem}]
      BY <1>1 DEF AllScreensInv, ScreensInv, ScreensTypeOK
    <2> QED BY <2>2, <2>3
  <1> QED BY <1>1, AllInvAlways, PTL DEF ScreensSpec, AnswersMeetTheirDialog
=============================================================================
