------------------------------ MODULE DailyView ------------------------------
(***************************************************************************)
(* The daily checklist screen around its items: moving between dates,      *)
(* loading, creating, replacing, extending and deleting the checklist of   *)
(* the date (src/frontend/src/views/DailyChecklistView.vue and the dialogs *)
(* ChecklistCreationDialog.vue and ChecklistCategoryAdditionDialog.vue).   *)
(* A date changes by the form, the button for today or the history of the  *)
(* browser, which works while a dialog is open and requests are under way. *)
(***************************************************************************)
EXTENDS Naturals, FiniteSets

CONSTANTS
    Dates,          \* dates of work, none of them past
    Choices,        \* selections of categories that the dialog can send
    NoDate,         \* no date
    NoChoice,       \* no selection
    MaxRevisions,   \* bound: revisions of the checklist of a date
    MaxLoads        \* bound: loads of a checklist

ASSUME DailyViewAssumption ==
    /\ NoDate \notin Dates
    /\ NoChoice \notin Choices
    /\ MaxRevisions \in Nat \ {0}
    /\ MaxLoads \in Nat \ {0}

VARIABLES
    table,      \* the current checklist of each date, in the database
    route,      \* the date of the route, the number of loads begun, and
                \* whether one has overtaken a request or begun behind a dialog
    view,       \* the refs of the screen
    form,       \* the dialog that creates or replaces a checklist
    adding,     \* the dialog that adds categories
    deleting,   \* the dialog that deletes the checklist is open
    gets,       \* loads under way
    sent        \* other requests under way

dayVars == <<table, route, view, form, adding, deleting, gets, sent>>

(* A revision is an id with a version; 0 is no checklist.  The checklist on*)
(* display tells its date, and whether something is entered in it.         *)
Revisions == 0..MaxRevisions
StoredRow == [rev : Revisions, last : Revisions, entered : BOOLEAN]
Sheet     == [date : Dates, rev : Revisions \ {0}, entered : BOOLEAN]

NoSheet   == [date |-> NoDate, rev |-> 0, entered |-> FALSE]

Sheets    == Sheet \cup {NoSheet}
Selected  == Choices \cup {NoChoice}

(* savesTo is the date that the save states of the items carry; confirmed *)
(* is the selection for which the warning is on display; visible, that the *)
(* parent's flag has reached the dialog.  A request keeps the sheet it was *)
(* sent for; it is attached while what it answers to is still there.       *)
View == [sheet : Sheets, loading : BOOLEAN, missing : BOOLEAN, error : BOOLEAN,
         saves : {"saved", "saving", "failed"}, savesTo : Dates \cup {NoDate}]

DialogForm == [open : BOOLEAN, from : Sheets, choice : Selected, confirmed : Selected]

Ops == {"item", "create", "configure", "add", "cancel"}

Sent == [op : Ops, date : Dates, of : Dates \cup {NoDate}, rev : Revisions,
         choice : Selected, confirmed : Selected, attached : BOOLEAN]

DayTypeOK ==
    /\ table \in [Dates -> StoredRow]
    /\ route \in [date : Dates, loads : 1..MaxLoads, overtaken : BOOLEAN]
    /\ view \in View
    /\ form \in DialogForm
    /\ adding \in [open : BOOLEAN, visible : BOOLEAN]
    /\ deleting \in BOOLEAN
    /\ gets \in [Dates -> 0..MaxLoads]
    /\ sent \subseteq Sent

EmptyView == [sheet |-> NoSheet, loading |-> TRUE, missing |-> FALSE, error |-> FALSE,
              saves |-> "saved", savesTo |-> NoDate]

(* A closed dialog is filled again when it opens.                          *)
ClosedForm == [open |-> FALSE, from |-> NoSheet, choice |-> NoChoice,
               confirmed |-> NoChoice]

DayInit ==
    /\ table = [d \in Dates |-> [rev |-> 0, last |-> 0, entered |-> FALSE]]
    /\ \E d \in Dates :
         /\ route = [date |-> d, loads |-> 1, overtaken |-> FALSE]
         /\ gets = [e \in Dates |-> IF e = d THEN 1 ELSE 0]
    /\ view = EmptyView
    /\ form = ClosedForm
    /\ adding = [open |-> FALSE, visible |-> FALSE]
    /\ deleting = FALSE
    /\ sent = {}
-----------------------------------------------------------------------------
Sending(ops) == \E r \in sent : r.op \in ops /\ r.attached

FormSaving  == \E r \in sent : r.op \in {"create", "configure"}
AddSaving   == Sending({"add"})
IsDeleting  == \E r \in sent : r.op = "cancel"

HasPendingItemSaves == view.saves # "saved"

InModal == form.open \/ adding.visible \/ deleting

(* The template: the first of these that applies is on display.            *)
ShowsMissing == ~view.loading /\ ~view.error /\ view.missing

ShowsSheet ==
    ~view.loading /\ ~view.error /\ ~view.missing /\ view.sheet # NoSheet

SettingsOffered == ShowsSheet /\ ~InModal /\ ~HasPendingItemSaves

(* What is left of a request when what it answers to has gone: item states *)
(* are replaced with the checklist, and the addition dialog with its page. *)
Detached(ops) ==
    {[r EXCEPT !.attached = @ /\ r.op \notin ops] : r \in sent}
-----------------------------------------------------------------------------
(* Dates and loads.                                                        *)
GetsUnderWay == {d \in Dates : gets[d] > 0}

LoadChecklist_KeepsSheet(date) ==
    /\ view' = [EmptyView EXCEPT !.sheet = view.sheet, !.savesTo = view.savesTo]
    /\ adding' = [adding EXCEPT !.visible = FALSE]
    /\ gets' = [gets EXCEPT ![date] = @ + 1]
    /\ sent' = Detached({"item", "add"})

LoadChecklist(date) ==
    /\ view' = EmptyView
    /\ adding' = [adding EXCEPT !.visible = FALSE]
    /\ gets' = [gets EXCEPT ![date] = @ + 1]
    /\ sent' = Detached({"item", "add"})

Overtakes == GetsUnderWay # {} \/ InModal \/ \E r \in sent : r.op # "item"

Go(date) ==
    /\ route.loads < MaxLoads
    /\ route' = [date |-> date, loads |-> route.loads + 1,
                 overtaken |-> route.overtaken \/ Overtakes]
    /\ LoadChecklist(date)
    /\ UNCHANGED <<table, form, deleting>>

MoveToSelectedDate == ~InModal /\ \E d \in Dates : Go(d)

(* The history reaches other dates only, from within a dialog too.         *)
MoveInHistory == \E d \in Dates \ {route.date} : Go(d)

(* The checklist of a date as an answer gives it.                          *)
AnswerSheet(date, row) == [date |-> date, rev |-> row.rev, entered |-> row.entered]

ResetItemSaveStates_RouteDate(v, sheet) ==
    [v EXCEPT !.sheet = sheet, !.saves = "saved", !.savesTo = route.date]

ResetItemSaveStates(v, sheet) ==
    [v EXCEPT !.sheet = sheet, !.saves = "saved", !.savesTo = sheet.date]

Loaded(d) ==
    /\ table[d].rev # 0
    /\ view' = ResetItemSaveStates([view EXCEPT !.loading = FALSE], AnswerSheet(d, table[d]))
    /\ gets' = [gets EXCEPT ![d] = @ - 1]
    /\ sent' = Detached({"item"})
    /\ UNCHANGED <<table, route, form, adding, deleting>>

NotFound(d) ==
    /\ table[d].rev = 0
    /\ view' = [view EXCEPT !.loading = FALSE, !.missing = TRUE]
    /\ gets' = [gets EXCEPT ![d] = @ - 1]
    /\ UNCHANGED <<table, route, form, adding, deleting, sent>>

GetFails(d) ==
    /\ view' = [view EXCEPT !.loading = FALSE, !.error = TRUE]
    /\ gets' = [gets EXCEPT ![d] = @ - 1]
    /\ UNCHANGED <<table, route, form, adding, deleting, sent>>
-----------------------------------------------------------------------------
(* Items, as far as the rest of the screen depends on them.                *)
Request(op) ==
    [op |-> op, date |-> IF op = "item" THEN view.savesTo ELSE route.date,
     of |-> view.sheet.date, rev |-> view.sheet.rev,
     choice |-> form.choice, confirmed |-> form.confirmed, attached |-> TRUE]

(* An input, or the retry of a save that has failed.                       *)
ChangeItem ==
    /\ ShowsSheet /\ ~InModal
    /\ ~Sending({"item"})
    /\ view' = [view EXCEPT !.sheet.entered = TRUE, !.saves = "saving"]
    /\ sent' = sent \cup {Request("item")}
    /\ UNCHANGED <<table, route, form, adding, deleting, gets>>

ItemAnswered(r) ==
    /\ r.op = "item"
    /\ \/ /\ table[r.date].rev = r.rev
          /\ table' = [table EXCEPT ![r.date].entered = TRUE]
          /\ view' = IF r.attached THEN [view EXCEPT !.saves = "saved"] ELSE view
       \/ /\ view' = IF r.attached THEN [view EXCEPT !.saves = "failed"] ELSE view
          /\ UNCHANGED table
    /\ sent' = sent \ {r}
    /\ UNCHANGED <<route, form, adding, deleting, gets>>
-----------------------------------------------------------------------------
(* The dialog that creates or replaces.                                    *)
ResetForm(c) ==
    [open |-> TRUE, from |-> view.sheet, choice |-> c, confirmed |-> NoChoice]

OpenForm ==
    /\ (ShowsMissing /\ ~InModal) \/ SettingsOffered
    /\ \E c \in IF view.sheet = NoSheet THEN {NoChoice} ELSE Choices : form' = ResetForm(c)
    /\ UNCHANGED <<table, route, view, adding, deleting, gets, sent>>

CloseForm_EvenWhileSaving ==
    /\ form.open
    /\ form' = ClosedForm
    /\ UNCHANGED <<table, route, view, adding, deleting, gets, sent>>

CloseForm ==
    /\ form.open /\ ~FormSaving
    /\ form' = ClosedForm
    /\ UNCHANGED <<table, route, view, adding, deleting, gets, sent>>

ChangeSelection_KeepsConfirmation ==
    /\ form.open
    /\ \E c \in Choices \ {form.choice} : form' = [form EXCEPT !.choice = c]
    /\ UNCHANGED <<table, route, view, adding, deleting, gets, sent>>

ChangeSelection ==
    /\ form.open
    /\ \E c \in Choices \ {form.choice} :
          form' = [form EXCEPT !.choice = c, !.confirmed = NoChoice]
    /\ UNCHANGED <<table, route, view, adding, deleting, gets, sent>>

MaySubmit == form.open /\ ~FormSaving /\ form.choice # NoChoice

NeedsWarning == view.sheet.entered /\ form.confirmed = NoChoice

Warn ==
    /\ MaySubmit /\ NeedsWarning
    /\ form' = [form EXCEPT !.confirmed = form.choice]
    /\ UNCHANGED <<table, route, view, adding, deleting, gets, sent>>

Submit ==
    /\ MaySubmit /\ ~NeedsWarning
    /\ sent' = sent \cup {Request(IF view.sheet = NoSheet THEN "create" ELSE "configure")}
    /\ UNCHANGED <<table, route, view, form, adding, deleting, gets>>

(* The backend.                                                            *)
IsCurrentSheet_AnyRevision(r) == r.rev # 0 /\ table[r.date].rev # 0 /\ r.of = r.date

IsCurrentSheet(r) == r.rev # 0 /\ r.rev = table[r.date].rev /\ r.of = r.date

NewRevision(r) ==
    [rev |-> table[r.date].last + 1, last |-> table[r.date].last + 1, entered |-> FALSE]

(* The screen shows the checklist of the answer and closes the dialog.     *)
HandleSaved_StaysOpen(r, row) ==
    /\ table' = [table EXCEPT ![r.date] = row]
    /\ view' = ResetItemSaveStates([view EXCEPT !.missing = FALSE], AnswerSheet(r.date, row))
    /\ sent' = Detached({"item"}) \ {r}
    /\ UNCHANGED <<route, form, adding, deleting, gets>>

HandleSaved(r, row) ==
    /\ table' = [table EXCEPT ![r.date] = row]
    /\ view' = ResetItemSaveStates([view EXCEPT !.missing = FALSE], AnswerSheet(r.date, row))
    /\ form' = ClosedForm
    /\ sent' = Detached({"item"}) \ {r}
    /\ UNCHANGED <<route, adding, deleting, gets>>

(* A checklist of the same selection is returned as it is.                 *)
Created(r) ==
    /\ r.op = "create"
    /\ \/ /\ table[r.date].rev = 0 /\ table[r.date].last < MaxRevisions
          /\ HandleSaved(r, NewRevision(r))
       \/ table[r.date].rev # 0 /\ HandleSaved(r, table[r.date])

(* Nothing changes without a change of the selection; else what was entered*)
(* for the same tools and periods is taken over.                           *)
Configured(r) ==
    /\ r.op = "configure" /\ IsCurrentSheet(r)
    /\ table[r.date].entered => r.confirmed # NoChoice
    /\ \/ HandleSaved(r, table[r.date])
       \/ /\ table[r.date].last < MaxRevisions
          /\ \E kept \in {FALSE, table[r.date].entered} :
                HandleSaved(r, [NewRevision(r) EXCEPT !.entered = kept])

FormRefused(r) ==
    /\ r.op \in {"create", "configure"}
    /\ sent' = sent \ {r}
    /\ UNCHANGED <<table, route, view, form, adding, deleting, gets>>
-----------------------------------------------------------------------------
(* The dialog that adds categories: its watcher sees a change of the       *)
(* parent's flag only.                                                     *)
OpenAdding ==
    /\ SettingsOffered
    /\ adding' = [adding EXCEPT !.open = TRUE, !.visible = ~adding.open]
    /\ UNCHANGED <<table, route, view, form, deleting, gets, sent>>

CloseAdding ==
    /\ adding.visible /\ ~AddSaving
    /\ adding' = [open |-> FALSE, visible |-> FALSE]
    /\ UNCHANGED <<table, route, view, form, deleting, gets, sent>>

SubmitAdding ==
    /\ adding.visible /\ ~AddSaving
    /\ sent' = sent \cup {Request("add")}
    /\ UNCHANGED <<table, route, view, form, adding, deleting, gets>>

(* The backend adds to whatever the date has; the revision stays.          *)
Added(r) ==
    /\ r.op = "add" /\ table[r.date].rev # 0
    /\ UNCHANGED <<table, route, form, deleting, gets>>
    /\ IF r.attached
       THEN /\ view' = [view EXCEPT !.sheet = AnswerSheet(r.date, table[r.date]),
                                   !.savesTo = r.date]
            /\ adding' = [open |-> FALSE, visible |-> FALSE]
       ELSE UNCHANGED <<view, adding>>
    /\ sent' = sent \ {r}

AddRefused(r) ==
    /\ r.op = "add"
    /\ sent' = sent \ {r}
    /\ UNCHANGED <<table, route, view, form, adding, deleting, gets>>
-----------------------------------------------------------------------------
(* The dialog that deletes.                                                *)
OpenDeleting ==
    /\ SettingsOffered
    /\ deleting' = TRUE
    /\ UNCHANGED <<table, route, view, form, adding, gets, sent>>

CloseDeleting ==
    /\ deleting /\ ~IsDeleting
    /\ deleting' = FALSE
    /\ UNCHANGED <<table, route, view, form, adding, gets, sent>>

DeleteChecklist ==
    /\ deleting /\ ~IsDeleting /\ view.sheet # NoSheet
    /\ sent' = sent \cup {Request("cancel")}
    /\ UNCHANGED <<table, route, view, form, adding, deleting, gets>>

Deleted(r) ==
    /\ r.op = "cancel" /\ IsCurrentSheet(r)
    /\ table' = [table EXCEPT ![r.date].rev = 0, ![r.date].entered = FALSE]
    /\ view' = [view EXCEPT !.sheet = NoSheet, !.missing = TRUE]
    /\ deleting' = FALSE
    /\ sent' = sent \ {r}
    /\ UNCHANGED <<route, form, adding, gets>>

DeleteRefused(r) ==
    /\ r.op = "cancel"
    /\ sent' = sent \ {r}
    /\ UNCHANGED <<table, route, view, form, adding, deleting, gets>>
-----------------------------------------------------------------------------
(* Another user creates, replaces, enters or deletes.                      *)
Others ==
    /\ \E d \in Dates :
         \/ /\ table[d].last < MaxRevisions
            /\ table' = [table EXCEPT ![d] = [rev |-> @.last + 1, last |-> @.last + 1,
                                              entered |-> FALSE]]
         \/ /\ table[d].rev # 0
            /\ \/ table' = [table EXCEPT ![d].entered = TRUE]
               \/ table' = [table EXCEPT ![d].rev = 0, ![d].entered = FALSE]
    /\ UNCHANGED <<route, view, form, adding, deleting, gets, sent>>

Answer(r) ==
    \/ ItemAnswered(r)
    \/ Created(r) \/ Configured(r) \/ FormRefused(r)
    \/ Added(r) \/ AddRefused(r)
    \/ Deleted(r) \/ DeleteRefused(r)

GetAnswered(d) == Loaded(d) \/ NotFound(d) \/ GetFails(d)

Operate ==
    \/ MoveToSelectedDate \/ MoveInHistory \/ ChangeItem
    \/ OpenForm \/ CloseForm \/ ChangeSelection \/ Warn \/ Submit
    \/ OpenAdding \/ CloseAdding \/ SubmitAdding
    \/ OpenDeleting \/ CloseDeleting \/ DeleteChecklist

DayNext ==
    \/ Operate
    \/ \E r \in sent : Answer(r)
    \/ \E d \in GetsUnderWay : GetAnswered(d)
    \/ Others

DaySpec == DayInit /\ [][DayNext]_dayVars
-----------------------------------------------------------------------------
(* Properties.                                                             *)

(* A save goes to the date of the checklist that its item belongs to, even *)
(* when an answer for a date that has been left is on display.             *)
SavesGoToTheirDate ==
    /\ view.sheet # NoSheet => view.savesTo = view.sheet.date
    /\ \A r \in sent : r.op = "item" => r.date = r.of

(* Unless a load has overtaken a request or begun behind a dialog, the     *)
(* checklist on display is one of the date of the route.                   *)
ShownIsRoute ==
    ~route.overtaken /\ view.sheet # NoSheet => view.sheet.date = route.date

(* Whatever users have entered is replaced only by a user who was warned   *)
(* about the very selection that is sent: a change after the warning needs *)
(* a new one, and so does what others enter (DATA_LOSS).                   *)
WarnedBeforeLoss ==
    [][\A r \in sent : Configured(r) /\ table[r.date].entered
         => r.confirmed = r.choice]_dayVars

(* Unless a load came between, a replacement and a deletion change the     *)
(* revision that is on display, the one that a replacement's form was      *)
(* filled from.  The request of an addition carries no revision: it extends*)
(* whatever its date has by then, a newer revision of another user's too,  *)
(* but the date is the one it was opened on, and what it has extended comes*)
(* on display.                                                             *)
ChangesWhatWasShown ==
    [][~route.overtaken =>
         /\ Submit => form.from.rev = view.sheet.rev /\ form.from.date = view.sheet.date
         /\ \A r \in sent :
              /\ Configured(r) \/ Deleted(r) =>
                   view.sheet.date = r.date /\ view.sheet.rev = table[r.date].rev
              /\ Added(r) =>
                   /\ r.of = route.date /\ r.date = route.date
                   /\ view'.sheet.rev = table[r.date].rev]_dayVars

(* A dialog stays while its request is under way.                          *)
DialogsWait ==
    /\ FormSaving => form.open
    /\ AddSaving => adding.open
    /\ IsDeleting => deleting

(* Together, with the types.                                               *)
DayInv == DayTypeOK /\ SavesGoToTheirDate /\ ShownIsRoute /\ DialogsWait

=============================================================================
