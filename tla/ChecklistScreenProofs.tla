------------------------ MODULE ChecklistScreenProofs ------------------------
(***************************************************************************)
(* Theorems about the checklist screen around its items: the dates and the *)
(* dialogs (DailyView), for all dates, selections, revisions and loads,    *)
(* and the summary (Preparation), for all items, categories and stocks.    *)
(***************************************************************************)
EXTENDS DailyView, Preparation, FiniteSetTheorems, TLAPS

(* The summary.  Only what is taken is checked: with the types, an         *)
(* invariant.                                                              *)
PrepInv == PrepTypeOK /\ \A i \in Items : rows[i].checked => rows[i].takeout > 0

LEMMA RowChanged ==
    ASSUME PrepTypeOK, NEW i \in Items, NEW row \in PrepRow
    PROVE  [rows EXCEPT ![i] = row] \in [Items -> PrepRow]
  BY DEF PrepTypeOK

LEMMA PrepInvInit == PrepInit => PrepInv
  <1> SUFFICES ASSUME PrepInit PROVE PrepInv
    OBVIOUS
  <1>1. [takeout |-> 0, checked |-> FALSE] \in PrepRow
    BY PreparationAssumption DEF PrepRow
  <1> QED BY <1>1 DEF PrepInit, PrepInv, PrepTypeOK, Halves

LEMMA PrepInvStep == PrepInv /\ [PrepNext]_prepVars => PrepInv'
  <1> SUFFICES ASSUME PrepInv, [PrepNext]_prepVars PROVE PrepInv'
    OBVIOUS
  <1>1. ASSUME NEW i \in Items, NEW q \in 0..Stock, ChangeQuantity(i, q) PROVE PrepInv'
    <2> DEFINE row == [takeout |-> q, checked |-> rows[i].checked /\ q # 0]
    <2>1. rows[i] \in PrepRow
      BY DEF PrepInv, PrepTypeOK
    <2>2. row \in PrepRow /\ (row.checked => row.takeout > 0)
      <3>1. row.takeout \in 0..Stock /\ row.checked \in BOOLEAN
        OBVIOUS
      <3>2. row.checked => q # 0
        OBVIOUS
      <3>3. q # 0 => q > 0
        BY PreparationAssumption
      <3>4. row \in PrepRow
        BY <3>1 DEF PrepRow
      <3> QED BY <3>2, <3>3, <3>4
    <2>3. rows' = [rows EXCEPT ![i] = row] /\ UNCHANGED <<plan, half>>
      BY <1>1 DEF ChangeQuantity
    <2> HIDE DEF row
    <2>4. rows' \in [Items -> PrepRow]
      BY <2>2, <2>3, RowChanged DEF PrepInv
    <2>5. \A j \in Items : rows'[j] = IF j = i THEN row ELSE rows[j]
      BY <2>3 DEF PrepInv, PrepTypeOK
    <2> QED BY <2>2, <2>3, <2>4, <2>5 DEF PrepInv, PrepTypeOK
  <1>2. ASSUME NEW i \in Items, NEW checked \in BOOLEAN, ChangeChecked(i, checked)
        PROVE  PrepInv'
    <2>1. rows[i] \in PrepRow
      BY DEF PrepInv, PrepTypeOK
    <2>2. rows[i].takeout > 0
      BY <1>2, <2>1, PreparationAssumption DEF ChangeChecked, PrepRow
    <2> DEFINE row == [rows[i] EXCEPT !.checked = checked]
    <2>3. row \in PrepRow /\ row.takeout = rows[i].takeout
      BY <2>1 DEF PrepRow
    <2>4. rows' = [rows EXCEPT ![i] = row] /\ UNCHANGED <<plan, half>>
      BY <1>2 DEF ChangeChecked
    <2> HIDE DEF row
    <2>5. rows' \in [Items -> PrepRow]
      BY <2>3, <2>4, RowChanged DEF PrepInv
    <2>6. \A j \in Items : rows'[j] = IF j = i THEN row ELSE rows[j]
      BY <2>4 DEF PrepInv, PrepTypeOK
    <2> QED BY <2>2, <2>3, <2>4, <2>5, <2>6 DEF PrepInv, PrepTypeOK
  <1>3. ASSUME NEW h \in Halves, SelectHalf(h) PROVE PrepInv'
    BY <1>3 DEF SelectHalf, PrepInv, PrepTypeOK
  <1>4. CASE UNCHANGED prepVars
    BY <1>4 DEF prepVars, PrepInv, PrepTypeOK
  <1> QED BY <1>1, <1>2, <1>3, <1>4 DEF PrepNext, ItemsOf

(* Whatever users do, types hold and a check mark needs a quantity.        *)
THEOREM PrepInvAlways == PrepSpec => []PrepInv
  BY PrepInvInit, PrepInvStep, PTL DEF PrepSpec
-----------------------------------------------------------------------------
(* What the screen shows as complete.                                      *)
LEMMA CompleteIffAll ==
    ASSUME PrepTypeOK, NEW h \in Halves, NamesDiffer(h)
    PROVE  PreparationStatus(h) = "complete"
             <=> /\ \A c \in Counted(h) : HasTaken(h, c)
                 /\ \A i \in ItemsOf(h) : rows[i].takeout > 0 => rows[i].checked
  <1> DEFINE all == \A c \in Counted(h) : HasTaken(h, c)
  <1>1. PreparationStatus(h) = "complete" <=> IsPreparationComplete(h)
    BY DEF PreparationStatus, IsPreparationComplete
  <1>2. Ready(ItemsOf(h)) = Taken(ItemsOf(h))
          <=> \A i \in ItemsOf(h) : rows[i].takeout > 0 => rows[i].checked
    BY DEF Ready, Taken
  <1>3. ASSUME QuantityUnset(h) = {}, NEW c \in Counted(h) PROVE HasTaken(h, c)
    <2>1. plan.name[c] \in Groups(h)
      BY DEF Counted, Groups, NameOf
    <2>2. PICK i \in ItemsOf(h) : NameOf(i) = plan.name[c] /\ rows[i].takeout > 0
      BY <1>3, <2>1 DEF QuantityUnset, IsQuantityUnset, Taken
    <2>3. plan.of[i][2] \in Counted(h)
      BY DEF Counted
    <2>4. plan.of[i][2] = c
      BY <2>2, <2>3 DEF NamesDiffer, NameOf
    <2> QED BY <2>2, <2>4 DEF HasTaken
  <1>4. ASSUME all PROVE QuantityUnset(h) = {} /\ Taken(ItemsOf(h)) # {}
    <2>1. ASSUME NEW n \in Groups(h) PROVE ~IsQuantityUnset(h, n)
      <3>1. PICK c \in Counted(h) : n = plan.name[c]
        BY <2>1 DEF Groups, Counted, NameOf
      <3>2. PICK j \in ItemsOf(h) : plan.of[j][2] = c /\ rows[j].takeout > 0
        BY <1>4, <3>1 DEF HasTaken
      <3> QED BY <3>1, <3>2 DEF IsQuantityUnset, Taken, NameOf
    <2>2. plan.chosen[h] # {}
      <3>1. plan.chosen \in [Halves -> (SUBSET (Categories \ {CommonCategory})) \ {{}}]
        BY DEF PrepTypeOK, Plans
      <3>2. plan.chosen[h] \in (SUBSET (Categories \ {CommonCategory})) \ {{}}
        BY <3>1
      <3> QED BY <3>2
    <2>3. PICK c \in Counted(h) : TRUE
      BY <2>2 DEF Counted
    <2>4. HasTaken(h, c)
      BY <1>4, <2>3
    <2> QED BY <2>1, <2>4 DEF QuantityUnset, HasTaken, Taken
  <1> QED BY <1>1, <1>2, <1>3, <1>4 DEF IsPreparationComplete

(* docs/requirements.md, 71: complete exactly when every category of the   *)
(* half has something to take and all of it is ready.                      *)
THEOREM CompleteMeansReadyAlways == PrepSpec => []CompleteMeansReady
  <1>1. PrepInv => CompleteMeansReady
    BY CompleteIffAll DEF PrepInv, CompleteMeansReady
  <1> QED BY <1>1, PrepInvAlways, PTL
-----------------------------------------------------------------------------
(* The rounded share.                                                      *)
LEMMA Quotient ==
    ASSUME NEW a \in Nat, NEW b \in Nat, b > 0
    PROVE  /\ a \div b \in Int
           /\ b * (a \div b) <= a
           /\ a < b * ((a \div b) + 1)
  OBVIOUS

LEMMA PercentBounds ==
    ASSUME NEW r \in Nat, NEW w \in Nat, r <= w
    PROVE  /\ Percent(r, w) <= 100
           /\ w > 0 /\ r = w => Percent(r, w) = 100
           /\ Percent(r, w) = 100 /\ w < 200 => w > 0 /\ r = w
  <1>1. CASE w = 0
    BY <1>1 DEF Percent
  <1>2. CASE w > 0
    <2> DEFINE q == Percent(r, w)
    <2>1. q = (200 * r + w) \div (2 * w)
      BY <1>2 DEF Percent
    <2>2. q \in Int /\ 2 * w * q <= 200 * r + w /\ 200 * r + w < 2 * w * (q + 1)
      BY <1>2, <2>1, Quotient
    <2> HIDE DEF q
    <2>3. q <= 100
      <3> SUFFICES ASSUME q >= 101 PROVE FALSE
        BY <2>2
      <3>1. w * q >= w * 101
        BY <1>2, <2>2
      <3> QED BY <1>2, <2>2, <3>1
    <2>4. r = w => q = 100
      <3> SUFFICES ASSUME r = w, q <= 99 PROVE FALSE
        BY <2>2, <2>3
      <3>1. w * (q + 1) <= w * 100
        BY <1>2, <2>2
      <3> QED BY <1>2, <2>2, <3>1
    <2>5. q = 100 /\ w < 200 => r = w
      BY <1>2, <2>2
    <2> QED BY <1>2, <2>3, <2>4, <2>5 DEF q
  <1> QED BY <1>1, <1>2

(* Check marks need quantities, and the progress is full when all that is  *)
(* taken is ready and, below 200 items, only then.                         *)
THEOREM ProgressSoundAlways == PrepSpec => []ProgressSound
  <1>1. ASSUME PrepInv PROVE ProgressSound
    <2> SUFFICES ASSUME NEW h \in Halves
                 PROVE  LET taken == Taken(ItemsOf(h)) IN
                        /\ ProgressPercent(h) <= 100
                        /\ taken # {} /\ Ready(ItemsOf(h)) = taken => ProgressPercent(h) = 100
                        /\ ProgressPercent(h) = 100 /\ Cardinality(taken) < 200
                             => taken # {} /\ Ready(ItemsOf(h)) = taken
      BY <1>1 DEF PrepInv, ProgressSound
    <2> DEFINE taken == Taken(ItemsOf(h))
               ready == Ready(ItemsOf(h))
    <2>1. taken \subseteq Items /\ ready \subseteq taken
      BY DEF Taken, Ready, ItemsOf
    <2>2. IsFiniteSet(taken)
      BY <2>1, PreparationAssumption, FS_Subset
    <2>3. /\ Cardinality(ready) \in Nat /\ Cardinality(taken) \in Nat
          /\ Cardinality(ready) <= Cardinality(taken)
          /\ Cardinality(ready) = Cardinality(taken) => ready = taken
      BY <2>1, <2>2, FS_Subset, FS_CardinalityType
    <2>4. taken = {} <=> Cardinality(taken) = 0
      BY <2>2, FS_EmptySet
    <2>5. ProgressPercent(h) = Percent(Cardinality(ready), Cardinality(taken))
      BY DEF ProgressPercent
    <2> HIDE DEF taken, ready
    <2>6. /\ ProgressPercent(h) <= 100
          /\ taken # {} /\ ready = taken => ProgressPercent(h) = 100
          /\ ProgressPercent(h) = 100 /\ Cardinality(taken) < 200 => taken # {} /\ ready = taken
      BY <2>3, <2>4, <2>5, PercentBounds
    <2> QED BY <2>6 DEF taken, ready
  <1> QED BY <1>1, PrepInvAlways, PTL

-----------------------------------------------------------------------------
(* The screen around the items.  What is true of a request under way: its  *)
(* item belongs to the date it is sent to, a confirmation is one of the    *)
(* selection that is sent, and, unless a load came between, a dialog's     *)
(* request is about the date of the route.                                 *)
RequestOK(r) ==
    /\ r \in Sent
    /\ r.op = "item" => r.date = r.of
    /\ r.confirmed \in {NoChoice, r.choice}
    /\ ~route.overtaken /\ r.op # "item" => r.date = route.date
    /\ ~route.overtaken /\ r.op = "add" => r.of = route.date

FormOps == {"create", "configure"}

(* One dialog at most is open, and it has one request at most, which keeps *)
(* it open.                                                                *)
Dialogs(reqs) ==
    /\ \A r \in reqs : r.op \in FormOps => form.open /\ \A s \in reqs : s.op \in FormOps => s = r
    /\ \A r \in reqs : r.op = "add" /\ r.attached =>
          adding.visible /\ \A s \in reqs : s.op = "add" /\ s.attached => s = r
    /\ \A r \in reqs : r.op = "cancel" => deleting /\ \A s \in reqs : s.op = "cancel" => s = r
    /\ adding.visible => adding.open
    /\ ~(form.open /\ adding.visible) /\ ~(form.open /\ deleting) /\ ~(adding.visible /\ deleting)

(* Unless a load came between: loads are of the date of the route, so is   *)
(* what is on display, and a dialog stays on the sheet it was opened on.   *)
OnTrack ==
    ~route.overtaken =>
       /\ \A d \in Dates : gets[d] > 0 => d = route.date /\ gets[d] = 1 /\ view.loading
       /\ view.sheet # NoSheet => view.sheet.date = route.date
       /\ InModal => ~view.loading
       /\ adding.visible => view.sheet # NoSheet
       /\ form.open => form.from.rev = view.sheet.rev /\ form.from.date = view.sheet.date

ViewOK == view \in View /\ (view.sheet # NoSheet => view.savesTo = view.sheet.date)

FormOK == form \in DialogForm /\ form.confirmed \in {NoChoice, form.choice}

LoadsOK ==
    /\ route \in [date : Dates, loads : 1..MaxLoads, overtaken : BOOLEAN]
    /\ gets \in [Dates -> 0..MaxLoads]
    /\ \A d \in Dates : gets[d] <= route.loads

DayParts ==
    /\ table \in [Dates -> StoredRow]
    /\ LoadsOK /\ ViewOK /\ FormOK
    /\ adding \in [open : BOOLEAN, visible : BOOLEAN]
    /\ deleting \in BOOLEAN
    /\ \A r \in sent : RequestOK(r)
    /\ Dialogs(sent)
    /\ OnTrack

LEMMA PartsImplyDay == DayParts => DayInv
  <1> SUFFICES ASSUME DayParts PROVE DayInv
    OBVIOUS
  <1>1. DayTypeOK
    BY DEF DayParts, DayTypeOK, LoadsOK, ViewOK, FormOK, RequestOK
  <1>2. SavesGoToTheirDate /\ ShownIsRoute
    BY DEF DayParts, SavesGoToTheirDate, ShownIsRoute, ViewOK, RequestOK, OnTrack
  <1>3. DialogsWait
    BY DEF DayParts, DialogsWait, Dialogs, FormSaving, AddSaving, Sending, IsDeleting, FormOps
  <1> QED BY <1>1, <1>2, <1>3 DEF DayInv

LEMMA SheetTypes ==
    /\ NoSheet \notin Sheet /\ NoSheet \in Sheets
    /\ \A x \in Sheet : x \in Sheets /\ x # NoSheet /\ x.date \in Dates /\ x.rev # 0
  <1>1. \A x \in Sheet : x.rev # 0 /\ x.date \in Dates
    BY DEF Sheet
  <1>2. NoSheet.rev = 0
    BY DEF NoSheet
  <1>3. NoSheet \notin Sheet
    BY <1>1, <1>2
  <1> QED BY <1>1, <1>3 DEF Sheets

LEMMA EmptyViewOK == EmptyView \in View /\ EmptyView.sheet = NoSheet /\ EmptyView.loading
  BY SheetTypes DEF EmptyView, View

LEMMA ClosedFormOK ==
    /\ ClosedForm \in DialogForm /\ ~ClosedForm.open
    /\ ClosedForm.confirmed \in {NoChoice, ClosedForm.choice}
  BY SheetTypes DEF ClosedForm, DialogForm, Selected

LEMMA DayPartsInit == DayInit => DayParts
  <1> SUFFICES ASSUME DayInit PROVE DayParts
    OBVIOUS
  <1>1. 0 \in Revisions /\ 1 \in 1..MaxLoads /\ {0, 1} \subseteq 0..MaxLoads
    BY DailyViewAssumption DEF Revisions
  <1>2. table \in [Dates -> StoredRow]
    BY <1>1 DEF DayInit, StoredRow
  <1>3. PICK d \in Dates : /\ route = [date |-> d, loads |-> 1, overtaken |-> FALSE]
                           /\ gets = [e \in Dates |-> IF e = d THEN 1 ELSE 0]
    BY DEF DayInit
  <1>4. LoadsOK
    BY <1>1, <1>3 DEF LoadsOK
  <1>5. view = EmptyView /\ form = ClosedForm /\ deleting = FALSE /\ sent = {}
        /\ adding = [open |-> FALSE, visible |-> FALSE]
    BY DEF DayInit
  <1>6. ViewOK /\ FormOK
    BY <1>5, EmptyViewOK, ClosedFormOK DEF ViewOK, FormOK
  <1>7. ~form.open /\ ~adding.visible /\ ~deleting
    BY <1>5, ClosedFormOK
  <1>8. Dialogs(sent)
    BY <1>5, <1>7 DEF Dialogs
  <1>9. OnTrack
    <2>1. \A e \in Dates : gets[e] > 0 => e = route.date /\ gets[e] = 1
      BY <1>3
    <2> QED BY <1>5, <1>7, <2>1, EmptyViewOK DEF OnTrack, InModal
  <1> QED BY <1>2, <1>4, <1>5, <1>6, <1>8, <1>9 DEF DayParts

(* What is kept of the requests under way: all of a request but what it    *)
(* answers to, once that has gone.                                         *)
Same(x, r) ==
    /\ x.op = r.op /\ x.date = r.date /\ x.of = r.of /\ x.rev = r.rev
    /\ x.choice = r.choice /\ x.confirmed = r.confirmed

Kept(reqs) ==
    \A x \in reqs :
       \/ x \in sent
       \/ /\ x \in Sent /\ ~x.attached /\ x.op \in {"item", "add"}
          /\ \E r \in sent : Same(x, r)

Detach(r) == [r EXCEPT !.attached = FALSE]

LEMMA DetachOne ==
    ASSUME NEW r \in Sent, NEW ops
    PROVE  LET x == [r EXCEPT !.attached = @ /\ r.op \notin ops] IN
           /\ r.op \notin ops => x = r
           /\ r.op \in ops => x = Detach(r)
  BY DEF Sent, Detach

LEMMA DetachSame ==
    ASSUME NEW r \in Sent
    PROVE  /\ Detach(r) \in Sent /\ Same(Detach(r), r)
           /\ Detach(r).op = r.op /\ Detach(r).attached = FALSE
  BY DEF Sent, Detach, Same

LEMMA DetachedKept ==
    ASSUME \A r \in sent : r \in Sent, NEW ops \in SUBSET {"item", "add"}
    PROVE  /\ Kept(Detached(ops))
           /\ \A x \in Detached(ops) : x.op \in ops => ~x.attached
  <1> SUFFICES ASSUME NEW x \in Detached(ops)
               PROVE  /\ \/ x \in sent
                         \/ /\ x \in Sent /\ ~x.attached /\ x.op \in {"item", "add"}
                            /\ \E r \in sent : Same(x, r)
                      /\ x.op \in ops => ~x.attached
    BY DEF Kept
  <1>1. PICK r \in sent : x = [r EXCEPT !.attached = @ /\ r.op \notin ops]
    BY DEF Detached
  <1>2. r \in Sent
    BY <1>1
  <1>3. CASE r.op \in ops
    <2>1. x = Detach(r)
      BY <1>1, <1>2, <1>3, DetachOne
    <2>2. ~x.attached
      BY <1>2, <2>1, DetachSame
    <2> QED BY <1>2, <1>3, <2>1, <2>2, DetachSame
  <1>4. CASE r.op \notin ops
    <2>1. x = r
      BY <1>1, <1>2, <1>4, DetachOne
    <2> QED BY <1>4, <2>1
  <1> QED BY <1>3, <1>4

LEMMA KeptOfKept ==
    ASSUME NEW reqs, NEW others \in SUBSET reqs, Kept(reqs) PROVE Kept(others)
  BY DEF Kept

LEMMA KeptOK ==
    ASSUME DayParts, NEW reqs, Kept(reqs)
    PROVE  (\A x \in reqs : RequestOK(x)) /\ Dialogs(reqs)
  <1>1. ASSUME NEW x \in reqs PROVE RequestOK(x)
    <2>1. CASE x \in sent
      BY <2>1 DEF DayParts
    <2>2. CASE x \notin sent
      <3>1. x \in Sent
        BY <2>2 DEF Kept
      <3>2. PICK r \in sent : Same(x, r)
        BY <2>2 DEF Kept
      <3>3. RequestOK(r)
        BY <3>2 DEF DayParts
      <3> QED BY <3>1, <3>2, <3>3 DEF RequestOK, Same
    <2> QED BY <2>1, <2>2
  <1>2. \A x \in reqs : x.op \in FormOps \/ x.op = "cancel" \/ x.attached => x \in sent
    BY DEF Kept, FormOps
  <1>3. Dialogs(sent)
    BY DEF DayParts
  <1>4. Dialogs(reqs)
    BY <1>2, <1>3 DEF Dialogs
  <1> QED BY <1>1, <1>4

LEMMA SentTyped == DayParts => \A r \in sent : r \in Sent
  BY DEF DayParts, RequestOK

(* A step that lets the dialogs and the route alone, and adds no request.  *)
LEMMA QuietStep ==
    ASSUME DayParts, UNCHANGED <<route, form, adding, deleting>>, Kept(sent')
    PROVE  (\A x \in sent' : RequestOK(x)') /\ Dialogs(sent)'
  <1>1. (\A x \in sent' : RequestOK(x)) /\ Dialogs(sent')
    BY KeptOK
  <1>2. \A x \in sent' : RequestOK(x)'
    BY <1>1 DEF RequestOK
  <1>3. Dialogs(sent)'
    BY <1>1 DEF Dialogs
  <1> QED BY <1>2, <1>3

LEMMA KeptFewer == ASSUME NEW r PROVE Kept(sent \ {r}) /\ Kept(sent)
  BY DEF Kept

(* A load begins.                                                          *)
LEMMA GoStep ==
    ASSUME DayParts, NEW d \in Dates, Go(d) PROVE DayParts'
  <1>1. /\ route.loads < MaxLoads
        /\ route' = [date |-> d, loads |-> route.loads + 1,
                     overtaken |-> route.overtaken \/ Overtakes]
        /\ view' = EmptyView
        /\ adding' = [adding EXCEPT !.visible = FALSE]
        /\ gets' = [gets EXCEPT ![d] = @ + 1]
        /\ sent' = Detached({"item", "add"})
        /\ UNCHANGED <<table, form, deleting>>
    BY DEF Go, LoadChecklist
  <1>2. LoadsOK
    BY DEF DayParts
  <1>3. /\ route' \in [date : Dates, loads : 1..MaxLoads, overtaken : BOOLEAN]
        /\ route'.date = d /\ route'.loads = route.loads + 1
    <2>1. route.loads + 1 \in 1..MaxLoads
      BY <1>1, <1>2, DailyViewAssumption DEF LoadsOK
    <2>2. (route.overtaken \/ Overtakes) \in BOOLEAN
      OBVIOUS
    <2> QED BY <1>1, <2>1, <2>2
  <1>4. ~route'.overtaken => ~route.overtaken /\ ~Overtakes
    <2>1. route'.overtaken = (route.overtaken \/ Overtakes)
      BY <1>1
    <2> QED BY <2>1, Zenon
  <1>5. \A e \in Dates : gets[e] \in 0..MaxLoads /\ gets[e] <= route.loads
    BY <1>2 DEF LoadsOK
  <1>6. \A e \in Dates : gets'[e] = IF e = d THEN gets[e] + 1 ELSE gets[e]
    BY <1>1, <1>2 DEF LoadsOK
  <1>7. LoadsOK'
    <2>1. gets' \in [Dates -> 0..MaxLoads] /\ \A e \in Dates : gets'[e] <= route'.loads
      <3>1. \A e \in Dates : gets'[e] \in 0..MaxLoads /\ gets'[e] <= route.loads + 1
        BY <1>1, <1>2, <1>5, <1>6, DailyViewAssumption DEF LoadsOK
      <3>2. gets' = [e \in Dates |-> gets'[e]]
        BY <1>1, <1>2 DEF LoadsOK
      <3> QED BY <1>3, <3>1, <3>2
    <2> QED BY <1>3, <2>1 DEF LoadsOK
  <1>8. ViewOK'
    BY <1>1, EmptyViewOK DEF ViewOK
  <1>9. Kept(sent') /\ \A x \in sent' : x.op \in {"item", "add"} => ~x.attached
    BY <1>1, SentTyped, DetachedKept
  <1>10. (\A x \in sent' : RequestOK(x)) /\ Dialogs(sent')
    BY <1>9, KeptOK
  <1>11. ~Overtakes => ~InModal /\ GetsUnderWay = {} /\ \A r \in sent : r.op = "item"
    BY DEF Overtakes
  <1>12. ~Overtakes => \A x \in sent' : x.op = "item"
    BY <1>9, <1>11 DEF Kept, Same
  <1>13. \A x \in sent' : RequestOK(x)'
    BY <1>4, <1>10, <1>12 DEF RequestOK
  <1>14. adding' \in [open : BOOLEAN, visible : BOOLEAN] /\ ~adding'.visible
    BY <1>1 DEF DayParts
  <1>15. Dialogs(sent)'
    <2>1. form' = form /\ deleting' = deleting
      BY <1>1
    <2>2. \A r \in sent' : ~(r.op = "add" /\ r.attached)
      BY <1>9
    <2> QED BY <1>10, <1>14, <2>1, <2>2 DEF Dialogs
  <1>16. OnTrack'
    <2> SUFFICES ASSUME ~route'.overtaken PROVE OnTrack'
      BY DEF OnTrack
    <2>1. ~InModal /\ GetsUnderWay = {}
      BY <1>4, <1>11
    <2>2. ~InModal' /\ ~form'.open
      BY <1>1, <1>14, <2>1 DEF InModal
    <2>3. \A e \in Dates : gets[e] = 0
      BY <1>5, <2>1 DEF GetsUnderWay
    <2>4. \A e \in Dates : gets'[e] > 0 => e = route'.date /\ gets'[e] = 1
      BY <1>3, <1>6, <2>3
    <2> QED BY <1>1, <1>14, <2>2, <2>4, EmptyViewOK DEF OnTrack
  <1> QED
    <2>1. table' \in [Dates -> StoredRow] /\ FormOK' /\ deleting' \in BOOLEAN
      BY <1>1 DEF DayParts, FormOK
    <2> QED BY <1>7, <1>8, <1>13, <1>14, <1>15, <1>16, <2>1 DEF DayParts

(* A load is answered: on the track no dialog is open meanwhile.           *)
LEMMA AnswerTypes ==
    ASSUME DayParts, NEW d \in Dates, NEW row \in StoredRow, row.rev # 0
    PROVE  AnswerSheet(d, row) \in Sheet
  BY DEF AnswerSheet, StoredRow, Sheet

LEMMA ShownViewOK ==
    ASSUME NEW v \in View, NEW sheet \in Sheet
    PROVE  LET w == ResetItemSaveStates(v, sheet) IN
           /\ w \in View /\ w.sheet = sheet /\ w.savesTo = sheet.date
           /\ w.loading = v.loading
  BY SheetTypes DEF View, ResetItemSaveStates

LEMMA GetEnds ==
    ASSUME LoadsOK, NEW d \in GetsUnderWay, gets' = [gets EXCEPT ![d] = @ - 1],
           route' = route
    PROVE  LoadsOK' /\ \A e \in Dates : gets'[e] = IF e = d THEN gets[e] - 1 ELSE gets[e]
  <1>1. \A e \in Dates : gets'[e] = IF e = d THEN gets[e] - 1 ELSE gets[e]
    BY DEF LoadsOK
  <1>2. \A e \in Dates : gets[e] \in 0..MaxLoads /\ gets[e] <= route.loads
    BY DEF LoadsOK
  <1>3. gets[d] > 0 /\ d \in Dates
    BY DEF GetsUnderWay
  <1>4. \A e \in Dates : gets'[e] \in 0..MaxLoads /\ gets'[e] <= route.loads
    BY <1>1, <1>2, <1>3, DailyViewAssumption DEF LoadsOK
  <1>5. gets' = [e \in Dates |-> gets'[e]]
    BY DEF LoadsOK
  <1>6. gets' \in [Dates -> 0..MaxLoads]
    BY <1>4, <1>5
  <1> QED BY <1>1, <1>4, <1>6 DEF LoadsOK

LEMMA GetStep ==
    ASSUME DayParts, NEW d \in GetsUnderWay, GetAnswered(d) PROVE DayParts'
  <1>1. /\ gets' = [gets EXCEPT ![d] = @ - 1]
        /\ UNCHANGED <<table, route, form, adding, deleting>>
        /\ sent' = Detached({"item"}) \/ sent' = sent
    BY DEF GetAnswered, Loaded, NotFound, GetFails
  <1>2. LoadsOK /\ d \in Dates /\ gets[d] > 0 /\ view \in View
    BY DEF DayParts, GetsUnderWay, ViewOK
  <1>3. LoadsOK' /\ \A e \in Dates : gets'[e] = IF e = d THEN gets[e] - 1 ELSE gets[e]
    BY <1>1, <1>2, GetEnds
  <1>4. (\A x \in sent' : RequestOK(x)') /\ Dialogs(sent)'
    <2>1. Kept(Detached({"item"})) /\ Kept(sent)
      BY SentTyped, DetachedKept DEF Kept
    <2>2. Kept(sent')
      BY <1>1, <2>1
    <2> QED BY <1>1, <2>2, QuietStep
  <1>5. ViewOK' /\ (view'.sheet = view.sheet \/ view'.sheet.date = d)
    <2>1. CASE Loaded(d)
      <3> DEFINE v == [view EXCEPT !.loading = FALSE]
                 sheet == AnswerSheet(d, table[d])
      <3>1. v \in View
        BY <1>2 DEF View
      <3>2. sheet \in Sheet
        BY <1>2, <2>1, AnswerTypes DEF Loaded, DayParts
      <3>3. view' = ResetItemSaveStates(v, sheet)
        BY <2>1 DEF Loaded
      <3>4. sheet.date = d
        BY DEF AnswerSheet
      <3> HIDE DEF v, sheet
      <3> QED BY <3>1, <3>2, <3>3, <3>4, ShownViewOK DEF ViewOK
    <2>2. CASE NotFound(d) \/ GetFails(d)
      <3>1. view' \in View /\ view'.sheet = view.sheet /\ view'.savesTo = view.savesTo
        BY <1>2, <2>2 DEF NotFound, GetFails, View
      <3> QED BY <3>1 DEF ViewOK, DayParts
    <2> QED BY <2>1, <2>2 DEF GetAnswered
  <1>6. OnTrack'
    <2> SUFFICES ASSUME ~route.overtaken PROVE OnTrack'
      BY <1>1 DEF OnTrack
    <2>1. d = route.date /\ view.loading
          /\ \A e \in Dates : gets[e] > 0 => e = route.date /\ gets[e] = 1
      BY <1>2 DEF DayParts, OnTrack
    <2>2. \A e \in Dates : ~(gets'[e] > 0)
      <3>1. \A e \in Dates : gets[e] \in Nat
        BY <1>2, DailyViewAssumption DEF LoadsOK
      <3> QED BY <1>3, <2>1, <3>1
    <2>3. ~InModal
      BY <2>1 DEF DayParts, OnTrack
    <2>4. ~InModal' /\ ~form'.open /\ ~adding'.visible
      BY <1>1, <2>3 DEF InModal
    <2>5. view'.sheet # NoSheet => view'.sheet.date = route'.date
      BY <1>1, <1>5, <2>1 DEF DayParts, OnTrack
    <2> QED BY <2>2, <2>4, <2>5 DEF OnTrack
  <1> QED
    <2>1. table' \in [Dates -> StoredRow] /\ FormOK' /\ deleting' \in BOOLEAN
          /\ adding' \in [open : BOOLEAN, visible : BOOLEAN]
      BY <1>1 DEF DayParts, FormOK
    <2> QED BY <1>3, <1>4, <1>5, <1>6, <2>1 DEF DayParts

(* A request is sent.                                                      *)
LEMMA ShownTypes ==
    ASSUME DayParts
    PROVE  /\ view.sheet.date \in Dates \cup {NoDate} /\ view.sheet.rev \in Revisions
           /\ view.sheet # NoSheet => view.sheet \in Sheet /\ view.savesTo \in Dates
  <1>1. view.sheet \in Sheets
    BY DEF DayParts, ViewOK, View
  <1>2. CASE view.sheet = NoSheet
    BY <1>2, DailyViewAssumption DEF NoSheet, Revisions
  <1>3. CASE view.sheet \in Sheet
    BY <1>3, SheetTypes DEF DayParts, ViewOK, Sheet
  <1> QED BY <1>1, <1>2, <1>3 DEF Sheets

LEMMA RequestFields ==
    ASSUME NEW op \in Ops
    PROVE  /\ Request(op).op = op /\ Request(op).attached
           /\ Request(op).date = IF op = "item" THEN view.savesTo ELSE route.date
           /\ Request(op).of = view.sheet.date
           /\ Request(op).choice = form.choice /\ Request(op).confirmed = form.confirmed
  BY DEF Request

LEMMA RequestSound ==
    ASSUME DayParts, NEW op \in Ops,
           op = "item" => view.sheet # NoSheet,
           op = "add" => adding.visible
    PROVE  RequestOK(Request(op))
  <1>1. /\ form.choice \in Selected /\ form.confirmed \in Selected
        /\ form.confirmed \in {NoChoice, form.choice}
    BY DEF DayParts, FormOK, DialogForm
  <1>2. route.date \in Dates
    BY DEF DayParts, LoadsOK
  <1>3. Request(op) \in Sent
    <2>1. (IF op = "item" THEN view.savesTo ELSE route.date) \in Dates
      BY <1>2, ShownTypes
    <2> QED BY <1>1, <2>1, ShownTypes DEF Request, Sent
  <1>4. op = "item" => Request(op).date = Request(op).of
    BY RequestFields DEF DayParts, ViewOK
  <1>5. ~route.overtaken /\ op = "add" => view.sheet.date = route.date
    BY DEF DayParts, OnTrack
  <1> QED BY <1>1, <1>3, <1>4, <1>5, RequestFields DEF RequestOK

LEMMA SendStep ==
    ASSUME DayParts, NEW q, RequestOK(q), sent' = sent \cup {q},
           UNCHANGED <<route, form, adding, deleting>>,
           q.op \in FormOps => form.open /\ ~FormSaving,
           q.op = "add" => adding.visible /\ ~AddSaving,
           q.op = "cancel" => deleting /\ ~IsDeleting
    PROVE  (\A x \in sent' : RequestOK(x)') /\ Dialogs(sent)'
  <1>1. \A x \in sent' : RequestOK(x)'
    <2>1. \A x \in sent' : RequestOK(x)
      BY DEF DayParts
    <2> QED BY <2>1 DEF RequestOK
  <1>2. Dialogs(sent)
    BY DEF DayParts
  <1>3. /\ q.op \in FormOps => \A r \in sent : r.op \notin FormOps
        /\ q.op = "add" => \A r \in sent : ~(r.op = "add" /\ r.attached)
        /\ q.op = "cancel" => \A r \in sent : r.op # "cancel"
    BY DEF FormSaving, AddSaving, IsDeleting, Sending, FormOps
  <1>4. Dialogs(sent')
    <2>1. \A r \in sent' : r \in sent \/ r = q
      OBVIOUS
    <2>2. \A r \in sent' : r.op \in FormOps => form.open /\ \A s \in sent' : s.op \in FormOps => s = r
      BY <1>2, <1>3, <2>1 DEF Dialogs
    <2>3. \A r \in sent' : r.op = "add" /\ r.attached =>
            adding.visible /\ \A s \in sent' : s.op = "add" /\ s.attached => s = r
      BY <1>2, <1>3, <2>1 DEF Dialogs
    <2>4. \A r \in sent' : r.op = "cancel" =>
            deleting /\ \A s \in sent' : s.op = "cancel" => s = r
      BY <1>2, <1>3, <2>1 DEF Dialogs
    <2> QED BY <1>2, <2>2, <2>3, <2>4 DEF Dialogs
  <1>5. Dialogs(sent)'
    BY <1>4 DEF Dialogs
  <1> QED BY <1>1, <1>5

(* What an item changes of the display.                                    *)
EnterItem(v) == [v EXCEPT !.sheet.entered = TRUE, !.saves = "saving"]

LEMMA EnteredView ==
    ASSUME NEW v \in View, v.sheet \in Sheet
    PROVE  LET w == EnterItem(v) IN
           /\ w \in View /\ w.sheet \in Sheet
           /\ w.sheet.date = v.sheet.date /\ w.sheet.rev = v.sheet.rev
           /\ w.savesTo = v.savesTo /\ w.loading = v.loading
  <1> DEFINE s == [v.sheet EXCEPT !.entered = TRUE]
  <1>1. s \in Sheet /\ s.date = v.sheet.date /\ s.rev = v.sheet.rev
    BY DEF Sheet
  <1>2. s \in Sheets
    BY <1>1, SheetTypes
  <1>3. EnterItem(v) = [v EXCEPT !.sheet = s, !.saves = "saving"]
    BY DEF View, EnterItem
  <1> HIDE DEF s
  <1> QED BY <1>1, <1>2, <1>3 DEF View

(* The rest of the parts, when the table, the loads and the dialogs stay.  *)
LEMMA RestStays ==
    ASSUME DayParts, UNCHANGED <<table, route, gets, form, adding, deleting>>
    PROVE  /\ table' \in [Dates -> StoredRow] /\ LoadsOK' /\ FormOK' /\ deleting' \in BOOLEAN
           /\ adding' \in [open : BOOLEAN, visible : BOOLEAN]
  BY DEF DayParts, LoadsOK, FormOK

LEMMA OnTrackStays ==
    ASSUME DayParts, UNCHANGED <<route, gets, form, adding, deleting>>,
           view'.loading = view.loading, view'.sheet.date = view.sheet.date,
           view'.sheet.rev = view.sheet.rev,
           view'.sheet = NoSheet <=> view.sheet = NoSheet
    PROVE  OnTrack'
  <1>1. OnTrack
    BY DEF DayParts
  <1>2. InModal' = InModal
    BY DEF InModal
  <1> QED BY <1>1, <1>2 DEF OnTrack

LEMMA ChangeItemStep == DayParts /\ ChangeItem => DayParts'
  <1> SUFFICES ASSUME DayParts, ChangeItem PROVE DayParts'
    OBVIOUS
  <1>1. /\ view' = EnterItem(view)
        /\ sent' = sent \cup {Request("item")}
        /\ UNCHANGED <<table, route, form, adding, deleting, gets>>
        /\ view.sheet # NoSheet
    BY DEF ChangeItem, ShowsSheet, EnterItem
  <1>2. view \in View /\ view.sheet \in Sheet
    BY <1>1, ShownTypes DEF DayParts, ViewOK
  <1>3. /\ view' \in View /\ view'.sheet \in Sheet
        /\ view'.sheet.date = view.sheet.date /\ view'.sheet.rev = view.sheet.rev
        /\ view'.savesTo = view.savesTo /\ view'.loading = view.loading
    BY <1>1, <1>2, EnteredView
  <1>4. ViewOK' /\ OnTrack'
    BY <1>1, <1>2, <1>3, SheetTypes, OnTrackStays DEF ViewOK, DayParts
  <1>5. RequestOK(Request("item")) /\ Request("item").op = "item"
    BY <1>1, RequestSound, RequestFields DEF Ops
  <1>6. (\A x \in sent' : RequestOK(x)') /\ Dialogs(sent)'
    BY <1>1, <1>5, SendStep DEF FormOps
  <1> QED BY <1>1, <1>4, <1>6, RestStays DEF DayParts

(* The rows of the table.                                                  *)
Placed(d, row) == [table EXCEPT ![d] = row]
Entered(d)     == [table EXCEPT ![d].entered = TRUE]
Removed(d)     == [table EXCEPT ![d].rev = 0, ![d].entered = FALSE]

LEMMA RowPlaced ==
    ASSUME table \in [Dates -> StoredRow], NEW d \in Dates, NEW row \in StoredRow
    PROVE  Placed(d, row) \in [Dates -> StoredRow] /\ Placed(d, row)[d] = row
  BY DEF Placed

LEMMA RowsTyped ==
    ASSUME table \in [Dates -> StoredRow], NEW d \in Dates
    PROVE  /\ Entered(d) \in [Dates -> StoredRow]
           /\ Removed(d) \in [Dates -> StoredRow]
  <1>1. table[d] \in StoredRow
    OBVIOUS
  <1> DEFINE full == [table[d] EXCEPT !.entered = TRUE]
             none == [[table[d] EXCEPT !.rev = 0] EXCEPT !.entered = FALSE]
  <1>2. full \in StoredRow /\ none \in StoredRow
    <2>1. 0 \in Revisions
      BY DailyViewAssumption DEF Revisions
    <2>2. full \in StoredRow
      BY <1>1 DEF StoredRow
    <2>3. none \in StoredRow
      BY <1>1, <2>1 DEF StoredRow
    <2> QED BY <2>2, <2>3
  <1>3. Entered(d) = [table EXCEPT ![d] = full]
    BY DEF Entered
  <1>4. Removed(d) = [table EXCEPT ![d] = none]
    BY DEF Removed
  <1> HIDE DEF full, none
  <1> QED BY <1>2, <1>3, <1>4

LEMMA ItemAnsweredStep ==
    ASSUME DayParts, NEW r \in sent, ItemAnswered(r) PROVE DayParts'
  <1>1. /\ UNCHANGED <<route, form, adding, deleting, gets>>
        /\ sent' = sent \ {r}
        /\ \/ view' = view
           \/ view' = [view EXCEPT !.saves = "saved"]
           \/ view' = [view EXCEPT !.saves = "failed"]
        /\ table' = table \/ table' = Entered(r.date)
    BY DEF ItemAnswered, Entered
  <1>2. table \in [Dates -> StoredRow] /\ view \in View
    BY DEF DayParts, ViewOK
  <1>3. table' \in [Dates -> StoredRow]
    <2>1. r.date \in Dates
      BY SentTyped DEF Sent
    <2> QED BY <1>1, <1>2, <2>1, RowsTyped
  <1>4. /\ view' \in View /\ view'.sheet = view.sheet /\ view'.savesTo = view.savesTo
        /\ view'.loading = view.loading
    BY <1>1, <1>2 DEF View
  <1>5. ViewOK' /\ OnTrack'
    BY <1>1, <1>4, OnTrackStays DEF ViewOK, DayParts
  <1>6. (\A x \in sent' : RequestOK(x)') /\ Dialogs(sent)'
    BY <1>1, KeptFewer, QuietStep
  <1>7. LoadsOK' /\ FormOK' /\ deleting' \in BOOLEAN
        /\ adding' \in [open : BOOLEAN, visible : BOOLEAN]
    BY <1>1 DEF DayParts, LoadsOK, FormOK
  <1> QED BY <1>3, <1>5, <1>6, <1>7 DEF DayParts

(* The answers that refuse, and what others do.                            *)
LEMMA RefusedStep ==
    ASSUME DayParts, NEW r \in sent, FormRefused(r) \/ AddRefused(r) \/ DeleteRefused(r)
    PROVE  DayParts'
  <1>1. UNCHANGED <<table, route, view, form, adding, deleting, gets>> /\ sent' = sent \ {r}
    BY DEF FormRefused, AddRefused, DeleteRefused
  <1>2. ViewOK' /\ OnTrack'
    BY <1>1, OnTrackStays DEF ViewOK, DayParts
  <1>3. (\A x \in sent' : RequestOK(x)') /\ Dialogs(sent)'
    BY <1>1, KeptFewer, QuietStep
  <1> QED BY <1>1, <1>2, <1>3, RestStays DEF DayParts

LEMMA NextRevision ==
    ASSUME table \in [Dates -> StoredRow], NEW d \in Dates, table[d].last < MaxRevisions,
           NEW e \in BOOLEAN
    PROVE  /\ [rev |-> table[d].last + 1, last |-> table[d].last + 1, entered |-> e] \in StoredRow
           /\ table[d].last + 1 # 0
  <1>1. table[d].last \in 0..MaxRevisions
    BY DEF StoredRow, Revisions
  <1>2. table[d].last + 1 \in 0..MaxRevisions /\ table[d].last + 1 # 0
    BY <1>1, DailyViewAssumption
  <1> QED BY <1>2 DEF StoredRow, Revisions

LEMMA OthersStep == DayParts /\ Others => DayParts'
  <1> SUFFICES ASSUME DayParts, Others PROVE DayParts'
    OBVIOUS
  <1>1. UNCHANGED <<route, view, form, adding, deleting, gets, sent>>
    BY DEF Others
  <1>2. table \in [Dates -> StoredRow]
    BY DEF DayParts
  <1>3. table' \in [Dates -> StoredRow]
    <2>1. PICK d \in Dates :
             \/ /\ table[d].last < MaxRevisions
                /\ table' = [table EXCEPT ![d] = [rev |-> @.last + 1, last |-> @.last + 1,
                                                  entered |-> FALSE]]
             \/ table' = Entered(d)
             \/ table' = Removed(d)
      BY DEF Others, Entered, Removed
    <2>2. CASE /\ table[d].last < MaxRevisions
               /\ table' = [table EXCEPT ![d] = [rev |-> @.last + 1, last |-> @.last + 1,
                                                 entered |-> FALSE]]
      <3> DEFINE row == [rev |-> table[d].last + 1, last |-> table[d].last + 1, entered |-> FALSE]
      <3>1. row \in StoredRow
        BY <1>2, <2>2, NextRevision
      <3>2. table' = Placed(d, row)
        BY <2>2 DEF Placed
      <3> HIDE DEF row
      <3> QED BY <1>2, <3>1, <3>2, RowPlaced
    <2>3. CASE table' = Entered(d)
      BY <1>2, <2>3, RowsTyped
    <2>4. CASE table' = Removed(d)
      BY <1>2, <2>4, RowsTyped
    <2> QED BY <2>1, <2>2, <2>3, <2>4
  <1>4. ViewOK' /\ OnTrack' /\ LoadsOK' /\ FormOK'
    BY <1>1, OnTrackStays DEF ViewOK, DayParts, LoadsOK, FormOK
  <1>5. (\A x \in sent' : RequestOK(x)') /\ Dialogs(sent)'
    BY <1>1, KeptFewer, QuietStep
  <1> QED BY <1>1, <1>3, <1>4, <1>5 DEF DayParts

(* The form: it opens on the checklist on display, and a confirmation is   *)
(* one of the selection that it shows.                                     *)
Rechosen(c) == [form EXCEPT !.choice = c, !.confirmed = NoChoice]

LEMMA RechosenForm ==
    ASSUME form \in DialogForm, NEW c \in Choices
    PROVE  /\ Rechosen(c) \in DialogForm /\ Rechosen(c).confirmed = NoChoice
           /\ Rechosen(c).open = form.open /\ Rechosen(c).from = form.from
  BY DEF Rechosen, DialogForm, Selected

LEMMA ChangeSelectionMeans ==
    ChangeSelection => \E c \in Choices : form' = Rechosen(c)
  <1> SUFFICES ASSUME ChangeSelection PROVE \E c \in Choices : form' = Rechosen(c)
    OBVIOUS
  <1>1. PICK c \in Choices \ {form.choice} :
          form' = [form EXCEPT !.choice = c, !.confirmed = NoChoice]
    BY ZenonT(30) DEF ChangeSelection
  <1>2. c \in Choices /\ form' = Rechosen(c)
    BY <1>1 DEF Rechosen
  <1> QED BY <1>2, Zenon

LEMMA FormStep ==
    ASSUME DayParts, OpenForm \/ CloseForm \/ ChangeSelection \/ Warn PROVE DayParts'
  <1>1. UNCHANGED <<table, route, view, adding, deleting, gets, sent>>
    <2>1. CASE OpenForm
      BY <2>1 DEF OpenForm
    <2>2. CASE CloseForm
      BY <2>2 DEF CloseForm
    <2>3. CASE ChangeSelection
      BY <2>3, ZenonT(30) DEF ChangeSelection
    <2>4. CASE Warn
      BY <2>4 DEF Warn
    <2> QED BY <2>1, <2>2, <2>3, <2>4
  <1>2. ViewOK /\ FormOK /\ view.sheet \in Sheets
    BY DEF DayParts, ViewOK, View
  <1>3. /\ FormOK'
        /\ \/ form'.open = form.open /\ form'.from = form.from
           \/ ~form'.open /\ ~FormSaving
           \/ form'.open /\ form'.from = view.sheet /\ ~InModal /\ ~view.loading
    <2>1. CASE OpenForm
      <3>1. PICK c \in Choices \cup {NoChoice} : form' = ResetForm(c)
        BY <2>1 DEF OpenForm
      <3>2. /\ form' \in DialogForm /\ form'.open /\ form'.from = view.sheet
            /\ form'.confirmed = NoChoice
        BY <1>2, <3>1 DEF ResetForm, DialogForm, Selected
      <3>3. ~InModal /\ ~view.loading
        BY <2>1 DEF OpenForm, ShowsMissing, SettingsOffered, ShowsSheet
      <3> QED BY <3>2, <3>3 DEF FormOK
    <2>2. CASE CloseForm
      BY <2>2, ClosedFormOK DEF CloseForm, FormOK
    <2>3. CASE ChangeSelection
      <3>1. PICK c \in Choices : form' = Rechosen(c)
        BY <2>3, ChangeSelectionMeans
      <3>2. form \in DialogForm
        BY <1>2 DEF FormOK
      <3>3. form' \in DialogForm /\ form'.confirmed = NoChoice
            /\ form'.open = form.open /\ form'.from = form.from
        BY <3>1, <3>2, RechosenForm
      <3> QED BY <3>3 DEF FormOK
    <2>4. CASE Warn
      <3>1. form' = [form EXCEPT !.confirmed = form.choice] /\ form \in DialogForm
        BY <1>2, <2>4 DEF Warn, FormOK
      <3>2. form' \in DialogForm /\ form'.confirmed = form'.choice
            /\ form'.open = form.open /\ form'.from = form.from
        BY <3>1 DEF DialogForm
      <3> QED BY <3>2 DEF FormOK
    <2> QED BY <2>1, <2>2, <2>3, <2>4
  <1>4. \A x \in sent' : RequestOK(x)'
    BY <1>1 DEF DayParts, RequestOK
  <1>5. Dialogs(sent)'
    <2>1. Dialogs(sent)
      BY DEF DayParts
    <2>2. FormSaving <=> \E r \in sent : r.op \in FormOps
      BY DEF FormSaving, FormOps
    <2>3. (\E r \in sent : r.op \in FormOps) => form'.open
      BY <1>3, <2>1, <2>2 DEF Dialogs, InModal
    <2>4. form'.open => form.open \/ ~InModal
      BY <1>3
    <2>5. ~(form'.open /\ adding.visible) /\ ~(form'.open /\ deleting)
      BY <2>1, <2>4 DEF Dialogs, InModal
    <2> QED BY <1>1, <2>1, <2>3, <2>5 DEF Dialogs
  <1>6. OnTrack'
    <2>1. OnTrack
      BY DEF DayParts
    <2>2. InModal' => InModal \/ ~view.loading
      BY <1>1, <1>3 DEF InModal
    <2>3. ~route.overtaken /\ form'.open =>
             form'.from.rev = view.sheet.rev /\ form'.from.date = view.sheet.date
      BY <1>3, <2>1 DEF OnTrack
    <2> QED BY <1>1, <2>1, <2>2, <2>3 DEF OnTrack
  <1> QED
    <2>1. LoadsOK' /\ ViewOK'
      BY <1>1 DEF DayParts, LoadsOK, ViewOK
    <2> QED BY <1>1, <1>3, <1>4, <1>5, <1>6, <2>1 DEF DayParts

(* The requests of the dialogs.                                            *)
LEMMA DialogSends ==
    ASSUME DayParts, Submit \/ SubmitAdding \/ DeleteChecklist PROVE DayParts'
  <1>1. UNCHANGED <<table, route, view, form, adding, deleting, gets>>
    BY DEF Submit, SubmitAdding, DeleteChecklist
  <1>2. (\A x \in sent' : RequestOK(x)') /\ Dialogs(sent)'
    <2>1. CASE Submit
      <3>1. PICK op \in FormOps : sent' = sent \cup {Request(op)}
        BY <2>1 DEF Submit, FormOps
      <3>2. op \in Ops /\ op \notin {"item", "add", "cancel"}
        BY DEF FormOps, Ops
      <3>3. RequestOK(Request(op)) /\ Request(op).op = op
        BY <3>2, RequestSound, RequestFields
      <3>4. form.open /\ ~FormSaving
        BY <2>1 DEF Submit, MaySubmit
      <3> QED BY <1>1, <3>1, <3>2, <3>3, <3>4, SendStep
    <2>2. CASE SubmitAdding
      <3>1. sent' = sent \cup {Request("add")} /\ adding.visible /\ ~AddSaving
        BY <2>2 DEF SubmitAdding
      <3>2. RequestOK(Request("add")) /\ Request("add").op = "add"
        BY <3>1, RequestSound, RequestFields DEF Ops
      <3> QED BY <1>1, <3>1, <3>2, SendStep DEF FormOps
    <2>3. CASE DeleteChecklist
      <3>1. sent' = sent \cup {Request("cancel")} /\ deleting /\ ~IsDeleting
        BY <2>3 DEF DeleteChecklist
      <3>2. RequestOK(Request("cancel")) /\ Request("cancel").op = "cancel"
        BY <3>1, RequestSound, RequestFields DEF Ops
      <3> QED BY <1>1, <3>1, <3>2, SendStep DEF FormOps
    <2> QED BY <2>1, <2>2, <2>3
  <1>3. ViewOK' /\ OnTrack'
    BY <1>1, OnTrackStays DEF ViewOK, DayParts
  <1> QED BY <1>1, <1>2, <1>3, RestStays DEF DayParts

(* The form's request is served: the checklist of the answer is shown and  *)
(* the form closes.                                                        *)
LEMMA SavedStep ==
    ASSUME DayParts, NEW r \in sent, r.op \in FormOps,
           NEW row \in StoredRow, row.rev # 0, HandleSaved(r, row)
    PROVE  DayParts'
  <1> DEFINE v == [view EXCEPT !.missing = FALSE]
             sheet == AnswerSheet(r.date, row)
  <1>1. /\ table' = Placed(r.date, row)
        /\ view' = ResetItemSaveStates(v, sheet)
        /\ form' = ClosedForm
        /\ sent' = Detached({"item"}) \ {r}
        /\ UNCHANGED <<route, adding, deleting, gets>>
    BY DEF HandleSaved, Placed
  <1>2. RequestOK(r) /\ r.date \in Dates /\ form.open /\ r.op # "item"
    BY DEF DayParts, RequestOK, Sent, Dialogs, FormOps
  <1>3. table' \in [Dates -> StoredRow]
    BY <1>1, <1>2, RowPlaced DEF DayParts
  <1>4. v \in View /\ v.loading = view.loading
    BY DEF DayParts, ViewOK, View
  <1>5. sheet \in Sheet /\ sheet.date = r.date
    <2>1. sheet \in Sheet
      BY <1>2, AnswerTypes
    <2>2. sheet.date = r.date
      BY DEF AnswerSheet
    <2> QED BY <2>1, <2>2
  <1> HIDE DEF v, sheet
  <1>6. /\ ViewOK' /\ view'.sheet.date = r.date /\ view'.loading = view.loading
    BY <1>1, <1>4, <1>5, ShownViewOK DEF ViewOK
  <1>7. FormOK' /\ ~form'.open
    BY <1>1, ClosedFormOK DEF FormOK
  <1>8. Kept(sent')
    <2>1. Kept(Detached({"item"}))
      BY SentTyped, DetachedKept
    <2> QED BY <1>1, <2>1, KeptOfKept
  <1>9. (\A x \in sent' : RequestOK(x)) /\ Dialogs(sent')
    BY <1>8, KeptOK
  <1>10. \A x \in sent' : RequestOK(x)'
    BY <1>1, <1>9 DEF RequestOK
  <1>11. Dialogs(sent)'
    <2>1. \A x \in sent' : x.op \notin FormOps
      <3>1. \A x \in sent' : x.op \in FormOps => x \in sent /\ x # r
        BY <1>1, <1>8 DEF Kept, FormOps
      <3>2. \A x \in sent : x.op \in FormOps => x = r
        BY DEF DayParts, Dialogs
      <3> QED BY <3>1, <3>2
    <2> QED BY <1>1, <1>7, <1>9, <2>1 DEF Dialogs
  <1>12. OnTrack'
    <2> SUFFICES ASSUME ~route.overtaken PROVE OnTrack'
      BY <1>1 DEF OnTrack
    <2>1. OnTrack /\ Dialogs(sent)
      BY DEF DayParts
    <2>2. ~adding.visible /\ ~deleting /\ ~view.loading
      BY <1>2, <2>1 DEF Dialogs, OnTrack, InModal
    <2>3. ~InModal'
      BY <1>1, <1>7, <2>2 DEF InModal
    <2>4. view'.sheet.date = route'.date
      BY <1>1, <1>2, <1>6 DEF RequestOK
    <2>5. ~view'.loading /\ \A d \in Dates : ~(gets'[d] > 0)
      BY <1>1, <1>6, <2>1, <2>2 DEF OnTrack
    <2> QED BY <1>1, <1>7, <2>2, <2>3, <2>4, <2>5 DEF OnTrack
  <1> QED
    <2>1. LoadsOK' /\ deleting' \in BOOLEAN /\ adding' \in [open : BOOLEAN, visible : BOOLEAN]
      BY <1>1 DEF DayParts, LoadsOK
    <2> QED BY <1>3, <1>6, <1>7, <1>10, <1>11, <1>12, <2>1 DEF DayParts

LEMMA CreatedStep ==
    ASSUME DayParts, NEW r \in sent, Created(r) PROVE DayParts'
  <1>1. r.op \in FormOps /\ r.date \in Dates /\ table[r.date] \in StoredRow
    BY DEF Created, FormOps, DayParts, RequestOK, Sent
  <1>2. CASE table[r.date].last < MaxRevisions /\ HandleSaved(r, NewRevision(r))
    <2>1. NewRevision(r) \in StoredRow /\ NewRevision(r).rev # 0
      BY <1>1, <1>2, NextRevision DEF NewRevision, DayParts
    <2> QED BY <1>1, <1>2, <2>1, SavedStep
  <1>3. CASE table[r.date].rev # 0 /\ HandleSaved(r, table[r.date])
    BY <1>1, <1>3, SavedStep
  <1> QED BY <1>2, <1>3 DEF Created

KeptEntries(r, kept) == [NewRevision(r) EXCEPT !.entered = kept]

LEMMA ConfiguredCases ==
    ASSUME NEW r, Configured(r)
    PROVE  /\ r.op = "configure" /\ IsCurrentSheet(r)
           /\ table[r.date].entered => r.confirmed # NoChoice
           /\ \/ HandleSaved(r, table[r.date])
              \/ /\ table[r.date].last < MaxRevisions
                 /\ \E kept \in {FALSE, table[r.date].entered} :
                       HandleSaved(r, KeptEntries(r, kept))
  BY ZenonT(30) DEF Configured, KeptEntries

LEMMA ConfiguredStep ==
    ASSUME DayParts, NEW r \in sent, Configured(r) PROVE DayParts'
  <1>1. r.op \in FormOps /\ r.date \in Dates /\ table[r.date] \in StoredRow
    BY ConfiguredCases DEF FormOps, DayParts, RequestOK, Sent
  <1>2. table[r.date].rev # 0
    BY ConfiguredCases DEF IsCurrentSheet
  <1>3. CASE HandleSaved(r, table[r.date])
    BY <1>1, <1>2, <1>3, SavedStep
  <1>4. ASSUME NEW kept \in {FALSE, table[r.date].entered}, table[r.date].last < MaxRevisions,
               HandleSaved(r, KeptEntries(r, kept))
        PROVE  DayParts'
    <2>1. kept \in BOOLEAN
      BY <1>1 DEF StoredRow
    <2>2. KeptEntries(r, kept)
            = [rev |-> table[r.date].last + 1, last |-> table[r.date].last + 1, entered |-> kept]
      BY DEF KeptEntries, NewRevision
    <2>3. KeptEntries(r, kept) \in StoredRow /\ KeptEntries(r, kept).rev # 0
      BY <1>1, <1>4, <2>1, <2>2, NextRevision DEF DayParts
    <2> QED BY <1>1, <1>4, <2>3, SavedStep
  <1> QED BY <1>3, <1>4, ConfiguredCases

(* The dialogs that add categories and delete.                             *)
ShowAt(sheet, date) == [view EXCEPT !.sheet = sheet, !.savesTo = date]

LEMMA ShowAtOK ==
    ASSUME view \in View, NEW sheet \in Sheet
    PROVE  /\ ShowAt(sheet, sheet.date) \in View /\ ShowAt(sheet, sheet.date).sheet = sheet
           /\ ShowAt(sheet, sheet.date).savesTo = sheet.date
           /\ ShowAt(sheet, sheet.date).loading = view.loading
  BY SheetTypes DEF ShowAt, View

LEMMA AddedStep ==
    ASSUME DayParts, NEW r \in sent, Added(r) PROVE DayParts'
  <1>1. /\ r.op = "add" /\ table[r.date].rev # 0
        /\ UNCHANGED <<table, route, form, deleting, gets>>
        /\ sent' = sent \ {r}
    BY DEF Added
  <1>2. CASE ~r.attached
    <2>1. UNCHANGED <<view, adding>>
      BY <1>2 DEF Added
    <2>2. (\A x \in sent' : RequestOK(x)') /\ Dialogs(sent)'
      BY <1>1, <2>1, KeptFewer, QuietStep
    <2>3. ViewOK' /\ OnTrack'
      BY <1>1, <2>1, OnTrackStays DEF ViewOK, DayParts
    <2> QED BY <1>1, <2>1, <2>2, <2>3, RestStays DEF DayParts
  <1>3. CASE r.attached
    <2> DEFINE sheet == AnswerSheet(r.date, table[r.date])
    <2>1. view' = ShowAt(sheet, r.date) /\ adding' = [open |-> FALSE, visible |-> FALSE]
      BY <1>3 DEF Added, ShowAt
    <2>2. sheet.date = r.date
      BY DEF AnswerSheet
    <2>3. r.date \in Dates /\ RequestOK(r) /\ table[r.date] \in StoredRow
      BY DEF DayParts, RequestOK, Sent
    <2>4. sheet \in Sheet
      BY <1>1, <2>3, AnswerTypes
    <2> HIDE DEF sheet
    <2>5. ViewOK' /\ view'.sheet.date = r.date /\ view'.loading = view.loading
      BY <2>1, <2>2, <2>4, ShowAtOK DEF ViewOK, DayParts
    <2>6. (\A x \in sent' : RequestOK(x)) /\ Dialogs(sent')
      BY <1>1, KeptFewer, KeptOK
    <2>7. \A x \in sent' : RequestOK(x)'
      BY <1>1, <2>6 DEF RequestOK
    <2>8. adding.visible /\ \A s \in sent : s.op = "add" /\ s.attached => s = r
      BY <1>1, <1>3 DEF DayParts, Dialogs
    <2>9. ~form.open /\ ~deleting
      BY <2>8 DEF DayParts, Dialogs
    <2>10. Dialogs(sent)'
      <3>1. \A s \in sent' : ~(s.op = "add" /\ s.attached)
        BY <1>1, <2>8
      <3> QED BY <1>1, <2>1, <2>6, <3>1 DEF Dialogs
    <2>11. OnTrack'
      <3> SUFFICES ASSUME ~route.overtaken PROVE OnTrack'
        BY <1>1 DEF OnTrack
      <3>1. ~form'.open /\ ~adding'.visible /\ ~InModal'
        BY <1>1, <2>1, <2>9 DEF InModal
      <3>2. view'.sheet.date = route'.date
        BY <1>1, <2>3, <2>5 DEF RequestOK
      <3>3. \A d \in Dates : gets'[d] > 0 => d = route'.date /\ gets'[d] = 1 /\ view'.loading
        BY <1>1, <2>5 DEF DayParts, OnTrack
      <3> QED BY <3>1, <3>2, <3>3 DEF OnTrack
    <2> QED
      <3>1. LoadsOK' /\ FormOK' /\ deleting' \in BOOLEAN /\ table' \in [Dates -> StoredRow]
            /\ adding' \in [open : BOOLEAN, visible : BOOLEAN]
        BY <1>1, <2>1 DEF DayParts, LoadsOK, FormOK
      <3> QED BY <2>5, <2>7, <2>10, <2>11, <3>1 DEF DayParts
  <1> QED BY <1>2, <1>3

LEMMA DeletedStep ==
    ASSUME DayParts, NEW r \in sent, Deleted(r) PROVE DayParts'
  <1>1. /\ r.op = "cancel"
        /\ table' = Removed(r.date)
        /\ view' = [view EXCEPT !.sheet = NoSheet, !.missing = TRUE]
        /\ deleting' = FALSE
        /\ sent' = sent \ {r}
        /\ UNCHANGED <<route, form, adding, gets>>
    BY DEF Deleted, Removed
  <1>2. table' \in [Dates -> StoredRow]
    <2>1. r.date \in Dates
      BY DEF DayParts, RequestOK, Sent
    <2> QED BY <1>1, <2>1, RowsTyped DEF DayParts
  <1>3. ViewOK' /\ view'.sheet = NoSheet /\ view'.loading = view.loading
    <2>1. view \in View
      BY DEF DayParts, ViewOK
    <2>2. view' \in View /\ view'.sheet = NoSheet /\ view'.loading = view.loading
      BY <1>1, <2>1, SheetTypes DEF View
    <2> QED BY <2>2 DEF ViewOK
  <1>4. (\A x \in sent' : RequestOK(x)) /\ Dialogs(sent')
    BY <1>1, KeptFewer, KeptOK
  <1>5. \A x \in sent' : RequestOK(x)'
    BY <1>1, <1>4 DEF RequestOK
  <1>6. deleting /\ ~form.open /\ ~adding.visible /\ \A s \in sent : s.op = "cancel" => s = r
    BY <1>1 DEF DayParts, Dialogs
  <1>7. Dialogs(sent)'
    <2>1. \A s \in sent' : s.op # "cancel"
      BY <1>1, <1>6
    <2> QED BY <1>1, <1>4, <2>1 DEF Dialogs
  <1>8. OnTrack'
    <2>1. ~InModal' /\ ~form'.open /\ ~adding'.visible
      BY <1>1, <1>6 DEF InModal
    <2> QED BY <1>1, <1>3, <2>1 DEF OnTrack, DayParts
  <1> QED
    <2>1. LoadsOK' /\ FormOK' /\ deleting' \in BOOLEAN
          /\ adding' \in [open : BOOLEAN, visible : BOOLEAN]
      BY <1>1 DEF DayParts, LoadsOK, FormOK
    <2> QED BY <1>2, <1>3, <1>5, <1>7, <1>8, <2>1 DEF DayParts

LEMMA DialogStep ==
    ASSUME DayParts, OpenAdding \/ CloseAdding \/ OpenDeleting \/ CloseDeleting
    PROVE  DayParts'
  <1>1. UNCHANGED <<table, route, view, form, gets, sent>>
    BY DEF OpenAdding, CloseAdding, OpenDeleting, CloseDeleting
  <1>2. adding \in [open : BOOLEAN, visible : BOOLEAN] /\ deleting \in BOOLEAN
    BY DEF DayParts
  <1>3. /\ adding' \in [open : BOOLEAN, visible : BOOLEAN] /\ deleting' \in BOOLEAN
        /\ adding'.visible => adding'.open
        /\ \/ /\ ~InModal /\ ~view.loading /\ view.sheet # NoSheet
              /\ ~(adding'.visible /\ deleting')
           \/ (adding'.visible => adding.visible) /\ (deleting' => deleting)
        /\ ~AddSaving \/ adding' = adding
        /\ ~IsDeleting \/ deleting' = deleting
    <2>1. CASE OpenAdding
      <3>1. /\ adding' = [adding EXCEPT !.open = TRUE, !.visible = ~adding.open]
            /\ deleting' = deleting /\ ~InModal /\ ~view.loading /\ view.sheet # NoSheet
        BY <2>1 DEF OpenAdding, SettingsOffered, ShowsSheet
      <3>2. adding' \in [open : BOOLEAN, visible : BOOLEAN] /\ adding'.open
        BY <1>2, <3>1
      <3>3. ~AddSaving /\ ~deleting
        BY <3>1 DEF InModal, AddSaving, Sending, DayParts, Dialogs
      <3> QED BY <1>2, <3>1, <3>2, <3>3
    <2>2. CASE CloseAdding
      <3>1. adding' = [open |-> FALSE, visible |-> FALSE] /\ deleting' = deleting /\ ~AddSaving
        BY <2>2 DEF CloseAdding
      <3> QED BY <1>2, <3>1
    <2>3. CASE OpenDeleting
      <3>1. /\ adding' = adding /\ deleting' = TRUE
            /\ ~InModal /\ ~view.loading /\ view.sheet # NoSheet
        BY <2>3 DEF OpenDeleting, SettingsOffered, ShowsSheet
      <3>2. ~IsDeleting /\ ~adding.visible /\ (adding.visible => adding.open)
        BY <3>1 DEF InModal, IsDeleting, DayParts, Dialogs
      <3> QED BY <1>2, <3>1, <3>2
    <2>4. CASE CloseDeleting
      <3>1. adding' = adding /\ deleting' = FALSE /\ ~IsDeleting
        BY <2>4 DEF CloseDeleting
      <3>2. adding.visible => adding.open
        BY DEF DayParts, Dialogs
      <3> QED BY <1>2, <3>1, <3>2
    <2> QED BY <2>1, <2>2, <2>3, <2>4
  <1>4. \A x \in sent' : RequestOK(x)'
    BY <1>1 DEF DayParts, RequestOK
  <1>5. ~(form.open /\ adding'.visible) /\ ~(form.open /\ deleting')
        /\ ~(adding'.visible /\ deleting')
    BY <1>3 DEF DayParts, Dialogs, InModal
  <1>6. Dialogs(sent)'
    <2>1. Dialogs(sent)
      BY DEF DayParts
    <2>2. (\E r \in sent : r.op = "add" /\ r.attached) => adding'.visible
      BY <1>3, <2>1 DEF AddSaving, Sending, Dialogs
    <2>3. (\E r \in sent : r.op = "cancel") => deleting'
      BY <1>3, <2>1 DEF IsDeleting, Dialogs
    <2> QED BY <1>1, <1>3, <1>5, <2>1, <2>2, <2>3 DEF Dialogs
  <1>7. OnTrack'
    <2>1. OnTrack
      BY DEF DayParts
    <2>2. InModal' => InModal \/ ~view.loading
      BY <1>1, <1>3 DEF InModal
    <2>3. ~route.overtaken /\ adding'.visible => view.sheet # NoSheet
      BY <1>3, <2>1 DEF OnTrack
    <2> QED BY <1>1, <2>1, <2>2, <2>3 DEF OnTrack
  <1> QED
    <2>1. LoadsOK' /\ FormOK' /\ ViewOK' /\ table' \in [Dates -> StoredRow]
      BY <1>1 DEF DayParts, LoadsOK, FormOK, ViewOK
    <2> QED BY <1>3, <1>4, <1>6, <1>7, <2>1 DEF DayParts

LEMMA DayPartsStep == DayParts /\ [DayNext]_dayVars => DayParts'
  <1> SUFFICES ASSUME DayParts, [DayNext]_dayVars PROVE DayParts'
    OBVIOUS
  <1>1. CASE Operate
    <2>1. CASE MoveToSelectedDate \/ MoveInHistory
      BY <2>1, GoStep DEF MoveToSelectedDate, MoveInHistory
    <2>2. CASE OpenForm \/ CloseForm \/ ChangeSelection \/ Warn
      BY <2>2, FormStep
    <2>3. CASE Submit \/ SubmitAdding \/ DeleteChecklist
      BY <2>3, DialogSends
    <2>4. CASE OpenAdding \/ CloseAdding \/ OpenDeleting \/ CloseDeleting
      BY <2>4, DialogStep
    <2>5. CASE ChangeItem
      BY <2>5, ChangeItemStep
    <2> QED BY <1>1, <2>1, <2>2, <2>3, <2>4, <2>5 DEF Operate
  <1>2. ASSUME NEW r \in sent, Answer(r) PROVE DayParts'
    <2>1. CASE ItemAnswered(r)
      BY <2>1, ItemAnsweredStep
    <2>2. CASE Created(r)
      BY <2>2, CreatedStep
    <2>3. CASE Configured(r)
      BY <2>3, ConfiguredStep
    <2>4. CASE FormRefused(r) \/ AddRefused(r) \/ DeleteRefused(r)
      BY <2>4, RefusedStep
    <2>5. CASE Added(r)
      BY <2>5, AddedStep
    <2>6. CASE Deleted(r)
      BY <2>6, DeletedStep
    <2> QED BY <1>2, <2>1, <2>2, <2>3, <2>4, <2>5, <2>6 DEF Answer
  <1>3. ASSUME NEW d \in GetsUnderWay, GetAnswered(d) PROVE DayParts'
    BY <1>3, GetStep
  <1>4. CASE Others
    BY <1>4, OthersStep
  <1>5. CASE UNCHANGED dayVars
    <2>1. UNCHANGED <<table, route, view, form, adding, deleting, gets, sent>>
      BY <1>5 DEF dayVars
    <2>2. (\A x \in sent' : RequestOK(x)') /\ Dialogs(sent)'
      BY <2>1, KeptFewer, QuietStep
    <2>3. ViewOK' /\ OnTrack'
      BY <2>1, OnTrackStays DEF ViewOK, DayParts
    <2> QED BY <2>1, <2>2, <2>3, RestStays DEF DayParts
  <1> QED BY <1>1, <1>2, <1>3, <1>4, <1>5 DEF DayNext

LEMMA DayPartsAlways == DaySpec => []DayParts
  BY DayPartsInit, DayPartsStep, PTL DEF DaySpec

(* However dates, dialogs and answers interleave, a save goes to the date  *)
(* its item belongs to, what is on display is of the date of the route     *)
(* unless a load came between, and a dialog waits for its request.         *)
THEOREM DayInvAlways == DaySpec => []DayInv
  BY PartsImplyDay, DayPartsAlways, PTL

(* What is entered is replaced only after a warning about the very         *)
(* selection that was sent.                                                *)
THEOREM WarnedBeforeLossAlways == DaySpec => WarnedBeforeLoss
  <1>1. ASSUME DayParts, NEW r \in sent, Configured(r), table[r.date].entered
        PROVE  r.confirmed = r.choice
    <2>1. r.confirmed # NoChoice
      BY <1>1, ConfiguredCases
    <2>2. r.confirmed \in {NoChoice, r.choice}
      BY <1>1 DEF DayParts, RequestOK
    <2> QED BY <2>1, <2>2
  <1>2. DayParts /\ [DayNext]_dayVars =>
          [\A r \in sent : Configured(r) /\ table[r.date].entered => r.confirmed = r.choice]_dayVars
    BY <1>1
  <1> QED BY <1>2, DayPartsAlways, PTL DEF DaySpec, WarnedBeforeLoss

(* What the requests of the dialogs carry: unless a load came between, the *)
(* revision on display, and the screen waits for their answers.            *)
Displayed ==
    ~route.overtaken =>
       \A r \in sent : r.op # "item" => r.attached /\ r.rev = view.sheet.rev

LEMMA DisplayedInit == DayInit => Displayed
  BY DEF DayInit, Displayed

LEMMA DisplayedStays ==
    ASSUME Displayed, UNCHANGED route, view'.sheet.rev = view.sheet.rev,
           \A x \in sent' : x.op # "item" => x \in sent
    PROVE  Displayed'
  BY DEF Displayed

LEMMA NoneLeft ==
    ASSUME UNCHANGED route, ~route.overtaken => \A x \in sent' : x.op = "item"
    PROVE  Displayed'
  BY DEF Displayed

LEMMA ItemsDetached ==
    ASSUME DayParts
    PROVE  \A x \in Detached({"item"}) : x.op # "item" => x \in sent
  <1> SUFFICES ASSUME NEW x \in Detached({"item"}), x.op # "item" PROVE x \in sent
    OBVIOUS
  <1>1. PICK r \in sent : x = [r EXCEPT !.attached = @ /\ r.op \notin {"item"}]
    BY DEF Detached
  <1>2. r \in Sent
    BY SentTyped
  <1>3. CASE r.op \in {"item"}
    <2>1. x = Detach(r)
      BY <1>1, <1>2, <1>3, DetachOne
    <2> QED BY <1>2, <1>3, <2>1, DetachSame
  <1>4. CASE r.op \notin {"item"}
    BY <1>1, <1>2, <1>4, DetachOne
  <1> QED BY <1>3, <1>4

(* One request of a dialog is under way at most.                           *)
LEMMA OneRequest ==
    ASSUME DayParts, Displayed, ~route.overtaken, NEW r \in sent, r.op # "item"
    PROVE  \A x \in sent : x.op # "item" => x = r
  <1> SUFFICES ASSUME NEW x \in sent, x.op # "item" PROVE x = r
    OBVIOUS
  <1>1. r \in Sent /\ x \in Sent
    BY SentTyped
  <1>2. r.op \in FormOps \cup {"add", "cancel"} /\ x.op \in FormOps \cup {"add", "cancel"}
    BY <1>1 DEF Sent, Ops, FormOps
  <1>3. r.attached /\ x.attached
    BY DEF Displayed
  <1>4. Dialogs(sent)
    BY DEF DayParts
  <1> QED BY <1>2, <1>3, <1>4 DEF Dialogs

LEMMA AnsweredLast ==
    ASSUME DayParts, Displayed, NEW r \in sent, r.op # "item", UNCHANGED route,
           \A x \in sent' : x.op # "item" => x \in sent /\ x # r
    PROVE  Displayed'
  <1>1. ~route.overtaken => \A x \in sent' : x.op = "item"
    BY OneRequest
  <1> QED BY <1>1, NoneLeft

LEMMA DisplayedSends ==
    ASSUME Displayed, NEW op \in Ops, sent' = sent \cup {Request(op)},
           view'.sheet.rev = view.sheet.rev, UNCHANGED route
    PROVE  Displayed'
  <1>1. Request(op).attached /\ Request(op).rev = view.sheet.rev
    BY DEF Request
  <1> QED BY <1>1 DEF Displayed

LEMMA DisplayedOperate == DayParts /\ Displayed /\ Operate => Displayed'
  <1> SUFFICES ASSUME DayParts, Displayed, Operate PROVE Displayed'
    OBVIOUS
  <1>1. ASSUME NEW d \in Dates, Go(d) PROVE Displayed'
    <2>1. /\ route' = [date |-> d, loads |-> route.loads + 1,
                       overtaken |-> route.overtaken \/ Overtakes]
          /\ sent' = Detached({"item", "add"})
      BY <1>1 DEF Go, LoadChecklist
    <2>2. ~route'.overtaken => ~Overtakes
      <3>1. route'.overtaken = (route.overtaken \/ Overtakes)
        BY <2>1
      <3> QED BY <3>1, Zenon
    <2>3. ~Overtakes => \A r \in sent : r.op = "item"
      BY DEF Overtakes
    <2>4. Kept(sent')
      BY <2>1, SentTyped, DetachedKept
    <2>5. ~Overtakes => \A x \in sent' : x.op = "item"
      BY <2>3, <2>4 DEF Kept, Same
    <2> QED BY <2>2, <2>5 DEF Displayed
  <1>2. CASE MoveToSelectedDate \/ MoveInHistory
    BY <1>1, <1>2 DEF MoveToSelectedDate, MoveInHistory
  <1>3. CASE ChangeItem
    <2>1. /\ view' = EnterItem(view) /\ view.sheet # NoSheet
          /\ sent' = sent \cup {Request("item")} /\ UNCHANGED route
      BY <1>3 DEF ChangeItem, ShowsSheet, EnterItem
    <2>2. view \in View /\ view.sheet \in Sheet
      BY <2>1, ShownTypes DEF DayParts, ViewOK
    <2>3. view'.sheet.rev = view.sheet.rev
      BY <2>1, <2>2, EnteredView
    <2> QED BY <2>1, <2>3, DisplayedSends DEF Ops
  <1>4. CASE OpenForm \/ CloseForm \/ ChangeSelection \/ Warn
    <2>1. UNCHANGED <<route, view, sent>>
      <3>1. CASE ChangeSelection
        BY <3>1, ZenonT(30) DEF ChangeSelection
      <3> QED BY <1>4, <3>1 DEF OpenForm, CloseForm, Warn
    <2> QED BY <2>1, DisplayedStays
  <1>5. CASE Submit \/ SubmitAdding \/ DeleteChecklist
    <2>1. UNCHANGED <<route, view>>
      BY <1>5 DEF Submit, SubmitAdding, DeleteChecklist
    <2>2. \E op \in Ops : sent' = sent \cup {Request(op)}
      BY <1>5 DEF Submit, SubmitAdding, DeleteChecklist, Ops
    <2> QED BY <2>1, <2>2, DisplayedSends
  <1>6. CASE OpenAdding \/ CloseAdding \/ OpenDeleting \/ CloseDeleting
    <2>1. UNCHANGED <<route, view, sent>>
      BY <1>6 DEF OpenAdding, CloseAdding, OpenDeleting, CloseDeleting
    <2> QED BY <2>1, DisplayedStays
  <1> QED BY <1>2, <1>3, <1>4, <1>5, <1>6 DEF Operate

LEMMA DisplayedAnswer ==
    ASSUME DayParts, Displayed, NEW r \in sent, Answer(r) PROVE Displayed'
  <1>1. CASE ItemAnswered(r)
    <2>1. /\ UNCHANGED route /\ sent' = sent \ {r}
          /\ \/ view' = view
             \/ view' = [view EXCEPT !.saves = "saved"]
             \/ view' = [view EXCEPT !.saves = "failed"]
      BY <1>1 DEF ItemAnswered
    <2>2. view'.sheet = view.sheet
      BY <2>1 DEF DayParts, ViewOK, View
    <2> QED BY <2>1, <2>2, DisplayedStays
  <1>2. CASE FormRefused(r) \/ AddRefused(r) \/ DeleteRefused(r)
    <2>1. UNCHANGED <<route, view>> /\ sent' = sent \ {r}
      BY <1>2 DEF FormRefused, AddRefused, DeleteRefused
    <2> QED BY <2>1, DisplayedStays
  <1>3. ASSUME NEW row, r.op # "item", HandleSaved(r, row) PROVE Displayed'
    <2>1. UNCHANGED route /\ sent' = Detached({"item"}) \ {r}
      BY <1>3 DEF HandleSaved
    <2>2. \A x \in sent' : x.op # "item" => x \in sent /\ x # r
      BY <2>1, ItemsDetached
    <2> QED BY <1>3, <2>1, <2>2, AnsweredLast
  <1>4. CASE Created(r)
    <2>1. r.op # "item" /\ \E row : HandleSaved(r, row)
      BY <1>4 DEF Created
    <2> QED BY <1>3, <2>1
  <1>5. CASE Configured(r)
    <2>1. r.op # "item" /\ \E row : HandleSaved(r, row)
      BY <1>5, ConfiguredCases
    <2> QED BY <1>3, <2>1
  <1>6. CASE Added(r) \/ Deleted(r)
    <2>1. r.op # "item" /\ UNCHANGED route /\ sent' = sent \ {r}
      BY <1>6 DEF Added, Deleted
    <2> QED BY <2>1, AnsweredLast
  <1> QED BY <1>1, <1>2, <1>4, <1>5, <1>6 DEF Answer

(* A load on the track is answered while no dialog is open.                *)
LEMMA DisplayedGet ==
    ASSUME DayParts, Displayed, NEW d \in GetsUnderWay, GetAnswered(d) PROVE Displayed'
  <1>1. UNCHANGED route /\ (sent' = Detached({"item"}) \/ sent' = sent)
    BY DEF GetAnswered, Loaded, NotFound, GetFails
  <1>2. ASSUME ~route.overtaken PROVE \A x \in sent : x.op = "item"
    <2>1. d \in Dates /\ gets[d] > 0
      BY DEF GetsUnderWay
    <2>2. ~InModal
      BY <1>2, <2>1 DEF DayParts, OnTrack
    <2>3. \A x \in sent : x.op \in Ops
      BY SentTyped DEF Sent
    <2>4. \A x \in sent : x.op # "item" => x.attached
      BY <1>2 DEF Displayed
    <2> QED BY <2>2, <2>3, <2>4 DEF DayParts, Dialogs, InModal, Ops, FormOps
  <1>3. ~route.overtaken => \A x \in sent' : x.op = "item"
    BY <1>1, <1>2, ItemsDetached
  <1> QED BY <1>1, <1>3, NoneLeft

LEMMA DisplayedStep == DayParts /\ Displayed /\ [DayNext]_dayVars => Displayed'
  <1> SUFFICES ASSUME DayParts, Displayed, [DayNext]_dayVars PROVE Displayed'
    OBVIOUS
  <1>1. CASE Others
    <2>1. UNCHANGED <<route, view, sent>>
      BY <1>1 DEF Others
    <2> QED BY <2>1, DisplayedStays
  <1>2. CASE UNCHANGED dayVars
    <2>1. UNCHANGED <<route, view, sent>>
      BY <1>2 DEF dayVars
    <2> QED BY <2>1, DisplayedStays
  <1>3. (\E r \in sent : Answer(r)) => Displayed'
    BY DisplayedAnswer
  <1>4. (\E d \in GetsUnderWay : GetAnswered(d)) => Displayed'
    BY DisplayedGet
  <1> QED BY <1>1, <1>2, <1>3, <1>4, DisplayedOperate DEF DayNext

LEMMA DisplayedAlways == DaySpec => []Displayed
  <1>1. DayInit => DayParts
    BY DayPartsInit
  <1> QED BY <1>1, DisplayedInit, DisplayedStep, DayPartsAlways, PTL DEF DaySpec

(* Unless a load came between, a replacement and a deletion change the     *)
(* revision on display, which is the one a replacement's form was filled   *)
(* from.  An addition extends whatever revision its date has by then, and  *)
(* that one comes on display.                                              *)
THEOREM ChangesWhatWasShownAlways == DaySpec => ChangesWhatWasShown
  <1> DEFINE same(r) == view.sheet.date = r.date /\ view.sheet.rev = table[r.date].rev
             extended(r) == /\ r.of = route.date /\ r.date = route.date
                            /\ view'.sheet.rev = table[r.date].rev
             shown == ~route.overtaken =>
         /\ Submit => form.from.rev = view.sheet.rev /\ form.from.date = view.sheet.date
         /\ \A r \in sent :
              /\ Configured(r) \/ Deleted(r) =>
                   view.sheet.date = r.date /\ view.sheet.rev = table[r.date].rev
              /\ Added(r) =>
                   /\ r.of = route.date /\ r.date = route.date
                   /\ view'.sheet.rev = table[r.date].rev
  <1>1. ASSUME DayParts, Displayed, ~route.overtaken, Submit
        PROVE  form.from.rev = view.sheet.rev /\ form.from.date = view.sheet.date
    <2>1. form.open
      BY <1>1 DEF Submit, MaySubmit
    <2> QED BY <1>1, <2>1 DEF DayParts, OnTrack
  <1>2. ASSUME DayParts, Displayed, ~route.overtaken, NEW r \in sent, Configured(r) \/ Deleted(r)
        PROVE  same(r)
    <2>1. r.op # "item" /\ IsCurrentSheet(r)
      BY <1>2, ConfiguredCases DEF Deleted
    <2>2. r.date = route.date
      BY <1>2, <2>1 DEF DayParts, RequestOK
    <2>3. view.sheet.rev = r.rev /\ r.rev # 0 /\ r.rev = table[r.date].rev
      BY <1>2, <2>1 DEF Displayed, IsCurrentSheet
    <2>4. view.sheet # NoSheet
      BY <2>3 DEF NoSheet
    <2> QED BY <1>2, <2>2, <2>3, <2>4 DEF DayParts, OnTrack
  <1>3. ASSUME DayParts, Displayed, ~route.overtaken, NEW r \in sent, Added(r)
        PROVE  extended(r)
    <2>1. r.op = "add"
      BY <1>3 DEF Added
    <2>2. r.of = route.date /\ r.date = route.date
      BY <1>3, <2>1 DEF DayParts, RequestOK
    <2>3. r.attached
      BY <1>3, <2>1 DEF Displayed
    <2>4. view' = ShowAt(AnswerSheet(r.date, table[r.date]), r.date)
      BY <1>3, <2>3 DEF Added, ShowAt
    <2>5. view'.sheet = AnswerSheet(r.date, table[r.date])
      BY <2>4 DEF DayParts, ViewOK, View, ShowAt
    <2> QED BY <2>2, <2>5 DEF AnswerSheet
  <1>4. ASSUME DayParts, Displayed PROVE shown
    BY <1>1, <1>2, <1>3, <1>4
  <1> HIDE DEF shown
  <1>5. DayParts /\ Displayed /\ [DayNext]_dayVars => [shown]_dayVars
    BY <1>4
  <1>6. DaySpec => [][shown]_dayVars
    BY <1>5, DayPartsAlways, DisplayedAlways, PTL DEF DaySpec
  <1> QED BY <1>6 DEF ChangesWhatWasShown, shown

=============================================================================
