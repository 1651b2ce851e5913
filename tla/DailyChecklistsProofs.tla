----------------------- MODULE DailyChecklistsProofs -----------------------
(* Proofs about DailyChecklists for any number of clients, revisions,      *)
(* categories and tools, and any bounds on stock and version.              *)
EXTENDS DailyChecklists, TLAPS

-----------------------------------------------------------------------------
(* Operators.                                                              *)

(* A request with a given operation has the fields of that operation.      *)
LEMMA RequestByOp ==
    ASSUME NEW m \in Request \cup {NoRequest}
    PROVE  /\ m.op = "create"    => m \in CreateRequest
           /\ m.op = "item"      => m \in ItemRequest
           /\ m.op = "add"       => m \in AddRequest
           /\ m.op = "configure" => m \in ConfigRequest
           /\ m.op = "cancel"    => m \in CancelRequest
           /\ m.op = "none"      => m = NoRequest
           /\ m.op \in {"create", "item", "add", "configure", "cancel", "none"}
  BY DEF Request, NoRequest, CreateRequest, ItemRequest, AddRequest,
         ConfigRequest, CancelRequest

(* The null rows are rows.                                                 *)
LEMMA NullTypes ==
    /\ NoItem \in ItemRow
    /\ NoItems \in [Slot -> ItemRow]
    /\ NoTxn \in Txn
    /\ NoHeader \in Header
  <1>1. NoItem \in ItemRow
    BY ConstantsAssumption DEF NoItem, ItemRow
  <1>2. NoItems \in [Slot -> ItemRow]
    BY <1>1 DEF NoItems
  <1>3. NoTxn \in Txn
    BY <1>2 DEF NoTxn, Txn
  <1>4. NoHeader \in Header
    BY DEF NoHeader, Header, Mode
  <1> QED BY <1>1, <1>2, <1>3, <1>4

(* The stock of a non-empty set of locked tool rows is one of theirs.      *)
LEMMA StockOfType ==
    ASSUME NEW rows \in SUBSET LockedTool, rows # {}
    PROVE  /\ StockOf(rows) \in 0..MaxStock
           /\ \E row \in rows : StockOf(rows) = row.stock
  <1>1. (CHOOSE row \in rows : TRUE) \in rows
    OBVIOUS
  <1> QED BY <1>1 DEF StockOf, LockedTool

(* A new item never exceeds its stock and is not ready at quantity 0 when  *)
(* the item it continues was not.                                          *)
LEMMA NewItemType ==
    ASSUME NEW stock \in 0..MaxStock, NEW old \in ItemRow
    PROVE  /\ NewItem(stock, old) \in ItemRow
           /\ NewItem(stock, old).version = 1
           /\ NewItem(stock, old).qty <= stock
           /\ NewItem(stock, old).stock = stock
  BY ConstantsAssumption DEF NewItem, ItemRow, Exists

(* A snapshot gives every slot a row.                                      *)
LEMMA SnapshotType ==
    ASSUME NEW sel, NEW rows \in SUBSET LockedTool, NEW kept \in [Slot -> ItemRow]
    PROVE  Snapshot(sel, rows, kept) \in [Slot -> ItemRow]
  <1>1. ASSUME NEW s \in Slot,
               NEW mine, mine = RowsIn(rows, s[2], sel[s[1]] \cup {Common}),
               mine # {}
        PROVE  NewItem(StockOf(mine), kept[s]) \in ItemRow
    <2>1. mine \in SUBSET LockedTool
      BY <1>1 DEF RowsIn
    <2> QED BY <2>1, <1>1, StockOfType, NewItemType
  <1> QED BY <1>1, NullTypes DEF Snapshot

(* The rows an addition inserts, over the old ones.                        *)
LEMMA WithNewRowsType ==
    ASSUME NEW old \in [Slot -> ItemRow], NEW p,
           NEW rows \in SUBSET LockedTool, NEW cats
    PROVE  WithNewRows(old, p, rows, cats) \in [Slot -> ItemRow]
  <1>1. ASSUME NEW s \in Slot, RowsIn(rows, s[2], cats) # {}
        PROVE  NewItem(StockOf(RowsIn(rows, s[2], cats)), NoItem) \in ItemRow
    <2>1. RowsIn(rows, s[2], cats) \in SUBSET LockedTool
      BY DEF RowsIn
    <2> QED BY <2>1, <1>1, StockOfType, NewItemType, NullTypes
  <1> QED BY <1>1 DEF WithNewRows

(* The rows a snapshot locks are rows of the tool table.                   *)
LEMMA RowsOnOfferType ==
    ASSUME tool \in [Tools -> ToolRow], NEW cats
    PROVE  RowsOnOffer(cats) \in SUBSET LockedTool
  BY DEF RowsOnOffer, ToolsOnOffer, RowOf, ToolRow, LockedTool

-----------------------------------------------------------------------------
(* Type correctness.                                                       *)

(* The part of TypeOK about the handlers, which every answer restores.     *)
HandlersOK ==
    /\ req \in [Clients -> Request \cup {NoRequest}]
    /\ pc \in [Clients -> Stage]
    /\ txn \in [Clients -> Txn]
    /\ unseen \in [Clients -> SUBSET (Period \X Categories)]
    /\ \A q \in Clients : req[q] = NoRequest <=> pc[q] = "idle"

LEMMA FinishType ==
    ASSUME HandlersOK, NEW q \in Clients, Finish(q),
           unseen' \in [Clients -> SUBSET (Period \X Categories)]
    PROVE  HandlersOK'
  BY NullTypes DEF HandlersOK, Finish, Stage

LEMMA AnswerType ==
    ASSUME HandlersOK, NEW q \in Clients, Answer(q)
    PROVE  HandlersOK'
  BY FinishType DEF HandlersOK, Answer

LEMMA GotoType ==
    ASSUME HandlersOK, NEW q \in Clients, NEW stage \in Stage \ {"idle"},
           pc[q] # "idle", Goto(q, stage), txn' \in [Clients -> Txn]
    PROVE  HandlersOK'
  BY DEF HandlersOK, Goto, Stage
(* The part of TypeOK about the stored rows.                               *)
RowsOK ==
    /\ category \in [Categories -> Status]
    /\ tool \in [Tools -> ToolRow]
    /\ header \in [Revisions -> Header]
    /\ chosen \in [Revisions -> [Period -> SUBSET Categories]]
    /\ items \in [Revisions -> [Slot -> ItemRow]]
    /\ past \in BOOLEAN

LEMMA TypeParts ==
    /\ TypeOK <=> RowsOK /\ HandlersOK
    /\ TypeOK' <=> RowsOK' /\ HandlersOK'
  BY DEF TypeOK, RowsOK, HandlersOK

LEMMA TypeInit == Init => TypeOK
  <1> SUFFICES ASSUME Init PROVE TypeOK
    OBVIOUS
  <1>1. RowsOK
    BY NullTypes, ConstantsAssumption DEF Init, RowsOK, Status
  <1>2. HandlersOK
    BY NullTypes DEF Init, HandlersOK, Stage
  <1> QED BY <1>1, <1>2, TypeParts

(* A submitted request is a request, and its client was idle.              *)
LEMMA SubmitType ==
    ASSUME TypeOK, NEW q \in Clients, Receive(q)
    PROVE  TypeOK'
  <1>1. PICK m \in Requests : Submit(q, m)
    BY DEF Receive
  <1>2. m \in Request /\ m # NoRequest
    BY DEF Requests, Request, NoRequest, CreateRequest, ItemRequest,
           AddRequest, ConfigRequest, CancelRequest
  <1>3. HandlersOK'
    BY <1>1, <1>2, TypeParts DEF Submit, HandlersOK, Stage
  <1>4. RowsOK'
    BY <1>1, TypeParts DEF Submit, RowsOK, table, catalog
  <1> QED BY <1>3, <1>4, TypeParts

(* Statements that only read or lock leave every row as it is.             *)
LEMMA ReadStepType ==
    ASSUME TypeOK, UNCHANGED <<table, catalog, past>>, HandlersOK'
    PROVE  TypeOK'
  <1>1. RowsOK'
    BY TypeParts DEF RowsOK, table, catalog
  <1> QED BY <1>1, TypeParts

LEMMA CreateType ==
    ASSUME TypeOK, NEW q \in Clients, Create(q)
    PROVE  TypeOK'
  <1>1. CASE FindExisting(q) \/ Reread(q)
    BY <1>1, AnswerType, ReadStepType, TypeParts DEF FindExisting, Reread
  <1>2. CASE FindNone(q) \/ InsertHeader(q)
    <2>1. txn' \in [Clients -> Txn] /\ pc[q] # "idle"
      BY <1>2 DEF FindNone, InsertHeader, At, TypeOK
    <2>2. HandlersOK'
      BY <1>2, <2>1, GotoType, TypeParts DEF FindNone, InsertHeader, Stage
    <2> QED BY <1>2, <2>2, ReadStepType DEF FindNone, InsertHeader
  <1>3. CASE LoseInsert(q)
    <2>1. txn' \in [Clients -> Txn] /\ pc[q] # "idle"
      BY <1>3, NullTypes DEF LoseInsert, At, TypeOK
    <2>2. HandlersOK'
      BY <1>3, <2>1, GotoType, TypeParts DEF LoseInsert, Stage
    <2> QED BY <1>3, <2>2, ReadStepType DEF LoseInsert
  <1>4. CASE CommitCreate(q)
    <2>1. req[q] \in CreateRequest
      BY <1>4, RequestByOp DEF CommitCreate, At, TypeOK
    <2>2. req[q].sel \in [Period -> SUBSET Categories] /\ req[q].mode \in Mode
      BY <2>1, ConstantsAssumption DEF CreateRequest
    <2>3. Snapshot(req[q].sel, txn[q].rows, txn[q].kept) \in [Slot -> ItemRow]
      BY SnapshotType DEF TypeOK, Txn
    <2>4. FirstVersion(req[q].mode) \in Header
      BY <2>2 DEF FirstVersion, Header
    <2>5. RowsOK'
      BY <1>4, <2>2, <2>3, <2>4, TypeParts
         DEF CommitCreate, InsertRevision, RowsOK, catalog
    <2> QED BY <1>4, <2>5, AnswerType, TypeParts DEF CommitCreate
  <1> QED BY <1>1, <1>2, <1>3, <1>4 DEF Create

LEMMA TakeRowsType ==
    ASSUME TypeOK, NEW q \in Clients, TakeRows(q)
    PROVE  TypeOK'
  <1>1. CASE LockCategories(q)
    <2>1. CASE Answer(q)
      BY <1>1, <2>1, AnswerType, ReadStepType, TypeParts DEF LockCategories
    <2>2. CASE Goto(q, "tools") /\ UNCHANGED txn
      <3>1. txn' \in [Clients -> Txn] /\ pc[q] # "idle"
        BY <1>1, <2>2 DEF LockCategories, Within, TypeOK
      <3>2. HandlersOK'
        BY <2>2, <3>1, GotoType, TypeParts DEF Stage
      <3> QED BY <1>1, <3>2, ReadStepType DEF LockCategories
    <2> QED BY <1>1, <2>1, <2>2 DEF LockCategories
  <1>2. CASE LockTools(q)
    <2> DEFINE cats == SnapshotCategories(req[q])
               next == IF req[q].op = "create" THEN "insert" ELSE "commit"
    <2>1. CASE Answer(q)
      BY <1>2, <2>1, AnswerType, ReadStepType, TypeParts DEF LockTools
    <2>2. CASE /\ Goto(q, next)
               /\ txn' = [txn EXCEPT ![q].rows = RowsOnOffer(cats)]
      <3>1. RowsOnOffer(cats) \in SUBSET LockedTool
        BY RowsOnOfferType DEF TypeOK
      <3>2. txn' \in [Clients -> Txn]
        BY <2>2, <3>1 DEF TypeOK, Txn
      <3>3. HandlersOK'
        BY <1>2, <2>2, <3>2, GotoType, TypeParts DEF Stage, LockTools, Within
      <3> QED BY <1>2, <3>3, ReadStepType DEF LockTools
    <2> QED BY <1>2, <2>1, <2>2 DEF LockTools
  <1> QED BY <1>1, <1>2 DEF TakeRows

LEMMA UpdateItemType ==
    ASSUME TypeOK, NEW q \in Clients, UpdateItem(q)
    PROVE  TypeOK'
  <1>1. CASE /\ LockHeaderForItem(q) \/ UpdateRow(q)
             /\ Answer(q)
    BY <1>1, AnswerType, ReadStepType, TypeParts DEF LockHeaderForItem, UpdateRow
  <1>2. CASE /\ LockHeaderForItem(q) \/ UpdateRow(q)
             /\ Goto(q, "update") \/ Goto(q, "commit")
             /\ UNCHANGED txn
    <2>1. txn' \in [Clients -> Txn] /\ pc[q] # "idle"
      BY <1>2 DEF LockHeaderForItem, UpdateRow, At, TypeOK
    <2>2. HandlersOK'
      BY <1>2, <2>1, GotoType, TypeParts DEF Stage
    <2> QED BY <1>2, <2>2, ReadStepType DEF LockHeaderForItem, UpdateRow
  <1>3. CASE CommitItem(q)
    <2>1. req[q] \in ItemRequest
      BY <1>3, RequestByOp DEF CommitItem, At, TypeOK
    <2>2. ASSUME NEW old \in ItemRow
          PROVE  Saved(old, req[q]) \in ItemRow
      BY <2>1 DEF Saved, ItemRow, ItemRequest
    <2>3. RowsOK'
      BY <1>3, <2>1, <2>2, TypeParts DEF CommitItem, RowsOK, catalog, ItemRequest
    <2> QED BY <1>3, <2>3, AnswerType, TypeParts DEF CommitItem
  <1> QED BY <1>1, <1>2, <1>3 DEF UpdateItem, LockHeaderForItem, UpdateRow

LEMMA AddCategoriesType ==
    ASSUME TypeOK, NEW q \in Clients, AddCategories(q)
    PROVE  TypeOK'
  <1>1. CASE LockHeaderForAdd(q) /\ Answer(q)
    BY <1>1, AnswerType, ReadStepType, TypeParts DEF LockHeaderForAdd
  <1>2. CASE /\ LockHeaderForAdd(q)
             /\ Goto(q, "categories")
             /\ \E r \in Revisions : txn' = [txn EXCEPT ![q].rev = {r}]
    <2>0. PICK r \in Revisions : txn' = [txn EXCEPT ![q].rev = {r}]
      BY <1>2
    <2>1. txn' \in [Clients -> Txn] /\ pc[q] # "idle"
      BY <1>2, <2>0 DEF LockHeaderForAdd, At, TypeOK, Txn
    <2>2. HandlersOK'
      BY <1>2, <2>1, GotoType, TypeParts DEF Stage
    <2> QED BY <1>2, <2>2, ReadStepType DEF LockHeaderForAdd
  <1>3. CASE CommitAdd(q)
    <2>1. req[q] \in AddRequest
      BY <1>3, RequestByOp DEF CommitAdd, At, TypeOK
    <2>2. req[q].cats \in SUBSET Categories /\ req[q].period \in Period
      BY <2>1, ConstantsAssumption DEF AddRequest
    <2>3. PICK r \in txn[q].rev :
            /\ chosen' = [chosen EXCEPT ![r][req[q].period] = @ \cup req[q].cats]
            /\ items' = [items EXCEPT ![r] =
                   WithNewRows(@, req[q].period, txn[q].rows, req[q].cats)]
            /\ unseen' = [o \in Clients |->
                   IF NamesRevision(o, r)
                   THEN unseen[o] \cup ({req[q].period} \X req[q].cats)
                   ELSE unseen[o]]
      BY <1>3 DEF CommitAdd
    <2>4. r \in Revisions /\ txn[q].rows \in SUBSET LockedTool
      BY DEF TypeOK, Txn
    <2>5. WithNewRows(items[r], req[q].period, txn[q].rows, req[q].cats)
            \in [Slot -> ItemRow]
      BY <2>4, WithNewRowsType DEF TypeOK
    <2>6. chosen' \in [Revisions -> [Period -> SUBSET Categories]]
      BY <2>2, <2>3, <2>4 DEF TypeOK
    <2>8. items' \in [Revisions -> [Slot -> ItemRow]]
      BY <2>3, <2>4, <2>5 DEF TypeOK
    <2>9. RowsOK'
      BY <1>3, <2>6, <2>8, TypeParts DEF CommitAdd, RowsOK, catalog
    <2>7. unseen' \in [Clients -> SUBSET (Period \X Categories)]
      BY <2>2, <2>3 DEF TypeOK
    <2> QED BY <1>3, <2>9, <2>7, FinishType, TypeParts DEF CommitAdd
  <1> QED BY <1>1, <1>2, <1>3 DEF AddCategories, LockHeaderForAdd

LEMMA UpdateConfigurationType ==
    ASSUME TypeOK, NEW q \in Clients, UpdateConfiguration(q)
    PROVE  TypeOK'
  <1>0. req[q] \in ConfigRequest
    BY RequestByOp DEF UpdateConfiguration, LockHeaderForConfigure,
                       CommitConfigure, At, TypeOK
  <1>1. CASE LockHeaderForConfigure(q) /\ Answer(q)
    BY <1>1, AnswerType, ReadStepType, TypeParts DEF LockHeaderForConfigure
  <1>2. CASE /\ LockHeaderForConfigure(q)
             /\ Goto(q, "categories")
             /\ txn' = [txn EXCEPT ![q].rev  = {req[q].rev},
                                   ![q].kept = items[req[q].rev]]
    <2>1. txn' \in [Clients -> Txn] /\ pc[q] # "idle"
      BY <1>0, <1>2 DEF LockHeaderForConfigure, At, TypeOK, Txn, ConfigRequest
    <2>2. HandlersOK'
      BY <1>2, <2>1, GotoType, TypeParts DEF Stage
    <2> QED BY <1>2, <2>2, ReadStepType DEF LockHeaderForConfigure
  <1>3. CASE CommitConfigure(q)
    <2>1. req[q].sel \in [Period -> SUBSET Categories] /\ req[q].mode \in Mode
            /\ req[q].rev \in Revisions
      BY <1>0, ConstantsAssumption DEF ConfigRequest
    <2>2. Snapshot(req[q].sel, txn[q].rows, txn[q].kept) \in [Slot -> ItemRow]
      BY SnapshotType DEF TypeOK, Txn
    <2>3. FirstVersion(req[q].mode) \in Header
      BY <2>1 DEF FirstVersion, Header
    <2>4. ASSUME NEW h \in Header PROVE Cancelled(h) \in Header
      BY DEF Cancelled, Header
    <2>5. RowsOK'
      BY <1>3, <2>1, <2>2, <2>3, <2>4, TypeParts
         DEF CommitConfigure, InsertRevision, RowsOK, catalog
    <2> QED BY <1>3, <2>5, AnswerType, TypeParts DEF CommitConfigure
  <1> QED BY <1>1, <1>2, <1>3 DEF UpdateConfiguration, LockHeaderForConfigure

LEMMA CancelType ==
    ASSUME TypeOK, NEW q \in Clients, Cancel(q)
    PROVE  TypeOK'
  <1>1. CASE LockHeaderForCancel(q) /\ Answer(q)
    BY <1>1, AnswerType, ReadStepType, TypeParts DEF LockHeaderForCancel
  <1>2. CASE /\ LockHeaderForCancel(q)
             /\ Goto(q, "commit")
             /\ UNCHANGED txn
    <2>1. txn' \in [Clients -> Txn] /\ pc[q] # "idle"
      BY <1>2 DEF LockHeaderForCancel, At, TypeOK
    <2>2. HandlersOK'
      BY <1>2, <2>1, GotoType, TypeParts DEF Stage
    <2> QED BY <1>2, <2>2, ReadStepType DEF LockHeaderForCancel
  <1>3. CASE CommitCancel(q)
    <2>1. ASSUME NEW h \in Header PROVE Cancelled(h) \in Header
      BY DEF Cancelled, Header
    <2>2. RowsOK'
      BY <1>3, <2>1, TypeParts DEF CommitCancel, RowsOK, catalog
    <2> QED BY <1>3, <2>2, AnswerType, TypeParts DEF CommitCancel
  <1> QED BY <1>1, <1>2, <1>3 DEF Cancel, LockHeaderForCancel

LEMMA AdministerType ==
    ASSUME TypeOK, Administer \/ Midnight
    PROVE  TypeOK'
  <1>1. RowsOK'
    <2> USE TypeParts DEF RowsOK, table, catalog
    <2>1. ASSUME NEW t \in Tools, NEW c \in Categories, NEW stock \in 0..MaxStock,
                 UpdateTool(t, c, stock)
          PROVE  RowsOK'
      BY <2>1 DEF UpdateTool, ToolRow
    <2>2. ASSUME NEW t \in Tools, ActivateTool(t) \/ DeactivateTool(t)
          PROVE  RowsOK'
      BY <2>2 DEF ActivateTool, DeactivateTool, ToolRow, Status
    <2>3. ASSUME NEW c \in Categories, ActivateCategory(c) \/ DeactivateCategory(c)
          PROVE  RowsOK'
      BY <2>3 DEF ActivateCategory, DeactivateCategory, Status
    <2>4. CASE Midnight
      BY <2>4 DEF Midnight
    <2> QED BY <2>1, <2>2, <2>3, <2>4 DEF Administer
  <1>2. HandlersOK'
    BY TypeParts DEF Administer, Midnight, UpdateTool, ActivateTool,
       DeactivateTool, ActivateCategory, DeactivateCategory, HandlersOK
  <1> QED BY <1>1, <1>2, TypeParts

LEMMA TypeStep == TypeOK /\ [Next]_vars => TypeOK'
  <1> SUFFICES ASSUME TypeOK, [Next]_vars PROVE TypeOK'
    OBVIOUS
  <1>1. ASSUME NEW q \in Clients, Handle(q) PROVE TypeOK'
    BY <1>1, CreateType, TakeRowsType, UpdateItemType, AddCategoriesType,
       UpdateConfigurationType, CancelType DEF Handle
  <1>2. ASSUME NEW q \in Clients, Abort(q) PROVE TypeOK'
    BY <1>2, AnswerType, ReadStepType, TypeParts DEF Abort
  <1>3. CASE UNCHANGED vars
    BY <1>3 DEF vars, TypeOK
  <1> QED BY <1>1, <1>2, <1>3, SubmitType, AdministerType DEF Next

(* Every reachable state is well typed: rows, requests and what the        *)
(* handlers of daily-checklists.service.ts remember between two statements.*)
THEOREM TypeCorrect == Spec => []TypeOK
  <1> QED BY TypeInit, TypeStep, PTL DEF Spec

-----------------------------------------------------------------------------
(* The inductive invariant.                                                *)

Untouched(q) == \A o \in Others(q) :
    req'[o] = req[o] /\ pc'[o] = pc[o] /\ txn'[o] = txn[o]

(* The step of one client leaves the others where they are.                *)
LEMMA FinishFrame ==
    ASSUME TypeOK, NEW q \in Clients, Finish(q)
    PROVE  Untouched(q) /\ req'[q] = NoRequest /\ pc'[q] = "idle"
  BY DEF TypeOK, Finish, Untouched, Others

LEMMA GotoFrame ==
    ASSUME TypeOK, NEW q \in Clients, NEW stage, Goto(q, stage),
           \A o \in Others(q) : txn'[o] = txn[o]
    PROVE  Untouched(q) /\ req'[q] = req[q] /\ pc'[q] = stage
  BY DEF TypeOK, Goto, Untouched, Others

(* What a client knows of the table, or holds in it, rests on a lock of    *)
(* the header.                                                             *)
RestsOnLock(q) ==
    /\ At(q, "create", "commit") => OwnsHeader(q)
    /\ Within(q, {"configure", "cancel"}, {"categories", "tools", "commit"}) => OwnsHeader(q)
    /\ Within(q, {"configure"}, {"categories", "tools", "commit"}) => OwnsHeader(q)
    /\ Within(q, {"item"}, {"update", "commit"}) => SharesHeader(q)
    /\ At(q, "item", "commit") => SharesHeader(q)
    /\ Within(q, {"add"}, {"categories", "tools", "commit"}) => SharesHeader(q)
    /\ At(q, "add", "commit") => SharesHeader(q)
    /\ \A p : LocksPeriod(q, p) => SharesHeader(q)
    /\ \A r, s : LocksItem(q, r, s) => SharesHeader(q)

LEMMA LocksNeeded ==
    ASSUME NEW q \in Clients
    PROVE  RestsOnLock(q) /\ RestsOnLock(q)'
  BY DEF RestsOnLock, OwnsHeader, SharesHeader, Within, At, LocksPeriod, LocksItem

(* A client that was left alone knows and holds what it did.               *)
SameLocks(o) ==
    /\ OwnsHeader(o)' = OwnsHeader(o)
    /\ SharesHeader(o)' = SharesHeader(o)
    /\ \A p : LocksPeriod(o, p)' = LocksPeriod(o, p)
    /\ \A r, s : LocksItem(o, r, s)' = LocksItem(o, r, s)
    /\ \A op, stage : At(o, op, stage)' = At(o, op, stage)
    /\ \A ops, stages : Within(o, ops, stages)' = Within(o, ops, stages)

LEMMA UntouchedLocks ==
    ASSUME NEW o \in Clients, req'[o] = req[o], pc'[o] = pc[o]
    PROVE  SameLocks(o)
  BY DEF SameLocks, OwnsHeader, SharesHeader, LocksPeriod, LocksItem, At, Within

(* The invariant in two parts: what each client relies on, and who         *)
(* excludes whom.                                                          *)
Knows(q) ==
    /\ At(q, "create", "commit") => ~\E r \in Revisions : IsActive(r)
    /\ Within(q, {"configure", "cancel"}, {"categories", "tools", "commit"}) =>
        CurrentRevision(req[q]) /\ LossConfirmed(req[q])
    /\ Within(q, {"configure"}, {"categories", "tools", "commit"}) =>
        txn[q].kept = items[req[q].rev]
    /\ Within(q, {"item"}, {"update", "commit"}) => Acceptable(req[q])
    /\ At(q, "item", "commit") =>
        items[req[q].rev][req[q].slot].version = req[q].version
    /\ Within(q, {"add"}, {"categories", "tools", "commit"}) =>
        \E r \in Revisions : /\ txn[q].rev = {r}
                             /\ IsActive(r)
                             /\ Addable(r, req[q].period, req[q].cats)
    /\ At(q, "add", "commit") => \A r \in txn[q].rev, row \in txn[q].rows :
        ~Exists(items[r][<<req[q].period, row.id>>])

Excludes(q, o) ==
    /\ OwnsHeader(q) => ~OwnsHeader(o) /\ ~SharesHeader(o)
    /\ \A p \in Period : LocksPeriod(q, p) => ~LocksPeriod(o, p)
    /\ \A r \in Revisions, s \in Slot : LocksItem(q, r, s) => ~LocksItem(o, r, s)

Settled ==
    /\ OneActive
    /\ ActiveIsFirstVersion

LEMMA Parts ==
    /\ IInv <=> /\ TypeOK
                /\ Settled
                /\ \A q \in Clients : Knows(q)
                /\ \A q, o \in Clients : q # o => Excludes(q, o)
    /\ IInv' <=> /\ TypeOK'
                 /\ Settled'
                 /\ \A q \in Clients : Knows(q)'
                 /\ \A q, o \in Clients : q # o => Excludes(q, o)'
  BY Zenon DEF IInv, Settled, Knows, Excludes, HeaderLocksExclude, PeriodLocksExclude,
     ItemLocksExclude, InsertUncontested, OwnedIsCurrent, SaveIsCurrent,
     AdditionIsCurrent

(* Without a lock on the header there is nothing to rely on.               *)
LEMMA NothingKnown ==
    ASSUME NEW q \in Clients, ~OwnsHeader(q)', ~SharesHeader(q)'
    PROVE  Knows(q)'
  BY LocksNeeded DEF Knows, RestsOnLock

(* On an unchanged table, a client left alone may rely on what it did.     *)
LEMMA StillKnown ==
    ASSUME NEW o \in Clients, Knows(o), UNCHANGED table,
           req'[o] = req[o], pc'[o] = pc[o], txn'[o] = txn[o]
    PROVE  Knows(o)'
  BY UntouchedLocks DEF SameLocks, Knows, table, IsActive, CurrentRevision,
     LossConfirmed, Entered, Acceptable, Addable, Exists

LEMMA SettledStays ==
    ASSUME Settled, UNCHANGED table
    PROVE  Settled'
  BY DEF Settled, OneActive, ActiveIsFirstVersion, IsActive, table

LEMMA NoLockExcludes ==
    ASSUME NEW q \in Clients, NEW o \in Clients, ~OwnsHeader(q)', ~SharesHeader(q)'
    PROVE  Excludes(q, o)' /\ Excludes(o, q)'
  BY LocksNeeded DEF Excludes, RestsOnLock

(* What there is to show of a step of q.                                   *)
LEMMA StepOf ==
    ASSUME IInv, TypeOK', NEW q \in Clients, Untouched(q), Settled', Knows(q)',
           \A o \in Others(q) : Knows(o)' /\ Excludes(q, o)' /\ Excludes(o, q)'
    PROVE  IInv'
  <1>1. ASSUME NEW o \in Clients, NEW u \in Clients, o # u, o # q, u # q
        PROVE  Excludes(o, u)'
    BY <1>1, UntouchedLocks, Parts DEF Excludes, SameLocks, Untouched, Others
  <1>2. ASSUME NEW o \in Clients, NEW u \in Clients, o # u
        PROVE  Excludes(o, u)'
    BY <1>1, <1>2 DEF Others
  <1>3. ASSUME NEW o \in Clients PROVE Knows(o)'
    BY DEF Others
  <1> QED BY <1>2, <1>3, Parts

(* A step that leaves the table alone.                                     *)
LEMMA ReadStep ==
    ASSUME IInv, TypeOK', NEW q \in Clients, UNCHANGED table, Untouched(q), Knows(q)',
           \A o \in Others(q) : Excludes(q, o)' /\ Excludes(o, q)'
    PROVE  IInv'
  <1>1. ASSUME NEW o \in Others(q) PROVE Knows(o)'
    BY <1>1, StillKnown, Parts DEF Untouched, Others
  <1> QED BY <1>1, SettledStays, StepOf, Parts

(* A step that leaves the table alone and q without a lock of the header.  *)
LEMMA QuietStep ==
    ASSUME IInv, TypeOK', NEW q \in Clients, UNCHANGED table, Untouched(q),
           ~OwnsHeader(q)', ~SharesHeader(q)'
    PROVE  IInv'
  <1>1. \A o \in Others(q) : Excludes(q, o)' /\ Excludes(o, q)'
    BY NoLockExcludes DEF Others
  <1> QED BY <1>1, NothingKnown, ReadStep

LEMMA AnswerQuietly ==
    ASSUME IInv, TypeOK', NEW q \in Clients, UNCHANGED table, Answer(q)
    PROVE  IInv'
  <1>1. Untouched(q) /\ pc'[q] = "idle"
    BY FinishFrame, Parts DEF Answer
  <1>2. ~OwnsHeader(q)' /\ ~SharesHeader(q)'
    BY <1>1 DEF OwnsHeader, SharesHeader, Within
  <1> QED BY <1>1, <1>2, QuietStep

(* A commit: q ends without locks, the others must cope with its writes.   *)
LEMMA CommitStep ==
    ASSUME IInv, TypeOK', NEW q \in Clients, Finish(q), Settled',
           \A o \in Others(q) : Knows(o)'
    PROVE  IInv'
  <1>1. Untouched(q) /\ pc'[q] = "idle"
    BY FinishFrame, Parts
  <1>2. ~OwnsHeader(q)' /\ ~SharesHeader(q)'
    BY <1>1 DEF OwnsHeader, SharesHeader, Within
  <1>3. \A o \in Others(q) : Excludes(q, o)' /\ Excludes(o, q)'
    BY <1>2, NoLockExcludes DEF Others
  <1> QED BY <1>1, <1>2, <1>3, NothingKnown, StepOf

(* A shared lock is a lock of an active header.                            *)
LEMMA SharedIsActive ==
    ASSUME IInv, NEW o \in Clients, SharesHeader(o)
    PROVE  \E r \in Revisions : IsActive(r)
  <1>1. CASE Within(o, {"item"}, {"update", "commit"})
    <2>1. req[o] \in ItemRequest
      BY <1>1, RequestByOp, Parts DEF Within, TypeOK
    <2>2. IsActive(req[o].rev)
      BY <1>1, Parts DEF Knows, Acceptable
    <2> QED BY <2>1, <2>2 DEF ItemRequest
  <1>2. CASE Within(o, {"add"}, {"categories", "tools", "commit"})
    BY <1>2, Parts DEF Knows
  <1> QED BY <1>1, <1>2 DEF SharesHeader

-----------------------------------------------------------------------------
(* The steps.                                                              *)

LEMMA InvInit == Init => IInv
  <1> SUFFICES ASSUME Init PROVE IInv
    OBVIOUS
  <1>1. Settled
    BY DEF Init, Settled, OneActive, ActiveIsFirstVersion, IsActive, NoHeader
  <1>2. ASSUME NEW q \in Clients PROVE ~OwnsHeader(q) /\ ~SharesHeader(q)
    BY DEF Init, OwnsHeader, SharesHeader, Within
  <1>3. ASSUME NEW q \in Clients PROVE Knows(q)
    BY <1>2, LocksNeeded DEF Knows, RestsOnLock
  <1>4. ASSUME NEW q \in Clients, NEW o \in Clients PROVE Excludes(q, o)
    BY <1>2, LocksNeeded DEF Excludes, RestsOnLock
  <1> QED BY <1>1, <1>3, <1>4, TypeInit, Parts

LEMMA SubmitInv ==
    ASSUME IInv, TypeOK', NEW q \in Clients, Receive(q)
    PROVE  IInv'
  <1>1. PICK m \in Requests : Submit(q, m)
    BY DEF Receive
  <1>2. Untouched(q) /\ pc'[q] = "begin" /\ UNCHANGED table
    BY <1>1, Parts DEF Submit, Untouched, Others, TypeOK
  <1>3. ~OwnsHeader(q)' /\ ~SharesHeader(q)'
    BY <1>2 DEF OwnsHeader, SharesHeader, Within
  <1> QED BY <1>2, <1>3, QuietStep

LEMMA CommitCreateInv ==
    ASSUME IInv, TypeOK', NEW q \in Clients, CommitCreate(q)
    PROVE  IInv'
  <1>1. PICK new \in Revisions :
            header' = [header EXCEPT ![new] = FirstVersion(req[q].mode)]
    BY DEF CommitCreate
  <1>2. OwnsHeader(q) /\ ~\E r \in Revisions : IsActive(r)
    BY LocksNeeded, Parts DEF CommitCreate, RestsOnLock, Knows
  <1>3. Settled'
    BY <1>1, <1>2, Parts DEF Settled, OneActive, ActiveIsFirstVersion, IsActive,
       FirstVersion, TypeOK
  <1>4. Untouched(q) /\ Finish(q)
    BY FinishFrame, Parts DEF CommitCreate, Answer
  <1>5. ASSUME NEW o \in Others(q) PROVE Knows(o)'
    <2>1. ~OwnsHeader(o) /\ ~SharesHeader(o)
      BY <1>2, <1>5, Parts DEF Excludes, Others
    <2>2. ~OwnsHeader(o)' /\ ~SharesHeader(o)'
      BY <1>4, <1>5, <2>1, UntouchedLocks DEF Untouched, Others, SameLocks
    <2> QED BY <2>2, <1>5, NothingKnown DEF Others
  <1> QED BY <1>3, <1>4, <1>5, CommitStep

LEMMA CreateInv ==
    ASSUME IInv, TypeOK', NEW q \in Clients, Create(q)
    PROVE  IInv'
  <1>1. CASE FindExisting(q) \/ Reread(q)
    BY <1>1, AnswerQuietly DEF FindExisting, Reread
  <1>2. CASE FindNone(q) \/ LoseInsert(q)
    <2>1. /\ UNCHANGED table
          /\ \A o \in Others(q) : txn'[o] = txn[o]
          /\ Goto(q, "categories") \/ Goto(q, "reread")
          /\ req[q].op = "create"
      BY <1>2, Parts DEF FindNone, LoseInsert, At, TypeOK, Others
    <2>2. /\ Untouched(q)
          /\ req'[q].op = "create"
          /\ pc'[q] \in {"categories", "reread"}
      BY <2>1, GotoFrame, Parts
    <2>3. ~OwnsHeader(q)' /\ ~SharesHeader(q)'
      BY <2>2 DEF OwnsHeader, SharesHeader, Within
    <2> QED BY <2>1, <2>2, <2>3, QuietStep
  <1>3. CASE InsertHeader(q)
    <2>1. /\ UNCHANGED table
          /\ \A o \in Others(q) : txn'[o] = txn[o]
          /\ Goto(q, "commit")
          /\ req[q].op = "create"
          /\ ~\E r \in Revisions : IsActive(r)
          /\ \A o \in Others(q) : ~OwnsHeader(o)
      BY <1>3, Parts DEF InsertHeader, At, TypeOK, Others, MayShareHeader, ActiveDateTaken
    <2>2. Untouched(q) /\ req'[q].op = "create" /\ pc'[q] = "commit"
      BY <2>1, GotoFrame, Parts
    <2>3. Knows(q)'
      BY <2>1, <2>2 DEF Knows, At, Within, IsActive, table
    <2>4. ASSUME NEW o \in Others(q) PROVE ~OwnsHeader(o) /\ ~SharesHeader(o)
      BY <2>1, <2>4, SharedIsActive DEF Others
    <2>5. ASSUME NEW o \in Others(q) PROVE ~OwnsHeader(o)' /\ ~SharesHeader(o)'
      BY <2>2, <2>4, <2>5, UntouchedLocks DEF Untouched, Others, SameLocks
    <2>6. \A o \in Others(q) : Excludes(q, o)' /\ Excludes(o, q)'
      BY <2>5, NoLockExcludes DEF Others
    <2> QED BY <2>1, <2>2, <2>3, <2>6, ReadStep
  <1> QED BY <1>1, <1>2, <1>3, CommitCreateInv DEF Create

(* A step of q that leaves the table alone and its locks as they were.     *)
LEMMA KeepStep ==
    ASSUME IInv, TypeOK', NEW q \in Clients, UNCHANGED table, Untouched(q), Knows(q)',
           OwnsHeader(q)' = OwnsHeader(q), SharesHeader(q)' = SharesHeader(q),
           \A p : LocksPeriod(q, p)' = LocksPeriod(q, p),
           \A r, s : ~LocksItem(q, r, s)'
    PROVE  IInv'
  <1>1. ASSUME NEW o \in Others(q) PROVE Excludes(q, o)' /\ Excludes(o, q)'
    <2>1. SameLocks(o)
      BY <1>1, UntouchedLocks DEF Untouched, Others
    <2> QED BY <1>1, <2>1, Parts DEF Excludes, SameLocks, Others
  <1> QED BY <1>1, ReadStep

LEMMA LockCategoriesInv ==
    ASSUME IInv, TypeOK', NEW q \in Clients, LockCategories(q)
    PROVE  IInv'
  <1>1. CASE Answer(q)
    BY <1>1, AnswerQuietly DEF LockCategories
  <1>2. CASE Goto(q, "tools") /\ UNCHANGED txn
    <2>1. UNCHANGED table /\ pc[q] = "categories" /\ txn'[q] = txn[q]
      BY <1>2 DEF LockCategories, Within
    <2>2. Untouched(q) /\ req'[q] = req[q] /\ pc'[q] = "tools"
      BY <1>2, GotoFrame, Parts DEF Untouched
    <2>3. /\ OwnsHeader(q)' = OwnsHeader(q)
          /\ SharesHeader(q)' = SharesHeader(q)
          /\ \A p : LocksPeriod(q, p)' = LocksPeriod(q, p)
          /\ \A r, s : ~LocksItem(q, r, s)'
      BY <2>1, <2>2 DEF OwnsHeader, SharesHeader, LocksPeriod, LocksItem, Within
    <2>4. Knows(q)'
      BY <2>1, <2>2, Parts DEF Knows, Within, At, table, IsActive, CurrentRevision,
         LossConfirmed, Entered, Addable
    <2> QED BY <2>1, <2>2, <2>3, <2>4, KeepStep
  <1> QED BY <1>1, <1>2 DEF LockCategories

LEMMA LockToolsInv ==
    ASSUME IInv, TypeOK', NEW q \in Clients, LockTools(q)
    PROVE  IInv'
  <1> DEFINE m == req[q]
             cats == SnapshotCategories(m)
             next == IF m.op = "create" THEN "insert" ELSE "commit"
  <1>1. CASE Answer(q)
    BY <1>1, AnswerQuietly DEF LockTools
  <1>2. CASE /\ ~(m.op = "add" /\ AlreadyThere(ActiveOf(q), m.period, cats))
             /\ Goto(q, next)
             /\ txn' = [txn EXCEPT ![q].rows = RowsOnOffer(cats)]
    <2>1. /\ UNCHANGED table
          /\ pc[q] = "tools"
          /\ \A o \in Others(q) : txn'[o] = txn[o]
          /\ txn'[q] = [txn[q] EXCEPT !.rows = RowsOnOffer(cats)]
      BY <1>2, Parts DEF LockTools, Within, Others, TypeOK
    <2>2. Untouched(q) /\ req'[q] = req[q] /\ pc'[q] = next
      BY <1>2, <2>1, GotoFrame, Parts
    <2>3. /\ txn'[q].rev = txn[q].rev
          /\ txn'[q].kept = txn[q].kept
          /\ txn'[q].rows = RowsOnOffer(cats)
      BY <2>1, Parts DEF TypeOK, Txn
    <2>4. m.op # "item"
      BY <1>2 DEF LockTools, Within
    <2>5. /\ OwnsHeader(q)' = OwnsHeader(q)
          /\ SharesHeader(q)' = SharesHeader(q)
          /\ \A p : LocksPeriod(q, p)' = LocksPeriod(q, p)
          /\ \A r, s : ~LocksItem(q, r, s)'
      BY <2>1, <2>2, <2>4 DEF OwnsHeader, SharesHeader, LocksPeriod, LocksItem, Within
    <2>6. ASSUME m.op = "add"
          PROVE  \A r \in txn[q].rev, row \in RowsOnOffer(cats) :
                    ~Exists(items[r][<<m.period, row.id>>])
      <3>1. PICK r \in Revisions : txn[q].rev = {r}
        BY <2>1, <2>6, Parts DEF Knows, Within
      <3>2. ActiveOf(q) = r
        BY <3>1 DEF ActiveOf
      <3>3. ~AlreadyThere(r, m.period, cats)
        BY <1>2, <2>6, <3>2
      <3> QED BY <3>1, <3>3 DEF AlreadyThere, RowsOnOffer, RowOf
    <2>7. Knows(q)'
      BY <2>1, <2>2, <2>3, <2>4, <2>6, Parts DEF Knows, Within, At, table, IsActive,
         CurrentRevision, LossConfirmed, Entered, Addable, Exists
    <2> QED BY <2>1, <2>2, <2>5, <2>7, KeepStep
  <1> QED BY <1>1, <1>2 DEF LockTools

LEMMA TakeRowsInv ==
    ASSUME IInv, TypeOK', NEW q \in Clients, TakeRows(q)
    PROVE  IInv'
  BY LockCategoriesInv, LockToolsInv DEF TakeRows

LEMMA LockHeaderForItemInv ==
    ASSUME IInv, TypeOK', NEW q \in Clients, LockHeaderForItem(q)
    PROVE  IInv'
  <1>1. CASE Answer(q)
    BY <1>1, AnswerQuietly DEF LockHeaderForItem
  <1>2. CASE Acceptable(req[q]) /\ Goto(q, "update") /\ UNCHANGED txn
    <2>1. /\ UNCHANGED table
          /\ req[q].op = "item"
          /\ \A o \in Others(q) : ~OwnsHeader(o)
      BY <1>2 DEF LockHeaderForItem, At, MayShareHeader
    <2>2. Untouched(q) /\ req'[q] = req[q] /\ pc'[q] = "update"
      BY <1>2, GotoFrame, Parts
    <2>3. Knows(q)'
      BY <1>2, <2>1, <2>2 DEF Knows, At, Within, Acceptable, IsActive, Exists, table
    <2>4. ASSUME NEW o \in Others(q) PROVE Excludes(q, o)' /\ Excludes(o, q)'
      <3>1. ~OwnsHeader(o)'
        BY <2>1, <2>2, <2>4, UntouchedLocks DEF Untouched, Others, SameLocks
      <3>2. ~OwnsHeader(q)' /\ ~\E p : LocksPeriod(q, p)' \/ \E r, s : LocksItem(q, r, s)'
        BY <2>1, <2>2 DEF OwnsHeader, LocksPeriod, LocksItem, Within
      <3> QED BY <3>1, <3>2 DEF Excludes
    <2> QED BY <2>1, <2>2, <2>3, <2>4, ReadStep
  <1> QED BY <1>1, <1>2 DEF LockHeaderForItem

LEMMA UpdateRowInv ==
    ASSUME IInv, TypeOK', NEW q \in Clients, UpdateRow(q)
    PROVE  IInv'
  <1>1. CASE Answer(q)
    BY <1>1, AnswerQuietly DEF UpdateRow
  <1>2. CASE /\ items[req[q].rev][req[q].slot].version = req[q].version
             /\ Goto(q, "commit")
             /\ UNCHANGED txn
    <2>1. /\ UNCHANGED table
          /\ req[q].op = "item" /\ pc[q] = "update"
          /\ \A o \in Others(q) : ~LocksItem(o, req[q].rev, req[q].slot)
      BY <1>2 DEF UpdateRow, At
    <2>2. Untouched(q) /\ req'[q] = req[q] /\ pc'[q] = "commit"
      BY <1>2, GotoFrame, Parts
    <2>3. SharesHeader(q) /\ Acceptable(req[q])
      BY <2>1, Parts DEF SharesHeader, Within, Knows
    <2>4. Knows(q)'
      BY <1>2, <2>1, <2>2, <2>3 DEF Knows, At, Within, Acceptable, IsActive, Exists, table
    <2>5. ASSUME NEW o \in Others(q) PROVE Excludes(q, o)' /\ Excludes(o, q)'
      <3>1. SameLocks(o)
        BY <2>2, <2>5, UntouchedLocks DEF Untouched, Others
      <3>2. ~OwnsHeader(o)
        BY <2>3, <2>5, Parts DEF Excludes, Others
      <3>3. ~OwnsHeader(q)' /\ ~\E p : LocksPeriod(q, p)'
        BY <2>1, <2>2 DEF OwnsHeader, LocksPeriod, Within
      <3>4. \A r, s : LocksItem(q, r, s)' => r = req[q].rev /\ s = req[q].slot
        BY <2>2 DEF LocksItem
      <3> QED BY <2>1, <2>5, <3>1, <3>2, <3>3, <3>4 DEF Excludes, SameLocks, Others
    <2> QED BY <2>1, <2>2, <2>4, <2>5, ReadStep
  <1> QED BY <1>1, <1>2 DEF UpdateRow

(* While a save is committed nobody owns the header; what the others know  *)
(* of the item it changes is at most that it exists and its stock.         *)
LEMMA CommitItemInv ==
    ASSUME IInv, TypeOK', NEW q \in Clients, CommitItem(q)
    PROVE  IInv'
  <1> DEFINE m == req[q]
  <1>1. /\ m \in ItemRequest
        /\ SharesHeader(q)
        /\ LocksItem(q, m.rev, m.slot)
        /\ Acceptable(m)
    BY RequestByOp, Parts DEF CommitItem, At, TypeOK, SharesHeader, LocksItem,
       Within, Knows
  <1>2. /\ UNCHANGED <<header, chosen>>
        /\ items' = [items EXCEPT ![m.rev][m.slot] = Saved(@, m)]
        /\ Finish(q) /\ Untouched(q)
    BY FinishFrame, Parts DEF CommitItem, Answer
  <1>3. Settled'
    BY <1>2, Parts DEF Settled, OneActive, ActiveIsFirstVersion, IsActive
  <1>4. /\ \A r \in Revisions, s \in Slot : ~(r = m.rev /\ s = m.slot) =>
              items'[r][s] = items[r][s]
        /\ items'[m.rev][m.slot].stock = items[m.rev][m.slot].stock
        /\ Exists(items[m.rev][m.slot]) /\ Exists(items'[m.rev][m.slot])
    <2>1. items[m.rev][m.slot] \in ItemRow /\ m.rev \in Revisions /\ m.slot \in Slot
      BY <1>1, Parts DEF TypeOK, ItemRequest
    <2>2. items'[m.rev][m.slot] = Saved(items[m.rev][m.slot], m)
      BY <1>2, <2>1, Parts DEF TypeOK
    <2>3. \A r \in Revisions, s \in Slot : ~(r = m.rev /\ s = m.slot) =>
              items'[r][s] = items[r][s]
      <3>1. items \in [Revisions -> [Slot -> ItemRow]]
        BY Parts DEF TypeOK
      <3> QED BY <1>2, <2>1, <3>1
    <2>4. Exists(items[m.rev][m.slot])
      BY <1>1 DEF Acceptable
    <2>5. /\ items'[m.rev][m.slot].stock = items[m.rev][m.slot].stock
          /\ Exists(items'[m.rev][m.slot])
      BY <2>1, <2>2 DEF Saved, ItemRow, Exists
    <2> QED BY <2>3, <2>4, <2>5
  <1>5. ASSUME NEW o \in Others(q) PROVE Knows(o)'
    <2>1. SameLocks(o) /\ req'[o] = req[o] /\ txn'[o] = txn[o]
      BY <1>2, <1>5, UntouchedLocks DEF Untouched, Others
    <2>2. ~OwnsHeader(o) /\ ~LocksItem(o, m.rev, m.slot) /\ Knows(o)
      BY <1>1, <1>5, Parts DEF Excludes, Others, ItemRequest
    <2>3. ~OwnsHeader(o)'
      BY <2>1, <2>2 DEF SameLocks
    <2>4. CASE req[o].op = "item"
      <3>1. req[o] \in ItemRequest
        BY <1>5, <2>4, RequestByOp, Parts DEF TypeOK, Others
      <3>2. Acceptable(req[o]) => Acceptable(req[o])'
        <4>1. req[o].rev \in Revisions /\ req[o].slot \in Slot
          BY <3>1 DEF ItemRequest
        <4>2. /\ Exists(items[req[o].rev][req[o].slot])
                    => Exists(items'[req[o].rev][req[o].slot])
              /\ items'[req[o].rev][req[o].slot].stock
                    = items[req[o].rev][req[o].slot].stock
          BY <1>4, <2>1, <4>1 DEF Exists
        <4> QED BY <1>2, <2>1, <4>2 DEF Acceptable, IsActive
      <3>3. At(o, "item", "commit") => ~(req[o].rev = m.rev /\ req[o].slot = m.slot)
        BY <2>2 DEF LocksItem, Within, At
      <3> QED BY <1>4, <2>1, <2>2, <2>3, <2>4, <3>1, <3>2, <3>3
              DEF Knows, At, Within, SameLocks, ItemRequest
    <2>5. CASE req[o].op = "add"
      <3>1. req[o] \in AddRequest /\ txn[o] \in Txn
        BY <1>5, <2>5, RequestByOp, Parts DEF TypeOK, Others
      <3>2. ASSUME At(o, "add", "commit"), NEW r \in txn[o].rev, NEW row \in txn[o].rows
            PROVE  ~Exists(items[r][<<req[o].period, row.id>>])'
        <4>1. ~Exists(items[r][<<req[o].period, row.id>>])
          BY <2>2, <3>2 DEF Knows
        <4>2. r \in Revisions /\ <<req[o].period, row.id>> \in Slot
          BY <3>1, <3>2 DEF Txn, LockedTool, AddRequest, Slot
        <4> QED BY <1>4, <2>1, <4>1, <4>2 DEF Exists
      <3>3. \A r \in Revisions :
              /\ IsActive(r)' = IsActive(r)
              /\ Addable(r, req[o].period, req[o].cats)' = Addable(r, req[o].period, req[o].cats)
        BY <1>2, <2>1 DEF IsActive, Addable
      <3> QED BY <2>1, <2>2, <2>5, <3>2, <3>3 DEF Knows, At, Within, SameLocks
    <2>6. CASE req[o].op \notin {"item", "add"}
      <3>1. ~SharesHeader(o)'
        BY <2>1, <2>6 DEF SharesHeader, Within
      <3> QED BY <1>5, <2>3, <3>1, NothingKnown DEF Others
    <2> QED BY <2>4, <2>5, <2>6
  <1> QED BY <1>2, <1>3, <1>5, CommitStep

LEMMA UpdateItemInv ==
    ASSUME IInv, TypeOK', NEW q \in Clients, UpdateItem(q)
    PROVE  IInv'
  BY LockHeaderForItemInv, UpdateRowInv, CommitItemInv DEF UpdateItem

LEMMA LockHeaderForAddInv ==
    ASSUME IInv, TypeOK', NEW q \in Clients, LockHeaderForAdd(q)
    PROVE  IInv'
  <1>1. CASE Answer(q)
    BY <1>1, AnswerQuietly DEF LockHeaderForAdd
  <1>2. CASE ~Answer(q)
    <2>1. PICK r \in Revisions :
            /\ IsActive(r)
            /\ Addable(r, req[q].period, req[q].cats)
            /\ txn' = [txn EXCEPT ![q].rev = {r}]
            /\ Goto(q, "categories")
      BY <1>2 DEF LockHeaderForAdd
    <2>2. /\ UNCHANGED table
          /\ req[q].op = "add"
          /\ \A o \in Others(q) : /\ ~OwnsHeader(o)
                                  /\ ~LocksPeriod(o, req[q].period)
                                  /\ txn'[o] = txn[o]
          /\ txn'[q].rev = {r}
      BY <2>1, Parts DEF LockHeaderForAdd, At, MayShareHeader, MayLockPeriod,
         Others, TypeOK, Txn
    <2>3. Untouched(q) /\ req'[q] = req[q] /\ pc'[q] = "categories"
      BY <2>1, <2>2, GotoFrame, Parts
    <2>4. Knows(q)'
      BY <2>1, <2>2, <2>3 DEF Knows, At, Within, IsActive, Addable, table
    <2>5. ASSUME NEW o \in Others(q) PROVE Excludes(q, o)' /\ Excludes(o, q)'
      <3>1. SameLocks(o) /\ ~OwnsHeader(o) /\ ~LocksPeriod(o, req[q].period)
        BY <2>2, <2>3, <2>5, UntouchedLocks DEF Untouched, Others
      <3>2. ~OwnsHeader(q)' /\ ~\E r1, s : LocksItem(q, r1, s)'
        BY <2>2, <2>3 DEF OwnsHeader, LocksItem, Within
      <3>3. \A p : LocksPeriod(q, p)' => p = req[q].period
        BY <2>3 DEF LocksPeriod
      <3> QED BY <3>1, <3>2, <3>3 DEF Excludes, SameLocks
    <2> QED BY <2>2, <2>3, <2>4, <2>5, ReadStep
  <1> QED BY <1>1, <1>2

(* While an addition is committed nobody owns the header; the slots it     *)
(* fills lie in a period it alone has locked and were empty, so no save    *)
(* under way is about one of them.                                         *)
LEMMA CommitAddInv ==
    ASSUME IInv, TypeOK', NEW q \in Clients, CommitAdd(q)
    PROVE  IInv'
  <1> DEFINE p == req[q].period
             cats == req[q].cats
             rows == txn[q].rows
  <1>0. /\ req[q] \in AddRequest
        /\ SharesHeader(q)
        /\ Within(q, {"add"}, {"categories", "tools", "commit"})
        /\ At(q, "add", "commit")
    BY RequestByOp, Parts DEF CommitAdd, At, TypeOK, SharesHeader, Within
  <1>1. p \in Period /\ rows \in SUBSET LockedTool /\ LocksPeriod(q, p)
    BY <1>0, Parts DEF AddRequest, TypeOK, Txn, LocksPeriod
  <1>2. PICK r \in Revisions : /\ txn[q].rev = {r}
                              /\ IsActive(r)
                              /\ Addable(r, p, cats)
    BY <1>0, Parts DEF Knows
  <1>3. /\ UNCHANGED header
        /\ chosen' = [chosen EXCEPT ![r][p] = @ \cup cats]
        /\ items' = [items EXCEPT ![r] = WithNewRows(@, p, rows, cats)]
        /\ Finish(q) /\ Untouched(q)
    BY <1>2, FinishFrame, Parts DEF CommitAdd
  <1>4. Settled'
    BY <1>3, Parts DEF Settled, OneActive, ActiveIsFirstVersion, IsActive
  <1>5. \A r1 \in Revisions, p1 \in Period : ~(r1 = r /\ p1 = p) =>
            chosen'[r1][p1] = chosen[r1][p1]
    BY <1>3, Parts DEF TypeOK
  <1>6. ASSUME NEW r1 \in Revisions, NEW s \in Slot,
               r1 # r \/ s[1] # p \/ Exists(items[r1][s])
        PROVE  items'[r1][s] = items[r1][s]
    <2>1. CASE r1 # r
      BY <1>3, <2>1, Parts DEF TypeOK
    <2>2. CASE r1 = r
      <3>1. items'[r1][s] = WithNewRows(items[r], p, rows, cats)[s]
        BY <1>3, <2>2, Parts DEF TypeOK
      <3>2. ASSUME s[1] = p, Exists(items[r1][s]) PROVE RowsIn(rows, s[2], cats) = {}
        <4>1. s = <<p, s[2]>>
          BY <3>2 DEF Slot
        <4>2. \A row \in rows : ~Exists(items[r][<<p, row.id>>])
          BY <1>0, <1>2, Parts DEF Knows
        <4> QED BY <2>2, <3>2, <4>1, <4>2 DEF RowsIn
      <3> QED BY <1>6, <2>2, <3>1, <3>2 DEF WithNewRows
    <2> QED BY <2>1, <2>2
  <1>7. ASSUME NEW o \in Others(q) PROVE Knows(o)'
    <2>1. SameLocks(o) /\ req'[o] = req[o] /\ txn'[o] = txn[o]
      BY <1>3, <1>7, UntouchedLocks DEF Untouched, Others
    <2>2. ~OwnsHeader(o) /\ ~LocksPeriod(o, p) /\ Knows(o)
      BY <1>0, <1>1, <1>7, Parts DEF Excludes, Others
    <2>3. ~OwnsHeader(o)'
      BY <2>1, <2>2 DEF SameLocks
    <2>4. CASE req[o].op = "item"
      <3>1. req[o].rev \in Revisions /\ req[o].slot \in Slot
        BY <1>7, <2>4, RequestByOp, Parts DEF TypeOK, Others, ItemRequest
      <3>2. Within(o, {"item"}, {"update", "commit"}) =>
                /\ Acceptable(req[o])
                /\ items'[req[o].rev][req[o].slot] = items[req[o].rev][req[o].slot]
        BY <1>6, <2>2, <3>1 DEF Knows, Acceptable
      <3> QED BY <1>3, <2>1, <2>2, <2>3, <2>4, <3>2, LocksNeeded
              DEF Knows, At, Within, SameLocks, Acceptable, IsActive
    <2>5. CASE Within(o, {"add"}, {"categories", "tools", "commit"})
      <3>1. req[o] \in AddRequest /\ txn[o] \in Txn
        BY <1>7, <2>5, RequestByOp, Parts DEF TypeOK, Others, Within
      <3>2. req[o].period \in Period /\ req[o].period # p
        BY <2>2, <2>5, <3>1 DEF AddRequest, LocksPeriod
      <3>3. PICK r1 \in Revisions : /\ txn[o].rev = {r1}
                                   /\ IsActive(r1)
                                   /\ Addable(r1, req[o].period, req[o].cats)
        BY <2>2, <2>5 DEF Knows
      <3>4. IsActive(r1)' /\ Addable(r1, req[o].period, req[o].cats)'
        BY <1>3, <1>5, <2>1, <3>2, <3>3 DEF IsActive, Addable
      <3>5. ASSUME At(o, "add", "commit"), NEW row \in txn[o].rows
            PROVE  ~Exists(items'[r1][<<req[o].period, row.id>>])
        <4>1. ~Exists(items[r1][<<req[o].period, row.id>>])
          BY <2>2, <3>3, <3>5 DEF Knows
        <4>2. <<req[o].period, row.id>> \in Slot
          BY <3>1, <3>2, <3>5 DEF Txn, LockedTool, Slot
        <4> QED BY <1>6, <3>2, <4>1, <4>2
      <3> QED BY <2>1, <2>5, <3>3, <3>4, <3>5 DEF Knows, At, Within, SameLocks
    <2>6. CASE ~(req[o].op = "item" \/ Within(o, {"add"}, {"categories", "tools", "commit"}))
      <3>1. ~SharesHeader(o)
        <4>1. ~Within(o, {"item"}, {"update", "commit"})
          BY <2>6 DEF Within
        <4> QED BY <2>6, <4>1 DEF SharesHeader
      <3>2. ~SharesHeader(o)'
        BY <2>1, <3>1 DEF SameLocks
      <3> QED BY <1>7, <2>3, <3>2, NothingKnown DEF Others
    <2> QED BY <2>4, <2>5, <2>6
  <1> QED BY <1>3, <1>4, <1>7, CommitStep

LEMMA AddCategoriesInv ==
    ASSUME IInv, TypeOK', NEW q \in Clients, AddCategories(q)
    PROVE  IInv'
  BY LockHeaderForAddInv, CommitAddInv DEF AddCategories

(* Owning the header: nobody else holds a lock of it.                      *)
LEMMA OwnerIsAlone ==
    ASSUME IInv, NEW q \in Clients, NEW o \in Others(q), OwnsHeader(q)
    PROVE  ~OwnsHeader(o) /\ ~SharesHeader(o)
  BY Parts DEF Excludes, Others

(* Getting the header for oneself.                                         *)
LEMMA TakeOwnership ==
    ASSUME IInv, TypeOK', NEW q \in Clients, UNCHANGED table, Untouched(q), Knows(q)',
           MayOwnHeader(q)
    PROVE  IInv'
  <1>1. ASSUME NEW o \in Others(q) PROVE Excludes(q, o)' /\ Excludes(o, q)'
    <2>1. ~OwnsHeader(o) /\ ~SharesHeader(o)
      BY <1>1 DEF MayOwnHeader
    <2>2. ~OwnsHeader(o)' /\ ~SharesHeader(o)'
      BY <1>1, <2>1, UntouchedLocks DEF Untouched, Others, SameLocks
    <2> QED BY <1>1, <2>2, NoLockExcludes DEF Others
  <1> QED BY <1>1, ReadStep

(* What the owner of the header writes concerns nobody else.               *)
LEMMA OwnerCommits ==
    ASSUME IInv, TypeOK', NEW q \in Clients, OwnsHeader(q), Finish(q), Settled'
    PROVE  IInv'
  <1>1. Untouched(q)
    BY FinishFrame, Parts
  <1>2. ASSUME NEW o \in Others(q) PROVE Knows(o)'
    <2>1. ~OwnsHeader(o)' /\ ~SharesHeader(o)'
      BY <1>1, <1>2, OwnerIsAlone, UntouchedLocks DEF Untouched, Others, SameLocks
    <2> QED BY <1>2, <2>1, NothingKnown DEF Others
  <1> QED BY <1>2, CommitStep

LEMMA UpdateConfigurationInv ==
    ASSUME IInv, TypeOK', NEW q \in Clients, UpdateConfiguration(q)
    PROVE  IInv'
  <1>0. req[q] \in ConfigRequest
    BY RequestByOp, Parts DEF UpdateConfiguration, LockHeaderForConfigure,
       CommitConfigure, At, TypeOK
  <1>1. CASE LockHeaderForConfigure(q) /\ Answer(q)
    BY <1>1, AnswerQuietly DEF LockHeaderForConfigure
  <1>2. CASE LockHeaderForConfigure(q) /\ ~Answer(q)
    <2>1. /\ UNCHANGED table
          /\ req[q].op = "configure"
          /\ MayOwnHeader(q)
          /\ CurrentRevision(req[q]) /\ LossConfirmed(req[q])
          /\ Goto(q, "categories")
          /\ txn' = [txn EXCEPT ![q].rev  = {req[q].rev},
                                ![q].kept = items[req[q].rev]]
      BY <1>2 DEF LockHeaderForConfigure, At
    <2>2. /\ \A o \in Others(q) : txn'[o] = txn[o]
          /\ txn'[q].kept = items[req[q].rev]
      BY <2>1, Parts DEF Others, TypeOK, Txn
    <2>3. Untouched(q) /\ req'[q] = req[q] /\ pc'[q] = "categories"
      BY <2>1, <2>2, GotoFrame, Parts
    <2>4. Knows(q)'
      BY <2>1, <2>2, <2>3 DEF Knows, At, Within, CurrentRevision, LossConfirmed,
         Entered, IsActive, table
    <2> QED BY <2>1, <2>3, <2>4, TakeOwnership
  <1>3. CASE CommitConfigure(q)
    <2>1. PICK new \in Revisions :
            /\ header[new].status = "ABSENT"
            /\ header' = [header EXCEPT ![new] = FirstVersion(req[q].mode),
                                        ![req[q].rev] = Cancelled(@)]
      BY <1>3 DEF CommitConfigure, InsertRevision
    <2>2. OwnsHeader(q) /\ IsActive(req[q].rev) /\ req[q].rev \in Revisions
      BY <1>0, <1>3, Parts DEF CommitConfigure, OwnsHeader, Knows, At, Within,
         CurrentRevision, ConfigRequest
    <2>3. /\ header'[new] = FirstVersion(req[q].mode)
          /\ header'[req[q].rev].status = "CANCELLED"
          /\ \A r \in Revisions \ {new, req[q].rev} : header'[r] = header[r]
      BY <2>1, <2>2, Parts DEF TypeOK, IsActive, Cancelled
    <2>4. Settled'
      BY <2>2, <2>3, Parts DEF Settled, OneActive, ActiveIsFirstVersion, IsActive,
         FirstVersion
    <2> QED BY <1>3, <2>2, <2>4, OwnerCommits DEF CommitConfigure, Answer
  <1> QED BY <1>1, <1>2, <1>3 DEF UpdateConfiguration

LEMMA CancelInv ==
    ASSUME IInv, TypeOK', NEW q \in Clients, Cancel(q)
    PROVE  IInv'
  <1>1. CASE LockHeaderForCancel(q) /\ Answer(q)
    BY <1>1, AnswerQuietly DEF LockHeaderForCancel
  <1>2. CASE LockHeaderForCancel(q) /\ ~Answer(q)
    <2>1. /\ UNCHANGED table
          /\ req[q].op = "cancel"
          /\ MayOwnHeader(q)
          /\ CurrentRevision(req[q]) /\ LossConfirmed(req[q])
          /\ Goto(q, "commit") /\ UNCHANGED txn
      BY <1>2 DEF LockHeaderForCancel, At
    <2>2. Untouched(q) /\ req'[q] = req[q] /\ pc'[q] = "commit"
      BY <2>1, GotoFrame, Parts
    <2>3. Knows(q)'
      BY <2>1, <2>2 DEF Knows, At, Within, CurrentRevision, LossConfirmed,
         Entered, IsActive, table
    <2> QED BY <2>1, <2>2, <2>3, TakeOwnership
  <1>3. CASE CommitCancel(q)
    <2>1. header' = [header EXCEPT ![req[q].rev] = Cancelled(@)]
      BY <1>3 DEF CommitCancel
    <2>2. OwnsHeader(q)
      BY <1>3 DEF CommitCancel, OwnsHeader, At, Within
    <2>3. \A r \in Revisions : \/ header'[r] = header[r]
                               \/ header'[r].status = "CANCELLED"
      BY <2>1, Parts DEF TypeOK, Cancelled
    <2>4. Settled'
      BY <2>3, Parts DEF Settled, OneActive, ActiveIsFirstVersion, IsActive
    <2> QED BY <1>3, <2>2, <2>4, OwnerCommits DEF CommitCancel, Answer
  <1> QED BY <1>1, <1>2, <1>3 DEF Cancel

(* Administrators, midnight and stuttering touch neither the table nor the *)
(* handlers.                                                               *)
LEMMA ElsewhereInv ==
    ASSUME IInv, TypeOK', UNCHANGED <<table, req, pc, txn>>
    PROVE  IInv'
  <1>1. ASSUME NEW o \in Clients PROVE Knows(o)'
    BY <1>1, StillKnown, Parts
  <1>2. ASSUME NEW o \in Clients, NEW u \in Clients, o # u PROVE Excludes(o, u)'
    <2>1. SameLocks(o) /\ SameLocks(u)
      BY UntouchedLocks
    <2> QED BY <1>2, <2>1, Parts DEF Excludes, SameLocks
  <1> QED BY <1>1, <1>2, SettledStays, Parts

LEMMA InvStep == IInv /\ [Next]_vars => IInv'
  <1> SUFFICES ASSUME IInv, [Next]_vars PROVE IInv'
    OBVIOUS
  <1>0. TypeOK'
    BY TypeStep, Parts
  <1>1. ASSUME NEW q \in Clients, Handle(q) PROVE IInv'
    BY <1>0, <1>1, CreateInv, TakeRowsInv, UpdateItemInv, AddCategoriesInv,
       UpdateConfigurationInv, CancelInv DEF Handle
  <1>2. ASSUME NEW q \in Clients, Abort(q) PROVE IInv'
    BY <1>0, <1>2, AnswerQuietly DEF Abort
  <1>3. CASE Administer \/ Midnight \/ UNCHANGED vars
    <2>1. UNCHANGED <<table, req, pc, txn>>
      BY <1>3 DEF Administer, Midnight, UpdateTool, ActivateTool, DeactivateTool,
         ActivateCategory, DeactivateCategory, vars, table
    <2> QED BY <1>0, <2>1, ElsewhereInv
  <1> QED BY <1>0, <1>1, <1>2, <1>3, SubmitInv DEF Next

(* The locks of the handlers exclude each other as intended and what each  *)
(* handler has checked under its locks still holds when it commits.        *)
THEOREM LockDiscipline == Spec => []IInv
  <1> QED BY InvInit, InvStep, PTL DEF Spec

(* At most one revision of a work date is ACTIVE, for any number of        *)
(* overlapping creations, replacements and deletions.                      *)
THEOREM OneActiveAlways == Spec => []OneActive
  <1>1. IInv => OneActive
    BY DEF IInv
  <1> QED BY <1>1, LockDiscipline, PTL

-----------------------------------------------------------------------------
(* What a step may do to the table.                                        *)

Commits(q) == CommitCreate(q) \/ CommitItem(q) \/ CommitAdd(q)
                \/ CommitConfigure(q) \/ CommitCancel(q)

LEMMA OnlyCommitsWrite ==
    ASSUME [Next]_vars, ~UNCHANGED table
    PROVE  \E q \in Clients : Commits(q)
  BY DEF Next, vars, table, catalog, Receive, Submit, Handle, Abort, Administer,
     Midnight, UpdateTool, ActivateTool, DeactivateTool, ActivateCategory,
     DeactivateCategory, Commits, Create, FindExisting, FindNone, InsertHeader,
     LoseInsert, Reread, TakeRows, LockCategories, LockTools, UpdateItem,
     LockHeaderForItem, UpdateRow, AddCategories, LockHeaderForAdd,
     UpdateConfiguration, LockHeaderForConfigure, Cancel, LockHeaderForCancel

(* A save writes one existing item of the active revision, at the version  *)
(* it carries.                                                             *)
LEMMA CommitItemEffect ==
    ASSUME IInv, NEW q \in Clients, CommitItem(q)
    PROVE  /\ req[q] \in ItemRequest
           /\ UNCHANGED <<header, chosen>>
           /\ IsActive(req[q].rev)
           /\ items[req[q].rev][req[q].slot].version = req[q].version
           /\ items'[req[q].rev][req[q].slot].version = req[q].version + 1
           /\ \A r \in Revisions : r # req[q].rev => items'[r] = items[r]
           /\ \A r \in Revisions, s \in Slot :
                    ~(r = req[q].rev /\ s = req[q].slot) => items'[r][s] = items[r][s]
  <1>1. req[q] \in ItemRequest
    BY RequestByOp, Parts DEF CommitItem, At, TypeOK
  <1>2. /\ IsActive(req[q].rev)
        /\ items[req[q].rev][req[q].slot].version = req[q].version
    BY Parts DEF CommitItem, At, Within, Knows, Acceptable
  <1>3. /\ items \in [Revisions -> [Slot -> ItemRow]]
        /\ req[q].rev \in Revisions /\ req[q].slot \in Slot
    BY <1>1, Parts DEF TypeOK, ItemRequest
  <1>4. items' = [items EXCEPT ![req[q].rev][req[q].slot] = Saved(@, req[q])]
    BY DEF CommitItem
  <1>5. items'[req[q].rev][req[q].slot].version = req[q].version + 1
    BY <1>2, <1>3, <1>4 DEF Saved
  <1> QED BY <1>1, <1>2, <1>3, <1>4, <1>5 DEF CommitItem

(* An addition writes the active revision, and no item that is there.      *)
LEMMA CommitAddEffect ==
    ASSUME IInv, NEW q \in Clients, CommitAdd(q)
    PROVE  \E r \in Revisions :
             /\ IsActive(r)
             /\ UNCHANGED header
             /\ \A o \in Revisions \ {r} : chosen'[o] = chosen[o] /\ items'[o] = items[o]
             /\ \A s \in Slot : Exists(items[r][s]) => items'[r][s] = items[r][s]
  <1> DEFINE p == req[q].period
             cats == req[q].cats
             rows == txn[q].rows
  <1>1. PICK r \in Revisions : txn[q].rev = {r} /\ IsActive(r)
    BY Parts DEF CommitAdd, At, Within, Knows
  <1>2. /\ UNCHANGED header
        /\ chosen' = [chosen EXCEPT ![r][p] = @ \cup cats]
        /\ items' = [items EXCEPT ![r] = WithNewRows(@, p, rows, cats)]
    BY <1>1 DEF CommitAdd
  <1>3. \A o \in Revisions \ {r} : chosen'[o] = chosen[o] /\ items'[o] = items[o]
    BY <1>2, Parts DEF TypeOK
  <1>4. ASSUME NEW s \in Slot, Exists(items[r][s]) PROVE items'[r][s] = items[r][s]
    <2>1. items'[r][s] = WithNewRows(items[r], p, rows, cats)[s]
      BY <1>2, Parts DEF TypeOK
    <2>2. ASSUME s[1] = p PROVE RowsIn(rows, s[2], cats) = {}
      <3>1. s = <<p, s[2]>>
        BY <2>2 DEF Slot
      <3>2. \A row \in rows : ~Exists(items[r][<<p, row.id>>])
        BY <1>1, Parts DEF CommitAdd, At, Knows
      <3> QED BY <1>4, <3>1, <3>2 DEF RowsIn
    <2> QED BY <2>1, <2>2 DEF WithNewRows
  <1> QED BY <1>1, <1>2, <1>3, <1>4

(* A replacement or deletion takes the active revision it names out of     *)
(* use, with its loss confirmed, and writes nothing else but an unused id. *)
LEMMA OwnerEffect ==
    ASSUME IInv, NEW q \in Clients, CommitConfigure(q) \/ CommitCancel(q)
    PROVE  /\ req[q].rev \in Revisions
           /\ NamesRevision(q, req[q].rev)
           /\ IsActive(req[q].rev)
           /\ LossConfirmed(req[q])
           /\ \A r \in Revisions : header[r].status # "ABSENT" =>
                    /\ chosen'[r] = chosen[r]
                    /\ items'[r] = items[r]
                    /\ r # req[q].rev => header'[r] = header[r]
  <1>1. /\ req[q].rev \in Revisions
        /\ NamesRevision(q, req[q].rev)
        /\ IsActive(req[q].rev)
        /\ LossConfirmed(req[q])
    BY RequestByOp, Parts DEF CommitConfigure, CommitCancel, At, Within, Knows, TypeOK,
       CurrentRevision, NamesRevision, ConfigRequest, CancelRequest
  <1>2. CASE CommitConfigure(q)
    BY <1>1, <1>2, Parts DEF CommitConfigure, InsertRevision, TypeOK
  <1>3. CASE CommitCancel(q)
    BY <1>1, <1>3, Parts DEF CommitCancel, TypeOK
  <1> QED BY <1>1, <1>2, <1>3

(* A creation writes an unused id only.                                    *)
LEMMA CommitCreateEffect ==
    ASSUME IInv, NEW q \in Clients, CommitCreate(q)
    PROVE  \A r \in Revisions : header[r].status # "ABSENT" =>
                header'[r] = header[r] /\ chosen'[r] = chosen[r] /\ items'[r] = items[r]
  BY Parts DEF CommitCreate, InsertRevision, TypeOK

(* An item is there only in a revision that was inserted.                  *)
AbsentEmpty == \A r \in Revisions, s \in Slot :
    Exists(items[r][s]) => header[r].status # "ABSENT"

(* History is frozen: a revision that is CANCELLED never changes again,    *)
(* whatever saves, additions and replacements were under way.              *)
THEOREM CancelledFrozenAlways == Spec => CancelledFrozen
  <1>1. ASSUME IInv, [Next]_vars, NEW r \in Revisions, header[r].status = "CANCELLED"
        PROVE  header'[r] = header[r] /\ chosen'[r] = chosen[r] /\ items'[r] = items[r]
    <2>1. CASE UNCHANGED table
      BY <2>1 DEF table
    <2>2. ASSUME NEW q \in Clients, Commits(q)
          PROVE  header'[r] = header[r] /\ chosen'[r] = chosen[r] /\ items'[r] = items[r]
      <3>1. CASE CommitItem(q)
        BY <1>1, <3>1, CommitItemEffect DEF IsActive
      <3>2. CASE CommitAdd(q)
        BY <1>1, <3>2, CommitAddEffect DEF IsActive
      <3>3. CASE CommitConfigure(q) \/ CommitCancel(q)
        BY <1>1, <3>3, OwnerEffect DEF IsActive
      <3>4. CASE CommitCreate(q)
        BY <1>1, <3>4, CommitCreateEffect
      <3> QED BY <2>2, <3>1, <3>2, <3>3, <3>4 DEF Commits
    <2> QED BY <1>1, <2>1, <2>2, OnlyCommitsWrite
  <1>2. IInv /\ [Next]_vars => KeepsHistory
    BY <1>1 DEF KeepsHistory
  <1> QED BY <1>2, LockDiscipline, PTL DEF Spec, CancelledFrozen

(* Values entered in a table are only taken out of use by a request that   *)
(* confirmed the loss.                                                     *)
THEOREM LossIsConfirmedAlways == Spec => LossIsConfirmed
  <1>1. ASSUME IInv, [Next]_vars, NEW r \in Revisions, Leaves(r), Entered(r)
        PROVE  \E q \in Clients : NamesRevision(q, r) /\ req[q].confirmed
    <2>1. ~UNCHANGED table
      BY <1>1 DEF Leaves, IsActive, table
    <2>2. PICK q \in Clients : Commits(q)
      BY <1>1, <2>1, OnlyCommitsWrite
    <2>3. header[r].status # "ABSENT" /\ header'[r] # header[r]
      BY <1>1 DEF Leaves, IsActive
    <2>4. CommitConfigure(q) \/ CommitCancel(q)
      BY <1>1, <2>2, <2>3, CommitItemEffect, CommitAddEffect, CommitCreateEffect DEF Commits
    <2>5. r = req[q].rev
      BY <1>1, <2>3, <2>4, OwnerEffect
    <2> QED BY <1>1, <2>4, <2>5, OwnerEffect DEF LossConfirmed
  <1>2. IInv /\ [Next]_vars => AsksBeforeLoss
    BY <1>1 DEF AsksBeforeLoss
  <1> QED BY <1>2, LockDiscipline, PTL DEF Spec, LossIsConfirmed

LEMMA AbsentEmptyStep ==
    ASSUME IInv, AbsentEmpty, [Next]_vars
    PROVE  AbsentEmpty'
  <1> SUFFICES ASSUME NEW r \in Revisions, NEW s \in Slot, Exists(items'[r][s])
               PROVE  header'[r].status # "ABSENT"
    BY DEF AbsentEmpty, Exists
  <1>1. CASE UNCHANGED table
    BY <1>1 DEF AbsentEmpty, table
  <1>2. ASSUME NEW q \in Clients, Commits(q)
        PROVE  header'[r].status # "ABSENT"
    <2>1. CASE CommitItem(q)
      BY <2>1, CommitItemEffect DEF AbsentEmpty, IsActive
    <2>2. CASE CommitAdd(q)
      BY <2>2, CommitAddEffect DEF AbsentEmpty, IsActive
    <2>3. CASE CommitCreate(q)
      <3>1. PICK new \in Revisions :
              /\ header' = [header EXCEPT ![new] = FirstVersion(req[q].mode)]
              /\ InsertRevision(new, req[q], txn[q])
        BY <2>3 DEF CommitCreate
      <3>2. header'[new].status = "ACTIVE"
        BY <3>1, Parts DEF TypeOK, FirstVersion
      <3>3. r # new => header'[r] = header[r] /\ items'[r] = items[r]
        BY <3>1, Parts DEF TypeOK, InsertRevision
      <3> QED BY <3>2, <3>3 DEF AbsentEmpty
    <2>4. CASE CommitConfigure(q)
      <3>1. PICK new \in Revisions :
              /\ header' = [header EXCEPT ![new] = FirstVersion(req[q].mode),
                                          ![req[q].rev] = Cancelled(@)]
              /\ InsertRevision(new, req[q], txn[q])
        BY <2>4 DEF CommitConfigure
      <3>2. r \in {new, req[q].rev} => header'[r].status \in {"ACTIVE", "CANCELLED"}
        BY <3>1, Parts DEF TypeOK, FirstVersion, Cancelled
      <3>3. r \notin {new, req[q].rev} => header'[r] = header[r] /\ items'[r] = items[r]
        BY <3>1, Parts DEF TypeOK, InsertRevision
      <3> QED BY <3>2, <3>3 DEF AbsentEmpty
    <2>5. CASE CommitCancel(q)
      <3>1. header'[r] = header[r] \/ header'[r].status = "CANCELLED"
        BY <2>5, Parts DEF CommitCancel, TypeOK, Cancelled
      <3> QED BY <2>5, <3>1 DEF CommitCancel, AbsentEmpty
    <2> QED BY <1>2, <2>1, <2>2, <2>3, <2>4, <2>5 DEF Commits
  <1> QED BY <1>1, <1>2, OnlyCommitsWrite

LEMMA AbsentEmptyAlways == Spec => []AbsentEmpty
  <1>1. Init => AbsentEmpty
    BY NullTypes DEF Init, AbsentEmpty, Exists, NoItems, NoItem
  <1>2. IInv /\ AbsentEmpty /\ [Next]_vars => AbsentEmpty'
    BY AbsentEmptyStep
  <1> QED BY <1>1, <1>2, LockDiscipline, PTL DEF Spec

(* No save is lost: an item that is there only changes by a save that      *)
(* carried the version it had, and its version then moves on by one.       *)
THEOREM VersionedWritesAlways == Spec => VersionedWrites
  <1>1. ASSUME IInv, AbsentEmpty, [Next]_vars, NEW r \in Revisions, NEW s \in Slot,
               Exists(items[r][s]), items'[r][s] # items[r][s]
        PROVE  /\ items'[r][s].version = items[r][s].version + 1
               /\ \E q \in Clients : /\ req[q].op = "item"
                                     /\ req[q].rev = r /\ req[q].slot = s
                                     /\ req[q].version = items[r][s].version
    <2>1. ~UNCHANGED table
      BY <1>1 DEF table
    <2>2. PICK q \in Clients : Commits(q)
      BY <1>1, <2>1, OnlyCommitsWrite
    <2>3. header[r].status # "ABSENT"
      BY <1>1 DEF AbsentEmpty
    <2>4. CommitItem(q)
      BY <1>1, <2>2, <2>3, CommitAddEffect, OwnerEffect, CommitCreateEffect DEF Commits
    <2>5. r = req[q].rev /\ s = req[q].slot
      BY <1>1, <2>4, CommitItemEffect
    <2> QED BY <1>1, <2>4, <2>5, CommitItemEffect DEF ItemRequest
  <1>2. IInv /\ AbsentEmpty /\ [Next]_vars => WritesByVersion
    BY <1>1 DEF WritesByVersion
  <1> QED BY <1>2, LockDiscipline, AbsentEmptyAlways, PTL DEF Spec, VersionedWrites

-----------------------------------------------------------------------------
(* What a snapshot is made from.                                           *)

Snapshotting(q, stages) == Within(q, {"create", "configure", "add"}, stages)

(* A request under way names categories in the periods of its mode, and    *)
(* only a replacement has items to carry over.                             *)
BodiesSound == \A q \in Clients :
    /\ RightPeriods(req[q])
    /\ req[q].op # "configure" => txn[q].kept = NoItems

(* The categories and tools that a handler has locked still are as it read *)
(* them: the administrators' requests wait for the locks.                  *)
HoldsCatalogue(q) ==
    /\ Snapshotting(q, {"tools", "insert", "commit"}) =>
        Usable(Requested(req[q])) /\ CommonUsable(req[q])
    /\ Snapshotting(q, {"insert", "commit"}) =>
        txn[q].rows = RowsOnOffer(SnapshotCategories(req[q]))

CatalogueHeld == \A q \in Clients : HoldsCatalogue(q)

(* A revision that was never inserted has no categories.                   *)
AbsentUnchosen == \A r \in Revisions, p \in Period :
    header[r].status = "ABSENT" => chosen[r][p] = {}

(* How far a step can change the request of a client and the items that it *)
(* keeps.                                                                  *)
KeptStep(q) ==
    \/ req'[q] = NoRequest /\ txn'[q].kept = NoItems
    \/ req'[q] = req[q] /\ txn'[q].kept \in {txn[q].kept, NoItems}
    \/ req'[q] = req[q] /\ req[q].op = "configure"
    \/ /\ req[q] = NoRequest /\ txn'[q].kept = txn[q].kept
       /\ RightPeriods(req'[q])

LEMMA KeptByAnswer ==
    ASSUME TypeOK, NEW q \in Clients, Finish(q), NEW o \in Clients
    PROVE  KeptStep(o)
  BY DEF TypeOK, Finish, KeptStep, NoTxn

LEMMA KeptByGoto ==
    ASSUME TypeOK, NEW q \in Clients, NEW stage, Goto(q, stage), NEW o \in Clients,
           txn'[o].kept \in {txn[o].kept, NoItems}
    PROVE  KeptStep(o)
  BY DEF Goto, KeptStep

LEMMA KeptByStep ==
    ASSUME TypeOK, [Next]_vars, NEW o \in Clients
    PROVE  KeptStep(o)
  <1>1. ASSUME NEW q \in Clients, Receive(q) PROVE KeptStep(o)
    <2>1. PICK m \in Requests : Submit(q, m)
      BY <1>1 DEF Receive
    <2> QED BY <2>1 DEF Submit, KeptStep, TypeOK
  <1>2. ASSUME NEW q \in Clients, Finish(q) PROVE KeptStep(o)
    BY <1>2, KeptByAnswer
  <1>3. ASSUME NEW q \in Clients, ~Finish(q), Create(q) PROVE KeptStep(o)
    <2>1. CASE FindNone(q) \/ InsertHeader(q)
      BY <2>1, KeptByGoto DEF FindNone, InsertHeader
    <2>2. CASE LoseInsert(q)
      <3>1. txn' = [txn EXCEPT ![q] = NoTxn]
        BY <2>2 DEF LoseInsert
      <3>2. txn'[o].kept \in {txn[o].kept, NoItems}
        BY <3>1 DEF TypeOK, NoTxn
      <3> QED BY <2>2, <3>2, KeptByGoto DEF LoseInsert
    <2> QED BY <1>3, <2>1, <2>2 DEF Create, FindExisting, Reread, CommitCreate, Answer
  <1>4. ASSUME NEW q \in Clients, ~Finish(q), TakeRows(q) PROVE KeptStep(o)
    <2>1. CASE LockCategories(q)
      BY <1>4, <2>1, KeptByGoto DEF LockCategories, Answer
    <2>2. CASE LockTools(q)
      <3>1. /\ Goto(q, IF req[q].op = "create" THEN "insert" ELSE "commit")
            /\ txn' = [txn EXCEPT ![q].rows = RowsOnOffer(SnapshotCategories(req[q]))]
        BY <1>4, <2>2 DEF LockTools, Answer
      <3>2. txn'[o].kept = txn[o].kept
        BY <3>1 DEF TypeOK, Txn
      <3> QED BY <3>1, <3>2, KeptByGoto
    <2> QED BY <1>4, <2>1, <2>2 DEF TakeRows
  <1>5. ASSUME NEW q \in Clients, ~Finish(q), UpdateItem(q) \/ Cancel(q) PROVE KeptStep(o)
    <2>1. UNCHANGED txn /\ (Goto(q, "update") \/ Goto(q, "commit"))
      BY <1>5 DEF UpdateItem, LockHeaderForItem, UpdateRow, CommitItem, Cancel,
         LockHeaderForCancel, CommitCancel, Answer
    <2> QED BY <2>1, KeptByGoto
  <1>6. ASSUME NEW q \in Clients, ~Finish(q), AddCategories(q) PROVE KeptStep(o)
    <2>1. PICK r \in Revisions : /\ txn' = [txn EXCEPT ![q].rev = {r}]
                                 /\ Goto(q, "categories")
      BY <1>6 DEF AddCategories, LockHeaderForAdd, CommitAdd, Answer
    <2>2. txn'[o].kept = txn[o].kept
      BY <2>1 DEF TypeOK, Txn
    <2> QED BY <2>1, <2>2, KeptByGoto
  <1>7. ASSUME NEW q \in Clients, ~Finish(q), UpdateConfiguration(q) PROVE KeptStep(o)
    <2>1. /\ Goto(q, "categories")
          /\ req[q].op = "configure"
          /\ txn' = [txn EXCEPT ![q].rev  = {req[q].rev},
                                ![q].kept = items[req[q].rev]]
      BY <1>7 DEF UpdateConfiguration, LockHeaderForConfigure, CommitConfigure, Answer, At
    <2>2. o # q => txn'[o] = txn[o]
      BY <2>1 DEF TypeOK
    <2> QED BY <2>1, <2>2 DEF KeptStep, Goto
  <1>8. ASSUME NEW q \in Clients, Handle(q) PROVE KeptStep(o)
    BY <1>2, <1>3, <1>4, <1>5, <1>6, <1>7, <1>8 DEF Handle
  <1>9. CASE Administer \/ Midnight \/ UNCHANGED vars
    <2>1. UNCHANGED <<req, txn>>
      BY <1>9 DEF Administer, Midnight, UpdateTool, ActivateTool, DeactivateTool,
         ActivateCategory, DeactivateCategory, vars
    <2> QED BY <2>1 DEF KeptStep
  <1> QED BY <1>1, <1>2, <1>8, <1>9 DEF Next, Abort, Answer

LEMMA BodiesSoundAlways == Spec => []BodiesSound
  <1>1. Init => BodiesSound
    BY DEF Init, BodiesSound, NoTxn, NoRequest, RightPeriods
  <1>2. ASSUME TypeOK, BodiesSound, [Next]_vars PROVE BodiesSound'
    <2> SUFFICES ASSUME NEW q \in Clients
                 PROVE  /\ RightPeriods(req'[q])
                        /\ req'[q].op # "configure" => txn'[q].kept = NoItems
      BY DEF BodiesSound, RightPeriods
    <2>1. KeptStep(q)
      BY <1>2, KeptByStep
    <2> QED BY <1>2, <2>1 DEF KeptStep, BodiesSound, RightPeriods, NoRequest
  <1> QED BY <1>1, <1>2, TypeCorrect, PTL DEF Spec

(* What a snapshot locks: the categories of the request, and COMMON.       *)
LEMMA SnapshotLocks ==
    ASSUME NEW m
    PROVE  /\ Requested(m) \subseteq Requested(m) \cup {Common}
           /\ SnapshotCategories(m) \subseteq Requested(m) \cup {Common}
  BY DEF SnapshotCategories, Requested

LEMMA SameCategories ==
    ASSUME NEW o \in Clients, req'[o] = req[o]
    PROVE  /\ Requested(req[o])' = Requested(req[o])
           /\ SnapshotCategories(req[o])' = SnapshotCategories(req[o])
  BY DEF Requested, SnapshotCategories

(* A client whose request and transaction stay as they are, on a catalogue *)
(* that stays as it is; the insert of the header changes none of them.     *)
LEMMA SameHolding ==
    ASSUME NEW o \in Clients, HoldsCatalogue(o), UNCHANGED catalog,
           req'[o] = req[o], txn'[o] = txn[o],
           pc'[o] = pc[o] \/ (pc[o] = "insert" /\ pc'[o] = "commit")
    PROVE  HoldsCatalogue(o)'
  <1>1. RowsOnOffer(SnapshotCategories(req[o]))' = RowsOnOffer(SnapshotCategories(req[o]))
    BY SameCategories DEF RowsOnOffer, ToolsOnOffer, RowOf, catalog
  <1>2. Usable(Requested(req[o]))' = Usable(Requested(req[o]))
    BY SameCategories DEF Usable, catalog
  <1>3. CommonUsable(req[o])' = CommonUsable(req[o])
    BY DEF CommonUsable, catalog
  <1> QED BY <1>1, <1>2, <1>3 DEF HoldsCatalogue, Snapshotting, Within

LEMMA NotHeld ==
    ASSUME NEW o \in Clients, pc'[o] \notin {"tools", "insert", "commit"}
    PROVE  HoldsCatalogue(o)'
  BY DEF HoldsCatalogue, Snapshotting, Within

LEMMA NoSnapshot ==
    ASSUME NEW o \in Clients, req'[o].op \notin {"create", "configure", "add"}
    PROVE  HoldsCatalogue(o)'
  BY DEF HoldsCatalogue, Snapshotting, Within

(* The rows on offer in the categories cats do not change when no such     *)
(* category and no tool on offer in them is free to change.                *)
LEMMA OfferStays ==
    ASSUME tool \in [Tools -> ToolRow], NEW cats, NEW t \in Tools,
           \A u \in Tools \ {t} : tool'[u] = tool[u],
           t \notin ToolsOnOffer(cats), t \notin ToolsOnOffer(cats)'
    PROVE  RowsOnOffer(cats)' = RowsOnOffer(cats)
  <1>1. ToolsOnOffer(cats)' = ToolsOnOffer(cats)
    BY DEF ToolsOnOffer
  <1>2. \A u \in ToolsOnOffer(cats) : RowOf(u)' = RowOf(u)
    BY DEF ToolsOnOffer, RowOf
  <1> QED BY <1>1, <1>2 DEF RowsOnOffer

(* A tool on offer to a snapshot that has read its tools is locked by it.  *)
LEMMA OfferIsLocked ==
    ASSUME NEW o \in Clients, HoldsCatalogue(o), Snapshotting(o, {"insert", "commit"}),
           NEW t \in Tools, ToolFree(t)
    PROVE  t \notin ToolsOnOffer(SnapshotCategories(req[o]))
  <1>1. txn[o].rows = RowsOnOffer(SnapshotCategories(req[o]))
    BY DEF HoldsCatalogue
  <1>2. \A row \in txn[o].rows : row.id # t
    BY DEF ToolFree, LocksTool, Snapshotting
  <1>3. ASSUME t \in ToolsOnOffer(SnapshotCategories(req[o])) PROVE FALSE
    <2>1. RowOf(t) \in txn[o].rows /\ RowOf(t).id = t
      BY <1>1, <1>3 DEF RowsOnOffer, RowOf
    <2> QED BY <1>2, <2>1
  <1> QED BY <1>3

(* The categories that a request under way names are categories.           *)
LEMMA RequestedType ==
    ASSUME TypeOK, NEW o \in Clients, req[o].op \in {"create", "configure", "add"}
    PROVE  Requested(req[o]) \subseteq Categories
  <1>1. CASE req[o].op = "add"
    BY <1>1, RequestByOp, ConstantsAssumption DEF TypeOK, AddRequest, Requested
  <1>2. CASE req[o].op \in {"create", "configure"}
    <2>1. req[o].sel \in [Period -> SUBSET Categories]
      BY <1>2, RequestByOp, ConstantsAssumption DEF TypeOK, CreateRequest, ConfigRequest
    <2> QED BY <1>2, <2>1 DEF Requested
  <1> QED BY <1>1, <1>2

LEMMA FreeIsNotTaken ==
    ASSUME NEW o \in Clients, Snapshotting(o, {"tools", "insert", "commit"}),
           NEW c \in Categories, CategoryFree(c)
    PROVE  /\ c \notin SnapshotCategories(req[o])
           /\ c \notin Requested(req[o])
           /\ c # Common
  BY SnapshotLocks DEF Snapshotting, CategoryFree, LocksCategory

(* The administrators' requests leave alone what the snapshots hold.       *)
LEMMA AdministerHeld ==
    ASSUME TypeOK, Administer, NEW o \in Clients, HoldsCatalogue(o)
    PROVE  HoldsCatalogue(o)'
  <1>0. PICK cats : cats = SnapshotCategories(req[o])
    OBVIOUS
  <1>1. UNCHANGED <<req, pc, txn>> /\ cats = SnapshotCategories(req[o])'
    BY <1>0, SameCategories DEF Administer, UpdateTool, ActivateTool, DeactivateTool,
       ActivateCategory, DeactivateCategory
  <1>2. ASSUME NEW t \in Tools, UNCHANGED category, ToolFree(t),
               \A u \in Tools \ {t} : tool'[u] = tool[u],
               Snapshotting(o, {"insert", "commit"}) => t \notin ToolsOnOffer(cats)'
        PROVE  HoldsCatalogue(o)'
    <2>1. Snapshotting(o, {"insert", "commit"}) => RowsOnOffer(cats)' = RowsOnOffer(cats)
      BY <1>0, <1>2, OfferIsLocked, OfferStays DEF TypeOK
    <2>2. Usable(Requested(req[o]))' = Usable(Requested(req[o]))
      BY <1>1, <1>2, SameCategories DEF Usable
    <2>3. CommonUsable(req[o])' = CommonUsable(req[o])
      BY <1>1, <1>2 DEF CommonUsable
    <2> QED BY <1>0, <1>1, <2>1, <2>2, <2>3 DEF HoldsCatalogue, Snapshotting, Within
  <1>3. ASSUME NEW t \in Tools, NEW c \in Categories, NEW stock \in 0..MaxStock,
               UpdateTool(t, c, stock)
        PROVE  HoldsCatalogue(o)'
    <2>1. tool' = [tool EXCEPT ![t].category = c, ![t].stock = stock]
      BY <1>3 DEF UpdateTool
    <2>2. tool'[t].category = c /\ \A u \in Tools \ {t} : tool'[u] = tool[u]
      BY <2>1 DEF TypeOK, ToolRow
    <2>3. Snapshotting(o, {"insert", "commit"}) => c \notin cats
      BY <1>0, <1>3, FreeIsNotTaken DEF UpdateTool, Snapshotting, Within
    <2>4. Snapshotting(o, {"insert", "commit"}) => t \notin ToolsOnOffer(cats)'
      BY <2>2, <2>3 DEF ToolsOnOffer
    <2> QED BY <1>2, <1>3, <2>2, <2>4 DEF UpdateTool
  <1>4. ASSUME NEW t \in Tools, ActivateTool(t)
        PROVE  HoldsCatalogue(o)'
    <2>1. tool' = [tool EXCEPT ![t].status = "ACTIVE"] /\ tool[t].category \in Categories
      BY <1>4 DEF ActivateTool, TypeOK, ToolRow
    <2>2. tool'[t].category = tool[t].category /\ \A u \in Tools \ {t} : tool'[u] = tool[u]
      BY <2>1 DEF TypeOK, ToolRow
    <2>3. Snapshotting(o, {"insert", "commit"}) => tool[t].category \notin cats
      BY <1>0, <1>4, <2>1, FreeIsNotTaken DEF ActivateTool, Snapshotting, Within
    <2>4. Snapshotting(o, {"insert", "commit"}) => t \notin ToolsOnOffer(cats)'
      BY <2>2, <2>3 DEF ToolsOnOffer
    <2> QED BY <1>2, <1>4, <2>2, <2>4 DEF ActivateTool
  <1>5. ASSUME NEW t \in Tools, DeactivateTool(t)
        PROVE  HoldsCatalogue(o)'
    <2>1. tool' = [tool EXCEPT ![t].status = "INACTIVE"]
      BY <1>5 DEF DeactivateTool
    <2>2. tool'[t].status = "INACTIVE" /\ \A u \in Tools \ {t} : tool'[u] = tool[u]
      BY <2>1 DEF TypeOK, ToolRow
    <2>3. t \notin ToolsOnOffer(cats)'
      BY <2>2 DEF ToolsOnOffer
    <2> QED BY <1>2, <1>5, <2>2, <2>3 DEF DeactivateTool
  <1>6. ASSUME NEW c \in Categories, ActivateCategory(c) \/ DeactivateCategory(c)
        PROVE  HoldsCatalogue(o)'
    <2>1. CategoryFree(c) /\ UNCHANGED tool /\ \A d \in Categories \ {c} : category'[d] = category[d]
      BY <1>6 DEF ActivateCategory, DeactivateCategory, TypeOK
    <2>2. RowsOnOffer(cats)' = RowsOnOffer(cats)
      BY <2>1 DEF RowsOnOffer, ToolsOnOffer, RowOf
    <2>3. ASSUME Snapshotting(o, {"tools", "insert", "commit"})
          PROVE  /\ Usable(Requested(req[o]))' = Usable(Requested(req[o]))
                 /\ CommonUsable(req[o])' = CommonUsable(req[o])
      <3>1. c \notin Requested(req[o]) /\ c # Common
        BY <2>1, <2>3, FreeIsNotTaken
      <3>2. Requested(req[o]) \subseteq Categories
        BY <2>3, RequestedType DEF Snapshotting, Within
      <3> QED BY <1>1, <2>1, <3>1, <3>2, SameCategories, ConstantsAssumption
              DEF Usable, CommonUsable
    <2> QED BY <1>0, <1>1, <2>2, <2>3 DEF HoldsCatalogue, Snapshotting, Within
  <1> QED BY <1>3, <1>4, <1>5, <1>6 DEF Administer

(* A step of client q itself.                                              *)
LEMMA OwnStepHeld ==
    ASSUME TypeOK, NEW q \in Clients, Handle(q), HoldsCatalogue(q)
    PROVE  HoldsCatalogue(q)'
  <1>1. CASE Finish(q)
    BY <1>1, FinishFrame, NotHeld
  <1>2. CASE ~Finish(q) /\ (Create(q) \/ TakeRows(q))
    <2>1. CASE FindNone(q)
      BY <2>1, NotHeld DEF FindNone, Goto, TypeOK
    <2>2. CASE LoseInsert(q)
      BY <2>2, NotHeld DEF LoseInsert, Goto, TypeOK
    <2>3. CASE InsertHeader(q)
      <3>1. /\ req'[q] = req[q] /\ pc'[q] = "commit" /\ txn'[q] = txn[q]
            /\ pc[q] = "insert" /\ UNCHANGED catalog
        BY <2>3 DEF InsertHeader, Goto, At, TypeOK
      <3> QED BY <3>1, SameHolding
    <2>4. CASE LockCategories(q)
      <3>1. /\ Usable(Requested(req[q])) /\ CommonUsable(req[q])
            /\ req'[q] = req[q] /\ pc'[q] = "tools" /\ UNCHANGED catalog
        BY <1>2, <2>4 DEF LockCategories, Goto, Answer, TypeOK
      <3>2. Usable(Requested(req[q]))' /\ CommonUsable(req[q])'
        BY <3>1, SameCategories DEF Usable, CommonUsable, catalog
      <3> QED BY <3>1, <3>2 DEF HoldsCatalogue, Snapshotting, Within
    <2>5. CASE LockTools(q)
      <3>1. PICK cats : cats = SnapshotCategories(req[q])
        OBVIOUS
      <3>2. /\ Snapshotting(q, {"tools"})
            /\ Goto(q, IF req[q].op = "create" THEN "insert" ELSE "commit")
            /\ txn' = [txn EXCEPT ![q].rows = RowsOnOffer(cats)]
            /\ UNCHANGED catalog
        BY <1>2, <2>5, <3>1 DEF LockTools, Answer, Snapshotting
      <3>3. req'[q] = req[q] /\ txn'[q].rows = RowsOnOffer(cats)
        BY <3>2 DEF Goto, TypeOK, Txn
      <3>4. RowsOnOffer(cats)' = RowsOnOffer(cats)
        BY <3>2 DEF RowsOnOffer, ToolsOnOffer, RowOf, catalog
      <3>5. cats = SnapshotCategories(req[q])'
        BY <3>1, <3>3, SameCategories
      <3>6. Usable(Requested(req[q])) /\ CommonUsable(req[q])
        BY <3>2 DEF HoldsCatalogue, Snapshotting, Within
      <3>7. Usable(Requested(req[q]))' /\ CommonUsable(req[q])'
        BY <3>2, <3>3, <3>6, SameCategories DEF Usable, CommonUsable, catalog
      <3> QED BY <3>3, <3>4, <3>5, <3>7 DEF HoldsCatalogue
    <2> QED BY <1>2, <2>1, <2>2, <2>3, <2>4, <2>5
            DEF Create, TakeRows, FindExisting, Reread, CommitCreate, Answer
  <1>3. CASE ~Finish(q) /\ (UpdateItem(q) \/ Cancel(q))
    <2>1. req'[q].op \in {"item", "cancel"}
      BY <1>3 DEF UpdateItem, LockHeaderForItem, UpdateRow, CommitItem, Cancel,
         LockHeaderForCancel, CommitCancel, Answer, At, Goto
    <2> QED BY <2>1, NoSnapshot
  <1>4. CASE ~Finish(q) /\ (AddCategories(q) \/ UpdateConfiguration(q))
    <2>1. pc'[q] = "categories"
      BY <1>4 DEF AddCategories, LockHeaderForAdd, CommitAdd, UpdateConfiguration,
         LockHeaderForConfigure, CommitConfigure, Answer, Goto, TypeOK
    <2> QED BY <2>1, NotHeld
  <1> QED BY <1>1, <1>2, <1>3, <1>4 DEF Handle

(* A handler does not touch the catalogue or another client.               *)
LEMMA HandleFrame ==
    ASSUME TypeOK, NEW q \in Clients, Handle(q) \/ Abort(q)
    PROVE  UNCHANGED catalog /\ Untouched(q)
  <1>1. UNCHANGED catalog
    BY DEF Handle, Abort, Create, FindExisting, FindNone, InsertHeader, LoseInsert, Reread,
       CommitCreate, TakeRows, LockCategories, LockTools, UpdateItem, LockHeaderForItem,
       UpdateRow, CommitItem, AddCategories, LockHeaderForAdd, CommitAdd,
       UpdateConfiguration, LockHeaderForConfigure, CommitConfigure, Cancel,
       LockHeaderForCancel, CommitCancel, catalog
  <1>2. CASE Finish(q)
    BY <1>1, <1>2, FinishFrame
  <1>3. CASE ~Finish(q)
    <2>1. /\ \A o \in Others(q) : txn'[o] = txn[o]
          /\ \E stage \in Stage : Goto(q, stage)
      BY <1>3 DEF Handle, Abort, Create, FindExisting, FindNone, InsertHeader, LoseInsert,
         Reread, CommitCreate, TakeRows, LockCategories, LockTools, UpdateItem,
         LockHeaderForItem, UpdateRow, CommitItem, AddCategories, LockHeaderForAdd,
         CommitAdd, UpdateConfiguration, LockHeaderForConfigure, CommitConfigure, Cancel,
         LockHeaderForCancel, CommitCancel, Answer, Others, TypeOK, Stage
    <2> QED BY <1>1, <2>1, GotoFrame
  <1> QED BY <1>1, <1>2, <1>3

(* Until its transaction ends, a snapshot finds the categories usable that *)
(* it checked, and the tools as it read them.                              *)
LEMMA CatalogueHeldAlways == Spec => []CatalogueHeld
  <1>1. Init => CatalogueHeld
    BY DEF Init, CatalogueHeld, HoldsCatalogue, Snapshotting, Within
  <1>2. ASSUME TypeOK, CatalogueHeld, [Next]_vars PROVE CatalogueHeld'
    <2> SUFFICES ASSUME NEW o \in Clients PROVE HoldsCatalogue(o)'
      BY DEF CatalogueHeld
    <2>0. HoldsCatalogue(o)
      BY <1>2 DEF CatalogueHeld
    <2>1. ASSUME NEW q \in Clients, Receive(q) PROVE HoldsCatalogue(o)'
      <3>1. CASE o = q
        BY <1>2, <2>1, <3>1, NotHeld DEF Receive, Submit, TypeOK
      <3>2. CASE o # q
        BY <1>2, <2>0, <2>1, <3>2, SameHolding DEF Receive, Submit, TypeOK
      <3> QED BY <3>1, <3>2
    <2>2. ASSUME NEW q \in Clients, Handle(q) \/ Abort(q), o # q PROVE HoldsCatalogue(o)'
      BY <1>2, <2>0, <2>2, HandleFrame, SameHolding DEF Untouched, Others
    <2>3. CASE Handle(o)
      BY <1>2, <2>0, <2>3, OwnStepHeld
    <2>4. CASE Abort(o)
      BY <1>2, <2>4, FinishFrame, NotHeld DEF Abort, Answer
    <2>5. CASE Midnight \/ UNCHANGED vars
      BY <2>0, <2>5, SameHolding DEF Midnight, vars, catalog
    <2> QED BY <1>2, <2>0, <2>1, <2>2, <2>3, <2>4, <2>5, AdministerHeld DEF Next
  <1> QED BY <1>1, <1>2, TypeCorrect, PTL DEF Spec

(* The locked rows for a slot, and an item made from one of them.          *)
RowsOfSlot(sel, rows, s) == RowsIn(rows, s[2], sel[s[1]] \cup {Common})

HasRows(sel, rows, s) == sel[s[1]] # {} /\ RowsOfSlot(sel, rows, s) # {}

FilledFrom(item, rows, old) ==
    \E row \in rows : item = NewItem(row.stock, old) /\ row.stock \in 0..MaxStock

(* The item of a slot in a snapshot: there if its period has categories    *)
(* and a locked row of its tool belongs to them or to COMMON.              *)
LEMMA SnapshotSlot ==
    ASSUME NEW sel, NEW rows \in SUBSET LockedTool, NEW kept, NEW s \in Slot
    PROVE  IF HasRows(sel, rows, s)
           THEN FilledFrom(Snapshot(sel, rows, kept)[s], RowsOfSlot(sel, rows, s), kept[s])
           ELSE Snapshot(sel, rows, kept)[s] = NoItem
  <1>1. Snapshot(sel, rows, kept)[s] =
            IF HasRows(sel, rows, s)
            THEN NewItem(StockOf(RowsOfSlot(sel, rows, s)), kept[s])
            ELSE NoItem
    BY DEF Snapshot, RowsOfSlot, HasRows
  <1>2. RowsOfSlot(sel, rows, s) \in SUBSET LockedTool
    BY DEF RowsIn, RowsOfSlot
  <1>3. HasRows(sel, rows, s) =>
            \E row \in RowsOfSlot(sel, rows, s) :
                StockOf(RowsOfSlot(sel, rows, s)) = row.stock /\ row.stock \in 0..MaxStock
    BY <1>2, StockOfType DEF LockedTool, HasRows
  <1> QED BY <1>1, <1>3 DEF FilledFrom

(* A new item continues the old one as far as its stock allows.            *)
LEMMA NewItemCarries ==
    ASSUME NEW stock \in 0..MaxStock, NEW old \in ItemRow
    PROVE  /\ Exists(NewItem(stock, old))
           /\ NewItem(stock, old).stock = stock
           /\ Exists(old) => IF old.qty <= stock
                             THEN /\ NewItem(stock, old).qty = old.qty
                                  /\ NewItem(stock, old).checked = old.checked
                             ELSE /\ NewItem(stock, old).qty = 0
                                  /\ ~NewItem(stock, old).checked
           /\ ~Exists(old) => NewItem(stock, old).qty = 0 /\ ~NewItem(stock, old).checked
  <1>1. CASE Exists(old) /\ old.qty <= stock
    <2>1. NewItem(stock, old) = [stock |-> stock, qty |-> old.qty, checked |-> old.checked,
                                 version |-> 1]
      BY <1>1 DEF NewItem
    <2> QED BY <1>1, <2>1 DEF Exists
  <1>2. CASE ~(Exists(old) /\ old.qty <= stock)
    <2>1. NewItem(stock, old) = [stock |-> stock, qty |-> 0, checked |-> FALSE, version |-> 1]
      BY <1>2 DEF NewItem
    <2>2. /\ NewItem(stock, old).version # 0
          /\ NewItem(stock, old).stock = stock
          /\ NewItem(stock, old).qty = 0
          /\ NewItem(stock, old).checked = FALSE
      BY <2>1
    <2> QED BY <1>2, <2>2 DEF Exists
  <1> QED BY <1>1, <1>2

(* The insertion of a revision: a whole row of each of the three tables.   *)
LEMMA InsertEffect ==
    ASSUME IInv, NEW q \in Clients, CommitCreate(q) \/ CommitConfigure(q)
    PROVE  /\ req[q].sel \in [Period -> SUBSET Categories]
           /\ req[q].mode \in Mode
           /\ txn[q].rows \in SUBSET LockedTool
           /\ txn[q].kept \in [Slot -> ItemRow]
           /\ \E new \in Revisions :
                /\ header[new].status = "ABSENT"
                /\ header'[new] = FirstVersion(req[q].mode)
                /\ chosen'[new] = req[q].sel
                /\ items'[new] = Snapshot(req[q].sel, txn[q].rows, txn[q].kept)
                /\ \A r \in Revisions \ {new} :
                     /\ chosen'[r] = chosen[r]
                     /\ items'[r] = items[r]
                     /\ \/ header'[r] = header[r]
                        \/ /\ CommitConfigure(q) /\ r = req[q].rev /\ IsActive(r)
                           /\ header'[r] = Cancelled(header[r])
  <1>1. req[q].sel \in [Period -> SUBSET Categories] /\ req[q].mode \in Mode
    BY RequestByOp, ConstantsAssumption, Parts
       DEF CommitCreate, CommitConfigure, At, TypeOK, CreateRequest, ConfigRequest
  <1>2. txn[q].rows \in SUBSET LockedTool /\ txn[q].kept \in [Slot -> ItemRow]
    BY Parts DEF TypeOK, Txn
  <1>3. CASE CommitCreate(q)
    <2>1. PICK new \in Revisions :
            /\ InsertRevision(new, req[q], txn[q])
            /\ header' = [header EXCEPT ![new] = FirstVersion(req[q].mode)]
      BY <1>3 DEF CommitCreate
    <2> QED BY <1>1, <1>2, <2>1, Parts DEF InsertRevision, TypeOK
  <1>4. CASE CommitConfigure(q)
    <2>1. PICK new \in Revisions :
            /\ InsertRevision(new, req[q], txn[q])
            /\ header' = [header EXCEPT ![new] = FirstVersion(req[q].mode),
                                        ![req[q].rev] = Cancelled(@)]
      BY <1>4 DEF CommitConfigure
    <2>2. req[q].rev \in Revisions /\ IsActive(req[q].rev) /\ req[q].rev # new
      BY <1>4, <2>1, OwnerEffect DEF InsertRevision, IsActive
    <2>3. /\ header'[new] = FirstVersion(req[q].mode)
          /\ header'[req[q].rev] = Cancelled(header[req[q].rev])
          /\ \A r \in Revisions \ {new, req[q].rev} : header'[r] = header[r]
      BY <2>1, <2>2, Parts DEF TypeOK
    <2>4. /\ header[new].status = "ABSENT"
          /\ chosen'[new] = req[q].sel
          /\ items'[new] = Snapshot(req[q].sel, txn[q].rows, txn[q].kept)
          /\ \A r \in Revisions \ {new} : chosen'[r] = chosen[r] /\ items'[r] = items[r]
      BY <2>1, Parts DEF InsertRevision, TypeOK
    <2> QED BY <1>1, <1>2, <1>4, <2>2, <2>3, <2>4
  <1> QED BY <1>3, <1>4

(* A replacement carries over, slot by slot, what the revision it replaces *)
(* holds at that moment, or resets what the new stock cannot hold.         *)
THEOREM CarriedOverAlways == Spec => CarriedOver
  <1>1. ASSUME IInv, [Next]_vars, NEW old \in Revisions, NEW new \in Revisions,
               Leaves(old), header[new].status = "ABSENT", header'[new].status = "ACTIVE",
               NEW s \in Slot, Exists(items[old][s]), Exists(items'[new][s])
        PROVE  IF items[old][s].qty <= items'[new][s].stock
               THEN /\ items'[new][s].qty = items[old][s].qty
                    /\ items'[new][s].checked = items[old][s].checked
               ELSE items'[new][s].qty = 0 /\ ~items'[new][s].checked
    <2>1. ~UNCHANGED table
      BY <1>1 DEF Leaves, IsActive, table
    <2>2. PICK q \in Clients : Commits(q)
      BY <1>1, <2>1, OnlyCommitsWrite
    <2>3. CommitConfigure(q)
      <3>1. header[old].status = "ACTIVE" /\ header'[old] # header[old]
        BY <1>1 DEF Leaves, IsActive
      <3>2. ~CommitCreate(q) /\ ~CommitItem(q) /\ ~CommitAdd(q)
        BY <1>1, <3>1, CommitItemEffect, CommitAddEffect, CommitCreateEffect
      <3>3. ~CommitCancel(q)
        <4>1. ASSUME CommitCancel(q) PROVE header'[new] = header[new] \/ header'[new].status = "CANCELLED"
          BY <1>1, <4>1, Parts DEF CommitCancel, TypeOK, Cancelled
        <4> QED BY <1>1, <4>1
      <3> QED BY <2>2, <3>2, <3>3 DEF Commits
    <2>4. old = req[q].rev /\ txn[q].kept = items[old]
      <3>1. old = req[q].rev
        BY <1>1, <2>3, OwnerEffect DEF Leaves, IsActive
      <3> QED BY <1>1, <2>3, <3>1, Parts DEF Knows, CommitConfigure, At, Within
    <2>5. /\ items'[new] = Snapshot(req[q].sel, txn[q].rows, items[old])
          /\ txn[q].rows \in SUBSET LockedTool
      <3>1. \A r \in Revisions : header'[r] = Cancelled(header[r]) => header'[r].status # "ACTIVE"
        BY DEF Cancelled
      <3> QED BY <1>1, <2>3, <2>4, <3>1, InsertEffect
    <2>6. PICK stock \in 0..MaxStock : items'[new][s] = NewItem(stock, items[old][s])
      <3>1. items'[new][s] # NoItem
        BY <1>1 DEF Exists, NoItem
      <3>2. Snapshot(req[q].sel, txn[q].rows, items[old])[s] # NoItem
        BY <2>5, <3>1
      <3>3. FilledFrom(Snapshot(req[q].sel, txn[q].rows, items[old])[s],
                       RowsOfSlot(req[q].sel, txn[q].rows, s), items[old][s])
        BY <1>1, <2>5, <3>2, SnapshotSlot
      <3> QED BY <2>5, <3>3 DEF FilledFrom
    <2> QED BY <1>1, <2>6, NewItemCarries, Parts DEF TypeOK
  <1>2. IInv /\ [Next]_vars =>
            \A old, new \in Revisions :
              Leaves(old) /\ header[new].status = "ABSENT" /\ header'[new].status = "ACTIVE" =>
                \A s \in Slot :
                  LET was == items[old][s]
                      is  == items'[new][s]
                  IN  Exists(was) /\ Exists(is) =>
                        IF was.qty <= is.stock
                        THEN is.qty = was.qty /\ is.checked = was.checked
                        ELSE is.qty = 0 /\ ~is.checked
    BY <1>1 DEF Exists
  <1> QED BY <1>2, LockDiscipline, PTL DEF Spec, CarriedOver

(* TableSound, one revision and one row at a time.                         *)
SoundRow(item) == item.qty <= item.stock /\ ~(item.checked /\ item.qty = 0)

SoundTable(r) == header[r].status # "ABSENT" =>
    /\ {p \in Period : chosen[r][p] # {}} = PeriodsOf(header[r].mode)
    /\ \A s \in Slot : Exists(items[r][s]) => chosen[r][s[1]] # {} /\ SoundRow(items[r][s])

LEMMA TableSoundParts ==
    /\ TableSound <=> \A r \in Revisions : SoundTable(r)
    /\ TableSound' <=> \A r \in Revisions : SoundTable(r)'
  BY DEF TableSound, SoundTable, SoundRow

LEMMA SameIsSound ==
    ASSUME NEW r \in Revisions, SoundTable(r), header[r].status # "ABSENT",
           header'[r].mode = header[r].mode, chosen'[r] = chosen[r], items'[r] = items[r]
    PROVE  SoundTable(r)'
  BY DEF SoundTable, Exists, SoundRow

LEMMA NewItemSound ==
    ASSUME NEW stock \in 0..MaxStock, NEW old \in ItemRow, Exists(old) => SoundRow(old)
    PROVE  SoundRow(NewItem(stock, old))
  <1>1. CASE Exists(old) /\ old.qty <= stock
    <2>1. NewItem(stock, old) = [stock |-> stock, qty |-> old.qty, checked |-> old.checked,
                                 version |-> 1]
      BY <1>1 DEF NewItem
    <2> QED BY <1>1, <2>1 DEF SoundRow
  <1>2. CASE ~(Exists(old) /\ old.qty <= stock)
    <2>1. NewItem(stock, old) = [stock |-> stock, qty |-> 0, checked |-> FALSE, version |-> 1]
      BY <1>2 DEF NewItem
    <2>2. NewItem(stock, old).qty <= NewItem(stock, old).stock
      BY <2>1, ConstantsAssumption
    <2>3. NewItem(stock, old).checked = FALSE
      BY <2>1
    <2> QED BY <2>2, <2>3 DEF SoundRow
  <1> QED BY <1>1, <1>2

(* A revision is inserted sound, from sound rows or from none.             *)
LEMMA InsertIsSound ==
    ASSUME NEW sel \in [Period -> SUBSET Categories], NEW mode,
           NEW rows \in SUBSET LockedTool, NEW kept \in [Slot -> ItemRow],
           {p \in Period : sel[p] # {}} = PeriodsOf(mode),
           \A s \in Slot : Exists(kept[s]) => SoundRow(kept[s]),
           NEW r \in Revisions, header'[r] = FirstVersion(mode), chosen'[r] = sel,
           items'[r] = Snapshot(sel, rows, kept)
    PROVE  SoundTable(r)'
  <1>1. header'[r].mode = mode
    BY DEF FirstVersion
  <1>2. ASSUME NEW s \in Slot, Exists(items'[r][s])
        PROVE  sel[s[1]] # {} /\ SoundRow(items'[r][s])
    <2>1. Snapshot(sel, rows, kept)[s] # NoItem
      BY <1>2 DEF Exists, NoItem
    <2>2. HasRows(sel, rows, s)
      BY <2>1, SnapshotSlot
    <2>3. PICK row \in RowsOfSlot(sel, rows, s) :
            Snapshot(sel, rows, kept)[s] = NewItem(row.stock, kept[s]) /\ row.stock \in 0..MaxStock
      <3>1. FilledFrom(Snapshot(sel, rows, kept)[s], RowsOfSlot(sel, rows, s), kept[s])
        BY <2>2, SnapshotSlot
      <3> QED BY <3>1 DEF FilledFrom
    <2>4. SoundRow(NewItem(row.stock, kept[s]))
      BY <2>3, NewItemSound
    <2> QED BY <2>2, <2>3, <2>4 DEF HasRows
  <1> QED BY <1>1, <1>2 DEF SoundTable, Exists, SoundRow

LEMMA CommitItemSound ==
    ASSUME IInv, TableSound, NEW q \in Clients, CommitItem(q), NEW r \in Revisions
    PROVE  SoundTable(r)'
  <1>0. SoundTable(r) /\ header'[r] = header[r] /\ chosen'[r] = chosen[r]
    BY TableSoundParts DEF CommitItem
  <1>1. CASE r # req[q].rev
    BY <1>0, <1>1, CommitItemEffect DEF SoundTable, Exists, SoundRow
  <1>2. CASE r = req[q].rev
    <2>1. req[q] \in ItemRequest /\ Acceptable(req[q])
      BY RequestByOp, Parts DEF CommitItem, At, Within, Knows, TypeOK
    <2>2. items'[r][req[q].slot] = Saved(items[r][req[q].slot], req[q])
      BY <1>2, <2>1, Parts DEF CommitItem, TypeOK, ItemRequest
    <2>3. SoundRow(items'[r][req[q].slot])
      BY <1>2, <2>1, <2>2 DEF Acceptable, Saved, SoundRow, ItemRequest
    <2>4. Exists(items[r][req[q].slot])
      BY <1>2, <2>1 DEF Acceptable
    <2> QED BY <1>0, <1>2, <2>3, <2>4, CommitItemEffect DEF SoundTable, Exists, SoundRow
  <1> QED BY <1>1, <1>2

LEMMA CommitAddSound ==
    ASSUME IInv, TableSound, NEW q \in Clients, CommitAdd(q), NEW r \in Revisions
    PROVE  SoundTable(r)'
  <1> DEFINE p == req[q].period
             cats == req[q].cats
             rows == txn[q].rows
  <1>0. SoundTable(r) /\ header'[r] = header[r]
    BY TableSoundParts DEF CommitAdd
  <1>1. PICK u \in Revisions : txn[q].rev = {u} /\ IsActive(u) /\ Addable(u, p, cats)
    BY Parts DEF CommitAdd, At, Within, Knows
  <1>2. /\ chosen' = [chosen EXCEPT ![u][p] = @ \cup cats]
        /\ items' = [items EXCEPT ![u] = WithNewRows(@, p, rows, cats)]
    BY <1>1 DEF CommitAdd
  <1>3. CASE r # u
    <2>1. chosen'[r] = chosen[r] /\ items'[r] = items[r]
      BY <1>2, <1>3, Parts DEF TypeOK
    <2> QED BY <1>0, <2>1 DEF SoundTable, Exists, SoundRow
  <1>4. CASE r = u
    <2>1. \A e \in Period : chosen'[r][e] # {} <=> chosen[r][e] # {}
      BY <1>1, <1>2, <1>4, Parts DEF TypeOK, Addable
    <2>2. ASSUME NEW s \in Slot, Exists(items'[r][s])
          PROVE  chosen[r][s[1]] # {} /\ SoundRow(items'[r][s])
      <3>1. items'[r][s] = WithNewRows(items[r], p, rows, cats)[s]
        BY <1>2, <1>4, Parts DEF TypeOK
      <3>2. CASE s[1] = p /\ RowsIn(rows, s[2], cats) # {}
        <4>1. items'[r][s] = NewItem(StockOf(RowsIn(rows, s[2], cats)), NoItem)
          BY <3>1, <3>2 DEF WithNewRows
        <4>2. RowsIn(rows, s[2], cats) \in SUBSET LockedTool
          BY Parts DEF TypeOK, Txn, RowsIn
        <4>3. StockOf(RowsIn(rows, s[2], cats)) \in 0..MaxStock
          BY <3>2, <4>2, StockOfType
        <4>4. ~Exists(NoItem)
          BY DEF Exists, NoItem
        <4> QED BY <1>1, <1>4, <3>2, <4>1, <4>3, <4>4, NewItemSound, NullTypes DEF Addable
      <3>3. CASE ~(s[1] = p /\ RowsIn(rows, s[2], cats) # {})
        <4>1. items'[r][s] = items[r][s]
          BY <3>1, <3>3 DEF WithNewRows
        <4> QED BY <1>0, <1>1, <1>4, <2>2, <4>1 DEF SoundTable, IsActive, Exists
      <3> QED BY <3>2, <3>3
    <2>3. \A s \in Slot : s[1] \in Period
      BY DEF Slot
    <2> QED BY <1>0, <1>1, <1>4, <2>1, <2>2, <2>3 DEF SoundTable, IsActive
  <1> QED BY <1>3, <1>4

LEMMA InsertSound ==
    ASSUME IInv, BodiesSound, TableSound, NEW q \in Clients,
           CommitCreate(q) \/ CommitConfigure(q), NEW r \in Revisions
    PROVE  SoundTable(r)'
  <1>1. {p \in Period : req[q].sel[p] # {}} = PeriodsOf(req[q].mode)
    BY DEF BodiesSound, RightPeriods, CommitCreate, CommitConfigure, At
  <1>2. \A s \in Slot : Exists(txn[q].kept[s]) => SoundRow(txn[q].kept[s])
    <2>1. CASE CommitCreate(q)
      <3>1. txn[q].kept = NoItems
        BY <2>1 DEF BodiesSound, CommitCreate, At
      <3> QED BY <3>1 DEF NoItems, NoItem, Exists
    <2>2. CASE CommitConfigure(q)
      <3>1. txn[q].kept = items[req[q].rev] /\ IsActive(req[q].rev) /\ req[q].rev \in Revisions
        BY <2>2, OwnerEffect, Parts DEF CommitConfigure, At, Within, Knows
      <3> QED BY <3>1, TableSoundParts DEF SoundTable, IsActive
    <2> QED BY <2>1, <2>2
  <1>3. PICK new \in Revisions :
          /\ header'[new] = FirstVersion(req[q].mode)
          /\ chosen'[new] = req[q].sel
          /\ items'[new] = Snapshot(req[q].sel, txn[q].rows, txn[q].kept)
          /\ \A u \in Revisions \ {new} :
               /\ chosen'[u] = chosen[u]
               /\ items'[u] = items[u]
               /\ \/ header'[u] = header[u]
                  \/ IsActive(u) /\ header'[u] = Cancelled(header[u])
    BY InsertEffect
  <1>4. CASE r = new
    <2>1. /\ req[q].sel \in [Period -> SUBSET Categories]
          /\ txn[q].rows \in SUBSET LockedTool
          /\ txn[q].kept \in [Slot -> ItemRow]
      BY InsertEffect
    <2> QED BY <1>1, <1>2, <1>3, <1>4, <2>1, InsertIsSound
  <1>5. CASE r # new
    <2>1. SoundTable(r)
      BY TableSoundParts
    <2>2. CASE header'[r] = header[r]
      BY <1>3, <1>5, <2>1, <2>2 DEF SoundTable, Exists, SoundRow
    <2>3. CASE IsActive(r) /\ header'[r] = Cancelled(header[r])
      BY <1>3, <1>5, <2>1, <2>3, SameIsSound DEF IsActive, Cancelled
    <2> QED BY <1>3, <1>5, <2>2, <2>3
  <1> QED BY <1>4, <1>5

LEMMA CancelSound ==
    ASSUME IInv, TableSound, NEW q \in Clients, CommitCancel(q), NEW r \in Revisions
    PROVE  SoundTable(r)'
  <1>1. SoundTable(r) /\ UNCHANGED <<chosen, items>>
    BY TableSoundParts DEF CommitCancel
  <1>2. CASE r = req[q].rev
    <2>1. IsActive(r) /\ header'[r] = Cancelled(header[r])
      BY <1>2, OwnerEffect, Parts DEF CommitCancel, TypeOK
    <2> QED BY <1>1, <2>1, SameIsSound DEF IsActive, Cancelled
  <1>3. CASE r # req[q].rev
    <2>1. header'[r] = header[r]
      BY <1>3, Parts DEF CommitCancel, TypeOK
    <2> QED BY <1>1, <2>1 DEF SoundTable, Exists, SoundRow
  <1> QED BY <1>2, <1>3

LEMMA TableSoundStep ==
    ASSUME IInv, BodiesSound, TableSound, [Next]_vars
    PROVE  TableSound'
  <1>1. CASE UNCHANGED table
    BY <1>1 DEF TableSound, table, Exists
  <1>2. ASSUME NEW q \in Clients, Commits(q), NEW r \in Revisions PROVE SoundTable(r)'
    BY <1>2, CommitItemSound, CommitAddSound, InsertSound, CancelSound DEF Commits
  <1>3. ASSUME ~UNCHANGED table PROVE TableSound'
    BY <1>2, <1>3, OnlyCommitsWrite, TableSoundParts
  <1> QED BY <1>1, <1>3

(* Every stored revision is a whole table, whatever was saved, added,      *)
(* carried over and cancelled: exactly the periods of its mode have        *)
(* categories, items lie in those periods, no quantity exceeds its stock   *)
(* and nothing is marked ready at quantity 0.                              *)
THEOREM TableSoundAlways == Spec => []TableSound
  <1>1. Init => TableSound
    BY DEF Init, TableSound, NoHeader
  <1>2. IInv /\ BodiesSound /\ TableSound /\ [Next]_vars => TableSound'
    BY TableSoundStep
  <1> QED BY <1>1, <1>2, LockDiscipline, BodiesSoundAlways, PTL DEF Spec

LEMMA AbsentUnchosenAlways == Spec => []AbsentUnchosen
  <1>1. Init => AbsentUnchosen
    BY DEF Init, AbsentUnchosen
  <1>2. ASSUME IInv, AbsentUnchosen, [Next]_vars PROVE AbsentUnchosen'
    <2> SUFFICES ASSUME NEW r \in Revisions, NEW p \in Period, header'[r].status = "ABSENT"
                 PROVE  chosen'[r][p] = {}
      BY DEF AbsentUnchosen
    <2>1. CASE UNCHANGED table
      BY <1>2, <2>1 DEF AbsentUnchosen, table
    <2>2. ASSUME NEW q \in Clients, Commits(q) PROVE chosen'[r][p] = {}
      <3>1. CASE CommitItem(q) \/ CommitCancel(q)
        <4>1. UNCHANGED chosen
          BY <3>1 DEF CommitItem, CommitCancel
        <4>2. header[r].status = "ABSENT"
          BY <1>2, <3>1, Parts DEF CommitItem, CommitCancel, TypeOK, Cancelled
        <4> QED BY <1>2, <4>1, <4>2 DEF AbsentUnchosen
      <3>2. CASE CommitAdd(q)
        BY <1>2, <3>2, CommitAddEffect DEF AbsentUnchosen, IsActive
      <3>3. CASE CommitCreate(q) \/ CommitConfigure(q)
        <4>1. PICK new \in Revisions :
                /\ header'[new] = FirstVersion(req[q].mode)
                /\ \A u \in Revisions \ {new} :
                     /\ chosen'[u] = chosen[u]
                     /\ header'[u] = header[u] \/ header'[u] = Cancelled(header[u])
          BY <1>2, <3>3, InsertEffect
        <4>2. r # new /\ header'[r] # Cancelled(header[r])
          BY <4>1 DEF FirstVersion, Cancelled
        <4> QED BY <1>2, <4>1, <4>2 DEF AbsentUnchosen
      <3> QED BY <2>2, <3>1, <3>2, <3>3 DEF Commits
    <2> QED BY <1>2, <2>1, <2>2, OnlyCommitsWrite
  <1> QED BY <1>1, <1>2, LockDiscipline, PTL DEF Spec

(* SnapshotsAreCurrent, one revision and one period at a time.             *)
Appears(r, p, t) == ~Exists(items[r][<<p, t>>]) /\ Exists(items'[r][<<p, t>>])

ShowsCatalogue(r, p) ==
    /\ \A c \in NewlyChosen(r, p) : category[c] = "ACTIVE"
    /\ \A t \in Tools :
        /\ Appears(r, p, t) <=> t \in ToolsOnOffer(NewlyChosen(r, p))
        /\ Appears(r, p, t) => items'[r][<<p, t>>].stock = tool[t].stock

(* Where no category is chosen and no item appears there is nothing new.   *)
LEMMA NothingNew ==
    ASSUME AbsentUnchosen, NEW r \in Revisions, NEW p \in Period,
           chosen'[r][p] = chosen[r][p], \A t \in Tools : ~Appears(r, p, t)
    PROVE  ShowsCatalogue(r, p)
  <1>1. NewlyChosen(r, p) = {}
    BY DEF NewlyChosen, AbsentUnchosen
  <1> QED BY <1>1 DEF ShowsCatalogue, ToolsOnOffer

(* Among the rows on offer in some categories, those of a tool show the    *)
(* tool as it is.                                                          *)
LEMMA OfferShowsTools ==
    ASSUME NEW all, NEW cats \in SUBSET all, NEW t \in Tools
    PROVE  /\ RowsIn(RowsOnOffer(all), t, cats) # {} <=> t \in ToolsOnOffer(cats)
           /\ \A row \in RowsIn(RowsOnOffer(all), t, cats) : row.stock = tool[t].stock
  <1>1. \A row \in RowsIn(RowsOnOffer(all), t, cats) :
            row = RowOf(t) /\ t \in ToolsOnOffer(all) /\ row.category \in cats
    BY DEF RowsIn, RowsOnOffer, RowOf
  <1>2. RowOf(t).stock = tool[t].stock /\ RowOf(t).category = tool[t].category
    BY DEF RowOf
  <1>3. ASSUME t \in ToolsOnOffer(cats) PROVE RowOf(t) \in RowsIn(RowsOnOffer(all), t, cats)
    BY <1>3 DEF RowsIn, RowsOnOffer, RowOf, ToolsOnOffer
  <1>4. ASSUME NEW row \in RowsIn(RowsOnOffer(all), t, cats) PROVE t \in ToolsOnOffer(cats)
    BY <1>1, <1>2, <1>4 DEF ToolsOnOffer
  <1> QED BY <1>1, <1>2, <1>3, <1>4

LEMMA CommitItemShows ==
    ASSUME IInv, AbsentUnchosen, NEW q \in Clients, CommitItem(q),
           NEW r \in Revisions, NEW p \in Period
    PROVE  ShowsCatalogue(r, p)
  <1>1. ASSUME NEW t \in Tools PROVE ~Appears(r, p, t)
    <2>1. <<p, t>> \in Slot
      BY DEF Slot
    <2>2. Exists(items[req[q].rev][req[q].slot])
      BY Parts DEF CommitItem, At, Within, Knows, Acceptable
    <2>3. \/ r = req[q].rev /\ <<p, t>> = req[q].slot
          \/ items'[r][<<p, t>>] = items[r][<<p, t>>]
      BY <2>1, CommitItemEffect
    <2> QED BY <2>2, <2>3 DEF Appears
  <1> QED BY <1>1, NothingNew DEF CommitItem

LEMMA CancelShows ==
    ASSUME AbsentUnchosen, UNCHANGED <<chosen, items>>, NEW r \in Revisions, NEW p \in Period
    PROVE  ShowsCatalogue(r, p)
  BY NothingNew DEF Appears

LEMMA CommitAddShows ==
    ASSUME IInv, CatalogueHeld, AbsentUnchosen, NEW q \in Clients, CommitAdd(q),
           NEW r \in Revisions, NEW p \in Period
    PROVE  ShowsCatalogue(r, p)
  <1> DEFINE cats == req[q].cats
             rows == txn[q].rows
             old  == items[r]
  <1>1. PICK u \in Revisions :
          txn[q].rev = {u} /\ IsActive(u) /\ Addable(u, req[q].period, cats)
    BY Parts DEF CommitAdd, At, Within, Knows
  <1>2. /\ chosen' = [chosen EXCEPT ![u][req[q].period] = @ \cup cats]
        /\ items' = [items EXCEPT ![u] = WithNewRows(@, req[q].period, rows, cats)]
    BY <1>1 DEF CommitAdd
  <1>3. CASE ~(r = u /\ p = req[q].period)
    <2>1. chosen'[r][p] = chosen[r][p]
      BY <1>2, <1>3, Parts DEF TypeOK
    <2>2. ASSUME NEW t \in Tools PROVE items'[r][<<p, t>>] = items[r][<<p, t>>]
      <3>1. <<p, t>> \in Slot /\ <<p, t>>[1] = p
        BY DEF Slot
      <3>2. CASE r # u
        BY <1>2, <3>2, Parts DEF TypeOK
      <3>3. CASE r = u
        <4>1. items'[r][<<p, t>>] = WithNewRows(items[r], req[q].period, rows, cats)[<<p, t>>]
          BY <1>2, <3>3, Parts DEF TypeOK
        <4> QED BY <1>3, <3>1, <3>3, <4>1 DEF WithNewRows
      <3> QED BY <3>2, <3>3
    <2> QED BY <2>1, <2>2, NothingNew DEF Appears
  <1>4. CASE r = u /\ p = req[q].period
    <2>1. /\ rows = RowsOnOffer(cats)
          /\ \A c \in cats : category[c] = "ACTIVE"
      BY DEF CommitAdd, At, CatalogueHeld, HoldsCatalogue, Snapshotting, Within,
             SnapshotCategories, Requested, Usable
    <2>2. NewlyChosen(r, p) = cats
      <3>1. chosen'[r][p] = chosen[r][p] \cup cats /\ chosen[r][p] \cap cats = {}
        BY <1>1, <1>2, <1>4, Parts DEF TypeOK, Addable
      <3>2. header[r].status # "ABSENT"
        BY <1>1, <1>4 DEF IsActive
      <3> QED BY <3>1, <3>2 DEF NewlyChosen
    <2>3. ASSUME NEW t \in Tools
          PROVE  /\ Appears(r, p, t) <=> t \in ToolsOnOffer(cats)
                 /\ Appears(r, p, t) => items'[r][<<p, t>>].stock = tool[t].stock
      <3> DEFINE mine == RowsIn(rows, t, cats)
      <3>1. <<p, t>> \in Slot /\ <<p, t>>[1] = p /\ <<p, t>>[2] = t
        BY DEF Slot
      <3>2. items'[r][<<p, t>>] = IF mine # {} THEN NewItem(StockOf(mine), NoItem)
                                  ELSE items[r][<<p, t>>]
        <4>1. items'[r] = WithNewRows(items[r], p, rows, cats)
          BY <1>2, <1>4, Parts DEF TypeOK
        <4>2. WithNewRows(items[r], p, rows, cats)[<<p, t>>] =
                IF mine # {} THEN NewItem(StockOf(mine), NoItem) ELSE items[r][<<p, t>>]
          BY <3>1 DEF WithNewRows
        <4> QED BY <4>1, <4>2
      <3>3. (mine # {} <=> t \in ToolsOnOffer(cats)) /\ \A row \in mine : row.stock = tool[t].stock
        BY <2>1, OfferShowsTools
      <3>4. ASSUME mine # {}
            PROVE  Appears(r, p, t) /\ items'[r][<<p, t>>].stock = tool[t].stock
        <4>1. PICK row \in mine : row.id = t
          BY <3>4 DEF RowsIn
        <4>2. row \in rows
          BY <4>1 DEF RowsIn
        <4>3. ~Exists(items[r][<<p, t>>])
          BY <1>1, <1>4, <4>1, <4>2, Parts DEF CommitAdd, At, Knows
        <4>4. mine \in SUBSET LockedTool
          BY Parts DEF TypeOK, Txn, RowsIn
        <4>5. StockOf(mine) = tool[t].stock /\ StockOf(mine) \in 0..MaxStock
          BY <3>3, <3>4, <4>4, StockOfType
        <4>6. items'[r][<<p, t>>] = NewItem(tool[t].stock, NoItem) /\ tool[t].stock \in 0..MaxStock
          BY <3>2, <3>4, <4>5
        <4> QED BY <4>3, <4>6, NewItemCarries, NullTypes DEF Appears
      <3>5. ASSUME mine = {} PROVE ~Appears(r, p, t)
        BY <3>2, <3>5 DEF Appears
      <3> QED BY <3>3, <3>4, <3>5
    <2> QED BY <2>1, <2>2, <2>3 DEF ShowsCatalogue
  <1> QED BY <1>3, <1>4

LEMMA InsertShows ==
    ASSUME IInv, CatalogueHeld, AbsentUnchosen, AbsentEmpty, NEW q \in Clients,
           CommitCreate(q) \/ CommitConfigure(q), NEW r \in Revisions, NEW p \in Period
    PROVE  ShowsCatalogue(r, p)
  <1>0. /\ req[q].sel \in [Period -> SUBSET Categories]
        /\ txn[q].rows \in SUBSET LockedTool
        /\ txn[q].kept \in [Slot -> ItemRow]
    BY InsertEffect
  <1>1. PICK new \in Revisions :
          /\ header[new].status = "ABSENT"
          /\ chosen'[new] = req[q].sel
          /\ items'[new] = Snapshot(req[q].sel, txn[q].rows, txn[q].kept)
          /\ \A u \in Revisions \ {new} : chosen'[u] = chosen[u] /\ items'[u] = items[u]
    BY InsertEffect
  <1>2. CASE r # new
    BY <1>1, <1>2, NothingNew DEF Appears
  <1>3. CASE r = new
    <2> DEFINE sel  == req[q].sel
               all  == SnapshotCategories(req[q])
               mine == sel[p] \cup {Common}
    <2>1. txn[q].rows = RowsOnOffer(all) /\ Usable(Requested(req[q])) /\ CommonUsable(req[q])
      BY DEF CommitCreate, CommitConfigure, At, CatalogueHeld, HoldsCatalogue, Snapshotting, Within
    <2>2. sel[p] \subseteq Requested(req[q]) /\ Requested(req[q]) \cup {Common} = all
            /\ category[Common] = "ACTIVE"
      BY <2>1 DEF CommitCreate, CommitConfigure, At, Requested, SnapshotCategories, CommonUsable
    <2>3. NewlyChosen(r, p) = IF sel[p] # {} THEN mine ELSE {}
      <3>1. chosen'[r][p] = sel[p] /\ chosen[r][p] = {} /\ header[r].status = "ABSENT"
        BY <1>1, <1>3 DEF AbsentUnchosen
      <3> QED BY <3>1 DEF NewlyChosen
    <2>4. \A c \in NewlyChosen(r, p) : category[c] = "ACTIVE"
      BY <2>1, <2>2, <2>3 DEF Usable
    <2>5. ASSUME NEW t \in Tools
          PROVE  /\ Appears(r, p, t) <=> t \in ToolsOnOffer(NewlyChosen(r, p))
                 /\ Appears(r, p, t) => items'[r][<<p, t>>].stock = tool[t].stock
      <3> DEFINE s == <<p, t>>
      <3>1. s \in Slot /\ s[1] = p /\ s[2] = t
        BY DEF Slot
      <3>2. ~Exists(items[r][s])
        BY <1>1, <1>3, <3>1 DEF AbsentEmpty
      <3>3. RowsOfSlot(sel, txn[q].rows, s) = RowsIn(RowsOnOffer(all), t, mine)
        BY <2>1, <3>1 DEF RowsOfSlot
      <3>4. /\ RowsOfSlot(sel, txn[q].rows, s) # {} <=> t \in ToolsOnOffer(mine)
            /\ \A row \in RowsOfSlot(sel, txn[q].rows, s) : row.stock = tool[t].stock
        <4>1. mine \in SUBSET all
          BY <2>2
        <4> HIDE DEF mine, all
        <4> QED BY <3>3, <4>1, OfferShowsTools
      <3>5. HasRows(sel, txn[q].rows, s) <=> t \in ToolsOnOffer(NewlyChosen(r, p))
        BY <2>3, <3>1, <3>4 DEF HasRows, ToolsOnOffer
      <3>6. ASSUME HasRows(sel, txn[q].rows, s)
            PROVE  Appears(r, p, t) /\ items'[r][s].stock = tool[t].stock
        <4>1. FilledFrom(items'[r][s], RowsOfSlot(sel, txn[q].rows, s), txn[q].kept[s])
          BY <1>0, <1>1, <1>3, <3>1, <3>6, SnapshotSlot
        <4>2. items'[r][s] = NewItem(tool[t].stock, txn[q].kept[s]) /\ tool[t].stock \in 0..MaxStock
          BY <3>4, <4>1 DEF FilledFrom
        <4>3. txn[q].kept[s] \in ItemRow
          BY <1>0, <3>1
        <4> QED BY <3>2, <4>2, <4>3, NewItemCarries DEF Appears
      <3>7. ASSUME ~HasRows(sel, txn[q].rows, s) PROVE ~Appears(r, p, t)
        <4>1. items'[r][s] = NoItem
          BY <1>0, <1>1, <1>3, <3>1, <3>7, SnapshotSlot
        <4> QED BY <4>1 DEF Appears, Exists, NoItem
      <3> QED BY <3>5, <3>6, <3>7
    <2> QED BY <2>4, <2>5 DEF ShowsCatalogue
  <1> QED BY <1>2, <1>3

(* A snapshot shows the catalogue of the moment it becomes visible, however*)
(* long its handler waited and whatever administrators asked for meanwhile:*)
(* its new categories are active, the items that appear are exactly those  *)
(* of their active tools, with the present stock.                          *)
THEOREM SnapshotsAreCurrentAlways == Spec => SnapshotsAreCurrent
  <1>1. ASSUME IInv, CatalogueHeld, AbsentUnchosen, AbsentEmpty, [Next]_vars,
               NEW r \in Revisions, NEW p \in Period
        PROVE  ShowsCatalogue(r, p)
    <2>1. CASE UNCHANGED table
      BY <1>1, <2>1, CancelShows DEF table
    <2>2. ASSUME NEW q \in Clients, Commits(q) PROVE ShowsCatalogue(r, p)
      BY <1>1, <2>2, CommitItemShows, CommitAddShows, InsertShows, CancelShows
         DEF Commits, CommitCancel
    <2> QED BY <1>1, <2>1, <2>2, OnlyCommitsWrite
  <1>2. IInv /\ CatalogueHeld /\ AbsentUnchosen /\ AbsentEmpty /\ [Next]_vars =>
            \A r \in Revisions, p \in Period :
              /\ \A c \in NewlyChosen(r, p) : category[c] = "ACTIVE"
              /\ \A t \in Tools :
                  LET appears == ~Exists(items[r][<<p, t>>]) /\ Exists(items'[r][<<p, t>>])
                  IN  /\ appears <=> t \in ToolsOnOffer(NewlyChosen(r, p))
                      /\ appears => items'[r][<<p, t>>].stock = tool[t].stock
    BY <1>1 DEF ShowsCatalogue, Appears
  <1> QED BY <1>2, LockDiscipline, CatalogueHeldAlways, AbsentUnchosenAlways,
             AbsentEmptyAlways, PTL DEF Spec, SnapshotsAreCurrent

-----------------------------------------------------------------------------
(* The handlers implement AtomicChecklist: every commit is the effect of   *)
(* its request on the table and the catalogue of that instant.             *)

LEMMA AtomicOffer ==
    ASSUME NEW t \in Tools, NEW cats
    PROVE  Atomic!Offered(t, cats) <=> t \in ToolsOnOffer(cats)
  BY DEF Atomic!Offered, ToolsOnOffer

LEMMA AtomicEmpty == Atomic!NoItem = NoItem /\ Atomic!Empty = NoItems
  BY DEF Atomic!NoItem, Atomic!Empty, NoItem, NoItems, Slot

LEMMA AtomicItem ==
    ASSUME tool \in [Tools -> ToolRow], NEW t \in Tools, NEW old \in ItemRow
    PROVE  Atomic!ItemOf(t, old) = NewItem(tool[t].stock, old)
  <1> DEFINE stock == tool[t].stock
             carried == old.version # 0 /\ old.qty <= stock
  <1>1. Atomic!ItemOf(t, old) = [stock |-> stock, qty |-> IF carried THEN old.qty ELSE 0,
                                 checked |-> carried /\ old.checked, version |-> 1]
    BY DEF Atomic!ItemOf, Atomic!Exists
  <1>2. NewItem(stock, old) =
          IF carried
          THEN [stock |-> stock, qty |-> old.qty, checked |-> old.checked, version |-> 1]
          ELSE [stock |-> stock, qty |-> 0, checked |-> FALSE, version |-> 1]
    BY DEF NewItem, Exists
  <1>3. old.checked \in BOOLEAN
    BY DEF ItemRow
  <1>4. CASE carried
    <2>1. (carried /\ old.checked) = old.checked
      BY <1>3, <1>4
    <2> QED BY <1>1, <1>2, <1>4, <2>1
  <1>5. CASE ~carried
    <2>1. (carried /\ old.checked) = FALSE
      BY <1>5
    <2> QED BY <1>1, <1>2, <1>5, <2>1
  <1> QED BY <1>4, <1>5

(* Locked rows that are the rows on offer make the items of the instant.   *)
LEMMA AtomicStock ==
    ASSUME tool \in [Tools -> ToolRow], NEW all, NEW cats \in SUBSET all, NEW t \in Tools
    PROVE  LET mine == RowsIn(RowsOnOffer(all), t, cats) IN
           /\ mine # {} <=> Atomic!Offered(t, cats)
           /\ mine # {} => StockOf(mine) = tool[t].stock
  <1> DEFINE mine == RowsIn(RowsOnOffer(all), t, cats)
  <1>1. /\ mine # {} <=> t \in ToolsOnOffer(cats)
        /\ \A row \in mine : row.stock = tool[t].stock
    <2>1. cats \in SUBSET all /\ t \in Tools
      OBVIOUS
    <2>2. mine # {} <=> t \in ToolsOnOffer(cats)
      BY <2>1, OfferShowsTools
    <2>3. \A row \in mine : row = RowOf(t)
      BY DEF RowsIn, RowsOnOffer, RowOf
    <2> QED BY <2>2, <2>3 DEF RowOf
  <1>2. mine \in SUBSET LockedTool
    BY RowsOnOfferType DEF RowsIn
  <1>3. mine # {} => StockOf(mine) = tool[t].stock
    BY <1>1, <1>2, StockOfType
  <1> QED BY <1>1, <1>3, AtomicOffer

LEMMA AtomicSnapshot ==
    ASSUME tool \in [Tools -> ToolRow], NEW all, NEW sel, NEW old \in [Slot -> ItemRow],
           \A p \in Period : sel[p] \cup {Common} \subseteq all
    PROVE  Snapshot(sel, RowsOnOffer(all), old) = Atomic!ItemsOf(sel, old)
  <1>1. ASSUME NEW s \in Slot
        PROVE  Snapshot(sel, RowsOnOffer(all), old)[s] = Atomic!ItemsOf(sel, old)[s]
    <2> DEFINE cats == sel[s[1]] \cup {Common}
               mine == RowsIn(RowsOnOffer(all), s[2], cats)
    <2>1. s[1] \in Period /\ s[2] \in Tools /\ old[s] \in ItemRow
      BY DEF Slot
    <2>2. cats \in SUBSET all
      BY <2>1
    <2>3. Snapshot(sel, RowsOnOffer(all), old)[s] =
            IF sel[s[1]] # {} /\ mine # {} THEN NewItem(StockOf(mine), old[s]) ELSE NoItem
      BY DEF Snapshot
    <2>4. Atomic!ItemsOf(sel, old)[s] =
            IF sel[s[1]] # {} /\ Atomic!Offered(s[2], cats)
            THEN Atomic!ItemOf(s[2], old[s]) ELSE Atomic!NoItem
      BY DEF Atomic!ItemsOf, Slot
    <2>5. /\ mine # {} <=> Atomic!Offered(s[2], cats)
          /\ mine # {} => StockOf(mine) = tool[s[2]].stock
      <3> HIDE DEF cats
      <3> QED BY <2>1, <2>2, AtomicStock
    <2>6. Atomic!ItemOf(s[2], old[s]) = NewItem(tool[s[2]].stock, old[s])
      BY <2>1, AtomicItem
    <2> HIDE DEF cats, mine
    <2> QED BY <2>3, <2>4, <2>5, <2>6, AtomicEmpty
  <1>2. Snapshot(sel, RowsOnOffer(all), old) =
          [s \in Slot |-> Snapshot(sel, RowsOnOffer(all), old)[s]]
    BY DEF Snapshot
  <1>3. Atomic!ItemsOf(sel, old) = [s \in Slot |-> Atomic!ItemsOf(sel, old)[s]]
    BY DEF Atomic!ItemsOf, Slot
  <1> QED BY <1>1, <1>2, <1>3

LEMMA AtomicMakes ==
    ASSUME IInv, CatalogueHeld, NEW q \in Clients, CommitCreate(q) \/ CommitConfigure(q),
           NEW r \in Revisions, InsertRevision(r, req[q], txn[q])
    PROVE  Atomic!MakeTable(r, req[q], txn[q].kept)
  <1> DEFINE sel == req[q].sel
             all == SnapshotCategories(req[q])
  <1>1. txn[q].rows = RowsOnOffer(all) /\ Usable(Requested(req[q])) /\ CommonUsable(req[q])
    BY DEF CommitCreate, CommitConfigure, At, CatalogueHeld, HoldsCatalogue, Snapshotting, Within
  <1>2. /\ Requested(req[q]) = UNION {sel[p] : p \in Period}
        /\ all = Requested(req[q]) \cup {Common}
        /\ category[Common] = "ACTIVE"
    BY <1>1 DEF CommitCreate, CommitConfigure, At, Requested, SnapshotCategories, CommonUsable
  <1>3. \A p \in Period : Atomic!Open(sel[p])
    BY <1>1, <1>2 DEF Usable, Atomic!Open
  <1>4. \A p \in Period : sel[p] \cup {Common} \subseteq all
    BY <1>2
  <1>5. tool \in [Tools -> ToolRow] /\ txn[q].kept \in [Slot -> ItemRow]
    BY Parts DEF TypeOK, Txn
  <1>6. Snapshot(sel, txn[q].rows, txn[q].kept) = Atomic!ItemsOf(sel, txn[q].kept)
    <2> HIDE DEF sel, all
    <2> QED BY <1>1, <1>4, <1>5, AtomicSnapshot
  <1> QED BY <1>2, <1>3, <1>6 DEF InsertRevision, Atomic!MakeTable

(* Up to its commit a handler only reads: others see it go on or be        *)
(* refused.                                                                *)
LEMMA ReadsOnly ==
    ASSUME TypeOK, NEW q \in Clients, Handle(q) \/ Abort(q), ~Commits(q)
    PROVE  /\ UNCHANGED <<table, catalog, past>>
           /\ pc[q] # "idle"
           /\ Finish(q) \/ UNCHANGED req
  <1>1. CASE Create(q) \/ Abort(q)
    BY <1>1 DEF Create, Abort, Commits, FindExisting, FindNone, InsertHeader, LoseInsert,
       Reread, Answer, Goto, At, InTransaction
  <1>2. CASE TakeRows(q)
    BY <1>2 DEF TakeRows, LockCategories, LockTools, Answer, Goto, Within
  <1>3. CASE UpdateItem(q)
    BY <1>3 DEF UpdateItem, Commits, LockHeaderForItem, UpdateRow, Answer, Goto, At
  <1>4. CASE AddCategories(q)
    BY <1>4 DEF AddCategories, Commits, LockHeaderForAdd, Answer, Goto, At
  <1>5. CASE UpdateConfiguration(q) \/ Cancel(q)
    BY <1>5 DEF UpdateConfiguration, Cancel, Commits, LockHeaderForConfigure,
       LockHeaderForCancel, Answer, Goto, At
  <1> QED BY <1>1, <1>2, <1>3, <1>4, <1>5 DEF Handle

(* What a step is to the users of the work date.                           *)
AtomicStep == Atomic!Next \/ UNCHANGED Atomic!vars

LEMMA AtomicRefusal ==
    ASSUME TypeOK, NEW q \in Clients, Handle(q) \/ Abort(q), ~Commits(q)
    PROVE  AtomicStep
  <1>1. UNCHANGED <<header, chosen, items, category, tool, past>> /\ req[q] # NoRequest
    BY ReadsOnly DEF TypeOK, table, catalog
  <1>2. CASE UNCHANGED req
    BY <1>1, <1>2 DEF AtomicStep, Atomic!vars, Atomic!table
  <1>3. CASE Finish(q)
    <2>1. Atomic!Refuse(q)
      BY <1>1, <1>3 DEF Atomic!Refuse, Atomic!table, Finish
    <2> QED BY <2>1 DEF AtomicStep, Atomic!Next
  <1> QED BY <1>2, <1>3, ReadsOnly

LEMMA AtomicAdmission ==
    ASSUME TypeOK, NEW q \in Clients, Receive(q)
    PROVE  AtomicStep
  <1>1. PICK m \in Requests : Submit(q, m)
    BY DEF Receive
  <1>2. Atomic!WholeDay(m)
    BY <1>1 DEF Submit, RightPeriods, PeriodsOf, Atomic!WholeDay
  <1>3. req[q] = NoRequest /\ ~past /\ req' = [req EXCEPT ![q] = m]
    BY <1>1 DEF Submit, TypeOK, EditableDate
  <1>4. Atomic!Admit(q)
    BY <1>1, <1>2, <1>3 DEF Submit, table, catalog, Atomic!Admit, Atomic!table
  <1> QED BY <1>4 DEF AtomicStep, Atomic!Next

LEMMA AtomicElsewhere ==
    ASSUME Administer \/ Midnight
    PROVE  AtomicStep
  <1>1. UNCHANGED <<table, req>>
    BY Zenon DEF Administer, Midnight, UpdateTool, ActivateTool, DeactivateTool,
       ActivateCategory, DeactivateCategory
  <1>2. CASE Administer
    <2>1. UNCHANGED past
      BY <1>2, Zenon DEF Administer, UpdateTool, ActivateTool, DeactivateTool,
         ActivateCategory, DeactivateCategory
    <2> QED BY <1>1, <2>1 DEF AtomicStep, Atomic!Next, Atomic!Elsewhere, Atomic!table, table
  <1>3. CASE Midnight
    BY <1>1, <1>3 DEF Midnight, AtomicStep, Atomic!Next, Atomic!Elsewhere, Atomic!table, table
  <1> QED BY <1>2, <1>3

LEMMA AtomicInit == Init => Atomic!Init
  BY AtomicEmpty DEF Init, Atomic!Init, NoHeader

(* A commit that has the effect of its request serves it.                  *)
LEMMA AtomicService ==
    ASSUME TypeOK, NEW q \in Clients, Commits(q),
           \/ Atomic!Create(req[q]) \/ Atomic!Save(req[q]) \/ Atomic!Add(req[q])
           \/ Atomic!Replace(req[q]) \/ Atomic!Delete(req[q])
    PROVE  AtomicStep
  <1>1. Finish(q) /\ UNCHANGED <<category, tool, past>> /\ pc[q] # "idle"
    BY DEF Commits, CommitCreate, CommitItem, CommitAdd, CommitConfigure, CommitCancel,
       Answer, At, catalog
  <1>2. Atomic!Serve(q)
    BY <1>1 DEF Atomic!Serve, Finish, TypeOK
  <1> QED BY <1>2 DEF AtomicStep, Atomic!Next

LEMMA AtomicCreate ==
    ASSUME IInv, CatalogueHeld, BodiesSound, NEW q \in Clients, CommitCreate(q)
    PROVE  Atomic!Create(req[q])
  <1>1. PICK r \in Revisions :
            /\ InsertRevision(r, req[q], txn[q])
            /\ header' = [header EXCEPT ![r] = FirstVersion(req[q].mode)]
    BY DEF CommitCreate
  <1>2. Atomic!MakeTable(r, req[q], Atomic!Empty)
    BY <1>1, AtomicMakes, AtomicEmpty DEF BodiesSound, CommitCreate, At
  <1>3. \A o \in Revisions : ~Atomic!IsCurrent(o)
    BY Parts DEF CommitCreate, Knows, IsActive, Atomic!IsCurrent
  <1> QED BY <1>1, <1>2, <1>3 DEF CommitCreate, At, Atomic!Create, FirstVersion, Atomic!New

LEMMA AtomicSave ==
    ASSUME IInv, NEW q \in Clients, CommitItem(q)
    PROVE  Atomic!Save(req[q])
  <1> DEFINE m == req[q]
             old == items[m.rev][m.slot]
  <1>1. m \in ItemRequest /\ m.op = "item"
    BY RequestByOp, Parts DEF CommitItem, At, TypeOK
  <1>2. Acceptable(m) /\ old.version = m.version
    BY Parts DEF CommitItem, At, Within, Knows
  <1>3. /\ Atomic!IsCurrent(m.rev) /\ Atomic!Exists(old) /\ m.qty <= old.stock
        /\ m.checked => m.qty # 0
    BY <1>2 DEF Acceptable, IsActive, Exists, Atomic!IsCurrent, Atomic!Exists
  <1>4. items' = [items EXCEPT ![m.rev][m.slot] = Saved(old, m)]
    BY <1>1, Parts DEF CommitItem, TypeOK, ItemRequest
  <1> QED BY <1>1, <1>2, <1>3, <1>4 DEF CommitItem, Saved, Atomic!Save

(* Who owns the header may end the table.                                  *)
LEMMA AtomicEnd ==
    ASSUME IInv, NEW q \in Clients, CommitConfigure(q) \/ CommitCancel(q)
    PROVE  Atomic!MayEnd(req[q])
  <1>1. CurrentRevision(req[q]) /\ LossConfirmed(req[q])
    BY Parts DEF CommitConfigure, CommitCancel, At, Within, Knows
  <1> QED BY <1>1 DEF CurrentRevision, IsActive, LossConfirmed, Entered, Slot,
             Atomic!MayEnd, Atomic!IsCurrent

LEMMA AtomicReplace ==
    ASSUME IInv, CatalogueHeld, NEW q \in Clients, CommitConfigure(q)
    PROVE  Atomic!Replace(req[q])
  <1>1. PICK r \in Revisions :
            /\ InsertRevision(r, req[q], txn[q])
            /\ header' = [header EXCEPT ![r] = FirstVersion(req[q].mode),
                                        ![req[q].rev] = Cancelled(@)]
    BY DEF CommitConfigure
  <1>2. Atomic!MakeTable(r, req[q], items[req[q].rev])
    BY <1>1, AtomicMakes, Parts DEF CommitConfigure, At, Within, Knows
  <1>3. header' = [header EXCEPT ![r] = Atomic!New(req[q].mode),
                                 ![req[q].rev] = Atomic!Ended(@)]
    BY <1>1 DEF FirstVersion, Cancelled, Atomic!New, Atomic!Ended
  <1> QED BY <1>2, <1>3, AtomicEnd DEF CommitConfigure, At, Atomic!Replace

LEMMA AtomicDelete ==
    ASSUME IInv, NEW q \in Clients, CommitCancel(q)
    PROVE  Atomic!Delete(req[q])
  BY AtomicEnd DEF CommitCancel, At, Cancelled, Atomic!Ended, Atomic!Delete

(* The items of a period with those of cats added at this instant.         *)
AtomicAdded(old, p, cats) ==
    [s \in Period \X Tools |->
        IF s[1] = p /\ Atomic!Offered(s[2], cats)
        THEN Atomic!ItemOf(s[2], Atomic!NoItem) ELSE old[s]]

LEMMA AtomicRows ==
    ASSUME tool \in [Tools -> ToolRow], NEW cats, NEW p, NEW old
    PROVE  WithNewRows(old, p, RowsOnOffer(cats), cats) = AtomicAdded(old, p, cats)
  <1>1. ASSUME NEW s \in Slot
        PROVE  WithNewRows(old, p, RowsOnOffer(cats), cats)[s] = AtomicAdded(old, p, cats)[s]
    <2> DEFINE mine == RowsIn(RowsOnOffer(cats), s[2], cats)
    <2>1. s[2] \in Tools /\ cats \in SUBSET cats
      BY DEF Slot
    <2>2. /\ mine # {} <=> Atomic!Offered(s[2], cats)
          /\ mine # {} => StockOf(mine) = tool[s[2]].stock
      BY <2>1, AtomicStock
    <2>3. Atomic!ItemOf(s[2], Atomic!NoItem) = NewItem(tool[s[2]].stock, NoItem)
      BY <2>1, AtomicItem, AtomicEmpty, NullTypes
    <2>4. WithNewRows(old, p, RowsOnOffer(cats), cats)[s] =
            IF s[1] = p /\ mine # {} THEN NewItem(StockOf(mine), NoItem) ELSE old[s]
      BY DEF WithNewRows
    <2>5. AtomicAdded(old, p, cats)[s] =
            IF s[1] = p /\ Atomic!Offered(s[2], cats)
            THEN Atomic!ItemOf(s[2], Atomic!NoItem) ELSE old[s]
      BY DEF AtomicAdded, Slot
    <2> HIDE DEF mine
    <2> QED BY <2>2, <2>3, <2>4, <2>5
  <1>2. WithNewRows(old, p, RowsOnOffer(cats), cats) =
          [s \in Slot |-> WithNewRows(old, p, RowsOnOffer(cats), cats)[s]]
    BY DEF WithNewRows
  <1>3. AtomicAdded(old, p, cats) = [s \in Slot |-> AtomicAdded(old, p, cats)[s]]
    BY DEF AtomicAdded, Slot
  <1> QED BY <1>1, <1>2, <1>3

LEMMA AtomicAdd ==
    ASSUME IInv, CatalogueHeld, NEW q \in Clients, CommitAdd(q)
    PROVE  Atomic!Add(req[q])
  <1> DEFINE p == req[q].period
             cats == req[q].cats
  <1>1. PICK r \in Revisions :
            txn[q].rev = {r} /\ IsActive(r) /\ Addable(r, p, cats)
    BY Parts DEF CommitAdd, At, Within, Knows
  <1>2. /\ UNCHANGED header
        /\ chosen' = [chosen EXCEPT ![r][p] = @ \cup cats]
        /\ items' = [items EXCEPT ![r] = WithNewRows(@, p, txn[q].rows, cats)]
    BY <1>1 DEF CommitAdd
  <1>3. Usable(cats) /\ txn[q].rows = RowsOnOffer(cats) /\ req[q].op = "add"
    BY DEF CatalogueHeld, HoldsCatalogue, Snapshotting, Within, CommitAdd, At, Requested,
       SnapshotCategories
  <1>4. items' = [items EXCEPT ![r] = AtomicAdded(items[r], p, cats)]
    <2>1. items' = [items EXCEPT ![r] = WithNewRows(items[r], p, RowsOnOffer(cats), cats)]
      BY <1>2, <1>3
    <2>2. tool \in [Tools -> ToolRow]
      BY Parts DEF TypeOK
    <2>3. WithNewRows(items[r], p, RowsOnOffer(cats), cats) = AtomicAdded(items[r], p, cats)
      BY <2>2, AtomicRows
    <2> QED BY <2>1, <2>3
  <1>5. ASSUME NEW t \in Tools, Atomic!Offered(t, cats)
        PROVE  ~Atomic!Exists(items[r][<<p, t>>])
    <2>1. RowOf(t) \in txn[q].rows /\ RowOf(t).id = t
      BY <1>3, <1>5, AtomicOffer DEF RowsOnOffer, RowOf
    <2>2. \A row \in txn[q].rows : ~Exists(items[r][<<p, row.id>>])
      BY <1>1, Parts DEF CommitAdd, At, Knows
    <2> QED BY <2>1, <2>2 DEF Exists, Atomic!Exists
  <1>6. Atomic!AddTo(r, p, cats)
    BY <1>1, <1>2, <1>4, <1>5 DEF Addable, AtomicAdded, Atomic!AddTo
  <1> QED BY <1>1, <1>2, <1>3, <1>6 DEF Usable, IsActive, Atomic!Open, Atomic!IsCurrent,
             Atomic!Add

(* Overlapping transactions amount to requests served one at a time: what  *)
(* the row locks, the conditional UPDATE and the unique key are for.       *)
THEOREM ServedAtomicallyAlways == Spec => ServedAtomically
  <1>1. ASSUME IInv, CatalogueHeld, BodiesSound, NEW q \in Clients, Commits(q)
        PROVE  AtomicStep
    BY <1>1, AtomicService, AtomicCreate, AtomicSave, AtomicAdd, AtomicReplace,
       AtomicDelete, Parts DEF Commits
  <1>2. ASSUME IInv, CatalogueHeld, BodiesSound, Next
        PROVE  AtomicStep
    <2>1. ASSUME NEW q \in Clients, Receive(q) \/ Handle(q) \/ Abort(q)
          PROVE  AtomicStep
      BY <1>1, <1>2, <2>1, AtomicAdmission, AtomicRefusal, Parts
    <2> QED BY <1>2, <2>1, AtomicElsewhere DEF Next
  <1>3. ASSUME UNCHANGED vars PROVE AtomicStep
    BY <1>3 DEF vars, AtomicStep, Atomic!vars, Atomic!table
  <1>4. IInv /\ CatalogueHeld /\ BodiesSound /\ [Next]_vars => [Atomic!Next]_(Atomic!vars)
    BY <1>2, <1>3 DEF AtomicStep
  <1> QED BY <1>4, AtomicInit, LockDiscipline, CatalogueHeldAlways, BodiesSoundAlways,
             PTL DEF Spec, ServedAtomically, Atomic!Spec

=============================================================================
