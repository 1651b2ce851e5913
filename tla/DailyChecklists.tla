-------------------------- MODULE DailyChecklists --------------------------
(***************************************************************************)
(* The daily checklist of ONE work date, as the backend keeps it:          *)
(* src/backend/src/daily-checklists/daily-checklists.service.ts running on *)
(* MySQL 8.4 at REPEATABLE READ, together with the parts of the catalogue  *)
(* (tools.service.ts, categories.service.ts) it takes its snapshots from.  *)
(*                                                                         *)
(* Clients send requests; the handler of a request is a sequence of steps, *)
(* one per statement that takes a lock or whose timing matters, and the    *)
(* handlers interleave.  A handler's writes are invisible to the others    *)
(* until its transaction commits, so they are applied by its commit step.  *)
(*                                                                         *)
(* No variable holds the row locks: which locks a transaction has follows  *)
(* from how far it has got (SharesHeader, OwnsHeader, LocksPeriod, ...).   *)
(***************************************************************************)
EXTENDS Integers, FiniteSets

CONSTANTS
    Clients,      \* requests in flight at the same time (one per client)
    Revisions,    \* ids of checklist headers: a bound on how many are made
    Categories,   \* category ids
    Common,       \* the id of the single category of type COMMON
    Tools,        \* tool ids
    FirstTools,   \* the tool rows before the first request
    Selections,   \* the period -> categories bodies that clients send
    Additions,    \* the category sets that clients ask to add
    MaxStock,     \* bound on stock and takeout quantities
    MaxVersion,   \* bound on the item versions that requests carry
    Ops           \* the operations used: restricts a run to a question

Mode   == {"FULL_DAY", "SPLIT"}
Period == {"FULL_DAY", "MORNING", "AFTERNOON"}
Status == {"ACTIVE", "INACTIVE"}
Slot   == Period \X Tools

PeriodsOf(mode) ==
    IF mode = "FULL_DAY" THEN {"FULL_DAY"} ELSE {"MORNING", "AFTERNOON"}

ToolRow == [category : Categories, status : Status, stock : 0..MaxStock]

ASSUME ConstantsAssumption ==
    /\ Common \in Categories
    /\ MaxStock \in Nat
    /\ MaxVersion \in Nat
    /\ FirstTools \in [Tools -> ToolRow]
    /\ Selections \subseteq [Period -> SUBSET Categories]
    /\ Additions \subseteq (SUBSET Categories) \ {{}}

-----------------------------------------------------------------------------
(* Rows. A header that was never inserted has status "ABSENT", an item     *)
(* that was never inserted has version 0; inserted rows start at 1.        *)

Header  == [status : {"ABSENT", "ACTIVE", "CANCELLED"}, mode : Mode,
            version : Nat]
ItemRow == [stock : 0..MaxStock, qty : 0..MaxStock, checked : BOOLEAN,
            version : Nat]

NoHeader == [status |-> "ABSENT", mode |-> "FULL_DAY", version |-> 0]
NoItem   == [stock |-> 0, qty |-> 0, checked |-> FALSE, version |-> 0]
NoItems  == [s \in Slot |-> NoItem]

Exists(item) == item.version # 0

(* Request bodies.  A period that a body leaves out has no category.       *)

CreateRequest == [op : {"create"}, mode : Mode, sel : Selections]
ItemRequest   == [op : {"item"}, rev : Revisions, slot : Slot,
                  qty : 0..MaxStock, checked : BOOLEAN,
                  version : 1..MaxVersion]
AddRequest    == [op : {"add"}, period : Period, cats : Additions]
ConfigRequest == [op : {"configure"}, rev : Revisions, version : 1..2,
                  mode : Mode, sel : Selections, confirmed : BOOLEAN]
CancelRequest == [op : {"cancel"}, rev : Revisions, version : 1..2,
                  confirmed : BOOLEAN]
Request == CreateRequest \cup ItemRequest \cup AddRequest
             \cup ConfigRequest \cup CancelRequest

NoRequest == [op |-> "none"]

(* What a transaction remembers of what it read: the active header, the    *)
(* items of the revision it replaces, the tool rows it locked.             *)

LockedTool == [id : Tools, category : Categories, stock : 0..MaxStock]
Txn == [rev : SUBSET Revisions, kept : [Slot -> ItemRow],
        rows : SUBSET LockedTool]
NoTxn == [rev |-> {}, kept |-> NoItems, rows |-> {}]

Stage == {"idle", "begin", "categories", "tools", "insert", "update",
          "commit", "reread"}

VARIABLES
    category,  \* status of each category
    tool,      \* row of each tool
    header,    \* daily_checklists rows of the work date
    chosen,    \* daily_checklist_period_categories: revision, period -> ids
    items,     \* daily_checklist_items: revision, slot -> row
    past,      \* the work date lies before today in Tokyo
    req,       \* the request each client waits for
    pc,        \* how far its handler has got
    txn,       \* what its transaction has read
    unseen     \* history: <<period, category>> pairs other users added to the
               \* revision a configure or cancel request names, after it was sent

table   == <<header, chosen, items>>
catalog == <<category, tool>>
vars    == <<category, tool, header, chosen, items, past, req, pc, txn, unseen>>

TypeOK ==
    /\ category \in [Categories -> Status]
    /\ tool \in [Tools -> ToolRow]
    /\ header \in [Revisions -> Header]
    /\ chosen \in [Revisions -> [Period -> SUBSET Categories]]
    /\ items \in [Revisions -> [Slot -> ItemRow]]
    /\ past \in BOOLEAN
    /\ req \in [Clients -> Request \cup {NoRequest}]
    /\ pc \in [Clients -> Stage]
    /\ txn \in [Clients -> Txn]
    /\ unseen \in [Clients -> SUBSET (Period \X Categories)]
    /\ \A q \in Clients : req[q] = NoRequest <=> pc[q] = "idle"

Init ==
    /\ category = [c \in Categories |-> "ACTIVE"]
    /\ tool = FirstTools
    /\ header = [r \in Revisions |-> NoHeader]
    /\ chosen = [r \in Revisions |-> [p \in Period |-> {}]]
    /\ items = [r \in Revisions |-> NoItems]
    /\ past = FALSE
    /\ req = [q \in Clients |-> NoRequest]
    /\ pc = [q \in Clients |-> "idle"]
    /\ txn = [q \in Clients |-> NoTxn]
    /\ unseen = [q \in Clients |-> {}]

-----------------------------------------------------------------------------
(* Reading the state.                                                      *)

IsActive(r) == header[r].status = "ACTIVE"
Entered(r)  == \E s \in Slot : items[r][s].qty > 0 \/ items[r][s].checked

At(q, op, stage)      == req[q].op = op /\ pc[q] = stage
Within(q, ops, stages)  == req[q].op \in ops /\ pc[q] \in stages
InTransaction(q)      == pc[q] \notin {"idle", "reread"}

(* The categories a request names; create and configure add COMMON.        *)
Requested(m) == IF m.op = "add" THEN m.cats ELSE UNION {m.sel[p] : p \in Period}
SnapshotCategories(m) ==
    IF m.op = "add" THEN m.cats ELSE Requested(m) \cup {Common}

-----------------------------------------------------------------------------
(* Row locks.  A name with an underscore, here and below, is a faulty form *)
(* of the definition after it; the mutation runs put it in its place.      *)

SharesHeader_ItemReadsUnlocked(q) ==
    Within(q, {"add"}, {"categories", "tools", "commit"})

SharesHeader_AddReadsUnlocked(q) ==
    Within(q, {"item"}, {"update", "commit"})

SharesHeader(q) ==
    \/ Within(q, {"item"}, {"update", "commit"})
    \/ Within(q, {"add"}, {"categories", "tools", "commit"})

OwnsHeader_InsertUnseen(q) ==
    Within(q, {"configure", "cancel"}, {"categories", "tools", "commit"})

OwnsHeader(q) ==
    \/ Within(q, {"configure", "cancel"}, {"categories", "tools", "commit"})
    \/ Within(q, {"create"}, {"commit"})

LocksPeriod_None(q, p) == FALSE

LocksPeriod(q, p) ==
    /\ Within(q, {"add"}, {"categories", "tools", "commit"})
    /\ req[q].period = p

LocksItem_None(q, r, s) == FALSE

LocksItem(q, r, s) ==
    Within(q, {"item"}, {"commit"}) /\ req[q].rev = r /\ req[q].slot = s

LocksCategory(q, c) ==
    /\ Within(q, {"create", "configure", "add"}, {"tools", "insert", "commit"})
    /\ c \in Requested(req[q]) \cup {Common}

LocksTool_None(q, t) == FALSE

LocksTool(q, t) ==
    /\ Within(q, {"create", "configure", "add"}, {"insert", "commit"})
    /\ \E row \in txn[q].rows : row.id = t

Others(q) == Clients \ {q}

MayShareHeader(q) == \A o \in Others(q) : ~OwnsHeader(o)
MayOwnHeader(q)   == \A o \in Others(q) : ~OwnsHeader(o) /\ ~SharesHeader(o)

-----------------------------------------------------------------------------
(* Answering a request ends its transaction and releases its locks.        *)

Finish(q) ==
    /\ pc' = [pc EXCEPT ![q] = "idle"]
    /\ req' = [req EXCEPT ![q] = NoRequest]
    /\ txn' = [txn EXCEPT ![q] = NoTxn]

Answer(q) ==
    /\ Finish(q)
    /\ unseen' = [unseen EXCEPT ![q] = {}]

Goto(q, stage) ==
    /\ pc' = [pc EXCEPT ![q] = stage]
    /\ UNCHANGED <<req, unseen>>

(* What a client can have seen: headers and items that were inserted.      *)
Known(m) ==
    /\ m.op \in {"item", "configure", "cancel"} => header[m.rev].status # "ABSENT"
    /\ m.op = "item" => Exists(items[m.rev][m.slot])

RightPeriods(m) ==
    m.op \in {"create", "configure"} =>
        {p \in Period : m.sel[p] # {}} = PeriodsOf(m.mode)

(* Bound: every creation or replacement under way finds an unused id.      *)
RevisionsLeft(m) ==
    m.op \in {"create", "configure"} =>
        Cardinality({o \in Clients : req[o].op \in {"create", "configure"}})
          < Cardinality({r \in Revisions : header[r].status = "ABSENT"})

EditableDate_Unchecked == TRUE

EditableDate == ~past

(* A request reaches its handler; the checks made before the transaction   *)
(* (assertPeriodStructure, assertEditableDate) reject it without a trace.  *)
Submit(q, m) ==
    /\ pc[q] = "idle"
    /\ m.op \in Ops
    /\ Known(m)
    /\ RevisionsLeft(m)
    /\ RightPeriods(m)
    /\ EditableDate
    /\ req' = [req EXCEPT ![q] = m]
    /\ pc' = [pc EXCEPT ![q] = "begin"]
    /\ UNCHANGED <<table, catalog, past, txn, unseen>>

(* Deadlock victim, lock wait timeout, lost connection, full pool queue.   *)
Abort(q) ==
    /\ InTransaction(q)
    /\ Answer(q)
    /\ UNCHANGED <<table, catalog, past>>

-----------------------------------------------------------------------------
(* createOrGet                                                             *)

FindExisting(q) ==
    /\ At(q, "create", "begin")
    /\ \E r \in Revisions : IsActive(r)
    /\ Answer(q)
    /\ UNCHANGED <<table, catalog, past>>

FindNone(q) ==
    /\ At(q, "create", "begin")
    /\ ~\E r \in Revisions : IsActive(r)
    /\ Goto(q, "categories")
    /\ UNCHANGED <<table, catalog, past, txn>>

(* The INSERT waits for whoever is changing the active header, then the    *)
(* unique key on active_work_date decides.                                 *)
ActiveDateTaken_NoUniqueKey == FALSE

ActiveDateTaken == \E r \in Revisions : IsActive(r)

InsertHeader(q) ==
    /\ At(q, "create", "insert")
    /\ MayShareHeader(q)
    /\ ~ActiveDateTaken
    /\ Goto(q, "commit")
    /\ UNCHANGED <<table, catalog, past, txn>>

LoseInsert(q) ==
    /\ At(q, "create", "insert")
    /\ MayShareHeader(q)
    /\ ActiveDateTaken
    /\ Goto(q, "reread")
    /\ txn' = [txn EXCEPT ![q] = NoTxn]
    /\ UNCHANGED <<table, catalog, past>>

(* Outside any transaction: the winner's table, or the duplicate-key error *)
(* again when the winner was cancelled in the meantime.                    *)
Reread_WinnerExpected(q) ==
    /\ At(q, "create", "reread")
    /\ \E r \in Revisions : IsActive(r)
    /\ Answer(q)
    /\ UNCHANGED <<table, catalog, past>>

Reread(q) ==
    /\ At(q, "create", "reread")
    /\ Answer(q)
    /\ UNCHANGED <<table, catalog, past>>

-----------------------------------------------------------------------------
(* The snapshot: createSnapshot, createPeriodSnapshot.                     *)

NewItem_StockRaised(stock, old) ==
    [stock |-> stock, qty |-> old.qty, checked |-> old.checked, version |-> 1]

NewItem_CheckKept(stock, old) ==
    [stock |-> stock, qty |-> IF old.qty <= stock THEN old.qty ELSE 0,
     checked |-> old.checked, version |-> 1]

(* A quantity above the present stock is dropped, its check mark with it.  *)
NewItem(stock, old) ==
    IF Exists(old) /\ old.qty <= stock
    THEN [stock |-> stock, qty |-> old.qty, checked |-> old.checked, version |-> 1]
    ELSE [stock |-> stock, qty |-> 0, checked |-> FALSE, version |-> 1]

RowsIn(rows, t, cats) == {row \in rows : row.id = t /\ row.category \in cats}

StockOf(rows) == (CHOOSE row \in rows : TRUE).stock

(* The items of a revision with the periods and categories of sel.         *)
Snapshot(sel, rows, kept) ==
    [s \in Slot |->
        LET mine == RowsIn(rows, s[2], sel[s[1]] \cup {Common})
        IN  IF sel[s[1]] # {} /\ mine # {}
            THEN NewItem(StockOf(mine), kept[s])
            ELSE NoItem]

Usable(cats) == \A c \in cats : c # Common /\ category[c] = "ACTIVE"

CommonUsable(m) == m.op # "add" => category[Common] = "ACTIVE"

LockCategories(q) ==
    /\ Within(q, {"create", "configure", "add"}, {"categories"})
    /\ IF Usable(Requested(req[q])) /\ CommonUsable(req[q])
       THEN Goto(q, "tools") /\ UNCHANGED txn
       ELSE Answer(q)
    /\ UNCHANGED <<table, catalog, past>>

ToolsOnOffer(cats) ==
    {t \in Tools : tool[t].status = "ACTIVE" /\ tool[t].category \in cats}

RowOf(t) == [id |-> t, category |-> tool[t].category, stock |-> tool[t].stock]

RowsOnOffer(cats) == {RowOf(t) : t \in ToolsOnOffer(cats)}

AlreadyThere(r, p, cats) ==
    \E t \in ToolsOnOffer(cats) : Exists(items[r][<<p, t>>])

ActiveOf(q) == CHOOSE r \in Revisions : r \in txn[q].rev

LockTools(q) ==
    /\ Within(q, {"create", "configure", "add"}, {"tools"})
    /\ LET m    == req[q]
           cats == SnapshotCategories(m)
       IN  IF m.op = "add" /\ AlreadyThere(ActiveOf(q), m.period, cats)
           THEN Answer(q)
           ELSE /\ Goto(q, IF m.op = "create" THEN "insert" ELSE "commit")
                /\ txn' = [txn EXCEPT ![q].rows = RowsOnOffer(cats)]
    /\ UNCHANGED <<table, catalog, past>>

InsertRevision(r, m, t) ==
    /\ header[r].status = "ABSENT"
    /\ chosen' = [chosen EXCEPT ![r] = m.sel]
    /\ items' = [items EXCEPT ![r] = Snapshot(m.sel, t.rows, t.kept)]

FirstVersion(mode) == [status |-> "ACTIVE", mode |-> mode, version |-> 1]

CommitCreate(q) ==
    /\ At(q, "create", "commit")
    /\ \E r \in Revisions :
        /\ InsertRevision(r, req[q], txn[q])
        /\ header' = [header EXCEPT ![r] = FirstVersion(req[q].mode)]
    /\ Answer(q)
    /\ UNCHANGED <<catalog, past>>

-----------------------------------------------------------------------------
(* updateItem                                                              *)

Acceptable_CheckedAtZero(m) ==
    /\ IsActive(m.rev)
    /\ Exists(items[m.rev][m.slot])
    /\ m.qty <= items[m.rev][m.slot].stock

Acceptable(m) ==
    /\ IsActive(m.rev)
    /\ Exists(items[m.rev][m.slot])
    /\ m.qty <= items[m.rev][m.slot].stock
    /\ ~(m.qty = 0 /\ m.checked)

LockHeaderForItem(q) ==
    /\ At(q, "item", "begin")
    /\ MayShareHeader(q)
    /\ IF Acceptable(req[q])
       THEN Goto(q, "update") /\ UNCHANGED txn
       ELSE Answer(q)
    /\ UNCHANGED <<table, catalog, past>>

(* UPDATE ... WHERE id AND version: waits for the row, sees its last       *)
(* committed version, and answers 409 when that is not the request's.      *)
UpdateRow(q) ==
    /\ At(q, "item", "update")
    /\ \A o \in Others(q) : ~LocksItem(o, req[q].rev, req[q].slot)
    /\ IF items[req[q].rev][req[q].slot].version = req[q].version
       THEN Goto(q, "commit") /\ UNCHANGED txn
       ELSE Answer(q)
    /\ UNCHANGED <<table, catalog, past>>

Saved_Accumulates(old, m) ==
    [stock |-> old.stock, qty |-> old.qty + m.qty, checked |-> m.checked,
     version |-> old.version + 1]

Saved(old, m) ==
    [stock |-> old.stock, qty |-> m.qty, checked |-> m.checked,
     version |-> old.version + 1]

CommitItem(q) ==
    /\ At(q, "item", "commit")
    /\ items' = [items EXCEPT ![req[q].rev][req[q].slot] = Saved(@, req[q])]
    /\ Answer(q)
    /\ UNCHANGED <<header, chosen, catalog, past>>

-----------------------------------------------------------------------------
(* addCategories                                                           *)

MayLockPeriod(q, p) == \A o \in Others(q) : ~LocksPeriod(o, p)

Addable_AnyPeriod(r, p, cats) == chosen[r][p] \cap cats = {}

Addable(r, p, cats) ==
    /\ chosen[r][p] # {}
    /\ chosen[r][p] \cap cats = {}

LockHeaderForAdd(q) ==
    /\ At(q, "add", "begin")
    /\ MayShareHeader(q)
    /\ MayLockPeriod(q, req[q].period)
    /\ \/ \E r \in Revisions :
            /\ IsActive(r)
            /\ Addable(r, req[q].period, req[q].cats)
            /\ txn' = [txn EXCEPT ![q].rev = {r}]
            /\ Goto(q, "categories")
       \/ /\ ~\E r \in Revisions :
                IsActive(r) /\ Addable(r, req[q].period, req[q].cats)
          /\ Answer(q)
    /\ UNCHANGED <<table, catalog, past>>

WithNewRows_EveryPeriod(old, p, rows, cats) ==
    [s \in Slot |->
        IF RowsIn(rows, s[2], cats) # {}
        THEN NewItem(StockOf(RowsIn(rows, s[2], cats)), NoItem)
        ELSE old[s]]

WithNewRows(old, p, rows, cats) ==
    [s \in Slot |->
        IF s[1] = p /\ RowsIn(rows, s[2], cats) # {}
        THEN NewItem(StockOf(RowsIn(rows, s[2], cats)), NoItem)
        ELSE old[s]]

NamesRevision(o, r) == req[o].op \in {"configure", "cancel"} /\ req[o].rev = r

CommitAdd(q) ==
    /\ At(q, "add", "commit")
    /\ \E r \in txn[q].rev :
        LET p == req[q].period
            cats == req[q].cats
        IN  /\ chosen' = [chosen EXCEPT ![r][p] = @ \cup cats]
            /\ items' = [items EXCEPT ![r] =
                            WithNewRows(@, p, txn[q].rows, cats)]
            /\ unseen' = [o \in Clients |->
                IF NamesRevision(o, r) THEN unseen[o] \cup ({p} \X cats)
                                       ELSE unseen[o]]
    /\ Finish(q)
    /\ UNCHANGED <<header, catalog, past>>

-----------------------------------------------------------------------------
(* updateConfiguration and cancel                                          *)

LossConfirmed_Unasked(m) == TRUE

LossConfirmed(m) == Entered(m.rev) => m.confirmed

CurrentRevision(m) ==
    IsActive(m.rev) /\ header[m.rev].version = m.version

LockHeaderForConfigure(q) ==
    /\ At(q, "configure", "begin")
    /\ MayOwnHeader(q)
    /\ IF CurrentRevision(req[q]) /\ LossConfirmed(req[q])
       THEN /\ Goto(q, "categories")
            /\ txn' = [txn EXCEPT ![q].rev  = {req[q].rev},
                                  ![q].kept = items[req[q].rev]]
       ELSE Answer(q)
    /\ UNCHANGED <<table, catalog, past>>

Cancelled(h) ==
    [status |-> "CANCELLED", mode |-> h.mode, version |-> h.version + 1]

CommitConfigure(q) ==
    /\ At(q, "configure", "commit")
    /\ \E r \in Revisions :
        /\ InsertRevision(r, req[q], txn[q])
        /\ header' = [header EXCEPT ![r] = FirstVersion(req[q].mode),
                                    ![req[q].rev] = Cancelled(@)]
    /\ Answer(q)
    /\ UNCHANGED <<catalog, past>>

LockHeaderForCancel(q) ==
    /\ At(q, "cancel", "begin")
    /\ MayOwnHeader(q)
    /\ IF CurrentRevision(req[q]) /\ LossConfirmed(req[q])
       THEN Goto(q, "commit") /\ UNCHANGED txn
       ELSE Answer(q)
    /\ UNCHANGED <<table, catalog, past>>

CommitCancel(q) ==
    /\ At(q, "cancel", "commit")
    /\ header' = [header EXCEPT ![req[q].rev] = Cancelled(@)]
    /\ Answer(q)
    /\ UNCHANGED <<chosen, items, catalog, past>>

-----------------------------------------------------------------------------
(* The catalogue, as far as snapshots see it: each administrator request   *)
(* is one step here, taken when no snapshot holds a row it must lock.  The *)
(* optimistic versions of these rows are left to the catalogue's model.    *)

CategoryFree(c) == \A q \in Clients : ~LocksCategory(q, c)
ToolFree(t)     == \A q \in Clients : ~LocksTool(q, t)

UpdateTool(t, c, stock) ==
    /\ "catalog" \in Ops
    /\ ToolFree(t)
    /\ CategoryFree(c)
    /\ category[c] = "ACTIVE"
    /\ tool' = [tool EXCEPT ![t].category = c, ![t].stock = stock]
    /\ UNCHANGED <<table, category, past, req, pc, txn, unseen>>

ActivateTool(t) ==
    /\ "catalog" \in Ops
    /\ ToolFree(t)
    /\ tool[t].status = "INACTIVE"
    /\ CategoryFree(tool[t].category)
    /\ category[tool[t].category] = "ACTIVE"
    /\ tool' = [tool EXCEPT ![t].status = "ACTIVE"]
    /\ UNCHANGED <<table, category, past, req, pc, txn, unseen>>

DeactivateTool(t) ==
    /\ "catalog" \in Ops
    /\ ToolFree(t)
    /\ tool[t].status = "ACTIVE"
    /\ tool' = [tool EXCEPT ![t].status = "INACTIVE"]
    /\ UNCHANGED <<table, category, past, req, pc, txn, unseen>>

ActivateCategory(c) ==
    /\ "catalog" \in Ops
    /\ CategoryFree(c)
    /\ category[c] = "INACTIVE"
    /\ category' = [category EXCEPT ![c] = "ACTIVE"]
    /\ UNCHANGED <<table, tool, past, req, pc, txn, unseen>>

DeactivateCategory(c) ==
    /\ "catalog" \in Ops
    /\ CategoryFree(c)
    /\ category[c] = "ACTIVE"
    /\ c # Common
    /\ ToolsOnOffer({c}) = {}
    /\ category' = [category EXCEPT ![c] = "INACTIVE"]
    /\ UNCHANGED <<table, tool, past, req, pc, txn, unseen>>

(* Midnight in Tokyo: the work date becomes a past date.                   *)
Midnight ==
    /\ "midnight" \in Ops
    /\ past' = TRUE
    /\ UNCHANGED <<table, catalog, req, pc, txn, unseen>>

-----------------------------------------------------------------------------
Requests ==
    {m \in Request : m.op \in Ops}

Receive(q) == \E m \in Requests : Submit(q, m)

Create(q)    == FindExisting(q) \/ FindNone(q) \/ InsertHeader(q)
                  \/ LoseInsert(q) \/ Reread(q) \/ CommitCreate(q)
TakeRows(q)  == LockCategories(q) \/ LockTools(q)
UpdateItem(q) == LockHeaderForItem(q) \/ UpdateRow(q) \/ CommitItem(q)
AddCategories(q) == LockHeaderForAdd(q) \/ CommitAdd(q)
UpdateConfiguration(q) == LockHeaderForConfigure(q) \/ CommitConfigure(q)
Cancel(q) == LockHeaderForCancel(q) \/ CommitCancel(q)

Handle(q) == \/ Create(q) \/ TakeRows(q) \/ UpdateItem(q) \/ AddCategories(q)
             \/ UpdateConfiguration(q) \/ Cancel(q)

Administer ==
    \/ \E t \in Tools, c \in Categories, stock \in 0..MaxStock :
            UpdateTool(t, c, stock)
    \/ \E t \in Tools : ActivateTool(t) \/ DeactivateTool(t)
    \/ \E c \in Categories : ActivateCategory(c) \/ DeactivateCategory(c)

Next ==
    \/ \E q \in Clients : Receive(q) \/ Handle(q) \/ Abort(q)
    \/ Administer
    \/ Midnight

Spec == Init /\ [][Next]_vars

(* A handler keeps running, and a lock it waits for is granted when it     *)
(* becomes free again and again: InnoDB queues the waiting requests.  No   *)
(* handler is assumed to be rescued by an abort.                           *)
Fairness == \A q \in Clients : SF_vars(Handle(q))

FairSpec == Spec /\ Fairness

-----------------------------------------------------------------------------
(* Safety.                                                                 *)

(* One current table per work date, whatever creations, replacements and   *)
(* deletions overlap (createOrGet's insert, updateConfiguration's          *)
(* cancel-then-insert, the unique key on active_work_date).                *)
OneActive == \A r, s \in Revisions : IsActive(r) /\ IsActive(s) => r = s

(* Every stored revision is a whole table: exactly the periods of its      *)
(* mode, items only in those periods, quantities within the snapshot's     *)
(* stock and nothing marked ready at quantity 0.  The service must see to  *)
(* this itself: a CHECK violation would surface as a 500.                  *)
TableSound == \A r \in Revisions : header[r].status # "ABSENT" =>
    /\ {p \in Period : chosen[r][p] # {}} = PeriodsOf(header[r].mode)
    /\ \A s \in Slot : Exists(items[r][s]) =>
        /\ chosen[r][s[1]] # {}
        /\ items[r][s].qty <= items[r][s].stock
        /\ ~(items[r][s].checked /\ items[r][s].qty = 0)

KeepsHistory == \A r \in Revisions : header[r].status = "CANCELLED" =>
    /\ header'[r] = header[r]
    /\ chosen'[r] = chosen[r]
    /\ items'[r] = items[r]

(* History is never rewritten: once a revision is CANCELLED, no item save  *)
(* and no category addition that was already under way lands in it.        *)
CancelledFrozen == [][KeepsHistory]_vars

Leaves(r) == IsActive(r) /\ header'[r].status = "CANCELLED"

AsksBeforeLoss == \A r \in Revisions : Leaves(r) /\ Entered(r) =>
    \E q \in Clients : NamesRevision(q, r) /\ req[q].confirmed

(* A table with entered values is only replaced or deleted by a request    *)
(* that confirmed the loss, even when the values were entered while that   *)
(* request was waiting for its locks.                                      *)
LossIsConfirmed == [][AsksBeforeLoss]_vars

(* A replacement carries over, slot by slot, the values the old revision   *)
(* had at that very moment, or resets those the new stock cannot hold.     *)
CarriedOver == [][\A old, new \in Revisions :
    Leaves(old) /\ header[new].status = "ABSENT" /\ header'[new].status = "ACTIVE" =>
        \A s \in Slot :
            LET was == items[old][s]
                is  == items'[new][s]
            IN  Exists(was) /\ Exists(is) =>
                    IF was.qty <= is.stock
                    THEN is.qty = was.qty /\ is.checked = was.checked
                    ELSE is.qty = 0 /\ ~is.checked]_vars

WritesByVersion == \A r \in Revisions, s \in Slot :
    Exists(items[r][s]) /\ items'[r][s] # items[r][s] =>
        /\ items'[r][s].version = items[r][s].version + 1
        /\ \E q \in Clients : /\ req[q].op = "item"
                              /\ req[q].rev = r /\ req[q].slot = s
                              /\ req[q].version = items[r][s].version

(* No lost update: a stored item only changes through a save that carried  *)
(* exactly the version it had, and the change moves the version by one.    *)
VersionedWrites == [][WritesByVersion]_vars

NewlyChosen(r, p) ==
    (chosen'[r][p] \ chosen[r][p]) \cup
    (IF header[r].status = "ABSENT" /\ chosen'[r][p] # {} THEN {Common} ELSE {})

(* A snapshot shows the catalogue as it stands when it becomes visible:    *)
(* the categories it adds are active then, and the items that appear are   *)
(* exactly their active tools, with their present stock.                   *)
SnapshotsAreCurrent == [][\A r \in Revisions, p \in Period :
    /\ \A c \in NewlyChosen(r, p) : category[c] = "ACTIVE"
    /\ \A t \in Tools :
        LET appears == ~Exists(items[r][<<p, t>>]) /\ Exists(items'[r][<<p, t>>])
        IN  /\ appears <=> t \in ToolsOnOffer(NewlyChosen(r, p))
            /\ appears => items'[r][<<p, t>>].stock = tool[t].stock]_vars

(* docs/design/api.md, section 6: a configuration or deletion that does    *)
(* not match the current id and version is refused and does not overwrite  *)
(* another user's change.  The change here is addCategories, which leaves  *)
(* both id and version as they were.                                       *)
NoSilentOverwrite == [][\A q \in Clients :
    At(q, "configure", "commit") /\ header' # header /\ Leaves(req[q].rev) =>
        \A r \in Revisions : header[r].status = "ABSENT" /\ header'[r].status = "ACTIVE" =>
            \A pair \in unseen[q] : pair[2] \in chosen'[r][pair[1]]]_vars

(* Overlapping transactions amount to requests served one at a time: each  *)
(* takes effect at its commit, as if all it read and checked before were   *)
(* read and checked at that instant (what the row locks of the service and *)
(* its conditional UPDATE are for), and none serves a request twice.       *)
Atomic == INSTANCE AtomicChecklist

ServedAtomically == Atomic!Spec

-----------------------------------------------------------------------------
(* The inductive invariant behind the theorems of DailyChecklistsProofs.   *)

HeaderLocksExclude == \A q, o \in Clients :
    q # o /\ OwnsHeader(q) => ~OwnsHeader(o) /\ ~SharesHeader(o)

PeriodLocksExclude == \A q, o \in Clients, p \in Period :
    q # o /\ LocksPeriod(q, p) => ~LocksPeriod(o, p)

ItemLocksExclude == \A q, o \in Clients, r \in Revisions, s \in Slot :
    q # o /\ LocksItem(q, r, s) => ~LocksItem(o, r, s)

(* An uncommitted insert has no rival.                                     *)
InsertUncontested ==
    \A q \in Clients : At(q, "create", "commit") => ~\E r \in Revisions : IsActive(r)

(* Whoever replaces or deletes a revision still finds it current, with its *)
(* loss confirmed and its items as they were read.                         *)
OwnedIsCurrent == \A q \in Clients :
    /\ Within(q, {"configure", "cancel"}, {"categories", "tools", "commit"}) =>
        CurrentRevision(req[q]) /\ LossConfirmed(req[q])
    /\ Within(q, {"configure"}, {"categories", "tools", "commit"}) =>
        txn[q].kept = items[req[q].rev]

(* A save that got its header lock still finds its revision current and    *)
(* its item there; past the UPDATE also the version it compared.           *)
SaveIsCurrent == \A q \in Clients :
    /\ Within(q, {"item"}, {"update", "commit"}) => Acceptable(req[q])
    /\ At(q, "item", "commit") =>
        items[req[q].rev][req[q].slot].version = req[q].version

(* An addition keeps working on the revision and the period it locked, and *)
(* the items it is about to insert are not there yet.                      *)
AdditionIsCurrent == \A q \in Clients :
    /\ Within(q, {"add"}, {"categories", "tools", "commit"}) =>
        \E r \in Revisions : /\ txn[q].rev = {r}
                             /\ IsActive(r)
                             /\ Addable(r, req[q].period, req[q].cats)
    /\ At(q, "add", "commit") => \A r \in txn[q].rev, row \in txn[q].rows :
        ~Exists(items[r][<<req[q].period, row.id>>])

ActiveIsFirstVersion ==
    \A r \in Revisions : IsActive(r) => header[r].version = 1

IInv ==
    /\ TypeOK
    /\ OneActive
    /\ ActiveIsFirstVersion
    /\ HeaderLocksExclude
    /\ PeriodLocksExclude
    /\ ItemLocksExclude
    /\ InsertUncontested
    /\ OwnedIsCurrent
    /\ SaveIsCurrent
    /\ AdditionIsCurrent

-----------------------------------------------------------------------------
(* Liveness.                                                               *)

(* Every request is answered.                                              *)
Answered == \A q \in Clients : pc[q] # "idle" ~> pc[q] = "idle"

(* After midnight only the requests already admitted finish; from then on  *)
(* no handler is at work and the table stays as it is.                     *)
ClosesAfterMidnight == past ~> [](\A q \in Clients : pc[q] = "idle")

=============================================================================
