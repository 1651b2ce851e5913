----------------------------- MODULE MasterData -----------------------------
(***************************************************************************)
(* Administration of tools and work categories by several administrators   *)
(* at once (src/backend/src/tools/tools.service.ts and src/backend/src/    *)
(* categories/categories.service.ts), next to checklists that are being    *)
(* created from them.  A request locks a row per step; what it saves is    *)
(* committed with the save, for nobody reads a locked row but with a lock, *)
(* and the one plain read, the count of active tools, sees commits only.   *)
(***************************************************************************)
EXTENDS Naturals, FiniteSets

CONSTANTS
    Tools,          \* ids of tools, created or not
    Categories,     \* ids of categories, created or not
    Common,         \* the COMMON category, which the seed creates
    Admins,         \* pages of administrators
    Checklists,     \* transactions that create a checklist
    MaxToolEdits,   \* bounds: a row of this version is not shown any more
    MaxCategoryEdits

ASSUME MasterAssumption ==
    /\ Common \in Categories
    /\ Tools \cap Categories = {}
    /\ Admins \cap Checklists = {}
    /\ MaxToolEdits \in Nat \ {0}
    /\ MaxCategoryEdits \in Nat \ {0}

VARIABLES
    tool,       \* the rows of tools
    category,   \* the rows of categories
    stage,      \* where a request and its transaction are
    form,       \* the request
    held        \* rows a transaction holds, with the mode of each lock

masterVars == <<tool, category, stage, form, held>>

Clerks == Admins \cup Checklists
Active == {"ACTIVE", "INACTIVE"}
Stages == {"idle", "first", "second", "save"}
Modes  == {"read", "write"}

ToolRow     == [status : Active \cup {"none"}, category : Categories, version : Nat]
CategoryRow == [status : Active \cup {"none"}, version : Nat]

NoTool     == [status |-> "none", category |-> Common, version |-> 0]
NoCategory == [status |-> "none", version |-> 0]

(* What the forms of a page send, with the row on display, whose version   *)
(* goes along, and the selection a new checklist asks for.                 *)
ToolForm == [op : {"createTool"}, category : Categories]
    \cup [op : {"editTool"}, target : Tools, seen : ToolRow, category : Categories]
    \cup [op : {"toolStatus"}, target : Tools, seen : ToolRow, status : Active]

CategoryForm == [op : {"createCategory"}]
    \cup [op : {"editCategory"}, target : Categories, seen : CategoryRow, rename : BOOLEAN]
    \cup [op : {"categoryStatus"}, target : Categories, seen : CategoryRow, status : Active]

Selection == [op : {"selection"}, categories : SUBSET Categories]

NoForm == [op |-> "none"]

Form == ToolForm \cup CategoryForm \cup Selection \cup {NoForm}

MasterTypeOK ==
    /\ tool \in [Tools -> ToolRow]
    /\ category \in [Categories -> CategoryRow]
    /\ stage \in [Clerks -> Stages]
    /\ form \in [Clerks -> Form]
    /\ held \in [Clerks -> SUBSET ((Tools \cup Categories) \X Modes)]

MasterInit ==
    /\ tool = [t \in Tools |-> NoTool]
    /\ category = [k \in Categories |->
                     IF k = Common THEN [status |-> "ACTIVE", version |-> 1]
                                   ELSE NoCategory]
    /\ stage = [q \in Clerks |-> "idle"]
    /\ form = [q \in Clerks |-> NoForm]
    /\ held = [q \in Clerks |-> {}]
-----------------------------------------------------------------------------
IsTool(t)       == tool[t].status # "none"
IsCategory(k)   == category[k].status # "none"
IsActiveTool(t) == tool[t].status = "ACTIVE"
IsOpen(k)       == category[k].status = "ACTIVE"

ActiveToolsIn(k) == {t \in Tools : IsActiveTool(t) /\ tool[t].category = k}

(* Those whose locks keep q from locking the row.                          *)
Blockers(q, row, mode) ==
    {p \in Clerks \ {q} : \E lock \in held[p] :
        lock[1] = row /\ (mode = "write" \/ lock[2] = "write")}

(* The rows a stage locks.  The first lock of an edit is its own row; the  *)
(* second, where there is one, the category of the tool.  A checklist      *)
(* locks its categories and then their active tools, against changes only. *)
ChosenCategory(q) ==
    IF form[q].op = "toolStatus" THEN tool[form[q].target].category
                                 ELSE form[q].category

FirstRows_NoCategoryLock(q) ==
    CASE form[q].op = "createTool" -> {form[q].category}
      [] form[q].op = "selection"  -> {}
      [] OTHER                     -> {form[q].target}

FirstRows(q) ==
    CASE form[q].op = "createTool" -> {form[q].category}
      [] form[q].op = "selection"  -> form[q].categories
      [] OTHER                     -> {form[q].target}

SecondRows(q) ==
    IF form[q].op = "selection"
    THEN UNION {ActiveToolsIn(k) : k \in form[q].categories}
    ELSE {ChosenCategory(q)}

ModeOf(q) == IF form[q].op = "selection" THEN "read" ELSE "write"

NextRows(q) == CASE stage[q] = "first"  -> FirstRows(q)
                 [] stage[q] = "second" -> SecondRows(q)
                 [] OTHER               -> {}

Locked(q) == {row \in Tools \cup Categories : <<row, ModeOf(q)>> \in held[q]}

Missing(q) == NextRows(q) \ Locked(q)

(* A read locks the rows it finds one by one, in the order of their ids.   *)
Wanted(q) == CHOOSE row \in Missing(q) : TRUE

BlockedBy(q) ==
    IF Missing(q) = {} THEN {} ELSE Blockers(q, Wanted(q), ModeOf(q))

(* Some transactions each wait for another of them.                        *)
Deadlocked(q) ==
    /\ BlockedBy(q) # {}
    /\ \E knot \in SUBSET Clerks :
        q \in knot /\ \A p \in knot : BlockedBy(p) \cap knot # {}
-----------------------------------------------------------------------------
(* Requests.  A page shows a row, and sends a form for it with the version *)
(* of that row; the row may change before the request gets its first lock, *)
(* so the time the form is open needs no stage of its own.                 *)
Send(q, f) ==
    /\ stage[q] = "idle"
    /\ stage' = [stage EXCEPT ![q] = IF f.op = "createCategory" THEN "save" ELSE "first"]
    /\ form' = [form EXCEPT ![q] = f]
    /\ UNCHANGED <<tool, category, held>>

ShownTools == {t \in Tools : IsTool(t) /\ tool[t].version < MaxToolEdits}

ShownCategories == {k \in Categories : IsCategory(k)}

SendTool(q) ==
    \/ \E k \in ShownCategories : Send(q, [op |-> "createTool", category |-> k])
    \/ \E t \in ShownTools :
         \/ \E k \in ShownCategories :
               Send(q, [op |-> "editTool", target |-> t, seen |-> tool[t], category |-> k])
         \/ \E s \in Active :
               Send(q, [op |-> "toolStatus", target |-> t, seen |-> tool[t], status |-> s])

SendCategory(q) ==
    \/ Send(q, [op |-> "createCategory"])
    \/ \E k \in {c \in ShownCategories : category[c].version < MaxCategoryEdits} :
         \/ \E r \in BOOLEAN :
               Send(q, [op |-> "editCategory", target |-> k, seen |-> category[k],
                        rename |-> r])
         \/ \E s \in Active :
               Send(q, [op |-> "categoryStatus", target |-> k, seen |-> category[k],
                        status |-> s])

(* A checklist is created with some of the categories it has been shown.   *)
Select(q) ==
    \E ks \in (SUBSET ShownCategories) \ {{}} :
        Send(q, [op |-> "selection", categories |-> ks])
-----------------------------------------------------------------------------
(* The end of a transaction.                                               *)
Close(q) ==
    /\ stage' = [stage EXCEPT ![q] = "idle"]
    /\ form' = [form EXCEPT ![q] = NoForm]
    /\ held' = [held EXCEPT ![q] = {}]

RollBack_KeepsLocks(q) ==
    /\ stage' = [stage EXCEPT ![q] = "idle"]
    /\ form' = [form EXCEPT ![q] = NoForm]
    /\ UNCHANGED <<tool, category, held>>

RollBack(q) == Close(q) /\ UNCHANGED <<tool, category>>

(* A timeout or a lost connection rolls the transaction back.              *)
GiveUp(q) == stage[q] # "idle" /\ RollBack(q)

(* InnoDB rolls back one transaction of a deadlock.                        *)
Victim(q) == Deadlocked(q) /\ RollBack(q)
-----------------------------------------------------------------------------
(* Locks and what is checked under them.                                   *)
LockRow(q) ==
    /\ Missing(q) # {} /\ BlockedBy(q) = {}
    /\ held' = [held EXCEPT ![q] = @ \cup {<<Wanted(q), ModeOf(q)>>}]
    /\ UNCHANGED <<tool, category, stage, form>>

IsCurrent(q) ==         \* assertVersion
    IF form[q].op \in {"editTool", "toolStatus"}
    THEN tool[form[q].target].version = form[q].seen.version
    ELSE category[form[q].target].version = form[q].seen.version

MayCreateTool(q) == IsOpen(form[q].category)

MayEditCategory(q) ==
    IsCurrent(q) /\ (form[q].target = Common => ~form[q].rename)

MayCloseCategory_InUse(q) == form[q].target # Common

MayCloseCategory(q) ==
    form[q].target # Common /\ ActiveToolsIn(form[q].target) = {}

MayChangeCategory(q) ==
    /\ IsCurrent(q)
    /\ category[form[q].target].status # form[q].status /\ form[q].status = "INACTIVE"
         => MayCloseCategory(q)

MayGoOn(q) ==
    CASE form[q].op = "createTool"     -> MayCreateTool(q)
      [] form[q].op = "editCategory"   -> MayEditCategory(q)
      [] form[q].op = "categoryStatus" -> MayChangeCategory(q)
      [] form[q].op = "selection"      -> \A k \in form[q].categories : IsOpen(k)
      [] OTHER                         -> IsCurrent(q)

LocksCategory_EditsOnly(q) == form[q].op \in {"editTool", "selection"}

(* lockActiveCategory: an edit always, a change of status only when it     *)
(* makes an inactive tool active, a checklist for its tools.               *)
LocksCategory(q) ==
    \/ form[q].op \in {"editTool", "selection"}
    \/ /\ form[q].op = "toolStatus" /\ form[q].status = "ACTIVE"
       /\ tool[form[q].target].status # "ACTIVE"

CheckFirst(q) ==
    /\ stage[q] = "first" /\ Missing(q) = {}
    /\ IF MayGoOn(q)
       THEN /\ stage' = [stage EXCEPT ![q] = IF LocksCategory(q) THEN "second" ELSE "save"]
            /\ UNCHANGED <<tool, category, form, held>>
       ELSE RollBack(q)

CheckSecond(q) ==
    /\ stage[q] = "second" /\ Missing(q) = {}
    /\ IF form[q].op = "selection" \/ IsOpen(ChosenCategory(q))
       THEN /\ stage' = [stage EXCEPT ![q] = "save"]
            /\ UNCHANGED <<tool, category, form, held>>
       ELSE RollBack(q)
-----------------------------------------------------------------------------
(* Saves.                                                                  *)
Saving(q, op) == stage[q] = "save" /\ form[q].op = op

CreateTool(q) ==
    /\ Saving(q, "createTool")
    /\ \E t \in Tools :
         /\ ~IsTool(t)
         /\ tool' = [tool EXCEPT ![t] = [status |-> "ACTIVE", version |-> 1,
                                         category |-> form[q].category]]
    /\ Close(q) /\ UNCHANGED category

(* TypeORM writes nothing when nothing has changed.                        *)
UpdateTool(q) ==
    /\ Saving(q, "editTool")
    /\ \/ tool' = [tool EXCEPT ![form[q].target].category = form[q].category,
                               ![form[q].target].version = @ + 1]
       \/ tool[form[q].target].category = form[q].category /\ UNCHANGED tool
    /\ Close(q) /\ UNCHANGED category

UpdateToolStatus_SameVersion(q) ==
    /\ Saving(q, "toolStatus")
    /\ tool' = [tool EXCEPT ![form[q].target].status = form[q].status]
    /\ Close(q) /\ UNCHANGED category

UpdateToolStatus(q) ==
    /\ Saving(q, "toolStatus")
    /\ tool' = IF tool[form[q].target].status = form[q].status THEN tool
               ELSE [tool EXCEPT ![form[q].target].status = form[q].status,
                                 ![form[q].target].version = @ + 1]
    /\ Close(q) /\ UNCHANGED category

CreateCategory(q) ==
    /\ Saving(q, "createCategory")
    /\ \E k \in Categories :
         /\ ~IsCategory(k)
         /\ category' = [category EXCEPT ![k] = [status |-> "ACTIVE", version |-> 1]]
    /\ Close(q) /\ UNCHANGED tool

UpdateCategory(q) ==
    /\ Saving(q, "editCategory")
    /\ \/ category' = [category EXCEPT ![form[q].target].version = @ + 1]
       \/ ~form[q].rename /\ UNCHANGED category
    /\ Close(q) /\ UNCHANGED tool

UpdateCategoryStatus(q) ==
    /\ Saving(q, "categoryStatus")
    /\ category' = IF category[form[q].target].status = form[q].status THEN category
                   ELSE [category EXCEPT ![form[q].target].status = form[q].status,
                                         ![form[q].target].version = @ + 1]
    /\ Close(q) /\ UNCHANGED tool

(* ER_DUP_ENTRY: the name is in use.                                       *)
DuplicateName(q) ==
    /\ \E op \in {"createTool", "editTool", "createCategory", "editCategory"} : Saving(q, op)
    /\ RollBack(q)

(* The checklist is stored with copies of the rows it holds.               *)
CreateChecklist(q) ==
    Saving(q, "selection") /\ RollBack(q)
-----------------------------------------------------------------------------
Serve(q) ==
    \/ LockRow(q) \/ CheckFirst(q) \/ CheckSecond(q) \/ Victim(q)
    \/ CreateTool(q) \/ UpdateTool(q) \/ UpdateToolStatus(q)
    \/ CreateCategory(q) \/ UpdateCategory(q) \/ UpdateCategoryStatus(q)
    \/ DuplicateName(q) \/ CreateChecklist(q)

MasterNext ==
    \/ \E q \in Admins : SendTool(q) \/ SendCategory(q)
    \/ \E q \in Checklists : Select(q)
    \/ \E q \in Clerks : Serve(q) \/ GiveUp(q)

MasterSpec == MasterInit /\ [][MasterNext]_masterVars

(* Waiting locks are granted in turn, and InnoDB looks for deadlocks; ids  *)
(* of new rows never run out in the program.                               *)
MasterFairness == \A q \in Clerks : SF_masterVars(Serve(q))

FairMasterSpec == MasterSpec /\ MasterFairness
-----------------------------------------------------------------------------
(* Properties.                                                             *)

(* However edits of tools overlap with edits of categories, an active tool *)
(* belongs to an active category, and the COMMON category stays active:    *)
(* what the plain count saw of a category's tools still holds at the save. *)
ActiveToolsUsable ==
    /\ \A t \in Tools : IsActiveTool(t) => IsOpen(tool[t].category)
    /\ IsOpen(Common)

(* When a checklist is stored, the tools it has locked are all the active  *)
(* tools of its categories, and the categories are open: none was added,   *)
(* moved in, stopped or changed since it read them.                        *)
SelectionIsWhole ==
    \A q \in Checklists : stage[q] = "save" =>
        /\ \A k \in form[q].categories : IsOpen(k)
        /\ SecondRows(q) = Locked(q) \cap Tools

(* An accepted edit of a tool or a category replaces the row that its      *)
(* sender had on display, whatever other administrators stored meanwhile.  *)
MasterEditsSeeCurrent ==
    [][\A q \in Admins :
         /\ UpdateTool(q) \/ UpdateToolStatus(q) => form[q].seen = tool[form[q].target]
         /\ UpdateCategory(q) \/ UpdateCategoryStatus(q)
              => form[q].seen = category[form[q].target]]_masterVars

(* Every request that has been sent ends, although edits of a tool lock    *)
(* the tool and then its category, and checklists the other way around.    *)
MasterAnswered ==
    \A q \in Clerks : stage[q] # "idle" ~> stage[q] = "idle"

(* The inductive invariant.                                                *)
LocksExclude ==
    \A p, q \in Clerks : p # q =>
        \A x \in held[p], y \in held[q] : x[1] = y[1] => x[2] = "read" /\ y[2] = "read"

FormOK(q) ==
    /\ stage[q] = "idle" <=> form[q] = NoForm
    /\ stage[q] # "idle" => (form[q].op = "selection" <=> q \in Checklists)
    /\ form[q].op = "createCategory" => stage[q] = "save"

SeenRowOK(q) ==
    /\ form[q].op \in {"editTool", "toolStatus"} =>
          LET now == tool[form[q].target]
          IN  /\ IsTool(form[q].target)
              /\ form[q].seen.version <= now.version
              /\ form[q].seen.version = now.version => form[q].seen = now
    /\ form[q].op \in {"editCategory", "categoryStatus"} =>
          LET now == category[form[q].target]
          IN  /\ IsCategory(form[q].target)
              /\ form[q].seen.version <= now.version
              /\ form[q].seen.version = now.version => form[q].seen = now

HeldOK(q) ==
    /\ held[q] \subseteq (Tools \cup Categories) \X {ModeOf(q)}
    /\ stage[q] = "idle" => held[q] = {}
    /\ stage[q] = "first" => Locked(q) \subseteq FirstRows(q)
    /\ stage[q] = "second" => LocksCategory(q) /\ Locked(q) \subseteq FirstRows(q) \cup SecondRows(q)
    /\ stage[q] \in {"second", "save"} /\ form[q].op # "createCategory" =>
          FirstRows(q) \subseteq Locked(q) /\ MayGoOn(q)
    /\ stage[q] = "save" /\ LocksCategory(q) =>
          /\ SecondRows(q) \subseteq Locked(q)
          /\ form[q].op # "selection" => IsOpen(ChosenCategory(q))

MasterInv ==
    /\ MasterTypeOK
    /\ ActiveToolsUsable
    /\ SelectionIsWhole
    /\ LocksExclude
    /\ \A q \in Clerks : FormOK(q) /\ SeenRowOK(q) /\ HeldOK(q)

=============================================================================
