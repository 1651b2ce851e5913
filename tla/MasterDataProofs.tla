-------------------------- MODULE MasterDataProofs --------------------------
(***************************************************************************)
(* Theorems about MasterData, for any number of administrators and         *)
(* checklists at work at once, and any tools and categories.               *)
(***************************************************************************)
EXTENDS MasterData, TLAPS

LEMMA FormFields ==
    ASSUME MasterTypeOK, NEW q \in Clerks
    PROVE  /\ form[q].op \in {"createTool", "editTool", "toolStatus", "createCategory",
                              "editCategory", "categoryStatus", "selection", "none"}
           /\ form[q].op \in {"createTool", "editTool"} => form[q].category \in Categories
           /\ form[q].op \in {"editTool", "toolStatus"} =>
                 form[q].target \in Tools /\ form[q].seen \in ToolRow
           /\ form[q].op \in {"editCategory", "categoryStatus"} =>
                 form[q].target \in Categories /\ form[q].seen \in CategoryRow
           /\ form[q].op \in {"toolStatus", "categoryStatus"} => form[q].status \in Active
           /\ form[q].op = "selection" => form[q].categories \in SUBSET Categories
           /\ form[q].op = "none" => form[q] = NoForm
  <1>1. form[q] \in Form
    BY DEF MasterTypeOK
  <1>2. CASE form[q] \in ToolForm
    BY <1>2 DEF ToolForm
  <1>3. CASE form[q] \in CategoryForm
    BY <1>3 DEF CategoryForm
  <1>4. CASE form[q] \in Selection
    BY <1>4 DEF Selection
  <1>5. CASE form[q] = NoForm
    BY <1>5 DEF NoForm
  <1> QED BY <1>1, <1>2, <1>3, <1>4, <1>5 DEF Form

(* The rows of a request, by its operation.                                *)
LEMMA RowsOfRequest ==
    ASSUME NEW q \in Clerks
    PROVE  /\ form[q].op = "createTool" => FirstRows(q) = {form[q].category}
           /\ form[q].op = "selection" => FirstRows(q) = form[q].categories
           /\ form[q].op \in {"editTool", "toolStatus", "editCategory", "categoryStatus"} =>
                 FirstRows(q) = {form[q].target}
           /\ form[q].op = "selection" =>
                 SecondRows(q) = {t \in Tools : /\ IsActiveTool(t)
                                                /\ tool[t].category \in form[q].categories}
           /\ form[q].op = "editTool" => SecondRows(q) = {form[q].category}
           /\ form[q].op = "toolStatus" => SecondRows(q) = {tool[form[q].target].category}
  <1>1. form[q].op = "selection" =>
           SecondRows(q) = {t \in Tools : /\ IsActiveTool(t)
                                          /\ tool[t].category \in form[q].categories}
    BY DEF SecondRows, ActiveToolsIn
  <1> QED BY <1>1 DEF FirstRows, SecondRows, ChosenCategory

(* What may be saved, by the operation.                                    *)
LEMMA ChecksOfRequest ==
    ASSUME NEW q \in Clerks, MayGoOn(q)
    PROVE  /\ form[q].op = "createTool" => IsOpen(form[q].category)
           /\ form[q].op = "selection" => \A k \in form[q].categories : IsOpen(k)
           /\ form[q].op \in {"editTool", "toolStatus"} =>
                 tool[form[q].target].version = form[q].seen.version
           /\ form[q].op \in {"editCategory", "categoryStatus"} =>
                 category[form[q].target].version = form[q].seen.version
           /\ form[q].op = "categoryStatus" /\ form[q].status = "INACTIVE"
              /\ category[form[q].target].status # "INACTIVE" => MayCloseCategory(q)
  BY DEF MayGoOn, MayCreateTool, MayEditCategory, MayChangeCategory, IsCurrent
-----------------------------------------------------------------------------
(* What a step of p may do to the rows: it changes a row that it holds for *)
(* writing, to a later version, or creates one; and a tool that becomes an *)
(* active one of a category, which p holds for writing.                    *)
RowsGuarded(p) ==
    /\ \A t \in Tools : tool'[t] # tool[t] =>
          /\ IsTool(t)'
          /\ IsTool(t) => <<t, "write">> \in held[p] /\ tool[t].version < tool'[t].version
    /\ \A t \in Tools : IsActiveTool(t)' =>
          \/ IsActiveTool(t) /\ tool[t].category = tool'[t].category
          \/ <<tool'[t].category, "write">> \in held[p]
    /\ \A k \in Categories : category'[k] # category[k] =>
          /\ IsCategory(k)'
          /\ IsCategory(k) =>
                <<k, "write">> \in held[p] /\ category[k].version < category'[k].version

SelectionOK(q) ==
    stage[q] = "save" =>
        /\ \A k \in form[q].categories : IsOpen(k)
        /\ SecondRows(q) = Locked(q) \cap Tools

(* What the invariant says of one clerk.                                   *)
ClerkOK(q) ==
    /\ FormOK(q) /\ SeenRowOK(q) /\ HeldOK(q)
    /\ q \in Checklists => SelectionOK(q)

(* The rows that q has locked stay as they are under a step of another.    *)
LEMMA LockedRowsStay ==
    ASSUME MasterTypeOK, LocksExclude, NEW p \in Clerks, NEW q \in Clerks \ {p},
           RowsGuarded(p)
    PROVE  /\ \A t \in Tools : t \in Locked(q) /\ IsTool(t) => tool'[t] = tool[t]
           /\ \A k \in Categories : k \in Locked(q) =>
                 /\ IsCategory(k) => category'[k] = category[k]
                 /\ \A t \in Tools : IsActiveTool(t)' /\ tool'[t].category = k
                                       => IsActiveTool(t) /\ tool[t].category = k
  <1>1. \A row \in Tools \cup Categories :
           row \in Locked(q) => <<row, "write">> \notin held[p]
    <2> SUFFICES ASSUME NEW row \in Tools \cup Categories, row \in Locked(q),
                        <<row, "write">> \in held[p]
                 PROVE  FALSE
      OBVIOUS
    <2>1. <<row, ModeOf(q)>> \in held[q]
      BY DEF Locked
    <2> QED BY <2>1 DEF LocksExclude
  <1> QED BY <1>1 DEF RowsGuarded

LEMMA OthersSeenRow ==
    ASSUME MasterTypeOK, MasterTypeOK', NEW p \in Clerks, NEW q \in Clerks \ {p},
           SeenRowOK(q), RowsGuarded(p), form'[q] = form[q]
    PROVE  SeenRowOK(q)'
  <1>1. ASSUME form[q].op \in {"editTool", "toolStatus"}
        PROVE  LET now == tool'[form[q].target]
               IN  /\ IsTool(form[q].target)'
                   /\ form[q].seen.version <= now.version
                   /\ form[q].seen.version = now.version => form[q].seen = now
    <2> DEFINE t == form[q].target
    <2>1. t \in Tools /\ form[q].seen \in ToolRow
      BY <1>1, FormFields
    <2>2. /\ form[q].seen.version \in Nat
          /\ tool[t].version \in Nat /\ tool'[t].version \in Nat
      BY <2>1 DEF MasterTypeOK, ToolRow
    <2>3. /\ IsTool(t) /\ form[q].seen.version <= tool[t].version
          /\ form[q].seen.version = tool[t].version => form[q].seen = tool[t]
      BY <1>1 DEF SeenRowOK
    <2>4. CASE tool'[t] = tool[t]
      BY <2>3, <2>4 DEF IsTool
    <2>5. CASE tool'[t] # tool[t]
      <3>1. IsTool(t)' /\ tool[t].version < tool'[t].version
        BY <2>1, <2>3, <2>5 DEF RowsGuarded
      <3> QED BY <2>2, <2>3, <3>1
    <2> QED BY <2>4, <2>5
  <1>2. ASSUME form[q].op \in {"editCategory", "categoryStatus"}
        PROVE  LET now == category'[form[q].target]
               IN  /\ IsCategory(form[q].target)'
                   /\ form[q].seen.version <= now.version
                   /\ form[q].seen.version = now.version => form[q].seen = now
    <2> DEFINE k == form[q].target
    <2>1. k \in Categories /\ form[q].seen \in CategoryRow
      BY <1>2, FormFields
    <2>2. /\ form[q].seen.version \in Nat
          /\ category[k].version \in Nat /\ category'[k].version \in Nat
      BY <2>1 DEF MasterTypeOK, CategoryRow
    <2>3. /\ IsCategory(k) /\ form[q].seen.version <= category[k].version
          /\ form[q].seen.version = category[k].version => form[q].seen = category[k]
      BY <1>2 DEF SeenRowOK
    <2>4. CASE category'[k] = category[k]
      BY <2>3, <2>4 DEF IsCategory
    <2>5. CASE category'[k] # category[k]
      <3>1. IsCategory(k)' /\ category[k].version < category'[k].version
        BY <2>1, <2>3, <2>5 DEF RowsGuarded
      <3> QED BY <2>2, <2>3, <3>1
    <2> QED BY <2>4, <2>5
  <1> QED BY <1>1, <1>2 DEF SeenRowOK, IsTool, IsCategory

(* A request whose own rows are locked goes by the same checks afterwards. *)
LEMMA OthersChecks ==
    ASSUME MasterTypeOK, MasterTypeOK', LocksExclude,
           NEW p \in Clerks, NEW q \in Clerks \ {p},
           SeenRowOK(q), RowsGuarded(p), form'[q] = form[q],
           FirstRows(q) \subseteq Locked(q), MayGoOn(q),
           form[q].op \notin {"none", "createCategory"}
    PROVE  /\ MayGoOn(q)'
           /\ LocksCategory(q)' <=> LocksCategory(q)
           /\ form[q].op # "selection" => SecondRows(q)' = SecondRows(q)
  <1>1. CASE form[q].op = "createTool"
    <2>1. form[q].category \in Categories /\ form[q].category \in Locked(q)
      BY <1>1, FormFields, RowsOfRequest
    <2>2. category'[form[q].category] = category[form[q].category]
      BY <1>1, <2>1, LockedRowsStay, ChecksOfRequest DEF IsOpen, IsCategory
    <2> QED BY <1>1, <2>2 DEF MayGoOn, MayCreateTool, IsOpen, LocksCategory, SecondRows,
                             ChosenCategory
  <1>2. CASE form[q].op \in {"editTool", "toolStatus"}
    <2>1. form[q].target \in Tools /\ form[q].target \in Locked(q)
      BY <1>2, FormFields, RowsOfRequest
    <2>2. tool'[form[q].target] = tool[form[q].target]
      BY <1>2, <2>1, LockedRowsStay DEF SeenRowOK
    <2> QED BY <1>2, <2>2 DEF MayGoOn, IsCurrent, LocksCategory, SecondRows, ChosenCategory
  <1>3. CASE form[q].op \in {"editCategory", "categoryStatus"}
    <2>1. form[q].target \in Categories /\ form[q].target \in Locked(q)
      BY <1>3, FormFields, RowsOfRequest
    <2>2. category'[form[q].target] = category[form[q].target]
      BY <1>3, <2>1, LockedRowsStay DEF SeenRowOK
    <2>3. MayCloseCategory(q) => MayCloseCategory(q)'
      <3>1. ActiveToolsIn(form[q].target)' \subseteq ActiveToolsIn(form[q].target)
        BY <2>1, LockedRowsStay DEF ActiveToolsIn
      <3> QED BY <3>1 DEF MayCloseCategory
    <2> QED BY <1>3, <2>2, <2>3 DEF MayGoOn, MayEditCategory, MayChangeCategory, IsCurrent,
                                   LocksCategory, SecondRows, ChosenCategory
  <1>4. CASE form[q].op = "selection"
    <2>1. form[q].categories \subseteq Categories /\ form[q].categories \subseteq Locked(q)
      BY <1>4, FormFields, RowsOfRequest
    <2>2. \A k \in form[q].categories : IsOpen(k) /\ category'[k] = category[k]
      BY <1>4, <2>1, LockedRowsStay, ChecksOfRequest DEF IsOpen, IsCategory
    <2> QED BY <1>4, <2>2 DEF MayGoOn, IsOpen, LocksCategory
  <1> QED BY <1>1, <1>2, <1>3, <1>4, FormFields

(* For a selection: the active tools that are locked stay, and no others   *)
(* come into the categories that are locked.                               *)
LEMMA OthersSelection ==
    ASSUME MasterTypeOK, MasterTypeOK', LocksExclude,
           NEW p \in Clerks, NEW q \in Clerks \ {p}, RowsGuarded(p),
           form'[q] = form[q], form[q].op = "selection",
           FirstRows(q) \subseteq Locked(q)
    PROVE  /\ SecondRows(q) \cap Locked(q) \subseteq SecondRows(q)'
           /\ SecondRows(q)' \subseteq SecondRows(q)
  <1>1. form[q].categories \subseteq Categories /\ form[q].categories \subseteq Locked(q)
    BY FormFields, RowsOfRequest
  <1>2. SecondRows(q)' = {t \in Tools : /\ IsActiveTool(t)'
                                        /\ tool'[t].category \in form[q].categories}
    BY DEF SecondRows, ActiveToolsIn
  <1>3. \A t \in Tools : IsActiveTool(t) => IsTool(t)
    BY DEF IsActiveTool, IsTool
  <1>4. ASSUME NEW t \in SecondRows(q) \cap Locked(q) PROVE t \in SecondRows(q)'
    <2>1. t \in Tools /\ IsActiveTool(t) /\ tool[t].category \in form[q].categories
      BY RowsOfRequest
    <2>2. tool'[t] = tool[t]
      BY <1>3, <2>1, LockedRowsStay
    <2> QED BY <1>2, <2>1, <2>2 DEF IsActiveTool
  <1>5. ASSUME NEW t \in SecondRows(q)' PROVE t \in SecondRows(q)
    <2>1. t \in Tools /\ IsActiveTool(t)' /\ tool'[t].category \in form[q].categories
      BY <1>2
    <2>2. IsActiveTool(t) /\ tool[t].category = tool'[t].category
      BY <1>1, <2>1, LockedRowsStay
    <2> QED BY <2>1, <2>2, RowsOfRequest
  <1> QED BY <1>4, <1>5

LEMMA OthersKeep ==
    ASSUME MasterTypeOK, MasterTypeOK', LocksExclude,
           NEW p \in Clerks, NEW q \in Clerks \ {p}, ClerkOK(q), RowsGuarded(p),
           stage'[q] = stage[q], form'[q] = form[q], held'[q] = held[q]
    PROVE  ClerkOK(q)'
  <1>1. FormOK(q)' /\ SeenRowOK(q)'
    BY OthersSeenRow DEF ClerkOK, FormOK
  <1>2. ModeOf(q)' = ModeOf(q) /\ FirstRows(q)' = FirstRows(q) /\ Locked(q)' = Locked(q)
    BY DEF ModeOf, FirstRows, Locked
  <1>3. stage[q] = "idle" <=> form[q].op = "none"
    BY FormFields DEF ClerkOK, FormOK, NoForm
  <1>4. stage[q] \in Stages
    BY DEF MasterTypeOK
  <1>5. stage[q] \in {"first", "second"} => form[q].op # "createCategory"
    BY DEF ClerkOK, FormOK
  <1>6. CASE stage[q] \in {"idle", "first"}
    BY <1>1, <1>2, <1>6 DEF ClerkOK, HeldOK, SelectionOK
  <1>7. CASE form[q].op = "createCategory"
    <2>1. stage[q] = "save" /\ q \notin Checklists
      BY <1>7 DEF ClerkOK, FormOK, NoForm
    <2>2. ~LocksCategory(q)'
      BY <1>7 DEF LocksCategory
    <2> QED BY <1>1, <1>2, <1>7, <2>1, <2>2 DEF ClerkOK, HeldOK
  <1>8. CASE stage[q] \in {"second", "save"} /\ form[q].op # "createCategory"
    <2>1. /\ FirstRows(q) \subseteq Locked(q) /\ MayGoOn(q)
          /\ held[q] \subseteq (Tools \cup Categories) \X {ModeOf(q)}
      BY <1>8 DEF ClerkOK, HeldOK
    <2>2. /\ MayGoOn(q)'
          /\ LocksCategory(q)' <=> LocksCategory(q)
          /\ form[q].op # "selection" => SecondRows(q)' = SecondRows(q)
      BY <1>3, <1>8, <2>1, OthersChecks DEF ClerkOK
    <2>3. form[q].op = "selection" =>
             /\ SecondRows(q) \cap Locked(q) \subseteq SecondRows(q)'
             /\ SecondRows(q)' \subseteq SecondRows(q)
      BY <2>1, OthersSelection
    <2>4. CASE stage[q] = "second"
      <3>1. LocksCategory(q) /\ Locked(q) \subseteq FirstRows(q) \cup SecondRows(q)
        BY <2>4 DEF ClerkOK, HeldOK
      <3>2. Locked(q)' \subseteq FirstRows(q)' \cup SecondRows(q)'
        BY <1>2, <2>2, <2>3, <3>1
      <3> QED BY <1>1, <1>2, <2>1, <2>2, <2>4, <3>1, <3>2 DEF ClerkOK, HeldOK, SelectionOK
    <2>5. CASE stage[q] = "save"
      <3>1. LocksCategory(q) =>
              /\ SecondRows(q) \subseteq Locked(q)
              /\ form[q].op # "selection" => IsOpen(ChosenCategory(q))
        BY <2>5 DEF ClerkOK, HeldOK
      <3>2. ASSUME LocksCategory(q), form[q].op # "selection"
            PROVE  IsOpen(ChosenCategory(q))'
        <4>1. form[q].op \in {"editTool", "toolStatus"}
          BY <3>2 DEF LocksCategory
        <4>2. SecondRows(q) = {ChosenCategory(q)} /\ SecondRows(q)' = {ChosenCategory(q)'}
          BY <3>2 DEF SecondRows
        <4>3. ChosenCategory(q)' = ChosenCategory(q)
          BY <2>2, <3>2, <4>2
        <4>4. ChosenCategory(q) \in Categories
          BY <4>1, FormFields DEF ChosenCategory, MasterTypeOK, ToolRow
        <4>5. category'[ChosenCategory(q)] = category[ChosenCategory(q)]
          BY <3>1, <3>2, <4>2, <4>4, LockedRowsStay DEF IsOpen, IsCategory
        <4> QED BY <3>1, <3>2, <4>3, <4>5 DEF IsOpen
      <3>3. q \in Checklists => SelectionOK(q)'
        <4> SUFFICES ASSUME q \in Checklists PROVE SelectionOK(q)'
          OBVIOUS
        <4>1. form[q].op = "selection"
          BY <2>5 DEF ClerkOK, FormOK
        <4>2. SecondRows(q) = Locked(q) \cap Tools
          BY <2>5 DEF ClerkOK, SelectionOK
        <4>3. SecondRows(q)' = Locked(q)' \cap Tools
          BY <1>2, <2>3, <4>1, <4>2
        <4>4. \A k \in form[q].categories : IsOpen(k)'
          BY <2>2, <4>1 DEF MayGoOn
        <4> QED BY <4>3, <4>4 DEF SelectionOK
      <3>4. LocksCategory(q) => SecondRows(q)' \subseteq Locked(q)'
        BY <1>2, <2>2, <2>3, <3>1
      <3> QED BY <1>1, <1>2, <2>1, <2>2, <2>5, <3>1, <3>2, <3>3, <3>4
              DEF ClerkOK, HeldOK
    <2> QED BY <1>8, <2>4, <2>5
  <1> QED BY <1>4, <1>6, <1>7, <1>8 DEF Stages
-----------------------------------------------------------------------------
LEMMA InvOfClerks ==
    MasterInv <=> /\ MasterTypeOK /\ ActiveToolsUsable /\ LocksExclude
                  /\ \A q \in Clerks : ClerkOK(q)
  BY DEF MasterInv, ClerkOK, SelectionIsWhole, SelectionOK, Clerks

LEMMA InitInv == MasterInit => MasterInv
  <1> SUFFICES ASSUME MasterInit PROVE MasterInv
    OBVIOUS
  <1>1. MasterTypeOK
    BY MasterAssumption DEF MasterInit, MasterTypeOK, ToolRow, CategoryRow, NoTool, NoCategory,
       Active, Stages, Form
  <1>2. ActiveToolsUsable
    BY MasterAssumption DEF MasterInit, ActiveToolsUsable, IsActiveTool, IsOpen, NoTool
  <1>3. SelectionIsWhole /\ LocksExclude
    BY DEF MasterInit, SelectionIsWhole, LocksExclude, Clerks
  <1>4. ASSUME NEW q \in Clerks PROVE FormOK(q) /\ SeenRowOK(q) /\ HeldOK(q)
    <2>1. stage[q] = "idle" /\ form[q] = NoForm /\ form[q].op = "none" /\ held[q] = {}
      BY DEF MasterInit, NoForm
    <2> QED BY <2>1 DEF FormOK, SeenRowOK, HeldOK
  <1> QED BY <1>1, <1>2, <1>3, <1>4 DEF MasterInv

(* A step of p keeps the invariant when it keeps p's part of it.           *)
LEMMA StepInv ==
    ASSUME MasterInv, NEW p \in Clerks, MasterTypeOK', ActiveToolsUsable', LocksExclude',
           RowsGuarded(p), ClerkOK(p)',
           \A q \in Clerks \ {p} :
               stage'[q] = stage[q] /\ form'[q] = form[q] /\ held'[q] = held[q]
    PROVE  MasterInv'
  <1>1. MasterTypeOK /\ LocksExclude /\ \A q \in Clerks : ClerkOK(q)
    BY InvOfClerks
  <1>2. \A q \in Clerks \ {p} : ClerkOK(q)'
    BY <1>1, OthersKeep
  <1>3. \A q \in Clerks : ClerkOK(q)'
    BY <1>2
  <1> QED BY <1>3, InvOfClerks DEF MasterInv, ClerkOK, SelectionIsWhole, SelectionOK, Clerks

(* The end of a transaction, whatever it has saved.                        *)
LEMMA CloseStep ==
    ASSUME MasterInv, NEW p \in Clerks, Close(p),
           tool' \in [Tools -> ToolRow], category' \in [Categories -> CategoryRow],
           ActiveToolsUsable', RowsGuarded(p)
    PROVE  MasterInv'
  <1>1. /\ stage' = [stage EXCEPT ![p] = "idle"]
        /\ form' = [form EXCEPT ![p] = NoForm]
        /\ held' = [held EXCEPT ![p] = {}]
    BY DEF Close
  <1>2. MasterTypeOK /\ LocksExclude
    BY DEF MasterInv
  <1>3. /\ stage'[p] = "idle" /\ form'[p] = NoForm /\ held'[p] = {}
        /\ \A q \in Clerks \ {p} :
              stage'[q] = stage[q] /\ form'[q] = form[q] /\ held'[q] = held[q]
    BY <1>1, <1>2 DEF MasterTypeOK
  <1>4. MasterTypeOK'
    <2>1. stage' \in [Clerks -> Stages] /\ form' \in [Clerks -> Form]
      BY <1>1, <1>2 DEF MasterTypeOK, Stages, Form
    <2>2. held' \in [Clerks -> SUBSET ((Tools \cup Categories) \X Modes)]
      BY <1>1, <1>2 DEF MasterTypeOK
    <2> QED BY <2>1, <2>2 DEF MasterTypeOK
  <1>5. LocksExclude'
    <2>1. \A q \in Clerks : held'[q] \subseteq held[q]
      BY <1>3
    <2> QED BY <1>2, <2>1 DEF LocksExclude
  <1>6. ClerkOK(p)'
    <2>1. form'[p].op = "none"
      BY <1>3 DEF NoForm
    <2> QED BY <1>3, <2>1 DEF ClerkOK, FormOK, SeenRowOK, HeldOK, SelectionOK
  <1> QED BY <1>3, <1>4, <1>5, <1>6, StepInv

LEMMA RollBackStep ==
    ASSUME MasterInv, NEW p \in Clerks, RollBack(p)
    PROVE  MasterInv'
  <1>1. Close(p) /\ tool' = tool /\ category' = category
    BY DEF RollBack
  <1>2. RowsGuarded(p) /\ ActiveToolsUsable'
    BY <1>1 DEF RowsGuarded, MasterInv, ActiveToolsUsable, IsActiveTool, IsOpen
  <1> QED BY <1>1, <1>2, CloseStep DEF MasterInv, MasterTypeOK

(* A step that leaves the rows alone.                                      *)
LEMMA RowsStay ==
    ASSUME MasterInv, NEW p \in Clerks, tool' = tool, category' = category
    PROVE  RowsGuarded(p) /\ ActiveToolsUsable'
  BY DEF RowsGuarded, MasterInv, ActiveToolsUsable, IsActiveTool, IsOpen

(* A request for a row that is on display, or for none.                    *)
LEMMA SendStep ==
    ASSUME MasterInv, NEW p \in Clerks, NEW f \in Form \ {NoForm}, Send(p, f),
           f.op = "selection" <=> p \in Checklists,
           f.op \in {"editTool", "toolStatus"} =>
               IsTool(f.target) /\ f.seen = tool[f.target],
           f.op \in {"editCategory", "categoryStatus"} =>
               IsCategory(f.target) /\ f.seen = category[f.target]
    PROVE  MasterInv'
  <1>1. /\ stage[p] = "idle"
        /\ stage' = [stage EXCEPT ![p] = IF f.op = "createCategory" THEN "save" ELSE "first"]
        /\ form' = [form EXCEPT ![p] = f]
        /\ tool' = tool /\ category' = category /\ held' = held
    BY DEF Send
  <1>2. MasterTypeOK /\ ClerkOK(p)
    BY InvOfClerks
  <1>3. /\ stage'[p] = IF f.op = "createCategory" THEN "save" ELSE "first"
        /\ form'[p] = f /\ held'[p] = {}
        /\ \A q \in Clerks \ {p} :
              stage'[q] = stage[q] /\ form'[q] = form[q] /\ held'[q] = held[q]
    BY <1>1, <1>2 DEF MasterTypeOK, ClerkOK, HeldOK
  <1>4. MasterTypeOK'
    BY <1>1, <1>2 DEF MasterTypeOK, Stages
  <1>5. LocksExclude'
    BY <1>1 DEF MasterInv, LocksExclude
  <1>6. ClerkOK(p)'
    <2>1. FormOK(p)'
      BY <1>3 DEF FormOK
    <2>2. SeenRowOK(p)'
      <3>1. ASSUME f.op \in {"editTool", "toolStatus"}
            PROVE  f.target \in Tools /\ f.seen.version \in Nat
        <4>1. f.target \in Tools
          BY <1>3, <1>4, <3>1, FormFields DEF Form, ToolForm, CategoryForm, Selection, NoForm
        <4> QED BY <1>2, <3>1, <4>1 DEF MasterTypeOK, ToolRow
      <3>2. ASSUME f.op \in {"editCategory", "categoryStatus"}
            PROVE  f.target \in Categories /\ f.seen.version \in Nat
        <4>1. f.target \in Categories
          BY <3>2 DEF Form, ToolForm, CategoryForm, Selection, NoForm
        <4> QED BY <1>2, <3>2, <4>1 DEF MasterTypeOK, CategoryRow
      <3> QED BY <1>1, <1>3, <3>1, <3>2 DEF SeenRowOK, IsTool, IsCategory
    <2>3. HeldOK(p)'
      <3>1. Locked(p)' = {}
        BY <1>3 DEF Locked
      <3>2. stage'[p] = "save" => ~LocksCategory(p)'
        BY <1>3 DEF LocksCategory
      <3> QED BY <1>3, <3>1, <3>2 DEF HeldOK
    <2>4. p \in Checklists => SelectionOK(p)'
      BY <1>3 DEF SelectionOK
    <2> QED BY <2>1, <2>2, <2>3, <2>4 DEF ClerkOK
  <1>7. RowsGuarded(p) /\ ActiveToolsUsable'
    BY <1>1, RowsStay
  <1> QED BY <1>3, <1>4, <1>5, <1>6, <1>7, StepInv

LEMMA RequestStep ==
    ASSUME MasterInv, NEW p \in Clerks,
           \/ p \in Admins /\ (SendTool(p) \/ SendCategory(p))
           \/ p \in Checklists /\ Select(p)
    PROVE  MasterInv'
  <1>1. tool \in [Tools -> ToolRow] /\ category \in [Categories -> CategoryRow]
    BY DEF MasterInv, MasterTypeOK
  <1>2. p \in Admins => p \notin Checklists
    BY MasterAssumption
  <1>3. CASE p \in Admins /\ SendTool(p)
    <2>1. PICK f \in ToolForm :
             /\ Send(p, f)
             /\ f.op \in {"editTool", "toolStatus"} => IsTool(f.target) /\ f.seen = tool[f.target]
      <3>1. ASSUME NEW k \in ShownCategories
            PROVE  [op |-> "createTool", category |-> k] \in ToolForm
        BY DEF ShownCategories, ToolForm
      <3>2. ASSUME NEW t \in ShownTools, NEW k \in ShownCategories
            PROVE  [op |-> "editTool", target |-> t, seen |-> tool[t], category |-> k] \in ToolForm
        BY <1>1 DEF ShownTools, ShownCategories, ToolForm
      <3>3. ASSUME NEW t \in ShownTools, NEW a \in Active
            PROVE  [op |-> "toolStatus", target |-> t, seen |-> tool[t], status |-> a] \in ToolForm
        BY <1>1 DEF ShownTools, ToolForm
      <3>4. \A t \in ShownTools : IsTool(t)
        BY DEF ShownTools
      <3> QED BY <1>3, <3>1, <3>2, <3>3, <3>4 DEF SendTool
    <2>2. /\ f \in Form \ {NoForm}
          /\ f.op \notin {"selection", "editCategory", "categoryStatus"}
      BY DEF Form, ToolForm, NoForm
    <2> QED BY <1>2, <1>3, <2>1, <2>2, SendStep
  <1>4. CASE p \in Admins /\ SendCategory(p)
    <2>1. PICK f \in CategoryForm :
             /\ Send(p, f)
             /\ f.op \in {"editCategory", "categoryStatus"} =>
                   IsCategory(f.target) /\ f.seen = category[f.target]
      <3>1. [op |-> "createCategory"] \in CategoryForm
        BY DEF CategoryForm
      <3>2. ASSUME NEW k \in ShownCategories, NEW r \in BOOLEAN
            PROVE  [op |-> "editCategory", target |-> k, seen |-> category[k], rename |-> r]
                      \in CategoryForm
        BY <1>1 DEF ShownCategories, CategoryForm
      <3>3. ASSUME NEW k \in ShownCategories, NEW a \in Active
            PROVE  [op |-> "categoryStatus", target |-> k, seen |-> category[k], status |-> a]
                      \in CategoryForm
        BY <1>1 DEF ShownCategories, CategoryForm
      <3>4. \A k \in ShownCategories : IsCategory(k)
        BY DEF ShownCategories
      <3> QED BY <1>4, <3>1, <3>2, <3>3, <3>4 DEF SendCategory
    <2>2. f \in Form \ {NoForm} /\ f.op \notin {"selection", "editTool", "toolStatus"}
      BY DEF Form, CategoryForm, NoForm
    <2> QED BY <1>2, <1>4, <2>1, <2>2, SendStep
  <1>5. CASE p \in Checklists /\ Select(p)
    <2>1. PICK ks \in (SUBSET ShownCategories) \ {{}} :
             Send(p, [op |-> "selection", categories |-> ks])
      BY <1>5 DEF Select
    <2> DEFINE f == [op |-> "selection", categories |-> ks]
    <2>2. f \in Form \ {NoForm} /\ f.op = "selection"
      BY DEF Form, Selection, NoForm, ShownCategories
    <2> HIDE DEF f
    <2>3. Send(p, f)
      BY <2>1 DEF f
    <2> QED BY <1>5, <2>2, <2>3, SendStep
  <1> QED BY <1>3, <1>4, <1>5
-----------------------------------------------------------------------------
(* A row is locked when nobody's lock on it is in the way.                 *)
LEMMA LockRowStep ==
    ASSUME MasterInv, NEW p \in Clerks, LockRow(p)
    PROVE  MasterInv'
  <1> DEFINE w == Wanted(p)
             m == ModeOf(p)
  <1>1. MasterTypeOK /\ LocksExclude /\ ClerkOK(p)
    BY InvOfClerks
  <1>2. /\ tool' = tool /\ category' = category /\ stage' = stage /\ form' = form
        /\ held' = [held EXCEPT ![p] = @ \cup {<<w, m>>}]
    BY DEF LockRow
  <1>3. w \in NextRows(p) /\ w \notin Locked(p)
    BY DEF LockRow, Wanted, Missing
  <1>4. m \in Modes
    BY DEF ModeOf, Modes
  <1>5. stage[p] \in {"first", "second"}
    BY <1>3 DEF NextRows
  <1>6. /\ stage[p] = "first" => w \in FirstRows(p)
        /\ stage[p] = "second" => w \in SecondRows(p)
    BY <1>3 DEF NextRows
  <1>7. form[p].op \notin {"none", "createCategory"}
    BY <1>1, <1>5, FormFields DEF ClerkOK, FormOK
  <1>8. w \in Tools \cup Categories
    <2>1. CASE stage[p] = "first"
      BY <1>1, <1>6, <1>7, <2>1, FormFields, RowsOfRequest
    <2>2. CASE stage[p] = "second"
      <3>1. form[p].op \in {"editTool", "toolStatus", "selection"}
        BY <1>1, <2>2 DEF ClerkOK, HeldOK, LocksCategory
      <3>2. form[p].op = "toolStatus" => tool[form[p].target].category \in Categories
        BY <1>1, FormFields DEF MasterTypeOK, ToolRow
      <3> QED BY <1>1, <1>6, <2>2, <3>1, <3>2, FormFields, RowsOfRequest
    <2> QED BY <1>5, <2>1, <2>2
  <1>9. \A q \in Clerks \ {p} : \A lock \in held[q] :
           lock[1] = w => m = "read" /\ lock[2] = "read"
    <2> SUFFICES ASSUME NEW q \in Clerks \ {p}, NEW lock \in held[q], lock[1] = w
                 PROVE  m = "read" /\ lock[2] = "read"
      OBVIOUS
    <2>1. Blockers(p, w, m) = {}
      BY DEF LockRow, BlockedBy
    <2>2. ~(m = "write" \/ lock[2] = "write")
      BY <2>1 DEF Blockers
    <2>3. lock[2] \in Modes
      BY <1>1 DEF MasterTypeOK
    <2> QED BY <1>4, <2>2, <2>3 DEF Modes
  <1> HIDE DEF w, m
  <1>10. /\ held'[p] = held[p] \cup {<<w, m>>}
         /\ \A q \in Clerks \ {p} : held'[q] = held[q]
    BY <1>1, <1>2 DEF MasterTypeOK
  <1>11. MasterTypeOK'
    <2>1. held' \in [Clerks -> SUBSET ((Tools \cup Categories) \X Modes)]
      BY <1>1, <1>2, <1>4, <1>8 DEF MasterTypeOK
    <2> QED BY <1>1, <1>2, <2>1 DEF MasterTypeOK
  <1>12. LocksExclude'
    <2> SUFFICES ASSUME NEW a \in Clerks, NEW b \in Clerks, a # b,
                        NEW x \in held'[a], NEW y \in held'[b], x[1] = y[1]
                 PROVE  x[2] = "read" /\ y[2] = "read"
      BY DEF LocksExclude
    <2>1. CASE x \in held[a] /\ y \in held[b]
      BY <1>1, <2>1 DEF LocksExclude
    <2>2. CASE a = p /\ x = <<w, m>>
      BY <1>9, <1>10, <2>2
    <2>3. CASE b = p /\ y = <<w, m>>
      BY <1>9, <1>10, <2>3
    <2> QED BY <1>10, <2>1, <2>2, <2>3
  <1>13. ClerkOK(p)'
    <2>1. FormOK(p)' /\ SeenRowOK(p)'
      BY <1>1, <1>2 DEF ClerkOK, FormOK, SeenRowOK, IsTool, IsCategory
    <2>2. ModeOf(p)' = m /\ FirstRows(p)' = FirstRows(p) /\ SecondRows(p)' = SecondRows(p)
      BY <1>2 DEF m, ModeOf, FirstRows, SecondRows, ChosenCategory, ActiveToolsIn, IsActiveTool
    <2>3. LocksCategory(p)' = LocksCategory(p) /\ MayGoOn(p)' = MayGoOn(p)
      BY <1>2 DEF LocksCategory, MayGoOn, MayCreateTool, MayEditCategory, MayChangeCategory,
                  MayCloseCategory, IsCurrent, IsOpen, ActiveToolsIn, IsActiveTool
    <2>4. Locked(p)' = Locked(p) \cup {w}
      <3>1. Locked(p) = {row \in Tools \cup Categories : <<row, m>> \in held[p]}
        BY DEF Locked, m
      <3>2. Locked(p)' = {row \in Tools \cup Categories : <<row, m>> \in held'[p]}
        BY <2>2 DEF Locked
      <3> QED BY <1>8, <1>10, <3>1, <3>2
    <2>5. held'[p] \subseteq (Tools \cup Categories) \X {m}
      BY <1>1, <1>8, <1>10 DEF ClerkOK, HeldOK, m
    <2>6. HeldOK(p)'
      BY <1>1, <1>2, <1>5, <1>6, <2>2, <2>3, <2>4, <2>5 DEF ClerkOK, HeldOK
    <2>7. SelectionOK(p)'
      BY <1>2, <1>5 DEF SelectionOK
    <2> QED BY <2>1, <2>6, <2>7 DEF ClerkOK
  <1>14. RowsGuarded(p) /\ ActiveToolsUsable'
    BY <1>2, RowsStay
  <1> QED BY <1>2, <1>10, <1>11, <1>12, <1>13, <1>14, StepInv

(* What is checked under the locks of a stage holds on when it is left.    *)
LEMMA CheckStep ==
    ASSUME MasterInv, NEW p \in Clerks, CheckFirst(p) \/ CheckSecond(p)
    PROVE  MasterInv'
  <1>1. MasterTypeOK /\ LocksExclude /\ ClerkOK(p)
    BY InvOfClerks
  <1>2. CASE RollBack(p)
    BY <1>2, RollBackStep
  <1>3. ASSUME NEW st \in {"second", "save"}, stage[p] \in {"first", "second"},
               stage' = [stage EXCEPT ![p] = st],
               UNCHANGED <<tool, category, form, held>>,
               FirstRows(p) \subseteq Locked(p), MayGoOn(p),
               st = "second" => LocksCategory(p) /\ Locked(p) \subseteq FirstRows(p),
               st = "save" /\ LocksCategory(p) =>
                   /\ SecondRows(p) \subseteq Locked(p)
                   /\ Locked(p) \subseteq FirstRows(p) \cup SecondRows(p)
                   /\ form[p].op # "selection" => IsOpen(ChosenCategory(p))
        PROVE  MasterInv'
    <2>1. stage'[p] = st /\ \A q \in Clerks \ {p} : stage'[q] = stage[q]
      BY <1>1, <1>3 DEF MasterTypeOK
    <2>2. MasterTypeOK' /\ LocksExclude'
      BY <1>1, <1>3 DEF MasterTypeOK, LocksExclude, Stages
    <2>3. form[p] # NoForm /\ form[p].op # "createCategory"
      BY <1>1, <1>3 DEF ClerkOK, FormOK
    <2>4. FormOK(p)' /\ SeenRowOK(p)'
      BY <1>1, <1>3, <2>1, <2>3 DEF ClerkOK, FormOK, SeenRowOK, IsTool, IsCategory
    <2>5. /\ ModeOf(p)' = ModeOf(p) /\ Locked(p)' = Locked(p)
          /\ FirstRows(p)' = FirstRows(p) /\ SecondRows(p)' = SecondRows(p)
          /\ ChosenCategory(p)' = ChosenCategory(p)
      BY <1>3 DEF ModeOf, Locked, FirstRows, SecondRows, ChosenCategory, ActiveToolsIn,
                  IsActiveTool
    <2>6. LocksCategory(p)' = LocksCategory(p) /\ MayGoOn(p)' = MayGoOn(p)
      BY <1>3 DEF LocksCategory, MayGoOn, MayCreateTool, MayEditCategory, MayChangeCategory,
                  MayCloseCategory, IsCurrent, IsOpen, ActiveToolsIn, IsActiveTool
    <2>7. HeldOK(p)'
      <3>1. held'[p] \subseteq (Tools \cup Categories) \X {ModeOf(p)}
        BY <1>1, <1>3 DEF ClerkOK, HeldOK
      <3>2. IsOpen(ChosenCategory(p)) => IsOpen(ChosenCategory(p))'
        BY <1>3, <2>5 DEF IsOpen
      <3> QED BY <1>3, <2>1, <2>3, <2>5, <2>6, <3>1, <3>2 DEF HeldOK
    <2>8. p \in Checklists => SelectionOK(p)'
      <3> SUFFICES ASSUME p \in Checklists, st = "save" PROVE SelectionOK(p)'
        BY <2>1 DEF SelectionOK
      <3>1. form[p].op = "selection"
        BY <1>1, <1>3 DEF ClerkOK, FormOK
      <3>2. \A k \in form[p].categories : IsOpen(k)
        BY <1>3, <3>1, ChecksOfRequest
      <3>3. FirstRows(p) \cap Tools = {}
        BY <1>1, <3>1, FormFields, RowsOfRequest, MasterAssumption
      <3>4. SecondRows(p) = Locked(p) \cap Tools
        <4>1. SecondRows(p) \subseteq Tools
          BY <3>1, RowsOfRequest
        <4>2. LocksCategory(p)
          BY <3>1 DEF LocksCategory
        <4> QED BY <1>3, <3>3, <4>1, <4>2
      <3> QED BY <1>3, <2>5, <3>2, <3>4 DEF SelectionOK, IsOpen
    <2>9. ClerkOK(p)'
      BY <2>4, <2>7, <2>8 DEF ClerkOK
    <2>10. RowsGuarded(p) /\ ActiveToolsUsable'
      BY <1>3, RowsStay
    <2> QED BY <1>3, <2>1, <2>2, <2>9, <2>10, StepInv
  <1>4. CASE CheckFirst(p) /\ ~RollBack(p)
    <2> DEFINE st == IF LocksCategory(p) THEN "second" ELSE "save"
    <2>1. /\ stage[p] = "first" /\ Missing(p) = {} /\ MayGoOn(p)
          /\ stage' = [stage EXCEPT ![p] = st]
          /\ UNCHANGED <<tool, category, form, held>>
      BY <1>4 DEF CheckFirst
    <2>2. FirstRows(p) \subseteq Locked(p)
      BY <2>1 DEF Missing, NextRows
    <2>3. Locked(p) \subseteq FirstRows(p)
      BY <1>1, <2>1 DEF ClerkOK, HeldOK
    <2>4. st \in {"second", "save"} /\ (st = "second" <=> LocksCategory(p))
      OBVIOUS
    <2> HIDE DEF st
    <2> QED BY <1>3, <2>1, <2>2, <2>3, <2>4
  <1>5. CASE CheckSecond(p) /\ ~RollBack(p)
    <2>1. /\ stage[p] = "second" /\ Missing(p) = {}
          /\ form[p].op = "selection" \/ IsOpen(ChosenCategory(p))
          /\ stage' = [stage EXCEPT ![p] = "save"]
          /\ UNCHANGED <<tool, category, form, held>>
      BY <1>5 DEF CheckSecond
    <2>2. SecondRows(p) \subseteq Locked(p)
      BY <2>1 DEF Missing, NextRows
    <2>3. form[p].op # "createCategory"
      BY <1>1, <2>1 DEF ClerkOK, FormOK
    <2>4. /\ FirstRows(p) \subseteq Locked(p) /\ MayGoOn(p)
          /\ Locked(p) \subseteq FirstRows(p) \cup SecondRows(p)
      BY <1>1, <2>1, <2>3 DEF ClerkOK, HeldOK
    <2> QED BY <1>3, <2>1, <2>2, <2>4
  <1> QED BY <1>2, <1>4, <1>5
-----------------------------------------------------------------------------
(* What a clerk knows when it saves an edit.                               *)
LEMMA AtTheSave ==
    ASSUME MasterInv, NEW p \in Clerks, stage[p] = "save",
           form[p].op \notin {"none", "createCategory"}
    PROVE  /\ FirstRows(p) \subseteq Locked(p) /\ MayGoOn(p)
           /\ LocksCategory(p) =>
                 /\ SecondRows(p) \subseteq Locked(p)
                 /\ form[p].op # "selection" => IsOpen(ChosenCategory(p))
           /\ form[p].op # "selection" =>
                 \A row \in Locked(p) : <<row, "write">> \in held[p]
  <1>1. ClerkOK(p)
    BY InvOfClerks
  <1>2. form[p].op # "selection" => \A row \in Locked(p) : <<row, "write">> \in held[p]
    BY DEF Locked, ModeOf
  <1> QED BY <1>1, <1>2 DEF ClerkOK, HeldOK

LEMMA CreateToolStep ==
    ASSUME MasterInv, NEW p \in Clerks, CreateTool(p)
    PROVE  MasterInv'
  <1>1. MasterTypeOK /\ ActiveToolsUsable
    BY DEF MasterInv
  <1>2. stage[p] = "save" /\ form[p].op = "createTool"
    BY DEF CreateTool, Saving
  <1> DEFINE k == form[p].category
             row == [status |-> "ACTIVE", version |-> 1, category |-> k]
  <1>3. PICK t \in Tools : ~IsTool(t) /\ tool' = [tool EXCEPT ![t] = row]
    BY DEF CreateTool
  <1>4. Close(p) /\ category' = category
    BY DEF CreateTool
  <1>5. k \in Categories /\ IsOpen(k) /\ <<k, "write">> \in held[p]
    BY <1>1, <1>2, FormFields, RowsOfRequest, AtTheSave, ChecksOfRequest
  <1>6. row \in ToolRow /\ row.status = "ACTIVE" /\ row.category = k
    BY <1>5 DEF ToolRow, Active
  <1> HIDE DEF row, k
  <1>7. tool' \in [Tools -> ToolRow] /\ tool'[t] = row /\ \A u \in Tools \ {t} : tool'[u] = tool[u]
    BY <1>1, <1>3, <1>6 DEF MasterTypeOK
  <1>8. ActiveToolsUsable'
    BY <1>1, <1>4, <1>5, <1>6, <1>7 DEF ActiveToolsUsable, IsActiveTool, IsOpen
  <1>9. RowsGuarded(p)
    BY <1>3, <1>4, <1>5, <1>6, <1>7 DEF RowsGuarded, IsTool, IsActiveTool
  <1> QED BY <1>1, <1>4, <1>7, <1>8, <1>9, CloseStep DEF MasterTypeOK

(* A tool that p holds changes, to a later version; and when it is or      *)
(* becomes active elsewhere, p holds its new category, which is open.      *)
LEMMA ToolChangeStep ==
    ASSUME MasterInv, NEW p \in Clerks, NEW t \in Tools, NEW row \in ToolRow,
           IsTool(t), <<t, "write">> \in held[p],
           tool' = [tool EXCEPT ![t] = row],
           row.status # "none", tool[t].version < row.version,
           row.status = "ACTIVE" =>
               \/ IsActiveTool(t) /\ row.category = tool[t].category
               \/ IsOpen(row.category) /\ <<row.category, "write">> \in held[p],
           Close(p), category' = category
    PROVE  MasterInv'
  <1>1. MasterTypeOK /\ ActiveToolsUsable
    BY DEF MasterInv
  <1>2. tool' \in [Tools -> ToolRow] /\ tool'[t] = row /\ \A u \in Tools \ {t} : tool'[u] = tool[u]
    BY <1>1 DEF MasterTypeOK
  <1>3. ActiveToolsUsable'
    BY <1>1, <1>2 DEF ActiveToolsUsable, IsActiveTool, IsOpen
  <1>4. RowsGuarded(p)
    BY <1>2 DEF RowsGuarded, IsTool, IsActiveTool
  <1> QED BY <1>1, <1>2, <1>3, <1>4, CloseStep DEF MasterTypeOK

(* The rows that the saves write.                                          *)
LEMMA MovedRow ==
    ASSUME NEW r \in ToolRow, NEW k \in Categories
    PROVE  LET row == [r EXCEPT !.category = k, !.version = @ + 1]
           IN  row \in ToolRow /\ row.status = r.status /\ row.category = k /\ r.version < row.version
  <1> DEFINE row == [r EXCEPT !.category = k, !.version = r.version + 1]
  <1>1. r.version \in Nat /\ r.version + 1 \in Nat
    BY DEF ToolRow
  <1>2. row.status = r.status /\ row.category = k /\ row.version = r.version + 1
    BY DEF ToolRow
  <1>3. row \in ToolRow
    BY <1>1 DEF ToolRow
  <1> QED BY <1>1, <1>2, <1>3

LEMMA SwitchedRow ==
    ASSUME NEW r \in ToolRow, NEW a \in Active
    PROVE  LET row == [r EXCEPT !.status = a, !.version = @ + 1]
           IN  row \in ToolRow /\ row.status = a /\ row.category = r.category /\ r.version < row.version
  <1> DEFINE row == [r EXCEPT !.status = a, !.version = r.version + 1]
  <1>1. r.version \in Nat /\ r.version + 1 \in Nat
    BY DEF ToolRow
  <1>2. row.status = a /\ row.category = r.category /\ row.version = r.version + 1
    BY DEF ToolRow
  <1>3. row \in ToolRow
    BY <1>1 DEF ToolRow
  <1> QED BY <1>1, <1>2, <1>3

LEMMA SwitchedCategory ==
    ASSUME NEW r \in CategoryRow, NEW a \in Active
    PROVE  LET row == [r EXCEPT !.status = a, !.version = @ + 1]
           IN  row \in CategoryRow /\ row.status = a /\ r.version < row.version
  <1> DEFINE row == [r EXCEPT !.status = a, !.version = r.version + 1]
  <1>1. r.version \in Nat /\ r.version + 1 \in Nat
    BY DEF CategoryRow
  <1>2. row.status = a /\ row.version = r.version + 1
    BY DEF CategoryRow
  <1>3. row \in CategoryRow
    BY <1>1 DEF CategoryRow
  <1> QED BY <1>1, <1>2, <1>3

LEMMA UpdateToolStep ==
    ASSUME MasterInv, NEW p \in Clerks, UpdateTool(p)
    PROVE  MasterInv'
  <1>1. MasterTypeOK /\ ClerkOK(p)
    BY InvOfClerks
  <1>2. /\ stage[p] = "save" /\ form[p].op = "editTool"
        /\ Close(p) /\ category' = category
    BY DEF UpdateTool, Saving
  <1> DEFINE t == form[p].target
             k == form[p].category
             row == [tool[t] EXCEPT !.category = k, !.version = @ + 1]
  <1>3. t \in Tools /\ k \in Categories /\ IsTool(t)
    BY <1>1, <1>2, FormFields DEF ClerkOK, SeenRowOK
  <1>4. <<t, "write">> \in held[p] /\ <<k, "write">> \in held[p] /\ IsOpen(k)
    <2>1. LocksCategory(p) /\ ChosenCategory(p) = k
      BY <1>2 DEF LocksCategory, ChosenCategory
    <2> QED BY <1>2, <2>1, AtTheSave, RowsOfRequest
  <1>5. CASE tool' = [tool EXCEPT ![t] = row]
    <2>1. tool[t] \in ToolRow
      BY <1>1, <1>3 DEF MasterTypeOK
    <2>2. /\ row \in ToolRow /\ row.status = tool[t].status /\ row.category = k
          /\ tool[t].version < row.version
      BY <1>3, <2>1, MovedRow
    <2> HIDE DEF row, t, k
    <2>3. row.status # "none"
      BY <1>3, <2>2 DEF IsTool
    <2> QED BY <1>2, <1>3, <1>4, <1>5, <2>2, <2>3, ToolChangeStep
  <1>6. CASE tool' = tool
    BY <1>2, <1>6, RollBackStep DEF RollBack
  <1>7. \/ tool' = tool
        \/ tool' = [tool EXCEPT ![t].category = k, ![t].version = @ + 1]
    BY DEF UpdateTool
  <1>8. [tool EXCEPT ![t].category = k, ![t].version = @ + 1] = [tool EXCEPT ![t] = row]
    BY <1>1, <1>3 DEF MasterTypeOK, ToolRow
  <1> QED BY <1>5, <1>6, <1>7, <1>8

LEMMA UpdateToolStatusStep ==
    ASSUME MasterInv, NEW p \in Clerks, UpdateToolStatus(p)
    PROVE  MasterInv'
  <1>1. MasterTypeOK /\ ClerkOK(p)
    BY InvOfClerks
  <1>2. /\ stage[p] = "save" /\ form[p].op = "toolStatus"
        /\ Close(p) /\ category' = category
    BY DEF UpdateToolStatus, Saving
  <1> DEFINE t == form[p].target
             a == form[p].status
             row == [tool[t] EXCEPT !.status = a, !.version = @ + 1]
  <1>3. t \in Tools /\ a \in Active /\ IsTool(t)
    BY <1>1, <1>2, FormFields DEF ClerkOK, SeenRowOK
  <1>4. tool[t] \in ToolRow
    BY <1>1, <1>3 DEF MasterTypeOK
  <1>5. <<t, "write">> \in held[p]
    BY <1>2, AtTheSave, RowsOfRequest
  <1>6. CASE tool[t].status = a
    <2>1. tool' = tool
      BY <1>6 DEF UpdateToolStatus
    <2> QED BY <1>2, <2>1, RollBackStep DEF RollBack
  <1>7. CASE tool[t].status # a
    <2>1. tool' = [tool EXCEPT ![t] = row]
      <3>1. tool' = [tool EXCEPT ![t].status = a, ![t].version = @ + 1]
        BY <1>7 DEF UpdateToolStatus
      <3> QED BY <1>1, <1>3, <3>1 DEF MasterTypeOK, ToolRow
    <2>2. /\ row \in ToolRow /\ row.status = a /\ row.category = tool[t].category
          /\ tool[t].version < row.version
      BY <1>3, <1>4, SwitchedRow
    <2>3. a = "ACTIVE" => IsOpen(tool[t].category) /\ <<tool[t].category, "write">> \in held[p]
      <3> SUFFICES ASSUME a = "ACTIVE"
                   PROVE  IsOpen(tool[t].category) /\ <<tool[t].category, "write">> \in held[p]
        OBVIOUS
      <3>1. LocksCategory(p) /\ ChosenCategory(p) = tool[t].category
        BY <1>2, <1>7 DEF LocksCategory, ChosenCategory
      <3> QED BY <1>2, <3>1, AtTheSave, RowsOfRequest
    <2>4. a # "none"
      BY <1>3 DEF Active
    <2> HIDE DEF row, t, a
    <2> QED BY <1>2, <1>3, <1>5, <2>1, <2>2, <2>3, <2>4, ToolChangeStep
  <1> QED BY <1>6, <1>7

(* A category that p holds, or a new one, changes to a later version; it   *)
(* is closed only when it has no active tool and is not COMMON.            *)
LEMMA CategoryChangeStep ==
    ASSUME MasterInv, NEW p \in Clerks, NEW k \in Categories, NEW row \in CategoryRow,
           IsCategory(k) => <<k, "write">> \in held[p] /\ category[k].version < row.version,
           category' = [category EXCEPT ![k] = row], row.status # "none",
           row.status = "INACTIVE" =>
               category[k].status = "INACTIVE" \/ (k # Common /\ ActiveToolsIn(k) = {}),
           Close(p), tool' = tool
    PROVE  MasterInv'
  <1>1. MasterTypeOK /\ ActiveToolsUsable
    BY DEF MasterInv
  <1>2. /\ category' \in [Categories -> CategoryRow] /\ category'[k] = row
        /\ \A j \in Categories \ {k} : category'[j] = category[j]
    BY <1>1 DEF MasterTypeOK
  <1>3. \A j \in Categories : IsOpen(j) /\ (j = Common \/ ActiveToolsIn(j) # {}) => IsOpen(j)'
    <2>1. row.status = "ACTIVE" \/ row.status = "INACTIVE"
      BY DEF CategoryRow, Active
    <2> QED BY <1>2, <2>1 DEF IsOpen
  <1>4. ActiveToolsUsable'
    <2>1. IsOpen(Common)'
      BY <1>1, <1>3, MasterAssumption DEF ActiveToolsUsable
    <2>2. ASSUME NEW t \in Tools, IsActiveTool(t)' PROVE IsOpen(tool[t].category)'
      <3>1. IsActiveTool(t) /\ tool[t].category \in Categories
        BY <1>1, <2>2 DEF IsActiveTool, MasterTypeOK, ToolRow
      <3>2. ActiveToolsIn(tool[t].category) # {}
        BY <3>1 DEF ActiveToolsIn
      <3> QED BY <1>1, <1>3, <3>1, <3>2 DEF ActiveToolsUsable
    <2> QED BY <2>1, <2>2 DEF ActiveToolsUsable, IsOpen
  <1>5. RowsGuarded(p)
    BY <1>2 DEF RowsGuarded, IsCategory, IsActiveTool
  <1> QED BY <1>1, <1>2, <1>4, <1>5, CloseStep DEF MasterTypeOK

LEMMA CreateCategoryStep ==
    ASSUME MasterInv, NEW p \in Clerks, CreateCategory(p)
    PROVE  MasterInv'
  <1>1. PICK k \in Categories :
           ~IsCategory(k) /\ category' = [category EXCEPT ![k] = [status |-> "ACTIVE", version |-> 1]]
    BY DEF CreateCategory
  <1>2. Close(p) /\ tool' = tool
    BY DEF CreateCategory
  <1>3. [status |-> "ACTIVE", version |-> 1] \in CategoryRow
    BY DEF CategoryRow, Active
  <1> QED BY <1>1, <1>2, <1>3, CategoryChangeStep

LEMMA UpdateCategoryStep ==
    ASSUME MasterInv, NEW p \in Clerks, UpdateCategory(p)
    PROVE  MasterInv'
  <1>1. MasterTypeOK /\ ClerkOK(p)
    BY InvOfClerks
  <1>2. /\ stage[p] = "save" /\ form[p].op = "editCategory"
        /\ Close(p) /\ tool' = tool
    BY DEF UpdateCategory, Saving
  <1> DEFINE k == form[p].target
             row == [category[k] EXCEPT !.version = @ + 1]
  <1>3. k \in Categories /\ IsCategory(k) /\ <<k, "write">> \in held[p]
    BY <1>1, <1>2, FormFields, AtTheSave, RowsOfRequest DEF ClerkOK, SeenRowOK
  <1>4. CASE category' = category
    BY <1>2, <1>4, RollBackStep DEF RollBack
  <1>5. CASE category' = [category EXCEPT ![k].version = @ + 1]
    <2>1. category' = [category EXCEPT ![k] = row]
      BY <1>1, <1>3, <1>5 DEF MasterTypeOK, CategoryRow
    <2>2. category[k] \in CategoryRow
      BY <1>1, <1>3 DEF MasterTypeOK
    <2>3. /\ row \in CategoryRow /\ row.status = category[k].status
          /\ category[k].version < row.version
      BY <2>2 DEF CategoryRow
    <2> HIDE DEF row, k
    <2>4. row.status # "none"
      BY <1>3, <2>3 DEF IsCategory
    <2> QED BY <1>2, <1>3, <2>1, <2>3, <2>4, CategoryChangeStep
  <1> QED BY <1>4, <1>5 DEF UpdateCategory

LEMMA UpdateCategoryStatusStep ==
    ASSUME MasterInv, NEW p \in Clerks, UpdateCategoryStatus(p)
    PROVE  MasterInv'
  <1>1. MasterTypeOK /\ ClerkOK(p)
    BY InvOfClerks
  <1>2. /\ stage[p] = "save" /\ form[p].op = "categoryStatus"
        /\ Close(p) /\ tool' = tool
    BY DEF UpdateCategoryStatus, Saving
  <1> DEFINE k == form[p].target
             a == form[p].status
             row == [category[k] EXCEPT !.status = a, !.version = @ + 1]
  <1>3. /\ k \in Categories /\ a \in Active /\ IsCategory(k)
        /\ <<k, "write">> \in held[p] /\ MayGoOn(p)
    BY <1>1, <1>2, FormFields, AtTheSave, RowsOfRequest DEF ClerkOK, SeenRowOK
  <1>4. CASE category[k].status = a
    <2>1. category' = category
      BY <1>4 DEF UpdateCategoryStatus
    <2> QED BY <1>2, <2>1, RollBackStep DEF RollBack
  <1>5. CASE category[k].status # a
    <2>1. category' = [category EXCEPT ![k] = row]
      <3>1. category' = [category EXCEPT ![k].status = a, ![k].version = @ + 1]
        BY <1>5 DEF UpdateCategoryStatus
      <3> QED BY <1>1, <1>3, <3>1 DEF MasterTypeOK, CategoryRow
    <2>2. category[k] \in CategoryRow
      BY <1>1, <1>3 DEF MasterTypeOK
    <2>3. /\ row \in CategoryRow /\ row.status = a /\ category[k].version < row.version
      BY <1>3, <2>2, SwitchedCategory
    <2>4. a = "INACTIVE" => k # Common /\ ActiveToolsIn(k) = {}
      BY <1>2, <1>3, <1>5, ChecksOfRequest DEF MayCloseCategory
    <2>5. a # "none"
      BY <1>3 DEF Active
    <2> HIDE DEF row, k, a
    <2> QED BY <1>2, <1>3, <2>1, <2>3, <2>4, <2>5, CategoryChangeStep
  <1> QED BY <1>4, <1>5
-----------------------------------------------------------------------------
LEMMA ServeStep ==
    ASSUME MasterInv, NEW p \in Clerks, Serve(p) \/ GiveUp(p)
    PROVE  MasterInv'
  <1>1. CASE Victim(p) \/ DuplicateName(p) \/ CreateChecklist(p) \/ GiveUp(p)
    BY <1>1, RollBackStep DEF Victim, DuplicateName, CreateChecklist, GiveUp
  <1>2. CASE LockRow(p) \/ CheckFirst(p) \/ CheckSecond(p)
    BY <1>2, LockRowStep, CheckStep
  <1>3. CASE CreateTool(p) \/ UpdateTool(p) \/ UpdateToolStatus(p)
    BY <1>3, CreateToolStep, UpdateToolStep, UpdateToolStatusStep
  <1>4. CASE CreateCategory(p) \/ UpdateCategory(p) \/ UpdateCategoryStatus(p)
    BY <1>4, CreateCategoryStep, UpdateCategoryStep, UpdateCategoryStatusStep
  <1> QED BY <1>1, <1>2, <1>3, <1>4 DEF Serve

LEMMA StutterStep ==
    ASSUME MasterInv, UNCHANGED masterVars
    PROVE  MasterInv'
  <1>1. UNCHANGED <<tool, category, stage, form, held>>
    BY DEF masterVars
  <1> QED BY <1>1 DEF MasterInv, MasterTypeOK, ActiveToolsUsable, SelectionIsWhole, LocksExclude,
             FormOK, SeenRowOK, HeldOK, IsActiveTool, IsOpen, IsTool, IsCategory, SecondRows,
             FirstRows, ChosenCategory, ActiveToolsIn, Locked, ModeOf, MayGoOn, MayCreateTool,
             MayEditCategory, MayChangeCategory, MayCloseCategory, IsCurrent, LocksCategory

LEMMA NextInv == MasterInv /\ [MasterNext]_masterVars => MasterInv'
  BY RequestStep, ServeStep, StutterStep DEF MasterNext, Clerks

(* Every row is changed by the holder of its lock only, to a later version,*)
(* and what was checked under a lock holds until the lock is released.     *)
THEOREM MasterInvAlways == MasterSpec => []MasterInv
  BY InitInv, NextInv, PTL DEF MasterSpec

(* For any number of administrators: no edit of a tool or a category ever  *)
(* leaves an active tool in a category that is not active.                 *)
THEOREM ActiveToolsUsableAlways == MasterSpec => []ActiveToolsUsable
  <1>1. MasterInv => ActiveToolsUsable
    BY DEF MasterInv
  <1> QED BY <1>1, MasterInvAlways, PTL

(* For any number of checklists: what one has locked when it is stored is  *)
(* the whole of the active tools of its open categories.                   *)
THEOREM SelectionIsWholeAlways == MasterSpec => []SelectionIsWhole
  <1>1. MasterInv => SelectionIsWhole
    BY DEF MasterInv
  <1> QED BY <1>1, MasterInvAlways, PTL

(* No accepted edit overwrites one that its sender had not seen.           *)
THEOREM MasterEditsSeeCurrentAlways == MasterSpec => MasterEditsSeeCurrent
  <1>1. ASSUME MasterInv
        PROVE  \A q \in Admins :
                 /\ UpdateTool(q) \/ UpdateToolStatus(q) => form[q].seen = tool[form[q].target]
                 /\ UpdateCategory(q) \/ UpdateCategoryStatus(q)
                      => form[q].seen = category[form[q].target]
    <2> SUFFICES ASSUME NEW q \in Admins
                 PROVE  /\ UpdateTool(q) \/ UpdateToolStatus(q)
                             => form[q].seen = tool[form[q].target]
                        /\ UpdateCategory(q) \/ UpdateCategoryStatus(q)
                             => form[q].seen = category[form[q].target]
      OBVIOUS
    <2>1. q \in Clerks
      BY DEF Clerks
    <2>2. ClerkOK(q)
      BY <1>1, <2>1, InvOfClerks
    <2>3. CASE UpdateTool(q) \/ UpdateToolStatus(q)
      <3>1. stage[q] = "save" /\ form[q].op \in {"editTool", "toolStatus"}
        BY <2>3 DEF UpdateTool, UpdateToolStatus, Saving
      <3>2. MayGoOn(q)
        BY <1>1, <2>1, <3>1, AtTheSave
      <3>3. form[q].seen = tool[form[q].target]
        BY <2>1, <2>2, <3>1, <3>2, ChecksOfRequest DEF ClerkOK, SeenRowOK
      <3> QED BY <3>1, <3>3 DEF UpdateCategory, UpdateCategoryStatus, Saving
    <2>4. CASE UpdateCategory(q) \/ UpdateCategoryStatus(q)
      <3>1. stage[q] = "save" /\ form[q].op \in {"editCategory", "categoryStatus"}
        BY <2>4 DEF UpdateCategory, UpdateCategoryStatus, Saving
      <3>2. MayGoOn(q)
        BY <1>1, <2>1, <3>1, AtTheSave
      <3>3. form[q].seen = category[form[q].target]
        BY <2>1, <2>2, <3>1, <3>2, ChecksOfRequest DEF ClerkOK, SeenRowOK
      <3> QED BY <3>1, <3>3 DEF UpdateTool, UpdateToolStatus, Saving
    <2> QED BY <2>3, <2>4
  <1> QED BY <1>1, MasterInvAlways, PTL DEF MasterSpec, MasterEditsSeeCurrent
=============================================================================
