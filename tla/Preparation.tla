----------------------------- MODULE Preparation -----------------------------
(***************************************************************************)
(* What the screens conclude from a checklist: the groups and the summary  *)
(* of the checklist screen (src/frontend/src/views/DailyChecklistView.vue) *)
(* and the label of the home screen (HomeView.vue), while quantities and   *)
(* check marks change.  Groups are made by the NAME of a category, as the  *)
(* snapshot of the checklist stores it; a category that was renamed and a  *)
(* later one that took its name share it.                                  *)
(***************************************************************************)
EXTENDS Naturals, FiniteSets

CONSTANTS
    Items,      \* items of the checklist
    Categories, \* work categories, the common one included
    CommonCategory, \* the common category: never selected, only its tools are
    Names,      \* names of categories
    Stock       \* the stock of an item in its snapshot

ASSUME PreparationAssumption ==
    /\ IsFiniteSet(Items)
    /\ CommonCategory \in Categories
    /\ Stock \in Nat \ {0}

Halves == {"MORNING", "AFTERNOON"}

VARIABLES
    plan,       \* the checklist: where its items belong, the categories that
                \* were selected for a half of the day, and their names
    rows,       \* quantity and check mark of each item, as displayed
    half        \* the half of the day on display

prepVars == <<plan, rows, half>>

PrepRow == [takeout : 0..Stock, checked : BOOLEAN]

(* A snapshot holds the tools of the selected and of the common category.  *)
Plans ==
    {p \in [of     : [Items -> Halves \X Categories],
            chosen : [Halves -> (SUBSET (Categories \ {CommonCategory})) \ {{}}],
            name   : [Categories -> Names]] :
        \A i \in Items : p.of[i][2] \in p.chosen[p.of[i][1]] \cup {CommonCategory}}

PrepInit ==
    /\ plan \in Plans
    /\ rows = [i \in Items |-> [takeout |-> 0, checked |-> FALSE]]
    /\ half = "MORNING"
-----------------------------------------------------------------------------
NameOf(i) == plan.name[plan.of[i][2]]

ItemsOf(h) == {i \in Items : plan.of[i][1] = h}

Taken(its) == {i \in its : rows[i].takeout > 0}

Ready(its) == {i \in Taken(its) : rows[i].checked}

Groups_OfItems(h) == {NameOf(i) : i \in ItemsOf(h)}

(* groupedItems: a selected category without tools keeps its heading.      *)
Groups(h) ==
    {NameOf(i) : i \in ItemsOf(h)} \cup {plan.name[c] : c \in plan.chosen[h]}

IsQuantityUnset(h, n) == Taken({i \in ItemsOf(h) : NameOf(i) = n}) = {}

QuantityUnset(h) == {n \in Groups(h) : IsQuantityUnset(h, n)}

IsPreparationComplete(h) ==
    /\ Taken(ItemsOf(h)) # {}
    /\ Ready(ItemsOf(h)) = Taken(ItemsOf(h))
    /\ QuantityUnset(h) = {}

PreparationStatus(h) ==
    IF Taken(ItemsOf(h)) = {} \/ QuantityUnset(h) # {} THEN "warning"
    ELSE IF IsPreparationComplete(h) THEN "complete" ELSE "progress"

(* Math.round, of a share in percent.                                      *)
Percent(part, whole) == IF whole = 0 THEN 0 ELSE (200 * part + whole) \div (2 * whole)

ProgressPercent(h) ==
    Percent(Cardinality(Ready(ItemsOf(h))), Cardinality(Taken(ItemsOf(h))))

(* The home screen takes the items of all halves together.                 *)
ProgressLabel ==
    IF Taken(Items) = {} THEN "unset"
    ELSE IF Ready(Items) = Taken(Items) THEN "complete" ELSE "progress"
-----------------------------------------------------------------------------
ChangeQuantity_KeepsCheck(i, q) ==
    /\ rows[i].takeout # q \/ (q = 0 /\ rows[i].checked)
    /\ rows' = [rows EXCEPT ![i].takeout = q]
    /\ UNCHANGED <<plan, half>>

(* An item that is no longer taken loses its check mark.                   *)
ChangeQuantity(i, q) ==
    /\ rows[i].takeout # q \/ (q = 0 /\ rows[i].checked)
    /\ rows' = [rows EXCEPT ![i] = [takeout |-> q, checked |-> @.checked /\ q # 0]]
    /\ UNCHANGED <<plan, half>>

ChangeChecked(i, checked) ==
    /\ rows[i].takeout # 0
    /\ rows' = [rows EXCEPT ![i].checked = checked]
    /\ UNCHANGED <<plan, half>>

SelectHalf(h) == half' = h /\ UNCHANGED <<plan, rows>>

PrepNext ==
    \/ \E i \in ItemsOf(half) :
         \/ \E q \in 0..Stock : ChangeQuantity(i, q)
         \/ \E checked \in BOOLEAN : ChangeChecked(i, checked)
    \/ \E h \in Halves : SelectHalf(h)

PrepSpec == PrepInit /\ [][PrepNext]_prepVars
-----------------------------------------------------------------------------
(* Properties.                                                             *)

PrepTypeOK == plan \in Plans /\ rows \in [Items -> PrepRow] /\ half \in Halves

(* The categories the requirements count: those selected for the half, and *)
(* the common one if it has a tool there.                                  *)
Counted(h) == plan.chosen[h] \cup {plan.of[i][2] : i \in ItemsOf(h)}

NamesDiffer(h) ==
    \A c, d \in Counted(h) : plan.name[c] = plan.name[d] => c = d

HasTaken(h, c) == \E i \in ItemsOf(h) : plan.of[i][2] = c /\ rows[i].takeout > 0

(* docs/requirements.md, 71: complete exactly when every category of the   *)
(* half has something to take and everything to take is ready; categories  *)
(* of the same name are one to the screen.                                 *)
CompleteMeansReady == \A h \in Halves : NamesDiffer(h) =>
    (PreparationStatus(h) = "complete"
        <=> /\ \A c \in Counted(h) : HasTaken(h, c)
            /\ \A i \in ItemsOf(h) : rows[i].takeout > 0 => rows[i].checked)

(* However quantities go up and down, only what is taken is ready, and the *)
(* progress is full when, and only when, all of it is ready; from 200      *)
(* items on, a share short of one item is rounded up to a full one.        *)
ProgressSound ==
    /\ \A i \in Items : rows[i].checked => rows[i].takeout > 0
    /\ \A h \in Halves : LET taken == Taken(ItemsOf(h)) IN
         /\ ProgressPercent(h) <= 100
         /\ taken # {} /\ Ready(ItemsOf(h)) = taken => ProgressPercent(h) = 100
         /\ ProgressPercent(h) = 100 /\ Cardinality(taken) < 200
              => taken # {} /\ Ready(ItemsOf(h)) = taken

(* docs/requirements.md, 123: while a category without quantities is left, *)
(* "complete" is not shown.                                                *)
HomeCompleteMeansComplete ==
    ProgressLabel = "complete" => \A h \in Halves : QuantityUnset(h) = {}

=============================================================================
