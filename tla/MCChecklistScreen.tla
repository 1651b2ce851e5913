------------------------- MODULE MCChecklistScreen -------------------------
(* Small instances, for TLC, of the three parts of the checklist screen:   *)
(* the save queues of an item (ItemAutosave), the screen around the items  *)
(* (DailyView) and the summary (Preparation).  One of them runs in a       *)
(* behaviour; a part that does not run stays in one initial state.         *)
EXTENDS ItemAutosave, DailyView, Preparation

VARIABLE part

checklistScreenVars == <<part, vars, dayVars, prepVars>>

Runs(p) == part = p

AnyPlan == CHOOSE p \in Plans : TRUE
AnyDate == CHOOSE d \in Dates : TRUE

(* Values and dates are interchangeable, so the first ones stand for all.  *)
ChecklistScreenInit ==
    /\ part \in {"item", "day", "summary"}
    /\ Init /\ DayInit /\ PrepInit
    /\ LastRow.value = AnyValue
    /\ route.date = AnyDate
    /\ ~Runs("summary") => plan = AnyPlan

ChecklistScreenNext ==
    /\ UNCHANGED part
    /\ IF Runs("item") THEN Next ELSE UNCHANGED vars
    /\ IF Runs("day") THEN DayNext ELSE UNCHANGED dayVars
    /\ IF Runs("summary") THEN PrepNext ELSE UNCHANGED prepVars

(* The fairness of ItemAutosave, while it runs.                            *)
ChecklistScreenSpec ==
    /\ ChecklistScreenInit
    /\ [][ChecklistScreenNext]_checklistScreenVars
    /\ \A k \in Queues : WF_vars(Runs("item") /\ Saving(k))
=============================================================================
