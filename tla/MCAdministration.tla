-------------------------- MODULE MCAdministration --------------------------
(* Small instances, for TLC, of what administrators work with: the backend *)
(* of users (UserAdmin), that of tools and categories (MasterData) and the *)
(* screens (AdminScreens).  They share no state here, so one of them runs  *)
(* in a behaviour; and of the tools and categories, either all             *)
(* administrators edit them, or one does while checklists are created.     *)
EXTENDS UserAdmin, MasterData, AdminScreens

CONSTANT Editor     \* the one administrator next to checklists

ASSUME EditorAssumption == Editor \in Admins

VARIABLE part

adminVars == <<part, vars, masterVars, panelVars>>

Runs(p) == part = p

RunsMaster == Runs("edits") \/ Runs("selections")

(* A part that does not run stays in one of its initial states.            *)
AdminInit ==
    /\ part \in {"users", "edits", "selections", "screens"}
    /\ Init /\ MasterInit /\ ScreensInit
    /\ ~Runs("screens") => screen = [name |-> "users", admin |-> TRUE]

AdminNext ==
    /\ UNCHANGED part
    /\ IF Runs("users") THEN Next ELSE UNCHANGED vars
    /\ IF RunsMaster THEN MasterNext ELSE UNCHANGED masterVars
    /\ IF Runs("screens") THEN ScreensNext ELSE UNCHANGED panelVars
    /\ Runs("edits") => \A q \in Checklists : stage'[q] = "idle"
    /\ Runs("selections") => \A q \in Admins \ {Editor} : stage'[q] = "idle"

(* The fairness of MasterData and of AdminScreens, while they run.         *)
AdminFairness ==
    /\ \A q \in Clerks : SF_masterVars(RunsMaster /\ Serve(q))
    /\ WF_panelVars(Runs("screens") /\ Answered)
    /\ \A n \in 1..(MaxLoads + 2) :
         WF_panelVars(Runs("screens") /\ \E l \in lists : l.id = n /\ ListAnswered(l))

AdminSpec == AdminInit /\ [][AdminNext]_adminVars /\ AdminFairness
=============================================================================
