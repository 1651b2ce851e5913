------------------------------ MODULE UserAdmin ------------------------------
(***************************************************************************)
(* Administration of users by several administrators at once: role, status *)
(* and version of the rows of users (src/backend/src/users/                *)
(* users.service.ts).  What it does to passwords and sessions is modelled  *)
(* in AuthSessions.                                                        *)
(***************************************************************************)
EXTENDS Naturals, FiniteSets

CONSTANTS
    Users,      \* ids of users, created or not
    First,      \* the administrator the seed command creates
    Clients,    \* pages of administrators
    MaxVersion  \* bound: a row of this version is not shown or edited any more

ASSUME ConstantsAssumption ==
    /\ First \in Users
    /\ MaxVersion \in Nat \ {0}

VARIABLES
    user,       \* the rows of users
    pc,         \* the stage of a page and of the request it sent
    req,        \* the request, or what the page shows
    txn         \* the rows the request's transaction has locked and read

vars == <<user, pc, req, txn>>

Role   == {"ADMIN", "WORKER"}
Status == {"ACTIVE", "INACTIVE"}
Row    == [status : Status \cup {"none"}, role : Role, version : Nat]

NoRow == [status |-> "none", role |-> "WORKER", version |-> 0]

(* by: who sends it; seen: the row on display when it was prepared, whose  *)
(* version the request carries.                                            *)
Request ==
    [op : {"update"}, by : Users, target : Users, seen : Row, role : Role]
    \cup [op : {"status"}, by : Users, target : Users, seen : Row, status : Status]
    \cup [op : {"reissue"}, by : Users, target : Users]
    \cup [op : {"create"}, by : Users, role : Role]

Page      == [op : {"show"}, target : Users, seen : Row]
NoRequest == [op |-> "none"]
NoTxn     == [admins |-> {}, target |-> NoRow]

TypeOK ==
    /\ user \in [Users -> Row]
    /\ pc \in [Clients -> {"idle", "shown", "admins", "target", "commit"}]
    /\ req \in [Clients -> Request \cup Page \cup {NoRequest}]
    /\ txn \in [Clients -> [admins : SUBSET Users, target : Row]]

Seed == [status |-> "ACTIVE", role |-> "ADMIN", version |-> 1]

Init ==
    /\ user = [u \in Users |-> IF u = First THEN Seed ELSE NoRow]
    /\ pc = [c \in Clients |-> "idle"]
    /\ req = [c \in Clients |-> NoRequest]
    /\ txn = [c \in Clients |-> NoTxn]

-----------------------------------------------------------------------------
IsActiveAdmin(row) == row.status = "ACTIVE" /\ row.role = "ADMIN"

ActiveAdmins == {u \in Users : IsActiveAdmin(user[u])}

Exists(u) == user[u].status # "none"

(* Rows a transaction has locked: the active administrators it found, and  *)
(* its target.                                                             *)
Editing(c) == pc[c] \in {"target", "commit"} /\ req[c].op \in {"update", "status"}

Holds(c, u) ==
    \/ Editing(c) /\ u \in txn[c].admins
    \/ pc[c] = "commit" /\ req[c].op # "create" /\ u = req[c].target

IsFree(c, u) == \A d \in Clients \ {c} : ~Holds(d, u)

(* An administrator opens a user (findOne).                                *)
Show(c) ==
    /\ pc[c] = "idle"
    /\ \E u \in Users :
          /\ Exists(u)
          /\ user[u].version < MaxVersion
          /\ req' = [req EXCEPT ![c] = [op |-> "show", target |-> u, seen |-> user[u]]]
    /\ pc' = [pc EXCEPT ![c] = "shown"]
    /\ UNCHANGED <<user, txn>>

(* The guards admit active administrators only: JwtAuthGuard and RolesGuard*)
(* read the sender's row here, before the handler's transaction.           *)
Edits(c) ==
    [op : {"update"}, by : ActiveAdmins, target : {req[c].target},
     seen : {req[c].seen}, role : Role]
    \cup [op : {"status"}, by : ActiveAdmins, target : {req[c].target},
          seen : {req[c].seen}, status : Status]

SubmitEdit(c) ==
    /\ pc[c] = "shown"
    /\ \E r \in Edits(c) : req' = [req EXCEPT ![c] = r]
    /\ pc' = [pc EXCEPT ![c] = "admins"]
    /\ UNCHANGED <<user, txn>>

SubmitReissue(c) ==
    /\ pc[c] = "shown"
    /\ \E a \in ActiveAdmins :
          req' = [req EXCEPT ![c] = [op |-> "reissue", by |-> a,
                                     target |-> req[c].target]]
    /\ pc' = [pc EXCEPT ![c] = "target"]
    /\ UNCHANGED <<user, txn>>

SubmitCreate(c) ==
    /\ pc[c] = "idle"
    /\ \E r \in [op : {"create"}, by : ActiveAdmins, role : Role] :
          req' = [req EXCEPT ![c] = r]
    /\ pc' = [pc EXCEPT ![c] = "commit"]
    /\ UNCHANGED <<user, txn>>

Finish(c) ==
    /\ pc' = [pc EXCEPT ![c] = "idle"]
    /\ req' = [req EXCEPT ![c] = NoRequest]
    /\ txn' = [txn EXCEPT ![c] = NoTxn]

Refuse(c) == Finish(c) /\ UNCHANGED user

(* The page is closed; or a deadlock, a timeout, a lost connection or a    *)
(* login id in use rolls the transaction back.                             *)
Abort(c) == pc[c] # "idle" /\ Refuse(c)

-----------------------------------------------------------------------------
(* lockTargetAndAdmins.                                                    *)

LockAdmins_Unlocked(c) ==
    /\ pc[c] = "admins"
    /\ txn' = [txn EXCEPT ![c].admins = ActiveAdmins]
    /\ pc' = [pc EXCEPT ![c] = "target"]
    /\ UNCHANGED <<user, req>>

LockAdmins(c) ==
    /\ pc[c] = "admins"
    /\ \A u \in ActiveAdmins : IsFree(c, u)
    /\ txn' = [txn EXCEPT ![c].admins = ActiveAdmins]
    /\ pc' = [pc EXCEPT ![c] = "target"]
    /\ UNCHANGED <<user, req>>

LockTarget_Unlocked(c) ==
    /\ pc[c] = "target"
    /\ txn' = [txn EXCEPT ![c].target = user[req[c].target]]
    /\ pc' = [pc EXCEPT ![c] = "commit"]
    /\ UNCHANGED <<user, req>>

(* A target among the administrators is locked already, and nobody else    *)
(* can have locked it; reissueTemporaryPassword locks its target only.     *)
LockTarget(c) ==
    /\ pc[c] = "target"
    /\ IsFree(c, req[c].target)
    /\ txn' = [txn EXCEPT ![c].target = user[req[c].target]]
    /\ pc' = [pc EXCEPT ![c] = "commit"]
    /\ UNCHANGED <<user, req>>

-----------------------------------------------------------------------------
AtCommit(c, op) == pc[c] = "commit" /\ req[c].op = op

(* An edit that takes an active administrator away.                        *)
Removes(r) == \/ r.op = "update" /\ r.role # "ADMIN"
              \/ r.op = "status" /\ r.status = "INACTIVE"

IsLast(c) ==
    /\ IsActiveAdmin(txn[c].target)
    /\ Cardinality(txn[c].admins) = 1

MayEdit(c) ==
    /\ txn[c].target.version = req[c].seen.version
    /\ Removes(req[c]) => req[c].by # req[c].target /\ ~IsLast(c)

RefuseEdit(c) ==
    /\ pc[c] = "commit" /\ req[c].op \in {"update", "status"}
    /\ ~MayEdit(c)
    /\ Refuse(c)

Store(u, row) == user' = [user EXCEPT ![u] = row]

Update(c) ==
    /\ AtCommit(c, "update")
    /\ MayEdit(c)
    /\ Store(req[c].target, [txn[c].target EXCEPT !.role = req[c].role,
                                                  !.version = @ + 1])
    /\ Finish(c)

UpdateStatus_SameVersion(c) ==
    /\ AtCommit(c, "status")
    /\ MayEdit(c)
    /\ Store(req[c].target, [txn[c].target EXCEPT !.status = req[c].status])
    /\ Finish(c)

(* Asking for the present status again changes nothing.                    *)
UpdateStatus(c) ==
    /\ AtCommit(c, "status")
    /\ MayEdit(c)
    /\ IF txn[c].target.status = req[c].status
       THEN UNCHANGED user
       ELSE Store(req[c].target, [txn[c].target EXCEPT !.status = req[c].status,
                                                       !.version = @ + 1])
    /\ Finish(c)

ReissueTemporaryPassword(c) ==
    /\ AtCommit(c, "reissue")
    /\ Store(req[c].target, [txn[c].target EXCEPT !.version = @ + 1])
    /\ Finish(c)

(* The id is new (randomUUID).                                             *)
Create(c) ==
    /\ AtCommit(c, "create")
    /\ \E u \in Users :
          /\ ~Exists(u)
          /\ Store(u, [status |-> "ACTIVE", role |-> req[c].role, version |-> 1])
    /\ Finish(c)

-----------------------------------------------------------------------------
Handle(c) ==
    \/ LockAdmins(c) \/ LockTarget(c)
    \/ RefuseEdit(c) \/ Update(c) \/ UpdateStatus(c)
    \/ ReissueTemporaryPassword(c) \/ Create(c)

Step(c) ==
    \/ Show(c) \/ SubmitEdit(c) \/ SubmitReissue(c) \/ SubmitCreate(c)
    \/ Handle(c) \/ Abort(c)

Next == \E c \in Clients : Step(c)

Spec == Init /\ [][Next]_vars

-----------------------------------------------------------------------------
(* Properties.                                                             *)

(* However edits overlap, an active administrator remains: two of them     *)
(* cannot demote or deactivate each other (lines 122-132, 163-173, 221).   *)
AdminRemains == ActiveAdmins # {}

(* An edit is accepted only on the row its sender had on display: nothing  *)
(* of another administrator is overwritten unseen (assertVersion, and the  *)
(* version that every change advances).                                    *)
EditsSeeCurrent ==
    [][\A c \in Clients :
          (Update(c) \/ UpdateStatus(c)) =>
             req[c].seen = user[req[c].target]]_vars

(* The inductive invariant: edits exclude each other, an edit knows active *)
(* administrators that stay so while it holds them, the row it read is as  *)
(* it was, and a version names one content of a row.                       *)
StageOK(c) ==
    /\ pc[c] = "idle" <=> req[c] = NoRequest
    /\ pc[c] = "shown" <=> req[c].op = "show"
    /\ pc[c] = "admins" => req[c].op \in {"update", "status"}
    /\ pc[c] = "target" => req[c].op # "create"
    /\ req[c].op \in {"show", "update", "status", "reissue"} =>
          Exists(req[c].target)

EditOK(c) ==
    /\ Editing(c) => txn[c].admins \subseteq ActiveAdmins /\ txn[c].admins # {}
    /\ pc[c] = "commit" /\ req[c].op # "create" =>
          txn[c].target = user[req[c].target]

LocksOK ==
    \A c, d \in Clients : c # d =>
        /\ ~(Editing(c) /\ Editing(d))
        /\ \A u \in Users : ~(Holds(c, u) /\ Holds(d, u))

SeenOK(c) ==
    req[c].op \in {"show", "update", "status"} =>
        LET now == user[req[c].target]
        IN  /\ req[c].seen.version <= now.version
            /\ req[c].seen.version = now.version => req[c].seen = now

IInv ==
    /\ TypeOK
    /\ AdminRemains
    /\ \A c \in Clients : StageOK(c) /\ EditOK(c) /\ SeenOK(c)
    /\ LocksOK

=============================================================================
