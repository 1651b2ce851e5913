-------------------------- MODULE UserAdminProofs --------------------------
(***************************************************************************)
(* Theorems about UserAdmin, for all sets of users and of pages and any    *)
(* number of edits.                                                        *)
(***************************************************************************)
EXTENDS UserAdmin, FiniteSetTheorems, TLAPS

LEMMA InitInv == Init => IInv
  <1> SUFFICES ASSUME Init PROVE IInv
    OBVIOUS
  <1>1. TypeOK
    BY ConstantsAssumption
       DEF Init, TypeOK, Seed, NoRow, Row, Status, Role, NoRequest, NoTxn
  <1>2. AdminRemains
    BY ConstantsAssumption
       DEF Init, AdminRemains, ActiveAdmins, IsActiveAdmin, Seed
  <1>3. \A c \in Clients : StageOK(c) /\ EditOK(c) /\ SeenOK(c)
    BY DEF Init, StageOK, EditOK, SeenOK, Editing, NoRequest
  <1>4. LocksOK
    BY DEF Init, LocksOK, Editing, Holds
  <1> QED BY <1>1, <1>2, <1>3, <1>4 DEF IInv

(* The kinds of request, and the fields each has.                          *)
LEMMA RequestFields ==
    ASSUME TypeOK, NEW c \in Clients
    PROVE  /\ req[c].op \in {"none", "show", "update", "status", "reissue", "create"}
           /\ req[c].op \in {"show", "update", "status", "reissue"} =>
                 req[c].target \in Users
           /\ req[c].op \in {"show", "update", "status"} => req[c].seen \in Row
           /\ req[c].op \in {"update", "create"} => req[c].role \in Role
           /\ req[c].op = "status" => req[c].status \in Status
           /\ req[c].op = "none" => req[c] = NoRequest
  <1>1. req[c] \in Request \cup Page \cup {NoRequest}
    BY DEF TypeOK
  <1> QED BY <1>1 DEF Request, Page, NoRequest

(* An edited row is a row of the next version.                             *)
LEMMA RoleEdit ==
    ASSUME NEW r \in Row, NEW role \in Role
    PROVE  LET new == [r EXCEPT !.role = role, !.version = r.version + 1]
           IN  new \in Row /\ new.status = r.status /\ new.version = r.version + 1
  <1> DEFINE one == [r EXCEPT !.role = role]
  <1>1. one \in Row /\ one.status = r.status /\ one.version = r.version
    BY DEF Row
  <1> HIDE DEF one
  <1>2. /\ [one EXCEPT !.version = r.version + 1] \in Row
        /\ [one EXCEPT !.version = r.version + 1].status = one.status
        /\ [one EXCEPT !.version = r.version + 1].version = r.version + 1
    BY <1>1 DEF Row
  <1> QED BY <1>1, <1>2 DEF one

LEMMA StatusEdit ==
    ASSUME NEW r \in Row, NEW status \in Status
    PROVE  LET new == [r EXCEPT !.status = status, !.version = r.version + 1]
           IN  new \in Row /\ new.status = status /\ new.version = r.version + 1
  <1> DEFINE two == [r EXCEPT !.status = status]
  <1>1. two \in Row /\ two.status = status /\ two.version = r.version
    BY DEF Row
  <1> HIDE DEF two
  <1>2. /\ [two EXCEPT !.version = r.version + 1] \in Row
        /\ [two EXCEPT !.version = r.version + 1].status = two.status
        /\ [two EXCEPT !.version = r.version + 1].version = r.version + 1
    BY <1>1 DEF Row
  <1> QED BY <1>1, <1>2 DEF two

(* A commit by c leaves alone every row another transaction has locked.    *)
LEMMA CommitExcludes ==
    ASSUME IInv, NEW c \in Clients, NEW d \in Clients, c # d,
           pc[c] = "commit", req[c].op \in {"update", "status", "reissue"}
    PROVE  ~Holds(d, req[c].target)
  <1>1. req[c].target \in Users
    BY RequestFields DEF IInv
  <1>2. Holds(c, req[c].target)
    BY DEF Holds
  <1> QED BY <1>1, <1>2 DEF IInv, LocksOK

(* The row a committing edit puts in the place of the one it read.         *)
LEMMA EditKeepsAdmin ==
    ASSUME IInv, NEW c \in Clients, Update(c) \/ UpdateStatus(c)
    PROVE  AdminRemains'
  <1> DEFINE t == req[c].target
             A == txn[c].admins
  <1>1. /\ Editing(c) /\ MayEdit(c)
        /\ txn[c].target = user[t]
        /\ t \in Users /\ user[t] \in Row
        /\ A \subseteq ActiveAdmins /\ A # {}
    BY RequestFields
       DEF IInv, TypeOK, EditOK, Editing, Update, UpdateStatus, AtCommit
  <1>2. \A u \in Users \ {t} : user'[u] = user[u]
    BY <1>1 DEF Update, UpdateStatus, Store, TypeOK, IInv
  <1>3. CASE \E a \in A : a # t
    BY <1>1, <1>2, <1>3 DEF AdminRemains, ActiveAdmins
  <1>4. CASE A = {t}
    <2>1. IsActiveAdmin(user[t]) /\ IsLast(c)
      BY <1>1, <1>4, FS_Singleton DEF ActiveAdmins, IsLast
    <2>2. ~Removes(req[c])
      BY <1>1, <2>1 DEF MayEdit
    <2>3. user'[t].role = "ADMIN" /\ user'[t].status = "ACTIVE"
      <3>1. CASE Update(c)
        <4>1. req[c].role = "ADMIN"
          BY <2>2, <3>1 DEF Removes, Update, AtCommit
        <4> QED BY <1>1, <2>1, <3>1, <4>1
                DEF Update, Store, IInv, TypeOK, Row, IsActiveAdmin
      <3>2. CASE UpdateStatus(c)
        <4>1. req[c].status = "ACTIVE"
          BY <2>2, <3>2, RequestFields
             DEF Removes, UpdateStatus, AtCommit, IInv, Status
        <4> QED BY <1>1, <2>1, <3>2, <4>1
                DEF UpdateStatus, IsActiveAdmin
      <3> QED BY <3>1, <3>2
    <2> QED BY <1>1, <2>3 DEF AdminRemains, ActiveAdmins, IsActiveAdmin
  <1> QED BY <1>1, <1>3, <1>4

-----------------------------------------------------------------------------
(* Steps that leave the rows alone.                                        *)

LEMMA QuietUsers ==
    ASSUME IInv, UNCHANGED user
    PROVE  AdminRemains' /\ ActiveAdmins' = ActiveAdmins
  BY DEF IInv, AdminRemains, ActiveAdmins, IsActiveAdmin

(* A step of c that takes no lock and leaves it in no edit.                *)
LEMMA Leaves ==
    ASSUME IInv, NEW c \in Clients, UNCHANGED <<user, txn>>, TypeOK',
           \A d \in Clients \ {c} : pc'[d] = pc[d] /\ req'[d] = req[d],
           pc'[c] \in {"shown", "admins", "target", "commit"},
           pc'[c] = "target" => req'[c].op = "reissue",
           pc'[c] = "commit" => req'[c].op = "create",
           StageOK(c)', SeenOK(c)'
    PROVE  IInv'
  <1>1. AdminRemains' /\ ActiveAdmins' = ActiveAdmins
    BY QuietUsers
  <1>2. ASSUME NEW d \in Clients PROVE StageOK(d)' /\ EditOK(d)' /\ SeenOK(d)'
    <2>1. CASE d = c
      BY <2>1 DEF EditOK, Editing
    <2>2. CASE d # c
      BY <1>1, <2>2 DEF IInv, StageOK, EditOK, SeenOK, Editing, Exists
    <2> QED BY <2>1, <2>2
  <1>3. \A u \in Users : ~Holds(c, u)'
    BY DEF Holds, Editing
  <1>4. ASSUME NEW d \in Clients, d # c
        PROVE  /\ Editing(d)' = Editing(d)
               /\ \A u \in Users : Holds(d, u)' = Holds(d, u)
    BY <1>4 DEF Holds, Editing
  <1>5. ~Editing(c)'
    BY DEF Editing
  <1>6. LocksOK'
    BY <1>3, <1>4, <1>5 DEF IInv, LocksOK
  <1> QED BY <1>1, <1>2, <1>6 DEF IInv

(* The end of a request, where what it stored keeps the invariant.         *)
LEMMA Finishing ==
    ASSUME IInv, NEW c \in Clients, Finish(c), user' \in [Users -> Row],
           AdminRemains',
           \A u \in Users :
              \/ user'[u] = user[u]
              \/ /\ \A d \in Clients \ {c} : ~Holds(d, u)
                 /\ user'[u].status # "none"
                 /\ Exists(u) => user'[u].version > user[u].version
    PROVE  IInv'
  <1>1. TypeOK'
    BY DEF IInv, TypeOK, Finish, NoTxn, NoRow, Row, Role, Status
  <1>2. /\ pc'[c] = "idle" /\ req'[c] = NoRequest
        /\ \A d \in Clients \ {c} :
              pc'[d] = pc[d] /\ req'[d] = req[d] /\ txn'[d] = txn[d]
    BY DEF IInv, TypeOK, Finish
  <1>3. ASSUME NEW d \in Clients PROVE StageOK(d)' /\ EditOK(d)' /\ SeenOK(d)'
    <2>1. CASE d = c
      BY <1>2, <2>1 DEF StageOK, EditOK, SeenOK, Editing, NoRequest
    <2> SUFFICES ASSUME d # c PROVE StageOK(d)' /\ EditOK(d)' /\ SeenOK(d)'
      BY <2>1
    <2> DEFINE t == req[d].target
    <2>2. StageOK(d)'
      BY <1>2, RequestFields DEF IInv, StageOK, Exists
    <2>3. EditOK(d)'
      <3>1. ASSUME Editing(d), NEW u \in txn[d].admins PROVE user'[u] = user[u]
        BY <3>1 DEF IInv, TypeOK, Holds, Editing
      <3>2. ASSUME pc[d] = "commit", req[d].op # "create" PROVE user'[t] = user[t]
        <4>1. t \in Users
          BY <3>2, RequestFields DEF IInv, StageOK
        <4> QED BY <3>2, <4>1 DEF Holds
      <3>3. Editing(d) => txn[d].admins \subseteq ActiveAdmins' /\ txn[d].admins # {}
        BY <3>1 DEF IInv, EditOK, ActiveAdmins
      <3> QED BY <1>2, <3>2, <3>3 DEF IInv, EditOK, Editing
    <2>4. SeenOK(d)'
      <3> SUFFICES ASSUME req[d].op \in {"show", "update", "status"}
                   PROVE  SeenOK(d)'
        BY <1>2 DEF SeenOK
      <3>1. t \in Users /\ req[d].seen \in Row /\ SeenOK(d) /\ Exists(t)
        BY RequestFields DEF IInv, StageOK
      <3>2. user[t].version \in Nat /\ user'[t].version \in Nat
            /\ req[d].seen.version \in Nat
        BY <3>1 DEF IInv, TypeOK, Row
      <3>3. CASE user'[t] = user[t]
        BY <1>2, <3>1, <3>3 DEF SeenOK
      <3>4. CASE user'[t].version > user[t].version
        BY <1>2, <3>1, <3>2, <3>4 DEF SeenOK
      <3> QED BY <3>1, <3>3, <3>4
    <2> QED BY <2>2, <2>3, <2>4
  <1>4. LocksOK'
    <2>1. ~Editing(c)' /\ \A u \in Users : ~Holds(c, u)'
      BY <1>2 DEF Editing, Holds
    <2>2. ASSUME NEW d \in Clients, d # c
          PROVE  /\ Editing(d)' = Editing(d)
                 /\ \A u \in Users : Holds(d, u)' = Holds(d, u)
      BY <1>2, <2>2 DEF Holds, Editing
    <2> QED BY <2>1, <2>2 DEF IInv, LocksOK
  <1> QED BY <1>1, <1>3, <1>4 DEF IInv

-----------------------------------------------------------------------------
(* One lemma per kind of step.                                             *)

LEMMA RefuseInv ==
    ASSUME IInv, NEW c \in Clients, Refuse(c)
    PROVE  IInv'
  <1>1. Finish(c) /\ user' = user
    BY DEF Refuse
  <1>2. user' \in [Users -> Row]
    BY <1>1 DEF IInv, TypeOK
  <1>3. AdminRemains'
    BY <1>1, QuietUsers
  <1> QED BY <1>1, <1>2, <1>3, Finishing

LEMMA SubmitInv ==
    ASSUME IInv, NEW c \in Clients,
           \/ Show(c) \/ SubmitEdit(c) \/ SubmitReissue(c) \/ SubmitCreate(c)
    PROVE  IInv'
  <1> DEFINE Others == \A d \in Clients \ {c} : pc'[d] = pc[d] /\ req'[d] = req[d]
  <1>1. CASE Show(c)
    <2>1. PICK u \in Users :
             /\ Exists(u)
             /\ req' = [req EXCEPT ![c] = [op |-> "show", target |-> u, seen |-> user[u]]]
      BY <1>1 DEF Show
    <2>2. [op |-> "show", target |-> u, seen |-> user[u]] \in Page
      BY DEF IInv, TypeOK, Page
    <2>3. /\ req'[c] = [op |-> "show", target |-> u, seen |-> user[u]]
          /\ pc'[c] = "shown" /\ Others /\ UNCHANGED <<user, txn>>
      BY <1>1, <2>1 DEF Show, IInv, TypeOK
    <2>4. TypeOK'
      BY <1>1, <2>1, <2>2 DEF Show, IInv, TypeOK
    <2>5. StageOK(c)' /\ SeenOK(c)'
      BY <2>1, <2>3 DEF StageOK, SeenOK, Exists, NoRequest, IInv, TypeOK, Row
    <2> QED BY <2>3, <2>4, <2>5, Leaves
  <1>2. CASE SubmitEdit(c)
    <2>1. PICK r \in Edits(c) : req' = [req EXCEPT ![c] = r]
      BY <1>2 DEF SubmitEdit
    <2>2. /\ req[c].op = "show" /\ req[c].target \in Users /\ req[c].seen \in Row
          /\ StageOK(c) /\ SeenOK(c)
      BY <1>2, RequestFields DEF SubmitEdit, IInv, StageOK
    <2>3. /\ r \in Request /\ r.op \in {"update", "status"}
          /\ r.target = req[c].target /\ r.seen = req[c].seen
      BY <2>2 DEF Edits, Request, ActiveAdmins
    <2>4. /\ req'[c] = r /\ pc'[c] = "admins" /\ Others /\ UNCHANGED <<user, txn>>
      BY <1>2, <2>1 DEF SubmitEdit, IInv, TypeOK
    <2>5. TypeOK'
      BY <1>2, <2>1, <2>3 DEF SubmitEdit, IInv, TypeOK
    <2>6. StageOK(c)' /\ SeenOK(c)'
      BY <2>2, <2>3, <2>4 DEF StageOK, SeenOK, Exists, NoRequest
    <2> QED BY <2>4, <2>5, <2>6, Leaves
  <1>3. CASE SubmitReissue(c)
    <2>1. PICK a \in ActiveAdmins :
             req' = [req EXCEPT ![c] = [op |-> "reissue", by |-> a,
                                        target |-> req[c].target]]
      BY <1>3 DEF SubmitReissue
    <2>2. req[c].op = "show" /\ req[c].target \in Users /\ StageOK(c)
      BY <1>3, RequestFields DEF SubmitReissue, IInv, StageOK
    <2>3. [op |-> "reissue", by |-> a, target |-> req[c].target] \in Request
      BY <2>2 DEF Request, ActiveAdmins
    <2>4. /\ req'[c] = [op |-> "reissue", by |-> a, target |-> req[c].target]
          /\ pc'[c] = "target" /\ Others /\ UNCHANGED <<user, txn>>
      BY <1>3, <2>1 DEF SubmitReissue, IInv, TypeOK
    <2>5. TypeOK'
      BY <1>3, <2>1, <2>3 DEF SubmitReissue, IInv, TypeOK
    <2>6. StageOK(c)' /\ SeenOK(c)'
      BY <2>2, <2>4 DEF StageOK, SeenOK, Exists, NoRequest
    <2> QED BY <2>4, <2>5, <2>6, Leaves
  <1>4. CASE SubmitCreate(c)
    <2>1. PICK r \in [op : {"create"}, by : ActiveAdmins, role : Role] :
             req' = [req EXCEPT ![c] = r]
      BY <1>4 DEF SubmitCreate
    <2>2. r \in Request /\ r.op = "create"
      BY DEF Request, ActiveAdmins
    <2>3. /\ req'[c] = r /\ pc'[c] = "commit" /\ Others /\ UNCHANGED <<user, txn>>
      BY <1>4, <2>1 DEF SubmitCreate, IInv, TypeOK
    <2>4. TypeOK'
      BY <1>4, <2>1, <2>2 DEF SubmitCreate, IInv, TypeOK
    <2>5. StageOK(c)' /\ SeenOK(c)'
      BY <2>2, <2>3 DEF StageOK, SeenOK, NoRequest
    <2> QED BY <2>2, <2>3, <2>4, <2>5, Leaves
  <1> QED BY <1>1, <1>2, <1>3, <1>4

(* Two edits have an active administrator in common that both must lock.   *)
LEMMA LockAdminsInv ==
    ASSUME IInv, NEW c \in Clients, LockAdmins(c)
    PROVE  IInv'
  <1>1. /\ pc[c] = "admins" /\ req[c].op \in {"update", "status"}
        /\ ~Editing(c)
        /\ UNCHANGED <<user, req>>
    BY DEF LockAdmins, IInv, StageOK, Editing
  <1>2. /\ pc'[c] = "target" /\ txn'[c].admins = ActiveAdmins
        /\ \A d \in Clients \ {c} : pc'[d] = pc[d] /\ txn'[d] = txn[d]
    BY DEF LockAdmins, IInv, TypeOK
  <1>3. TypeOK'
    <2>1. ActiveAdmins \in SUBSET Users
      BY DEF ActiveAdmins
    <2> QED BY <1>1, <2>1 DEF LockAdmins, IInv, TypeOK
  <1>4. AdminRemains' /\ ActiveAdmins' = ActiveAdmins
    BY <1>1, QuietUsers
  <1>5. ASSUME NEW d \in Clients, d # c PROVE ~Editing(d)
    <2> SUFFICES ASSUME Editing(d) PROVE FALSE
      OBVIOUS
    <2>1. PICK a \in txn[d].admins : a \in ActiveAdmins
      BY DEF IInv, EditOK
    <2>2. Holds(d, a)
      BY DEF Holds
    <2> QED BY <1>5, <2>1, <2>2 DEF LockAdmins, IsFree
  <1>6. ASSUME NEW d \in Clients PROVE StageOK(d)' /\ EditOK(d)' /\ SeenOK(d)'
    <2>1. CASE d = c
      BY <1>1, <1>2, <1>4, <2>1 DEF IInv, StageOK, EditOK, SeenOK, Editing,
         Exists, AdminRemains, NoRequest
    <2>2. CASE d # c
      BY <1>1, <1>2, <1>4, <2>2 DEF IInv, StageOK, EditOK, SeenOK, Editing, Exists
    <2> QED BY <2>1, <2>2
  <1>7. LocksOK'
    <2>1. ASSUME NEW d \in Clients, d # c
          PROVE  /\ ~Editing(d)'
                 /\ \A u \in Users : Holds(d, u)' = Holds(d, u)
      BY <1>1, <1>2, <1>5, <2>1 DEF Holds, Editing
    <2>2. \A u \in Users : Holds(c, u)' => u \in ActiveAdmins
      BY <1>2 DEF Holds
    <2>3. ASSUME NEW d \in Clients, d # c, NEW u \in Users
          PROVE  ~(Holds(c, u)' /\ Holds(d, u)')
      BY <2>1, <2>2, <2>3 DEF LockAdmins, IsFree
    <2>4. ASSUME NEW d \in Clients, NEW e \in Clients, d # c, e # c, d # e,
                 NEW u \in Users
          PROVE  ~(Holds(d, u)' /\ Holds(e, u)')
      BY <2>1, <2>4 DEF IInv, LocksOK
    <2> QED BY <2>1, <2>3, <2>4 DEF LocksOK
  <1> QED BY <1>3, <1>4, <1>6, <1>7 DEF IInv

LEMMA LockTargetInv ==
    ASSUME IInv, NEW c \in Clients, LockTarget(c)
    PROVE  IInv'
  <1> DEFINE t == req[c].target
  <1>1. /\ pc[c] = "target" /\ UNCHANGED <<user, req>>
        /\ req[c].op \in {"update", "status", "reissue"} /\ t \in Users
    BY RequestFields DEF LockTarget, IInv, StageOK
  <1>2. /\ pc'[c] = "commit" /\ txn'[c].admins = txn[c].admins
        /\ txn'[c].target = user[t]
        /\ \A d \in Clients \ {c} : pc'[d] = pc[d] /\ txn'[d] = txn[d]
    BY DEF LockTarget, IInv, TypeOK
  <1>3. TypeOK'
    <2>1. user[t] \in Row
      BY <1>1 DEF IInv, TypeOK
    <2> QED BY <1>1, <2>1 DEF LockTarget, IInv, TypeOK
  <1>4. AdminRemains' /\ ActiveAdmins' = ActiveAdmins
    BY <1>1, QuietUsers
  <1>5. ASSUME NEW d \in Clients PROVE StageOK(d)' /\ EditOK(d)' /\ SeenOK(d)'
    <2>1. CASE d = c
      BY <1>1, <1>2, <1>4, <2>1 DEF IInv, StageOK, EditOK, SeenOK, Editing,
         Exists, NoRequest
    <2>2. CASE d # c
      BY <1>1, <1>2, <1>4, <2>2 DEF IInv, StageOK, EditOK, SeenOK, Editing, Exists
    <2> QED BY <2>1, <2>2
  <1>6. LocksOK'
    <2>1. ASSUME NEW d \in Clients
          PROVE  /\ Editing(d)' = Editing(d)
                 /\ d # c => \A u \in Users : Holds(d, u)' = Holds(d, u)
      BY <1>1, <1>2 DEF Holds, Editing
    <2>2. \A u \in Users : Holds(c, u)' => Holds(c, u) \/ u = t
      BY <1>1, <1>2 DEF Holds, Editing
    <2>3. ASSUME NEW d \in Clients, d # c, NEW u \in Users
          PROVE  ~(Holds(c, u)' /\ Holds(d, u)')
      BY <2>1, <2>2, <2>3 DEF LockTarget, IsFree, IInv, LocksOK
    <2>4. ASSUME NEW d \in Clients, NEW e \in Clients, d # c, e # c, d # e,
                 NEW u \in Users
          PROVE  ~(Holds(d, u)' /\ Holds(e, u)')
      BY <2>1, <2>4 DEF IInv, LocksOK
    <2> QED BY <2>1, <2>3, <2>4 DEF LocksOK, IInv
  <1> QED BY <1>3, <1>4, <1>5, <1>6 DEF IInv

LEMMA EditInv ==
    ASSUME IInv, NEW c \in Clients, Update(c) \/ UpdateStatus(c)
    PROVE  IInv'
  <1> DEFINE t == req[c].target
  <1>1. /\ pc[c] = "commit" /\ req[c].op \in {"update", "status"} /\ Finish(c)
        /\ t \in Users /\ txn[c].target = user[t] /\ user[t] \in Row
        /\ user[t].status # "none" /\ user[t].version \in Nat
    BY RequestFields DEF Update, UpdateStatus, AtCommit, IInv, EditOK, StageOK,
                         Exists, TypeOK, Row
  <1>2. AdminRemains'
    BY EditKeepsAdmin
  <1>3. \/ user' = user
        \/ \E row \in Row : /\ user' = [user EXCEPT ![t] = row]
                            /\ row.status # "none"
                            /\ row.version = user[t].version + 1
    <2>1. CASE Update(c)
      <3>1. req[c].role \in Role
        BY <2>1, RequestFields DEF IInv, Update, AtCommit
      <3> DEFINE row == [user[t] EXCEPT !.role = req[c].role,
                                        !.version = user[t].version + 1]
      <3>2. row \in Row /\ row.status # "none" /\ row.version = user[t].version + 1
        BY <1>1, <3>1, RoleEdit
      <3>3. user' = [user EXCEPT ![t] = row]
        BY <1>1, <2>1 DEF Update, Store
      <3> QED BY <3>2, <3>3
    <2>2. CASE UpdateStatus(c)
      <3>1. req[c].status \in Status
        BY <2>2, RequestFields DEF IInv, UpdateStatus, AtCommit
      <3> DEFINE row == [user[t] EXCEPT !.status = req[c].status,
                                        !.version = user[t].version + 1]
      <3>2. row \in Row /\ row.status # "none" /\ row.version = user[t].version + 1
        BY <1>1, <3>1, StatusEdit DEF Status
      <3>3. user' = user \/ user' = [user EXCEPT ![t] = row]
        BY <1>1, <2>2 DEF UpdateStatus, Store
      <3> QED BY <3>2, <3>3
    <2> QED BY <2>1, <2>2
  <1>4. user' \in [Users -> Row]
    BY <1>3 DEF IInv, TypeOK
  <1>5. ASSUME NEW u \in Users
        PROVE  \/ user'[u] = user[u]
               \/ /\ \A d \in Clients \ {c} : ~Holds(d, u)
                  /\ user'[u].status # "none"
                  /\ Exists(u) => user'[u].version > user[u].version
    <2>1. CASE u # t
      BY <1>3, <2>1 DEF IInv, TypeOK
    <2>2. CASE u = t
      <3>1. \A d \in Clients \ {c} : ~Holds(d, u)
        BY <1>1, <2>2, CommitExcludes
      <3> QED BY <1>1, <1>3, <2>2, <3>1 DEF IInv, TypeOK
    <2> QED BY <2>1, <2>2
  <1> QED BY <1>1, <1>2, <1>4, <1>5, Finishing

LEMMA ReissueInv ==
    ASSUME IInv, NEW c \in Clients, ReissueTemporaryPassword(c)
    PROVE  IInv'
  <1> DEFINE t   == req[c].target
             row == [user[t] EXCEPT !.version = @ + 1]
  <1>1. /\ pc[c] = "commit" /\ req[c].op = "reissue" /\ Finish(c)
        /\ t \in Users /\ txn[c].target = user[t] /\ user[t] \in Row
        /\ user[t].status # "none" /\ user[t].version \in Nat
    BY RequestFields DEF ReissueTemporaryPassword, AtCommit, IInv, EditOK,
                         StageOK, Exists, TypeOK, Row
  <1>2. /\ user' = [user EXCEPT ![t] = row] /\ row \in Row
        /\ row.status = user[t].status /\ row.role = user[t].role
        /\ row.version = user[t].version + 1
    BY <1>1 DEF ReissueTemporaryPassword, Store, Row
  <1>3. user' \in [Users -> Row]
    BY <1>2 DEF IInv, TypeOK
  <1>4. AdminRemains'
    <2>1. \A u \in Users : IsActiveAdmin(user'[u]) = IsActiveAdmin(user[u])
      BY <1>1, <1>2 DEF IsActiveAdmin, IInv, TypeOK
    <2> QED BY <2>1 DEF IInv, AdminRemains, ActiveAdmins
  <1>5. \A d \in Clients \ {c} : ~Holds(d, t)
    BY <1>1, CommitExcludes
  <1>6. \A u \in Users :
           \/ user'[u] = user[u]
           \/ u = t /\ user'[u].status # "none" /\ user'[u].version > user[u].version
    BY <1>1, <1>2 DEF IInv, TypeOK
  <1> QED BY <1>1, <1>3, <1>4, <1>5, <1>6, Finishing

LEMMA CreateInv ==
    ASSUME IInv, NEW c \in Clients, Create(c)
    PROVE  IInv'
  <1> DEFINE row == [status |-> "ACTIVE", role |-> req[c].role, version |-> 1]
  <1>1. Finish(c) /\ req[c].role \in Role /\ row \in Row
    BY RequestFields DEF Create, AtCommit, IInv, Row, Status
  <1>2. PICK t \in Users : ~Exists(t) /\ user' = [user EXCEPT ![t] = row]
    BY DEF Create, Store
  <1>3. user' \in [Users -> Row] /\ \A u \in Users \ {t} : user'[u] = user[u]
    BY <1>1, <1>2 DEF IInv, TypeOK
  <1>4. AdminRemains'
    BY <1>2, <1>3 DEF IInv, AdminRemains, ActiveAdmins, IsActiveAdmin, Exists
  <1>5. ASSUME NEW d \in Clients \ {c} PROVE ~Holds(d, t)
    <2>1. ~(Editing(d) /\ t \in txn[d].admins)
      BY <1>2 DEF IInv, EditOK, ActiveAdmins, IsActiveAdmin, Exists
    <2>2. ~(req[d].op \in {"show", "update", "status", "reissue"} /\ req[d].target = t)
      BY <1>2 DEF IInv, StageOK
    <2>3. pc[d] = "commit" => req[d].op \in {"update", "status", "reissue", "create"}
      BY RequestFields DEF IInv, StageOK
    <2> QED BY <2>1, <2>2, <2>3 DEF Holds
  <1>6. user'[t].status # "none"
    BY <1>2 DEF IInv, TypeOK
  <1> QED BY <1>1, <1>2, <1>3, <1>4, <1>5, <1>6, Finishing

-----------------------------------------------------------------------------
(* Every step, and the theorems.                                           *)

LEMMA StepInv ==
    ASSUME IInv, [Next]_vars
    PROVE  IInv'
  <1>1. CASE UNCHANGED vars
    <2>1. UNCHANGED <<user, pc, req, txn>>
      BY <1>1 DEF vars
    <2> QED BY <2>1 DEF IInv, TypeOK, AdminRemains, ActiveAdmins, IsActiveAdmin,
            StageOK, EditOK, SeenOK, LocksOK, Editing, Holds, Exists
  <1>2. ASSUME NEW c \in Clients, Step(c) PROVE IInv'
    <2>1. CASE Show(c) \/ SubmitEdit(c) \/ SubmitReissue(c) \/ SubmitCreate(c)
      BY <2>1, SubmitInv
    <2>2. CASE LockAdmins(c)
      BY <2>2, LockAdminsInv
    <2>3. CASE LockTarget(c)
      BY <2>3, LockTargetInv
    <2>4. CASE RefuseEdit(c) \/ Abort(c)
      BY <2>4, RefuseInv DEF RefuseEdit, Abort
    <2>5. CASE Update(c) \/ UpdateStatus(c)
      BY <2>5, EditInv
    <2>6. CASE ReissueTemporaryPassword(c)
      BY <2>6, ReissueInv
    <2>7. CASE Create(c)
      BY <2>7, CreateInv
    <2> QED BY <1>2, <2>1, <2>2, <2>3, <2>4, <2>5, <2>6, <2>7 DEF Step, Handle
  <1> QED BY <1>1, <1>2 DEF Next

(* The inductive invariant, with the row locks' exclusion, holds for any   *)
(* number of administrators and of requests.                               *)
THEOREM InvAlways == Spec => []IInv
  BY InitInv, StepInv, PTL DEF Spec

(* However many administrators edit at once, one active administrator      *)
(* remains (users.service.ts, update, updateStatus, lockTargetAndAdmins).  *)
THEOREM AdminRemainsAlways == Spec => []AdminRemains
  <1>1. IInv => AdminRemains
    BY DEF IInv
  <1> QED BY <1>1, InvAlways, PTL

(* An accepted edit was prepared on the row it replaces.                   *)
THEOREM EditsSeeCurrentAlways == Spec => EditsSeeCurrent
  <1> DEFINE Sees ==
         \A c \in Clients : (Update(c) \/ UpdateStatus(c)) =>
             req[c].seen = user[req[c].target]
  <1>1. IInv => Sees
    <2> SUFFICES ASSUME IInv, NEW c \in Clients, Update(c) \/ UpdateStatus(c)
                 PROVE  req[c].seen = user[req[c].target]
      OBVIOUS
    <2>1. /\ req[c].op \in {"update", "status"} /\ pc[c] = "commit"
          /\ txn[c].target.version = req[c].seen.version
      BY DEF Update, UpdateStatus, AtCommit, MayEdit
    <2>2. txn[c].target = user[req[c].target]
      BY <2>1 DEF IInv, EditOK
    <2> QED BY <2>1, <2>2 DEF IInv, SeenOK
  <1>2. IInv /\ [Next]_vars => [Sees]_vars
    BY <1>1
  <1> HIDE DEF Sees
  <1>3. Spec => [][Sees]_vars
    BY <1>2, InvAlways, PTL DEF Spec
  <1> QED BY <1>3 DEF EditsSeeCurrent, Sees

=============================================================================
