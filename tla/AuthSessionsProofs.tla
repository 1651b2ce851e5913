------------------------- MODULE AuthSessionsProofs -------------------------
(***************************************************************************)
(* Theorems about AuthSessions, for all sets of devices, requests and      *)
(* sessions, and any number of revocations.                                *)
(***************************************************************************)
EXTENDS AuthSessions, TLAPS

USE DEF rows, history

Inv == TypeOK /\ IInv

-----------------------------------------------------------------------------
(* Initial states.                                                         *)

LEMMA InitInv == Init => Inv
  <1> SUFFICES ASSUME Init PROVE Inv
    OBVIOUS
  <1>1. TypeOK
    BY ConstantsAssumption
       DEF Init, TypeOK, UserRow, SessionRow, Reply, Keep, NoTxn, NoOrigin
  <1>2. \A c \in Clients : StageOK(c)
    BY DEF Init, StageOK, Keep
  <1>3. LocksOK /\ ReadsOK
    BY DEF Init, LocksOK, ReadsOK, HoldsUser, HoldsSession
  <1>4. Made = {} /\ Live = {}
    BY DEF Init, Made, Live
  <1>5. SessionsOK /\ OneChainPerLogin /\ LiveIsCurrent
    BY <1>4 DEF Init, SessionsOK, OneChainPerLogin, LiveIsCurrent, Made
  <1>6. IssuedOK /\ StreakOK
    BY ConstantsAssumption DEF Init, IssuedOK, StreakOK
  <1> QED BY <1>1, <1>2, <1>3, <1>5, <1>6 DEF Inv, IInv

-----------------------------------------------------------------------------
(* What a handler may rely on.                                             *)

LEMMA RequestFields ==
    ASSUME NEW r \in Request
    PROVE  /\ r.op \in {"login", "refresh", "logout", "password", "activate",
                        "deactivate", "reissue", "update"}
           /\ r.op = "login" => /\ r.device \in Devices /\ r.at \in Nat
                                /\ r.password \in Passwords
           /\ r.op = "refresh" => /\ r.device \in Devices /\ r.at \in Nat
                                  /\ r.token \in Sessions
           /\ r.op = "logout" => /\ r.device \in Devices
                                 /\ r.token \in Sessions \cup {None}
           /\ r.op = "password" => /\ r.device \in Devices
                                   /\ r.password \in Passwords
                                   /\ r.new \in Passwords
           /\ r.op = "reissue" => r.new \in Passwords
           /\ r.op = "update" => r.role \in Roles
  BY DEF Request

LEMMA Committing ==
    ASSUME Inv, NEW c \in Clients, pc[c] = "commit"
    PROVE  /\ req[c] \in Request
           /\ req[c].op # "logout" => HoldsUser(c) /\ txn[c].user = user
           /\ req[c].op \in {"refresh", "logout"} =>
                 /\ req[c].token \in Made
                 /\ HoldsSession(c, req[c].token)
                 /\ txn[c].session = session[req[c].token]
  <1>1. StageOK(c) /\ ReadsOK
    BY DEF Inv, IInv
  <1>2. req[c] \in Request
    BY <1>1 DEF StageOK
  <1>3. req[c].op # "logout" => HoldsUser(c) /\ txn[c].user = user
    BY <1>1 DEF HoldsUser, ReadsOK
  <1>4. ASSUME req[c].op \in {"refresh", "logout"}
        PROVE  /\ req[c].token \in Made
               /\ HoldsSession(c, req[c].token)
               /\ txn[c].session = session[req[c].token]
    BY <1>1, <1>4 DEF StageOK, HoldsSession, ReadsOK, Made
  <1> QED BY <1>2, <1>3, <1>4

-----------------------------------------------------------------------------
(* One request moves: stages, locks and reads of all of them.              *)

StepOf(c) == \A d \in Clients \ {c} :
                /\ pc'[d] = pc[d]   /\ req'[d] = req[d]
                /\ txn'[d] = txn[d] /\ reply'[d] = reply[d]

LEMMA StagesStep ==
    ASSUME Inv, NEW c \in Clients, StepOf(c), Made \subseteq Made', StageOK(c)'
    PROVE  \A d \in Clients : StageOK(d)'
  <1> SUFFICES ASSUME NEW d \in Clients, d # c PROVE StageOK(d)'
    OBVIOUS
  <1>1. StageOK(d)
    BY DEF Inv, IInv
  <1>2. /\ pc'[d] = pc[d] /\ req'[d] = req[d] /\ reply'[d] = reply[d]
    BY DEF StepOf
  <1> QED BY <1>1, <1>2 DEF StageOK

LEMMA LocksStep ==
    ASSUME Inv, NEW c \in Clients, StepOf(c),
           HoldsUser(c)' => HoldsUser(c) \/ UserIsFree(c),
           \A s \in Sessions :
              HoldsSession(c, s)' => HoldsSession(c, s) \/ SessionIsFree(c, s)
    PROVE  LocksOK'
  <1>1. \A d \in Clients \ {c} : HoldsUser(d)' <=> HoldsUser(d)
    BY DEF StepOf, HoldsUser
  <1>2. \A d \in Clients \ {c}, s \in Sessions :
           HoldsSession(d, s)' <=> HoldsSession(d, s)
    BY DEF StepOf, HoldsSession
  <1>3. LocksOK
    BY DEF Inv, IInv
  <1> SUFFICES ASSUME NEW d \in Clients, NEW e \in Clients, d # e
               PROVE  /\ ~(HoldsUser(d)' /\ HoldsUser(e)')
                      /\ \A s \in Sessions :
                            ~(HoldsSession(d, s)' /\ HoldsSession(e, s)')
    BY DEF LocksOK
  <1>4. ~(HoldsUser(d)' /\ HoldsUser(e)')
    BY <1>1, <1>3 DEF LocksOK, UserIsFree
  <1>5. ASSUME NEW s \in Sessions PROVE ~(HoldsSession(d, s)' /\ HoldsSession(e, s)')
    BY <1>2, <1>3 DEF LocksOK, SessionIsFree
  <1> QED BY <1>4, <1>5

LEMMA ReadsStep ==
    ASSUME Inv, NEW c \in Clients, StepOf(c),
           \A d \in Clients \ {c} :
              /\ HoldsUser(d) => user' = user
              /\ \A s \in Sessions : HoldsSession(d, s) => session'[s] = session[s],
           HoldsUser(c)' => txn'[c].user = user',
           \A s \in Sessions : HoldsSession(c, s)' => txn'[c].session = session'[s]
    PROVE  ReadsOK'
  <1>1. \A d \in Clients \ {c} : HoldsUser(d)' <=> HoldsUser(d)
    BY DEF StepOf, HoldsUser
  <1>2. \A d \in Clients \ {c}, s \in Sessions :
           HoldsSession(d, s)' <=> HoldsSession(d, s)
    BY DEF StepOf, HoldsSession
  <1>3. ReadsOK
    BY DEF Inv, IInv
  <1> SUFFICES ASSUME NEW d \in Clients
               PROVE  /\ HoldsUser(d)' => txn'[d].user = user'
                      /\ \A s \in Sessions :
                            HoldsSession(d, s)' => txn'[d].session = session'[s]
    BY DEF ReadsOK
  <1>4. CASE d = c
    BY <1>4
  <1>5. CASE d # c
    BY <1>1, <1>2, <1>3, <1>5 DEF ReadsOK, StepOf
  <1> QED BY <1>4, <1>5

(* A handler that ends: c holds nothing any more, and what it has written  *)
(* is locked by nobody else.                                               *)
Ended(c) == /\ StageOK(c)' /\ StepOf(c)
            /\ ~HoldsUser(c)' /\ \A s \in Sessions : ~HoldsSession(c, s)'

LEMMA FinishEnds ==
    ASSUME Inv, NEW c \in Clients, NEW answer \in Reply, Finish(c, answer),
           answer = Keep \/ req[c] \in Request,
           answer = Keep \/ req[c].op \in {"login", "refresh", "logout", "password"},
           answer.kind = "set" => answer.session \in Made'
    PROVE  Ended(c)
  <1>1. /\ pc \in [Clients -> {"idle", "guard", "user", "session", "join",
                               "commit", "reply"}]
        /\ req \in [Clients -> Request \cup {NoRequest}]
        /\ reply \in [Clients -> Reply]
        /\ txn \in [Clients -> [user : UserRow \cup {None},
                                session : SessionRow \cup {None}]]
    BY DEF Inv, TypeOK
  <1>2. StepOf(c)
    BY <1>1 DEF Finish, StepOf
  <1>3. /\ pc'[c] = IF answer = Keep THEN "idle" ELSE "reply"
        /\ reply'[c] = answer
        /\ req'[c] = IF answer = Keep THEN NoRequest ELSE req[c]
    BY <1>1 DEF Finish
  <1>4. StageOK(c)'
    BY <1>3 DEF StageOK
  <1>5. ~HoldsUser(c)' /\ \A s \in Sessions : ~HoldsSession(c, s)'
    BY <1>3 DEF HoldsUser, HoldsSession
  <1> QED BY <1>2, <1>4, <1>5 DEF Ended

LEMMA EndStep ==
    ASSUME Inv, NEW c \in Clients, Ended(c), Made \subseteq Made',
           user' = user \/ HoldsUser(c),
           \A d \in Clients \ {c}, s \in Sessions :
              HoldsSession(d, s) => session'[s] = session[s]
    PROVE  (\A d \in Clients : StageOK(d)') /\ LocksOK' /\ ReadsOK'
  <1>1. \A d \in Clients \ {c} : HoldsUser(d) => user' = user
    BY DEF Inv, IInv, LocksOK
  <1>2. \A d \in Clients : StageOK(d)'
    BY StagesStep DEF Ended
  <1>3. LocksOK'
    BY LocksStep DEF Ended
  <1>4. ReadsOK'
    BY <1>1, ReadsStep DEF Ended
  <1> QED BY <1>2, <1>3, <1>4

(* What the parts about the rows and the history mention.                  *)
TableOK == SessionsOK /\ OneChainPerLogin /\ LiveIsCurrent /\ IssuedOK /\ StreakOK

LEMMA InvParts ==
    /\ Inv <=> /\ TypeOK /\ (\A c \in Clients : StageOK(c))
               /\ LocksOK /\ ReadsOK /\ TableOK
    /\ Inv' <=> /\ TypeOK' /\ (\A c \in Clients : StageOK(c)')
                /\ LocksOK' /\ ReadsOK' /\ TableOK'
  BY DEF Inv, IInv, TableOK

LEMMA SameTable ==
    ASSUME TableOK, UNCHANGED <<rows, history>>,
           \A d \in Devices : cookie'[d] # None => cookie'[d] \in Made
    PROVE  TableOK' /\ Made' = Made
  <1>1. Made' = Made /\ Live' = Live
    BY DEF Made, Live
  <1>2. SessionsOK'
    BY <1>1 DEF TableOK, SessionsOK
  <1>3. OneChainPerLogin' /\ LiveIsCurrent' /\ IssuedOK' /\ StreakOK'
    BY <1>1 DEF TableOK, OneChainPerLogin, LiveIsCurrent, IssuedOK, StreakOK, Made
  <1> QED BY <1>1, <1>2, <1>3 DEF TableOK

-----------------------------------------------------------------------------
(* Steps that write no row.                                                *)

LEMMA KeepIsReply == Keep \in Reply /\ Clear \in Reply /\ Keep # Clear
  BY DEF Keep, Clear, Reply

LEMMA NoTxnType ==
    NoTxn \in [user : UserRow \cup {None}, session : SessionRow \cup {None}]
  BY DEF NoTxn

LEMMA RefuseInv ==
    ASSUME Inv, NEW c \in Clients, Refuse(c) PROVE Inv'
  <1>1. Finish(c, Keep) /\ UNCHANGED <<rows, history, cookie, now>>
    BY DEF Refuse, Finish
  <1>2. TableOK' /\ Made' = Made
    BY <1>1, SameTable, InvParts DEF TableOK, SessionsOK
  <1>3. Ended(c)
    BY <1>1, FinishEnds, KeepIsReply DEF Keep
  <1>4. (\A d \in Clients : StageOK(d)') /\ LocksOK' /\ ReadsOK'
    BY <1>1, <1>2, <1>3, EndStep
  <1>5. TypeOK'
    BY <1>1, KeepIsReply, NoTxnType DEF Inv, TypeOK, Finish
  <1> QED BY <1>2, <1>4, <1>5, InvParts

LEMMA AskedTypes ==
    ASSUME Inv, NEW r \in Asked
    PROVE  /\ r \in Request
           /\ r.op \in {"refresh", "logout"} => r.token \in Made \cup {None}
           /\ r.op = "refresh" => r.token \in Made
  <1>1. now \in Nat /\ issued \subseteq AccessToken
        /\ cookie \in [Devices -> Sessions \cup {None}]
    BY DEF Inv, TypeOK
  <1>2. r \in Request
    BY <1>1 DEF Asked, Request
  <1>3. r.op \in {"refresh", "logout"} =>
            r.device \in Devices /\ r.token = cookie[r.device]
    BY DEF Asked
  <1>4. \A d \in Devices : cookie[d] \in Made \cup {None}
    BY DEF Inv, IInv, SessionsOK
  <1>5. r.op = "refresh" => r.token \in Sessions
    BY <1>2, RequestFields
  <1> QED BY <1>2, <1>3, <1>4, <1>5, ConstantsAssumption

LEMMA FirstStageOf ==
    ASSUME NEW r \in Request
    PROVE  /\ FirstStage(r) \in {"guard", "user", "session", "reply"}
           /\ FirstStage(r) = "guard" <=> r.op = "password"
           /\ FirstStage(r) = "session" <=>
                 r.op = "refresh" \/ (r.op = "logout" /\ r.token # None)
           /\ FirstStage(r) = "reply" => r.op = "logout"
           /\ FirstStage(r) = "user" => r.op \notin {"refresh", "logout"}
  <1>1. CASE r.op \in {"password", "refresh"}
    BY <1>1 DEF FirstStage
  <1>2. CASE r.op = "logout"
    BY <1>2 DEF FirstStage
  <1>3. CASE r.op \notin {"password", "refresh", "logout"}
    BY <1>3 DEF FirstStage
  <1> QED BY <1>1, <1>2, <1>3

LEMMA SubmitInv ==
    ASSUME Inv, NEW c \in Clients, Submit(c) PROVE Inv'
  <1>1. PICK r \in Asked :
           /\ req' = [req EXCEPT ![c] = r]
           /\ pc' = [pc EXCEPT ![c] = FirstStage(r)]
           /\ reply' = [reply EXCEPT ![c] =
                           IF FirstStage(r) = "reply" THEN Clear ELSE Keep]
    BY DEF Submit
  <1>2. UNCHANGED <<now, rows, cookie, txn, history>>
    BY DEF Submit
  <1>3. r \in Request
        /\ (r.op \in {"refresh", "logout"} => r.token \in Made \cup {None})
        /\ (r.op = "refresh" => r.token \in Made)
    BY AskedTypes
  <1>4. TypeOK'
    BY <1>1, <1>2, <1>3, FirstStageOf, KeepIsReply DEF Inv, TypeOK
  <1>5. TableOK' /\ Made' = Made
    BY <1>2, SameTable, InvParts DEF TableOK, SessionsOK
  <1>6. StepOf(c) /\ pc'[c] = FirstStage(r) /\ req'[c] = r
        /\ reply'[c] = IF FirstStage(r) = "reply" THEN Clear ELSE Keep
    BY <1>1, <1>2 DEF Inv, TypeOK, StepOf
  <1>7. StageOK(c)'
    BY <1>3, <1>5, <1>6, FirstStageOf DEF StageOK, Keep, Clear
  <1>8. ~HoldsUser(c)' /\ \A s \in Sessions : ~HoldsSession(c, s)'
    BY <1>3, <1>6, FirstStageOf DEF HoldsUser, HoldsSession
  <1>9. (\A d \in Clients : StageOK(d)') /\ LocksOK' /\ ReadsOK'
    BY <1>2, <1>5, <1>6, <1>7, <1>8, EndStep DEF Ended
  <1> QED BY <1>4, <1>5, <1>9, InvParts

LEMMA GuardInv ==
    ASSUME Inv, NEW c \in Clients, Guard(c) PROVE Inv'
  <1>1. CASE Refuse(c)
    BY <1>1, RefuseInv
  <1>2. CASE /\ pc' = [pc EXCEPT ![c] = "user"]
             /\ UNCHANGED <<now, rows, cookie, req, txn, reply, history>>
    <2>1. TypeOK'
      BY <1>2 DEF Inv, TypeOK
    <2>2. TableOK' /\ Made' = Made
      BY <1>2, SameTable, InvParts DEF TableOK, SessionsOK
    <2>3. pc[c] = "guard" /\ pc'[c] = "user" /\ StepOf(c)
      BY <1>2 DEF Inv, TypeOK, StepOf, Guard
    <2>4. StageOK(c)
      BY DEF Inv, IInv
    <2>5. StageOK(c)'
      BY <1>2, <2>2, <2>3, <2>4 DEF StageOK
    <2>6. ~HoldsUser(c)' /\ \A s \in Sessions : ~HoldsSession(c, s)'
      BY <2>3 DEF HoldsUser, HoldsSession
    <2>7. (\A d \in Clients : StageOK(d)') /\ LocksOK' /\ ReadsOK'
      BY <1>2, <2>2, <2>3, <2>5, <2>6, EndStep DEF Ended
    <2> QED BY <2>1, <2>2, <2>7, InvParts
  <1> QED BY <1>1, <1>2 DEF Guard

LEMMA LockSessionInv ==
    ASSUME Inv, NEW c \in Clients, LockSession(c) PROVE Inv'
  <1> DEFINE s == req[c].token
  <1>1. /\ pc[c] = "session" /\ SessionIsFree(c, s)
        /\ txn' = [txn EXCEPT ![c].session = session[s]]
        /\ pc' = [pc EXCEPT ![c] = IF req[c].op = "refresh" THEN "join"
                                                            ELSE "commit"]
        /\ UNCHANGED <<now, rows, cookie, req, reply, history>>
    BY DEF LockSession
  <1>2. StageOK(c) /\ req[c].op \in {"refresh", "logout"} /\ s \in Made
    BY <1>1 DEF Inv, IInv, StageOK
  <1>3. s \in Sessions /\ session[s] \in SessionRow
    BY <1>2 DEF Inv, TypeOK, Made
  <1>4. /\ StepOf(c) /\ txn'[c].session = session[s]
        /\ pc'[c] = IF req[c].op = "refresh" THEN "join" ELSE "commit"
    BY <1>1 DEF Inv, TypeOK, StepOf
  <1>5. TypeOK'
    BY <1>1, <1>3 DEF Inv, TypeOK
  <1>6. TableOK' /\ Made' = Made
    BY <1>1, SameTable, InvParts DEF TableOK, SessionsOK
  <1>7. StageOK(c)'
    BY <1>1, <1>2, <1>4, <1>6 DEF StageOK
  <1>8. ~HoldsUser(c)' /\ \A t \in Sessions : HoldsSession(c, t)' => t = s
    BY <1>1, <1>2, <1>4 DEF HoldsUser, HoldsSession
  <1>9. \A d \in Clients : StageOK(d)'
    BY <1>4, <1>6, <1>7, StagesStep
  <1>10. LocksOK'
    BY <1>1, <1>4, <1>8, LocksStep
  <1>11. ReadsOK'
    BY <1>1, <1>4, <1>8, ReadsStep
  <1> QED BY <1>5, <1>6, <1>9, <1>10, <1>11, InvParts

LEMMA LockUserInv ==
    ASSUME Inv, NEW c \in Clients, LockUser(c) PROVE Inv'
  <1>1. /\ pc[c] \in {"user", "join"} /\ UserIsFree(c)
        /\ txn' = [txn EXCEPT ![c].user = user]
        /\ pc' = [pc EXCEPT ![c] = "commit"]
        /\ UNCHANGED <<now, rows, cookie, req, reply, history>>
    BY DEF LockUser
  <1>2. StageOK(c)
    BY DEF Inv, IInv
  <1>3. StepOf(c) /\ pc'[c] = "commit" /\ txn'[c].user = user
        /\ txn'[c].session = txn[c].session
    BY <1>1 DEF Inv, TypeOK, StepOf
  <1>4. TypeOK'
    BY <1>1 DEF Inv, TypeOK
  <1>5. TableOK' /\ Made' = Made
    BY <1>1, SameTable, InvParts DEF TableOK, SessionsOK
  <1>6. StageOK(c)'
    BY <1>1, <1>2, <1>3, <1>5 DEF StageOK
  <1>7. \A s \in Sessions : HoldsSession(c, s)' => HoldsSession(c, s)
    BY <1>1, <1>2, <1>3 DEF HoldsSession, StageOK
  <1>8. \A d \in Clients : StageOK(d)'
    BY <1>3, <1>5, <1>6, StagesStep
  <1>9. LocksOK'
    BY <1>1, <1>3, <1>7, LocksStep
  <1>10. ReadsOK
    BY DEF Inv, IInv
  <1>11. \A s \in Sessions : HoldsSession(c, s)' => txn'[c].session = session'[s]
    BY <1>1, <1>3, <1>7, <1>10 DEF ReadsOK
  <1>12. ReadsOK'
    BY <1>1, <1>3, <1>11, ReadsStep
  <1> QED BY <1>4, <1>5, <1>8, <1>9, <1>12, InvParts

LEMMA AnsweredInv ==
    ASSUME Inv, NEW c \in Clients, Deliver(c) \/ Lose(c) PROVE Inv'
  <1>1. /\ pc[c] = "reply"
        /\ pc' = [pc EXCEPT ![c] = "idle"]
        /\ req' = [req EXCEPT ![c] = NoRequest]
        /\ reply' = [reply EXCEPT ![c] = Keep]
        /\ UNCHANGED <<now, rows, txn, history>>
    BY DEF Deliver, Lose
  <1>2. StageOK(c)
    BY DEF Inv, IInv
  <1>3. reply[c] \in Reply /\ reply[c].kind = "set" => reply[c].session \in Made
    BY <1>2 DEF StageOK
  <1>4. Made \subseteq Sessions /\ None \notin Made
    BY ConstantsAssumption DEF Made
  <1>5. /\ cookie' \in [Devices -> Sessions \cup {None}]
        /\ \A d \in Devices : cookie'[d] # None => cookie'[d] \in Made
    <2>1. cookie \in [Devices -> Sessions \cup {None}]
          /\ \A d \in Devices : cookie[d] # None => cookie[d] \in Made
      BY DEF Inv, TypeOK, IInv, SessionsOK
    <2>2. CASE Lose(c)
      BY <2>1, <2>2 DEF Lose
    <2>3. CASE Deliver(c)
      <3>1. (IF reply[c].kind = "set" THEN reply[c].session ELSE None)
               \in Made \cup {None}
        BY <1>2 DEF StageOK
      <3> QED BY <1>4, <2>1, <2>3, <3>1 DEF Deliver
    <2> QED BY <2>2, <2>3
  <1>6. TypeOK'
    BY <1>1, <1>5, KeepIsReply DEF Inv, TypeOK
  <1>7. TableOK' /\ Made' = Made
    BY <1>1, <1>5, SameTable, InvParts
  <1>8. StepOf(c) /\ pc'[c] = "idle" /\ req'[c] = NoRequest /\ reply'[c] = Keep
    BY <1>1 DEF Inv, TypeOK, StepOf
  <1>9. Ended(c)
    BY <1>8 DEF Ended, StageOK, Keep, HoldsUser, HoldsSession
  <1>10. (\A d \in Clients : StageOK(d)') /\ LocksOK' /\ ReadsOK'
    BY <1>1, <1>7, <1>9, EndStep
  <1> QED BY <1>6, <1>7, <1>10, InvParts

LEMMA IdleInv ==
    ASSUME Inv, UNCHANGED <<rows, cookie, pc, req, txn, reply, history>>,
           now' \in Nat
    PROVE  Inv'
  <1>1. TypeOK'
    BY DEF Inv, TypeOK
  <1>2. TableOK' /\ Made' = Made
    BY SameTable, InvParts DEF TableOK, SessionsOK
  <1>3. (\A c \in Clients : StageOK(c)') /\ LocksOK' /\ ReadsOK'
    BY <1>2 DEF Inv, IInv, StageOK, LocksOK, ReadsOK, HoldsUser, HoldsSession
  <1> QED BY <1>1, <1>2, <1>3, InvParts

-----------------------------------------------------------------------------
(* Steps that write rows.                                                  *)

Chain == [login : Sessions \cup {None}, authVersion : Nat,
          password : Passwords \cup {None}]

RowsTyped ==
    /\ user \in UserRow /\ session \in [Sessions -> SessionRow]
    /\ issued \subseteq AccessToken /\ origin \in [Sessions -> Chain]
    /\ streak \in [count : Nat, at : Nat]

(* A commit leaves the invariant true when it leaves the table in order and*)
(* writes no session that another transaction has locked.                  *)
LEMMA CommitStep ==
    ASSUME Inv, NEW c \in Clients, pc[c] = "commit",
           NEW answer \in Reply, Finish(c, answer),
           answer = Keep \/ req[c].op \in {"login", "refresh", "logout", "password"},
           answer.kind = "set" => answer.session \in Made',
           user' = user \/ req[c].op # "logout",
           Made \subseteq Made',
           \A d \in Clients \ {c}, s \in Sessions :
              HoldsSession(d, s) => session'[s] = session[s],
           RowsTyped', TableOK'
    PROVE  Inv'
  <1>1. req[c] \in Request /\ (req[c].op # "logout" => HoldsUser(c))
    BY Committing
  <1>2. Ended(c)
    BY <1>1, FinishEnds
  <1>3. (\A d \in Clients : StageOK(d)') /\ LocksOK' /\ ReadsOK'
    BY <1>1, <1>2, EndStep
  <1>4. TypeOK'
    BY NoTxnType DEF Inv, TypeOK, Finish, RowsTyped, Chain
  <1> QED BY <1>3, <1>4, InvParts

LEMMA RowsAreTyped == Inv => RowsTyped
  BY DEF Inv, TypeOK, RowsTyped, Chain

LEMMA HeldIsMade ==
    ASSUME Inv, NEW d \in Clients, NEW s \in Sessions, HoldsSession(d, s)
    PROVE  s \in Made
  <1>1. StageOK(d)
    BY DEF Inv, IInv
  <1> QED BY <1>1 DEF HoldsSession, StageOK

LEMMA HeldOnce ==
    ASSUME Inv, NEW c \in Clients, NEW d \in Clients \ {c}, NEW s \in Sessions,
           HoldsSession(c, s)
    PROVE  ~HoldsSession(d, s)
  BY DEF Inv, IInv, LocksOK

LEMMA CountFailureInv ==
    ASSUME Inv, NEW c \in Clients, CountFailure(c) PROVE Inv'
  <1> DEFINE at == req[c].at
             n  == Failures(user)
  <1>1. pc[c] = "commit" /\ req[c].op = "login"
    BY DEF CountFailure, AtCommit
  <1>2. req[c] \in Request /\ at \in Nat /\ txn[c].user = user
    BY <1>1, Committing, RequestFields
  <1>3. /\ user.active /\ ~IsLockedAt(user, at)
        /\ user' = [user EXCEPT !.failedCount = n,
                        !.lockedUntil = IF n >= MaxFailed THEN at + LockTime ELSE 0]
        /\ streak' = [count |-> IF streak.count >= MaxFailed THEN 1
                                ELSE streak.count + 1, at |-> at]
        /\ Finish(c, Keep)
        /\ UNCHANGED <<session, issued, origin>>
    BY <1>2 DEF CountFailure
  <1>4. user \in UserRow /\ streak \in [count : Nat, at : Nat]
    BY DEF Inv, TypeOK
  <1>5. n \in Nat /\ LockTime \in Nat \ {0} /\ MaxFailed \in Nat \ {0}
    BY <1>4, ConstantsAssumption DEF Failures, UserRow
  <1>6. RowsTyped'
    <2>1. user' \in UserRow
      <3> DEFINE until == IF n >= MaxFailed THEN at + LockTime ELSE 0
      <3>1. until \in Nat
        BY <1>2, <1>5
      <3>2. user' = [user EXCEPT !.failedCount = n, !.lockedUntil = until]
        BY <1>3
      <3> HIDE DEF n, until
      <3> QED BY <1>4, <1>5, <3>1, <3>2 DEF UserRow
    <2>2. streak' \in [count : Nat, at : Nat]
      BY <1>2, <1>3, <1>4
    <2> QED BY <1>3, <2>1, <2>2, RowsAreTyped DEF RowsTyped
  <1>7. /\ user'.failedCount = n /\ user'.active = user.active
        /\ user'.lockedUntil = (IF n >= MaxFailed THEN at + LockTime ELSE 0)
        /\ user'.authVersion = user.authVersion /\ user'.password = user.password
        /\ user'.mustChange = user.mustChange
    BY <1>3, <1>4 DEF UserRow
  <1>8. Made' = Made /\ Live' = Live /\ cookie' = cookie
    BY <1>3 DEF Made, Live, Finish
  <1>9. TableOK
    BY InvParts
  <1>10. StreakOK'
    BY <1>2, <1>3, <1>4, <1>5, <1>7, <1>9 DEF TableOK, StreakOK, Failures, UserRow
  <1>11. TableOK'
    BY <1>3, <1>7, <1>8, <1>9, <1>10
       DEF TableOK, SessionsOK, OneChainPerLogin, LiveIsCurrent, IssuedOK, Made
  <1> QED BY <1>1, <1>3, <1>6, <1>8, <1>11, CommitStep, KeepIsReply DEF Keep

(* Revoking all live sessions at once, which nobody else has locked.       *)
LEMMA RevokeAllStep ==
    ASSUME Inv, NEW c \in Clients, LiveAreFree(c), session' = RevokeAll,
           UNCHANGED <<cookie, origin>>
    PROVE  /\ Made' = Made /\ session' \in [Sessions -> SessionRow]
           /\ \A d \in Clients \ {c}, s \in Sessions :
                 HoldsSession(d, s) => session'[s] = session[s]
           /\ SessionsOK' /\ OneChainPerLogin' /\ LiveIsCurrent'
  <1>1. session \in [Sessions -> SessionRow]
    BY DEF Inv, TypeOK
  <1>2. \A s \in Sessions :
           /\ session'[s] \in SessionRow
           /\ session'[s].state # "live"
           /\ session'[s].state = "unused" <=> session[s].state = "unused"
           /\ session'[s].replacedBy = session[s].replacedBy
           /\ session[s].state = "revoked" => session'[s].state = "revoked"
           /\ session[s].state # "live" => session'[s] = session[s]
    <2> SUFFICES ASSUME NEW s \in Sessions
                 PROVE  /\ session'[s] \in SessionRow
                        /\ session'[s].state # "live"
                        /\ session'[s].state = "unused" <=> session[s].state = "unused"
                        /\ session'[s].replacedBy = session[s].replacedBy
                        /\ session[s].state = "revoked" => session'[s].state = "revoked"
                        /\ session[s].state # "live" => session'[s] = session[s]
      OBVIOUS
    <2>1. session[s] \in SessionRow
      BY <1>1
    <2>2. session'[s] = [session[s] EXCEPT
                           !.state = IF @ = "live" THEN "revoked" ELSE @]
      BY DEF RevokeAll
    <2> QED BY <2>1, <2>2 DEF SessionRow
  <1>3. session' \in [Sessions -> SessionRow]
    BY <1>2 DEF RevokeAll
  <1>4. Made' = Made /\ Live' = {}
    BY <1>2 DEF Made, Live
  <1>5. \A d \in Clients \ {c}, s \in Sessions :
           HoldsSession(d, s) => session'[s] = session[s]
    BY <1>2 DEF LiveAreFree, SessionIsFree, Live
  <1>6. SessionsOK'
    BY <1>2, <1>4 DEF Inv, IInv, SessionsOK, Made
  <1>7. OneChainPerLogin'
    <2>1. \A s \in Made : session[s].replacedBy # None =>
             session[s].state = "revoked" /\ session[s].replacedBy \in Made
      BY DEF Inv, IInv, OneChainPerLogin, SessionsOK, Made
    <2> QED BY <1>2, <1>4, <2>1 DEF Inv, IInv, OneChainPerLogin, Made
  <1>8. LiveIsCurrent'
    BY <1>4 DEF LiveIsCurrent
  <1> QED BY <1>3, <1>4, <1>5, <1>6, <1>7, <1>8

LEMMA DetectReuseInv ==
    ASSUME Inv, NEW c \in Clients, DetectReuse(c) PROVE Inv'
  <1>1. /\ pc[c] = "commit" /\ req[c].op = "refresh"
        /\ LiveAreFree(c) /\ session' = RevokeAll /\ Finish(c, Keep)
        /\ UNCHANGED <<user, history, cookie>>
    BY DEF DetectReuse, AtCommit, Finish
  <1>2. /\ Made' = Made /\ session' \in [Sessions -> SessionRow]
        /\ \A d \in Clients \ {c}, s \in Sessions :
              HoldsSession(d, s) => session'[s] = session[s]
        /\ SessionsOK' /\ OneChainPerLogin' /\ LiveIsCurrent'
    BY <1>1, RevokeAllStep
  <1>3. RowsTyped'
    BY <1>1, <1>2, RowsAreTyped DEF RowsTyped
  <1>4. TableOK'
    BY <1>1, <1>2 DEF Inv, IInv, TableOK, IssuedOK, StreakOK
  <1> QED BY <1>1, <1>2, <1>3, <1>4, CommitStep, KeepIsReply DEF Keep

(* A new password, or a deactivation: nothing that was handed out before   *)
(* carries the new authVersion.                                            *)
LEMMA NewVersion ==
    ASSUME Inv, user'.authVersion = user.authVersion + 1, UNCHANGED issued
    PROVE  IssuedOK'
  <1>1. user.authVersion \in Nat /\ \A t \in issued : t.authVersion \in Nat
    BY DEF Inv, TypeOK, UserRow, AccessToken
  <1>2. \A t \in issued : t.authVersion <= user.authVersion
    BY DEF Inv, IInv, IssuedOK
  <1> QED BY <1>1, <1>2 DEF IssuedOK

LEMMA NewPasswordInv ==
    ASSUME Inv, NEW c \in Clients, NEW mustChange \in BOOLEAN,
           pc[c] = "commit", req[c].op \in {"password", "reissue"},
           LiveAreFree(c), NewPassword(c, mustChange),
           NEW answer \in {Keep, Clear}, Finish(c, answer),
           answer = Keep \/ req[c].op = "password"
    PROVE  Inv'
  <1>1. req[c].new \in Passwords /\ txn[c].user = user
    BY Committing, RequestFields
  <1>2. /\ user' = [user EXCEPT !.password = req[c].new,
              !.mustChange = mustChange, !.authVersion = user.authVersion + 1,
              !.failedCount = 0, !.lockedUntil = 0]
        /\ session' = RevokeAll /\ streak' = NoStreak
        /\ UNCHANGED <<issued, origin, cookie>>
    BY <1>1 DEF NewPassword, Finish
  <1>3. /\ Made' = Made /\ session' \in [Sessions -> SessionRow]
        /\ \A d \in Clients \ {c}, s \in Sessions :
              HoldsSession(d, s) => session'[s] = session[s]
        /\ SessionsOK' /\ OneChainPerLogin' /\ LiveIsCurrent'
    BY <1>2, RevokeAllStep
  <1>4. user \in UserRow
    BY DEF Inv, TypeOK
  <1>5. /\ user' \in UserRow
        /\ user'.authVersion = user.authVersion + 1
        /\ user'.failedCount = 0 /\ user'.lockedUntil = 0
    <2> DEFINE v == user.authVersion + 1
               p == req[c].new
    <2>1. v \in Nat /\ p \in Passwords
      BY <1>1, <1>4 DEF UserRow
    <2>2. user' = [user EXCEPT !.password = p, !.mustChange = mustChange,
                      !.authVersion = v, !.failedCount = 0, !.lockedUntil = 0]
      BY <1>2
    <2> HIDE DEF v, p
    <2>3. user' \in UserRow /\ user'.authVersion = v
          /\ user'.failedCount = 0 /\ user'.lockedUntil = 0
      BY <1>4, <2>1, <2>2 DEF UserRow
    <2> QED BY <2>3 DEF v
  <1>6. RowsTyped'
    BY <1>2, <1>3, <1>5, RowsAreTyped DEF RowsTyped, NoStreak
  <1>7. IssuedOK' /\ StreakOK'
    BY <1>2, <1>5, NewVersion, ConstantsAssumption DEF StreakOK, NoStreak
  <1>8. TableOK'
    BY <1>3, <1>7 DEF TableOK
  <1>9. answer \in Reply /\ answer.kind # "set"
    BY KeepIsReply DEF Keep, Clear
  <1> QED BY <1>3, <1>6, <1>8, <1>9, CommitStep

LEMMA DeactivateInv ==
    ASSUME Inv, NEW c \in Clients, Deactivate(c) PROVE Inv'
  <1>1. /\ pc[c] = "commit" /\ req[c].op = "deactivate" /\ Finish(c, Keep)
        /\ UNCHANGED <<history, cookie>>
    BY DEF Deactivate, AtCommit, Finish
  <1>2. txn[c].user = user
    BY <1>1, Committing
  <1>3. CASE user.active
    <2>1. /\ LiveAreFree(c) /\ session' = RevokeAll
          /\ user' = [user EXCEPT !.active = FALSE,
                                  !.authVersion = user.authVersion + 1]
      BY <1>2, <1>3 DEF Deactivate
    <2>2. /\ Made' = Made /\ session' \in [Sessions -> SessionRow]
          /\ \A d \in Clients \ {c}, s \in Sessions :
                HoldsSession(d, s) => session'[s] = session[s]
          /\ SessionsOK' /\ OneChainPerLogin' /\ LiveIsCurrent'
      BY <1>1, <2>1, RevokeAllStep
    <2>3. user \in UserRow
      BY DEF Inv, TypeOK
    <2>4. /\ user' \in UserRow
          /\ user'.authVersion = user.authVersion + 1
          /\ user'.failedCount = user.failedCount
          /\ user'.lockedUntil = user.lockedUntil
      <3> DEFINE v == user.authVersion + 1
      <3>1. v \in Nat
        BY <2>3 DEF UserRow
      <3>2. user' = [user EXCEPT !.active = FALSE, !.authVersion = v]
        BY <2>1
      <3> HIDE DEF v
      <3>3. /\ user' \in UserRow /\ user'.authVersion = v
            /\ user'.failedCount = user.failedCount
            /\ user'.lockedUntil = user.lockedUntil
        BY <2>3, <3>1, <3>2 DEF UserRow
      <3> QED BY <3>3 DEF v
    <2>5. RowsTyped'
      BY <1>1, <2>2, <2>4, RowsAreTyped DEF RowsTyped
    <2>6. IssuedOK' /\ StreakOK'
      BY <1>1, <2>4, NewVersion DEF Inv, IInv, StreakOK
    <2>7. TableOK'
      BY <2>2, <2>6 DEF TableOK
    <2> QED BY <1>1, <2>2, <2>5, <2>7, CommitStep, KeepIsReply DEF Keep
  <1>4. CASE ~user.active
    <2>1. UNCHANGED <<rows, history>>
      BY <1>1, <1>2, <1>4 DEF Deactivate
    <2>2. TableOK' /\ Made' = Made
      BY <1>1, <2>1, SameTable, InvParts DEF TableOK, SessionsOK
    <2>3. RowsTyped'
      BY <2>1, RowsAreTyped DEF RowsTyped
    <2> QED BY <1>1, <2>1, <2>2, <2>3, CommitStep, KeepIsReply DEF Keep
  <1> QED BY <1>3, <1>4

LEMMA ActivateInv ==
    ASSUME Inv, NEW c \in Clients, Activate(c) PROVE Inv'
  <1>1. /\ pc[c] = "commit" /\ req[c].op = "activate" /\ Finish(c, Keep)
        /\ user' = [user EXCEPT !.active = TRUE]
        /\ UNCHANGED <<session, history, cookie>>
    BY DEF Activate, AtCommit, Finish
  <1>2. user \in UserRow
    BY DEF Inv, TypeOK
  <1>3. /\ user' \in UserRow /\ user'.active
        /\ user'.authVersion = user.authVersion /\ user'.password = user.password
        /\ user'.mustChange = user.mustChange
        /\ user'.failedCount = user.failedCount
        /\ user'.lockedUntil = user.lockedUntil
    BY <1>1, <1>2 DEF UserRow
  <1>4. RowsTyped'
    BY <1>1, <1>3, RowsAreTyped DEF RowsTyped
  <1>5. Made' = Made /\ Live' = Live
    BY <1>1 DEF Made, Live
  <1>6. TableOK'
    BY <1>1, <1>3, <1>5 DEF Inv, IInv, TableOK, SessionsOK, OneChainPerLogin,
                            LiveIsCurrent, IssuedOK, StreakOK, Made
  <1> QED BY <1>1, <1>4, <1>5, <1>6, CommitStep, KeepIsReply DEF Keep

LEMMA UpdateInv ==
    ASSUME Inv, NEW c \in Clients, Update(c) PROVE Inv'
  <1>1. /\ pc[c] = "commit" /\ req[c].op = "update" /\ Finish(c, Keep)
        /\ user' = [user EXCEPT !.role = req[c].role]
        /\ UNCHANGED <<session, history, cookie>>
    BY DEF Update, AtCommit, Finish
  <1>2. user \in UserRow /\ req[c].role \in Roles
    BY <1>1, Committing, RequestFields DEF Inv, TypeOK
  <1>3. /\ user' \in UserRow /\ user'.active = user.active
        /\ user'.authVersion = user.authVersion /\ user'.password = user.password
        /\ user'.mustChange = user.mustChange
        /\ user'.failedCount = user.failedCount
        /\ user'.lockedUntil = user.lockedUntil
    BY <1>1, <1>2 DEF UserRow
  <1>4. RowsTyped'
    BY <1>1, <1>3, RowsAreTyped DEF RowsTyped
  <1>5. Made' = Made /\ Live' = Live
    BY <1>1 DEF Made, Live
  <1>6. TableOK'
    BY <1>1, <1>3, <1>5 DEF Inv, IInv, TableOK, SessionsOK, OneChainPerLogin,
                            LiveIsCurrent, IssuedOK, StreakOK, Made
  <1> QED BY <1>1, <1>4, <1>5, <1>6, CommitStep, KeepIsReply DEF Keep

(* Revoking one session, which the transaction itself has locked.          *)
LEMMA RevokeOneInv ==
    ASSUME Inv, NEW c \in Clients, pc[c] = "commit",
           req[c].op \in {"refresh", "logout"},
           session' = [session EXCEPT ![req[c].token].state = "revoked"],
           NEW answer \in {Keep, Clear}, Finish(c, answer), UNCHANGED <<user, history>>
    PROVE  Inv'
  <1> DEFINE s == req[c].token
  <1>1. s \in Made /\ s \in Sessions /\ HoldsSession(c, s)
    BY Committing DEF Made
  <1>2. session \in [Sessions -> SessionRow]
    BY DEF Inv, TypeOK
  <1>3. /\ session' \in [Sessions -> SessionRow]
        /\ session'[s].state = "revoked"
        /\ session'[s].replacedBy = session[s].replacedBy
        /\ \A t \in Sessions \ {s} : session'[t] = session[t]
    BY <1>1, <1>2 DEF SessionRow
  <1>4. Made' = Made /\ Live' \subseteq Live
    BY <1>1, <1>3 DEF Made, Live
  <1>5. \A d \in Clients \ {c}, t \in Sessions :
           HoldsSession(d, t) => session'[t] = session[t]
    BY <1>1, <1>3, HeldOnce
  <1>6. RowsTyped'
    BY <1>3, RowsAreTyped DEF RowsTyped
  <1>7. \A t \in Sessions : /\ session'[t].replacedBy = session[t].replacedBy
                            /\ session[t].state = "revoked" =>
                                  session'[t].state = "revoked"
    BY <1>3
  <1>8. cookie' = cookie
    BY DEF Finish
  <1>9. SessionsOK'
    BY <1>4, <1>7, <1>8 DEF Inv, IInv, SessionsOK, Made
  <1>10. OneChainPerLogin'
    BY <1>4, <1>7 DEF Inv, IInv, OneChainPerLogin, SessionsOK, Made
  <1>11. LiveIsCurrent' /\ IssuedOK' /\ StreakOK'
    BY <1>4 DEF Inv, IInv, LiveIsCurrent, IssuedOK, StreakOK
  <1>12. TableOK'
    BY <1>9, <1>10, <1>11 DEF TableOK
  <1>13. answer \in Reply /\ answer.kind # "set"
    BY KeepIsReply DEF Keep, Clear
  <1> QED BY <1>4, <1>5, <1>6, <1>12, <1>13, CommitStep

LEMMA LogoutInv ==
    ASSUME Inv, NEW c \in Clients, Logout(c) PROVE Inv'
  <1>1. /\ pc[c] = "commit" /\ req[c].op = "logout" /\ Finish(c, Clear)
        /\ UNCHANGED <<user, history, cookie>>
    BY DEF Logout, AtCommit, Finish
  <1>2. CASE session' = [session EXCEPT ![req[c].token].state = "revoked"]
    BY <1>1, <1>2, RevokeOneInv
  <1>3. CASE session' = session
    <2>1. TableOK' /\ Made' = Made
      BY <1>1, <1>3, SameTable, InvParts DEF TableOK, SessionsOK
    <2>2. RowsTyped'
      BY <1>1, <1>3, RowsAreTyped DEF RowsTyped
    <2> QED BY <1>1, <1>3, <2>1, <2>2, CommitStep, KeepIsReply DEF Clear
  <1> QED BY <1>2, <1>3 DEF Logout

(* A new access token carries the row as it is.                            *)
LEMMA NewToken ==
    ASSUME Inv, user.active, issued' = issued \cup {AccessFor(user)},
           user' \in UserRow, user'.active, user'.authVersion = user.authVersion,
           user'.mustChange = user.mustChange
    PROVE  IssuedOK' /\ issued' \subseteq AccessToken
  <1>1. user \in UserRow /\ issued \subseteq AccessToken
    BY DEF Inv, TypeOK
  <1>2. /\ AccessFor(user) \in AccessToken
        /\ AccessFor(user).authVersion = user.authVersion
        /\ AccessFor(user).mustChange = user.mustChange
    BY <1>1 DEF AccessFor, AccessToken, UserRow
  <1>3. user.authVersion <= user.authVersion
    BY <1>1 DEF UserRow
  <1> QED BY <1>1, <1>2, <1>3 DEF Inv, IInv, IssuedOK

LEMMA OpenedRow ==
    ASSUME NEW at \in Nat
    PROVE  /\ Opened(at) \in SessionRow /\ Opened(at).state = "live"
           /\ Opened(at).replacedBy = None
  BY ConstantsAssumption DEF Opened, SessionRow

LEMMA AdmitInv ==
    ASSUME Inv, NEW c \in Clients, Admit(c) PROVE Inv'
  <1> DEFINE at == req[c].at
  <1>1. pc[c] = "commit" /\ req[c].op = "login"
    BY DEF Admit, AtCommit
  <1>2. req[c] \in Request /\ at \in Nat /\ txn[c].user = user
    BY <1>1, Committing, RequestFields
  <1>3. user.active /\ streak' = NoStreak
        /\ user' = [user EXCEPT !.failedCount = 0, !.lockedUntil = 0]
        /\ issued' = issued \cup {AccessFor(user)}
    BY <1>2 DEF Admit
  <1>4. PICK s \in Sessions :
           /\ session[s].state = "unused"
           /\ session' = [session EXCEPT ![s] = Opened(at)]
           /\ origin' = [origin EXCEPT ![s] =
                 [login |-> s, authVersion |-> user.authVersion,
                  password |-> user.password]]
           /\ Finish(c, [kind |-> "set", session |-> s])
    BY <1>2 DEF Admit
  <1>5. user \in UserRow /\ session \in [Sessions -> SessionRow]
        /\ origin \in [Sessions -> Chain] /\ cookie' = cookie
    BY <1>4 DEF Inv, TypeOK, Chain, Finish
  <1>6. /\ user' \in UserRow /\ user'.active = user.active
        /\ user'.authVersion = user.authVersion /\ user'.password = user.password
        /\ user'.mustChange = user.mustChange
        /\ user'.failedCount = 0 /\ user'.lockedUntil = 0
    BY <1>3, <1>5 DEF UserRow
  <1>7. /\ session' \in [Sessions -> SessionRow]
        /\ session'[s].state = "live" /\ session'[s].replacedBy = None
        /\ \A t \in Sessions \ {s} : session'[t] = session[t]
    BY <1>2, <1>4, <1>5, OpenedRow
  <1>8. /\ origin' \in [Sessions -> Chain]
        /\ origin'[s].login = s /\ origin'[s].authVersion = user.authVersion
        /\ origin'[s].password = user.password
        /\ \A t \in Sessions \ {s} : origin'[t] = origin[t]
    BY <1>4, <1>5 DEF Chain, UserRow
  <1>9. s \notin Made /\ Made' = Made \cup {s} /\ Live' = Live \cup {s}
    BY <1>4, <1>7 DEF Made, Live
  <1>10. IssuedOK' /\ issued' \subseteq AccessToken
    BY <1>3, <1>6, NewToken
  <1>11. RowsTyped'
    BY <1>3, <1>6, <1>7, <1>8, <1>10 DEF RowsTyped, NoStreak
  <1>12. \A d \in Clients \ {c}, t \in Sessions :
            HoldsSession(d, t) => session'[t] = session[t]
    BY <1>7, <1>9, HeldIsMade
  <1>13. StreakOK'
    BY <1>3, <1>6, ConstantsAssumption DEF StreakOK, NoStreak
  <1>14. SessionsOK'
    BY <1>5, <1>7, <1>8, <1>9 DEF Inv, IInv, SessionsOK, Made
  <1>15. OneChainPerLogin'
    <2>1. \A t \in Made : origin[t].login \in Made
             /\ (session[t].replacedBy # None => session[t].replacedBy \in Made)
      BY DEF Inv, IInv, SessionsOK
    <2>2. \A t \in Made : t # s /\ t \in Sessions
      BY <1>9 DEF Made
    <2> QED BY <1>7, <1>8, <1>9, <2>1, <2>2 DEF Inv, IInv, OneChainPerLogin, Made
  <1>16. LiveIsCurrent'
    BY <1>3, <1>6, <1>8, <1>9 DEF Inv, IInv, LiveIsCurrent, Live
  <1>17. TableOK'
    BY <1>10, <1>13, <1>14, <1>15, <1>16 DEF TableOK
  <1>18. [kind |-> "set", session |-> s] \in Reply /\ s \in Made'
    BY <1>9 DEF Reply
  <1> QED BY <1>1, <1>4, <1>9, <1>11, <1>12, <1>17, <1>18, CommitStep

LEMMA RotateInv ==
    ASSUME Inv, NEW c \in Clients, Rotate(c) PROVE Inv'
  <1> DEFINE at  == req[c].at
             old == req[c].token
  <1>1. pc[c] = "commit" /\ req[c].op = "refresh"
        /\ txn[c].session.state = "live" /\ ~IsOver(c)
        /\ issued' = issued \cup {AccessFor(txn[c].user)}
        /\ UNCHANGED <<user, streak>>
    BY DEF Rotate, AtCommit
  <1>2. /\ req[c] \in Request /\ at \in Nat /\ txn[c].user = user
        /\ old \in Made /\ HoldsSession(c, old) /\ session[old].state = "live"
        /\ user.active
    BY <1>1, Committing, RequestFields DEF IsOver
  <1>3. PICK new \in Sessions :
           /\ session[new].state = "unused"
           /\ session' = [session EXCEPT
                 ![new] = Opened(at),
                 ![old] = [@ EXCEPT !.state = "revoked", !.replacedBy = new]]
           /\ origin' = [origin EXCEPT ![new] = origin[old]]
           /\ Finish(c, [kind |-> "set", session |-> new])
    BY DEF Rotate
  <1>4. user \in UserRow /\ session \in [Sessions -> SessionRow]
        /\ origin \in [Sessions -> Chain] /\ cookie' = cookie
    BY <1>3 DEF Inv, TypeOK, Chain, Finish
  <1>5. old \in Sessions /\ old # new /\ old \in Live /\ new \notin Made
    BY <1>2, <1>3 DEF Made, Live
  <1>6. /\ session' \in [Sessions -> SessionRow]
        /\ session'[new].state = "live" /\ session'[new].replacedBy = None
        /\ session'[old].state = "revoked" /\ session'[old].replacedBy = new
        /\ \A t \in Sessions \ {new, old} : session'[t] = session[t]
    <2>1. session[old] \in SessionRow /\ Opened(at) \in SessionRow
      BY <1>2, <1>4, <1>5, OpenedRow
    <2>2. [session[old] EXCEPT !.state = "revoked", !.replacedBy = new] \in SessionRow
      BY <2>1 DEF SessionRow
    <2>3. /\ session'[new] = Opened(at)
          /\ session'[old] = [session[old] EXCEPT !.state = "revoked",
                                                  !.replacedBy = new]
          /\ \A t \in Sessions \ {new, old} : session'[t] = session[t]
      BY <1>3, <1>4, <1>5
    <2>4. session' \in [Sessions -> SessionRow]
      BY <1>3, <1>4, <1>5, <2>1, <2>2
    <2> QED BY <1>2, <2>1, <2>3, <2>4, OpenedRow DEF SessionRow
  <1>7. /\ origin' \in [Sessions -> Chain] /\ origin'[new] = origin[old]
        /\ \A t \in Sessions \ {new} : origin'[t] = origin[t]
    BY <1>3, <1>4, <1>5
  <1>8. Made' = Made \cup {new} /\ Live' = (Live \ {old}) \cup {new}
    BY <1>5, <1>6 DEF Made, Live
  <1>9. IssuedOK' /\ issued' \subseteq AccessToken
    BY <1>1, <1>2, <1>4, NewToken
  <1>10. RowsTyped'
    BY <1>1, <1>6, <1>7, <1>9, RowsAreTyped DEF RowsTyped
  <1>11. \A d \in Clients \ {c}, t \in Sessions :
            HoldsSession(d, t) => session'[t] = session[t]
    BY <1>2, <1>5, <1>6, HeldIsMade, HeldOnce
  <1>12. \A t \in Made :
            /\ t # new /\ t \in Sessions
            /\ origin[t].login \in Made
            /\ session[t].replacedBy # None =>
                  /\ session[t].replacedBy \in Made
                  /\ session[t].state = "revoked"
                  /\ origin[session[t].replacedBy] = origin[t]
    BY <1>5 DEF Inv, IInv, SessionsOK, OneChainPerLogin, Made
  <1>13. session[old].replacedBy = None
    BY <1>2, <1>12
  <1>14. SessionsOK'
    <2>1. \A d \in Devices : cookie'[d] # None => cookie'[d] \in Made'
      BY <1>4, <1>8 DEF Inv, IInv, SessionsOK
    <2>2. \A s \in Sessions \ Made' : session'[s].replacedBy = None
      BY <1>2, <1>6, <1>8 DEF Inv, IInv, SessionsOK
    <2>3. \A s \in Made' :
             /\ origin'[s].login \in Made'
             /\ session'[s].replacedBy # None => session'[s].replacedBy \in Made'
      BY <1>2, <1>6, <1>7, <1>8, <1>12
    <2> QED BY <2>1, <2>2, <2>3 DEF SessionsOK
  <1>15. OneChainPerLogin'
    <2>1. \A s \in Made' : session'[s].replacedBy # None =>
             /\ session'[s].state = "revoked"
             /\ origin'[session'[s].replacedBy] = origin'[s]
      BY <1>2, <1>5, <1>6, <1>7, <1>8, <1>12
    <2>2. \A s, t \in Made : /\ origin[s].login = origin[t].login
                             /\ session[s].replacedBy = None
                             /\ session[t].replacedBy = None
                             => s = t
      BY DEF Inv, IInv, OneChainPerLogin, Made
    <2>3. \A s \in Made' : session'[s].replacedBy = None =>
             /\ s = new \/ (s \in Made /\ s # old /\ session[s].replacedBy = None)
             /\ s # new => origin'[s].login # origin[old].login
      BY <1>2, <1>6, <1>7, <1>8, <1>12, <1>13, <2>2, ConstantsAssumption
    <2>4. \A s, t \in Made' : /\ origin'[s].login = origin'[t].login
                              /\ session'[s].replacedBy = None
                              /\ session'[t].replacedBy = None
                              => s = t
      BY <1>7, <1>12, <2>2, <2>3
    <2> QED BY <2>1, <2>4 DEF OneChainPerLogin, Made
  <1>16. LiveIsCurrent'
    BY <1>1, <1>2, <1>5, <1>7, <1>8 DEF Inv, IInv, LiveIsCurrent, Live
  <1>17. TableOK'
    BY <1>1, <1>9, <1>14, <1>15, <1>16 DEF Inv, IInv, TableOK, StreakOK
  <1>18. [kind |-> "set", session |-> new] \in Reply /\ new \in Made'
    BY <1>8 DEF Reply
  <1> QED BY <1>1, <1>3, <1>8, <1>10, <1>11, <1>17, <1>18, CommitStep

-----------------------------------------------------------------------------
(* All steps.                                                              *)

LEMMA CommitInv ==
    ASSUME Inv, NEW c \in Clients, Commit(c) PROVE Inv'
  <1>1. CASE RefuseLogin(c) \/ RejectRefresh(c) \/ RefusePassword(c)
    BY <1>1, RefuseInv DEF RefuseLogin, RejectRefresh, RefusePassword
  <1>2. CASE CountFailure(c)
    BY <1>2, CountFailureInv
  <1>3. CASE Admit(c)
    BY <1>3, AdmitInv
  <1>4. CASE DetectReuse(c)
    BY <1>4, DetectReuseInv
  <1>5. CASE ExpireSession(c)
    BY <1>5, RevokeOneInv DEF ExpireSession, AtCommit
  <1>6. CASE Rotate(c)
    BY <1>6, RotateInv
  <1>7. CASE Logout(c)
    BY <1>7, LogoutInv
  <1>8. CASE ChangePassword(c)
    BY <1>8, NewPasswordInv DEF ChangePassword, AtCommit
  <1>9. CASE Reissue(c)
    BY <1>9, NewPasswordInv DEF Reissue, AtCommit
  <1>10. CASE Deactivate(c) \/ Activate(c) \/ Update(c)
    BY <1>10, DeactivateInv, ActivateInv, UpdateInv
  <1> QED BY <1>1, <1>2, <1>3, <1>4, <1>5, <1>6, <1>7, <1>8, <1>9, <1>10 DEF Commit

LEMMA NextInv == Inv /\ [Next]_vars => Inv'
  <1> SUFFICES ASSUME Inv, [Next]_vars PROVE Inv'
    OBVIOUS
  <1>1. ASSUME NEW c \in Clients, Submit(c) \/ Handle(c) \/ Abort(c) PROVE Inv'
    <2>1. CASE Submit(c)
      BY <2>1, SubmitInv
    <2>2. CASE Guard(c) \/ LockSession(c) \/ LockUser(c)
      BY <2>2, GuardInv, LockSessionInv, LockUserInv
    <2>3. CASE Commit(c)
      BY <2>3, CommitInv
    <2>4. CASE Deliver(c) \/ Lose(c)
      BY <2>4, AnsweredInv
    <2>5. CASE Abort(c)
      BY <2>5, RefuseInv DEF Abort
    <2> QED BY <1>1, <2>1, <2>2, <2>3, <2>4, <2>5 DEF Handle
  <1>2. CASE Tick
    <2>1. now' \in Nat
      BY <1>2 DEF Tick, Inv, TypeOK
    <2> QED BY <1>2, <2>1, IdleInv DEF Tick
  <1>3. CASE UNCHANGED vars
    <2>1. now' \in Nat
      BY <1>3 DEF vars, Inv, TypeOK
    <2> QED BY <1>3, <2>1, IdleInv DEF vars
  <1> QED BY <1>1, <1>2, <1>3 DEF Next

(* Everything below rests on this.                                         *)
THEOREM InvAlways == Spec => []Inv
  BY InitInv, NextInv, PTL DEF Spec

(* The state is well formed whatever requests overlap.                     *)
THEOREM TypeCorrect == Spec => []TypeOK
  <1>1. Inv => TypeOK
    BY DEF Inv
  <1> QED BY <1>1, InvAlways, PTL

(* Locks exclude each other and what a transaction read under a lock is    *)
(* still so when it commits (the FOR UPDATE reads of auth.service.ts).     *)
THEOREM LockDiscipline == Spec => []IInv
  <1>1. Inv => IInv
    BY DEF Inv
  <1> QED BY <1>1, InvAlways, PTL

(* Every used token of a login names its successor (refresh, 178-230).     *)
THEOREM OneChainAlways == Spec => []OneChainPerLogin
  <1>1. Inv => OneChainPerLogin
    BY DEF Inv, IInv
  <1> QED BY <1>1, InvAlways, PTL

(* No session outlives the credentials it was opened with (331, 182, 211). *)
THEOREM LiveIsCurrentAlways == Spec => []LiveIsCurrent
  <1>1. Inv => LiveIsCurrent
    BY DEF Inv, IInv
  <1> QED BY <1>1, InvAlways, PTL

-----------------------------------------------------------------------------
(* What a step may never do.                                               *)

LEMMA VersionGrows ==
    ASSUME Inv, [Next]_vars
    PROVE  user'.authVersion \in Nat /\ user.authVersion <= user'.authVersion
  <1>1. user \in UserRow /\ user.authVersion \in Nat
    BY DEF Inv, TypeOK, UserRow
  <1>2. ASSUME NEW c \in Clients,
               CountFailure(c) \/ Admit(c) \/ Activate(c) \/ Update(c)
        PROVE  user'.authVersion = user.authVersion
    BY <1>1, <1>2 DEF CountFailure, Admit, Activate, Update, UserRow
  <1>3. ASSUME NEW c \in Clients, ChangePassword(c) \/ Reissue(c)
        PROVE  user'.authVersion = user.authVersion + 1
    <2>1. txn[c].user = user
      BY <1>3, Committing DEF ChangePassword, Reissue, AtCommit
    <2> QED BY <1>1, <1>3, <2>1 DEF ChangePassword, Reissue, NewPassword, UserRow
  <1>4. ASSUME NEW c \in Clients, Deactivate(c)
        PROVE  user'.authVersion \in {user.authVersion, user.authVersion + 1}
    <2>1. txn[c].user = user
      BY <1>4, Committing DEF Deactivate, AtCommit
    <2> QED BY <1>1, <1>4, <2>1 DEF Deactivate, UserRow
  <1>5. \/ user' = user
        \/ \E c \in Clients : \/ CountFailure(c) \/ Admit(c) \/ Activate(c)
                              \/ ChangePassword(c) \/ Reissue(c) \/ Deactivate(c)
                              \/ Update(c)
    BY DEF Next, vars, Submit, Handle, Abort, Tick, Guard, LockSession, LockUser,
           Commit, Deliver, Lose, Refuse, RefuseLogin, RejectRefresh, DetectReuse,
           ExpireSession, Rotate, Logout, RefusePassword
  <1> QED BY <1>1, <1>2, <1>3, <1>4, <1>5

LEMMA RevokedStep ==
    ASSUME Inv, [Next]_vars, NEW t \in issued, Revoked(t) PROVE Revoked(t)'
  <1>1. user.authVersion \in Nat /\ t.authVersion \in Nat
    BY DEF Inv, TypeOK, UserRow, AccessToken
  <1>2. t.authVersion < user.authVersion
    BY <1>1 DEF Inv, IInv, IssuedOK, Revoked
  <1>3. t.authVersion < user'.authVersion
    BY <1>1, <1>2, VersionGrows
  <1> QED BY <1>1, <1>3, VersionGrows DEF Revoked

(* A token revoked once is refused for ever, whatever else changes:        *)
(* authVersion grows with every deactivation and new password and never    *)
(* shrinks.  One refused for its role alone comes back only by a change of *)
(* the role (jwt-auth.guard.ts 52-60).                                     *)
THEOREM RevokedForeverAlways == Spec => RevokedForever
  <1>1. ASSUME Inv, [Next]_vars, NEW t \in issued, Accepts(t)'
        PROVE  Accepts(t) \/ (~Revoked(t) /\ user'.role # user.role)
    <2>1. ~Revoked(t)
      BY <1>1, RevokedStep DEF Accepts
    <2>2. t.role = user'.role
      BY <1>1 DEF Accepts
    <2> QED BY <2>1, <2>2 DEF Accepts
  <1>2. Inv /\ [Next]_vars =>
          [\A t \in issued : Accepts(t)' =>
              Accepts(t) \/ (~Revoked(t) /\ user'.role # user.role)]_vars
    BY <1>1
  <1> QED BY <1>2, InvAlways, PTL DEF Spec, RevokedForever

LEMMA OnlyAdmitGrants ==
    ASSUME Inv, Next, NEW c \in Clients, AtCommit(c, "login"),
           reply'[c].kind = "set"
    PROVE  Admit(c)
  <1>1. pc[c] = "commit" /\ req[c].op = "login" /\ reply[c].kind # "set"
    BY DEF AtCommit, Inv, IInv, StageOK, Keep
  <1>2. reply \in [Clients -> Reply]
    BY DEF Inv, TypeOK
  <1>3. ASSUME NEW d \in Clients, Submit(d) \/ Handle(d) \/ Abort(d)
        PROVE  d = c
    BY <1>1, <1>2, <1>3
       DEF Submit, Handle, Abort, Guard, LockSession, LockUser, Deliver, Lose,
           Commit, Refuse, Finish, RefuseLogin, CountFailure, Admit, RejectRefresh,
           DetectReuse, ExpireSession, Rotate, Logout, RefusePassword,
           ChangePassword, Reissue, Deactivate, Activate, Update
  <1>4. ~Tick
    BY <1>1 DEF Tick
  <1>5. ~Refuse(c) /\ ~Finish(c, Keep)
    BY <1>1, <1>2 DEF Refuse, Finish, Keep
  <1>6. ~(Submit(c) \/ Guard(c) \/ LockSession(c) \/ LockUser(c) \/ Deliver(c)
            \/ Lose(c) \/ Abort(c))
    BY <1>1, <1>5 DEF Submit, Guard, LockSession, LockUser, Deliver, Lose, Abort
  <1>7. Commit(c)
    BY <1>3, <1>4, <1>6 DEF Next, Handle
  <1> QED BY <1>1, <1>5, <1>7
          DEF Commit, AtCommit, RefuseLogin, CountFailure, RejectRefresh,
              DetectReuse, ExpireSession, Rotate, Logout, RefusePassword,
              ChangePassword, Reissue, Deactivate, Activate, Update

LEMMA LockoutStep ==
    ASSUME Inv, Next, NEW c \in Clients, AtCommit(c, "login"),
           reply'[c].kind = "set"
    PROVE  ~LockedAt(req[c].at)
  <1>1. Admit(c)
    BY OnlyAdmitGrants
  <1>2. req[c].at \in Nat /\ txn[c].user = user
    BY Committing, RequestFields DEF AtCommit
  <1>3. ~IsLockedAt(user, req[c].at)
    BY <1>1, <1>2 DEF Admit
  <1>4. user \in UserRow /\ streak \in [count : Nat, at : Nat] /\ StreakOK
    BY DEF Inv, TypeOK, IInv
  <1> QED BY <1>2, <1>3, <1>4, ConstantsAssumption
          DEF IsLockedAt, StreakOK, LockedAt, UserRow

(* Overlapping wrong passwords are all counted, and no login gets past the *)
(* lock they lead to (login, lines 93-121).                                *)
THEOREM LockoutHoldsAlways == Spec => LockoutHolds
  <1>1. Inv /\ [Next]_vars =>
          [\A c \in Clients :
              AtCommit(c, "login") /\ reply'[c].kind = "set"
                 => ~LockedAt(req[c].at)]_vars
    BY LockoutStep
  <1> QED BY <1>1, InvAlways, PTL DEF Spec, LockoutHolds

=============================================================================
