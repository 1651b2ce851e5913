---------------------------- MODULE AuthSessions ----------------------------
(***************************************************************************)
(* One account: its row in users, its rows in refresh_sessions, and the    *)
(* requests that change them (src/backend/src/auth/auth.service.ts and     *)
(* src/backend/src/users/users.service.ts).  Tabs of a browser share its   *)
(* refresh cookie; requests of any number of tabs and devices, and of      *)
(* administrators, are under way together; answers are late or lost.       *)
(*                                                                         *)
(* A handler is one step per row it locks and one for its commit.  Which   *)
(* rows a transaction has locked follows from its stage.                   *)
(***************************************************************************)
EXTENDS Naturals, FiniteSets

CONSTANTS
    Devices,    \* browsers, each with one cookie jar
    Clients,    \* requests that may be under way at once
    Sessions,   \* ids of refresh sessions (and their tokens): a bound on them
    Passwords,
    None,
    MaxFailed,  \* MAX_FAILED_LOGIN_ATTEMPTS
    LockTime,   \* ACCOUNT_LOCK_DURATION_MS
    Ttl,        \* lifetime of a refresh token
    MaxTime,    \* bound on the clock
    MaxAuth,    \* bound on authVersion
    Ops         \* the operations a run is about

ASSUME ConstantsAssumption ==
    /\ None \notin Devices \cup Clients \cup Sessions \cup Passwords
    /\ Passwords # {}
    /\ {MaxFailed, LockTime, Ttl} \subseteq Nat \ {0}
    /\ {MaxTime, MaxAuth} \subseteq Nat

VARIABLES
    now,        \* the clock
    user,       \* the row of users
    session,    \* the rows of refresh_sessions
    cookie,     \* the refresh token a browser keeps
    pc,         \* the stage of a request's handler
    req,        \* the request
    txn,        \* the rows its transaction has read
    reply,      \* what its answer does to the cookie
    issued,     \* history: the access tokens handed out
    origin,     \* history: the login a session goes back to
    streak      \* history: wrong passwords in a row, and when the last was sent

rows    == <<user, session>>
history == <<issued, origin, streak>>
vars    == <<now, rows, cookie, pc, req, txn, reply, history>>

Roles == {"ADMIN", "WORKER"}

UserRow ==
    [active : BOOLEAN, role : Roles, password : Passwords,
     mustChange : BOOLEAN, authVersion : Nat,
     failedCount : Nat, lockedUntil : Nat]

SessionRow ==
    [state : {"unused", "live", "revoked"}, expiresAt : Nat,
     replacedBy : Sessions \cup {None}]

AccessToken == [authVersion : Nat, role : Roles, mustChange : BOOLEAN]

Request ==
    [op : {"login"}, device : Devices, password : Passwords, at : Nat]
    \cup [op : {"refresh"}, device : Devices, token : Sessions, at : Nat]
    \cup [op : {"logout"}, device : Devices, token : Sessions \cup {None}]
    \cup [op : {"password"}, device : Devices, access : AccessToken,
          password : Passwords, new : Passwords]
    \cup [op : {"activate", "deactivate"}]
    \cup [op : {"reissue"}, new : Passwords]
    \cup [op : {"update"}, role : Roles]

Reply == [kind : {"set"}, session : Sessions] \cup [kind : {"keep", "clear"}]
Keep  == [kind |-> "keep"]
Clear == [kind |-> "clear"]

NoTxn      == [user |-> None, session |-> None]
NoRequest  == [op |-> "none"]
NoOrigin   == [login |-> None, authVersion |-> 0, password |-> None]

TypeOK ==
    /\ now \in Nat
    /\ user \in UserRow
    /\ session \in [Sessions -> SessionRow]
    /\ cookie \in [Devices -> Sessions \cup {None}]
    /\ pc \in [Clients -> {"idle", "guard", "user", "session", "join",
                           "commit", "reply"}]
    /\ req \in [Clients -> Request \cup {NoRequest}]
    /\ txn \in [Clients -> [user : UserRow \cup {None},
                            session : SessionRow \cup {None}]]
    /\ reply \in [Clients -> Reply]
    /\ issued \subseteq AccessToken
    /\ origin \in [Sessions -> [login : Sessions \cup {None},
                                authVersion : Nat,
                                password : Passwords \cup {None}]]
    /\ streak \in [count : Nat, at : Nat]

Init ==
    /\ now = 0
    /\ \E p \in Passwords, r \in Roles :
          user = [active |-> TRUE, role |-> r, password |-> p,
                  mustChange |-> TRUE, authVersion |-> 1,
                  failedCount |-> 0, lockedUntil |-> 0]
    /\ session = [s \in Sessions |-> [state |-> "unused", expiresAt |-> 0,
                                      replacedBy |-> None]]
    /\ cookie = [d \in Devices |-> None]
    /\ pc = [c \in Clients |-> "idle"]
    /\ req = [c \in Clients |-> NoRequest]
    /\ txn = [c \in Clients |-> NoTxn]
    /\ reply = [c \in Clients |-> Keep]
    /\ issued = {}
    /\ origin = [s \in Sessions |-> NoOrigin]
    /\ streak = [count |-> 0, at |-> 0]

-----------------------------------------------------------------------------
(* Locks.  A refresh reads session and user in one locking join, which     *)
(* locks the session and then the user; every other handler but logout     *)
(* locks the user first and reaches sessions by its UPDATE.                *)

HoldsUser_NotByLogin(c) ==
    pc[c] = "commit" /\ req[c].op \notin {"login", "logout"}

HoldsUser(c) == pc[c] = "commit" /\ req[c].op # "logout"

HoldsSession_LogoutOnly(c, s) ==
    pc[c] = "commit" /\ req[c].op = "logout" /\ req[c].token = s

HoldsSession(c, s) ==
    /\ pc[c] \in {"join", "commit"}
    /\ req[c].op \in {"refresh", "logout"}
    /\ req[c].token = s

Live == {s \in Sessions : session[s].state = "live"}

UserIsFree(c)       == \A d \in Clients \ {c} : ~HoldsUser(d)
SessionIsFree(c, s) == \A d \in Clients \ {c} : ~HoldsSession(d, s)

(* UPDATE refresh_sessions ... WHERE revoked_at IS NULL locks the live     *)
(* rows only: the index on (user_id, revoked_at, expires_at) leads to them.*)
LiveAreFree(c) == \A s \in Live : SessionIsFree(c, s)

-----------------------------------------------------------------------------
(* Requests.                                                               *)

Asked ==
    [op : {"login"}, device : Devices, password : Passwords, at : {now}]
    \cup {r \in [op : {"refresh"}, device : Devices, token : Sessions,
                 at : {now}] : r.token = cookie[r.device]}
    \cup {r \in [op : {"logout"}, device : Devices,
                 token : Sessions \cup {None}] : r.token = cookie[r.device]}
    \cup [op : {"password"}, device : Devices, access : issued,
          password : Passwords, new : Passwords]
    \cup [op : {"activate", "deactivate"}]
    \cup [op : {"reissue"}, new : Passwords]
    \cup [op : {"update"}, role : Roles]

UnderWay(ops) == {c \in Clients : pc[c] \notin {"idle", "reply"}
                                  /\ req[c].op \in ops}

Revokers == {"password", "deactivate", "reissue"}
Granters == {"login", "refresh"}

(* Bounds: an unused id for every grant under way, and an authVersion for  *)
(* every revocation.                                                       *)
WithinBounds(r) ==
    /\ r.op \in Granters =>
          Cardinality(UnderWay(Granters))
            < Cardinality({s \in Sessions : session[s].state = "unused"})
    /\ r.op \in Revokers =>
          Cardinality(UnderWay(Revokers)) + user.authVersion < MaxAuth

FirstStage(r) ==
    CASE r.op = "password"                    -> "guard"
      [] r.op = "refresh"                     -> "session"
      [] r.op = "logout" /\ r.token # None    -> "session"
      [] r.op = "logout" /\ r.token = None    -> "reply"
      [] OTHER                                -> "user"

(* A refresh without a cookie is refused before anything is read.          *)
Submit(c) ==
    /\ pc[c] = "idle"
    /\ \E r \in Asked :
          /\ r.op \in Ops
          /\ WithinBounds(r)
          /\ req' = [req EXCEPT ![c] = r]
          /\ pc' = [pc EXCEPT ![c] = FirstStage(r)]
          /\ reply' = [reply EXCEPT ![c] =
                          IF FirstStage(r) = "reply" THEN Clear ELSE Keep]
    /\ UNCHANGED <<now, rows, cookie, txn, history>>

(* A transaction ends.  An answer that leaves the cookie alone changes     *)
(* nothing more; the others are on their way to the browser.               *)
Finish(c, answer) ==
    /\ txn' = [txn EXCEPT ![c] = NoTxn]
    /\ reply' = [reply EXCEPT ![c] = answer]
    /\ pc' = [pc EXCEPT ![c] = IF answer = Keep THEN "idle" ELSE "reply"]
    /\ req' = [req EXCEPT ![c] = IF answer = Keep THEN NoRequest ELSE @]
    /\ UNCHANGED <<now, cookie>>

Refuse_LeavesOpen(c) == UNCHANGED vars

Refuse(c) == Finish(c, Keep) /\ UNCHANGED <<rows, history>>

Deliver(c) ==
    /\ pc[c] = "reply"
    /\ cookie' = [cookie EXCEPT ![req[c].device] =
                     IF reply[c].kind = "set" THEN reply[c].session ELSE None]
    /\ pc' = [pc EXCEPT ![c] = "idle"]
    /\ req' = [req EXCEPT ![c] = NoRequest]
    /\ reply' = [reply EXCEPT ![c] = Keep]
    /\ UNCHANGED <<now, rows, txn, history>>

Lose(c) ==
    /\ pc[c] = "reply"
    /\ pc' = [pc EXCEPT ![c] = "idle"]
    /\ req' = [req EXCEPT ![c] = NoRequest]
    /\ reply' = [reply EXCEPT ![c] = Keep]
    /\ UNCHANGED <<now, rows, cookie, txn, history>>

(* Any open transaction may be rolled back: a deadlock victim, a timeout,  *)
(* a lost connection.                                                      *)
Abort(c) ==
    /\ pc[c] \in {"user", "session", "join", "commit"}
    /\ Refuse(c)

(* Two transactions that each wait for a row the other has locked: a       *)
(* refresh between its two locks, and one that is revoking all sessions.   *)
Revoking(c) ==
    /\ pc[c] = "commit"
    /\ \/ req[c].op \in Revokers
       \/ req[c].op = "refresh" /\ txn[c].session.state = "revoked"

Deadlocked(c, d) ==
    /\ c # d
    /\ pc[c] = "join"
    /\ Revoking(d)
    /\ req[c].token \in Live

Victim ==
    \E c, d \in Clients : Deadlocked(c, d) /\ (Abort(c) \/ Abort(d))

Tick ==
    /\ now < MaxTime
    /\ now' = now + 1
    /\ UNCHANGED <<rows, cookie, pc, req, txn, reply, history>>

-----------------------------------------------------------------------------
(* Reading rows.                                                           *)

(* What the guard compares: a revocation leaves none of the tokens it finds*)
(* with these, an edit of the role only changes the last.                  *)
Revoked(t) ==
    \/ ~user.active
    \/ t.authVersion # user.authVersion
    \/ t.mustChange # user.mustChange

Accepts(t) == ~Revoked(t) /\ t.role = user.role

(* The guard reads the user before and outside the handler's transaction.  *)
Guard(c) ==
    /\ pc[c] = "guard"
    /\ IF Accepts(req[c].access)
       THEN /\ pc' = [pc EXCEPT ![c] = "user"]
            /\ UNCHANGED <<now, rows, cookie, req, txn, reply, history>>
       ELSE Refuse(c)

LockSession(c) ==
    /\ pc[c] = "session"
    /\ SessionIsFree(c, req[c].token)
    /\ txn' = [txn EXCEPT ![c].session = session[req[c].token]]
    /\ pc' = [pc EXCEPT ![c] = IF req[c].op = "refresh" THEN "join"
                                                        ELSE "commit"]
    /\ UNCHANGED <<now, rows, cookie, req, reply, history>>

LockUser(c) ==
    /\ pc[c] \in {"user", "join"}
    /\ UserIsFree(c)
    /\ txn' = [txn EXCEPT ![c].user = user]
    /\ pc' = [pc EXCEPT ![c] = "commit"]
    /\ UNCHANGED <<now, rows, cookie, req, reply, history>>

-----------------------------------------------------------------------------
(* Writing rows.  "found" is what the transaction has read.                *)

AtCommit(c, op) == pc[c] = "commit" /\ req[c].op = op

Opened_BackDated(at) ==
    [state |-> "live", expiresAt |-> at - Ttl, replacedBy |-> None]

Opened(at) == [state |-> "live", expiresAt |-> at + Ttl, replacedBy |-> None]

RevokeAll == [s \in Sessions |-> [session[s] EXCEPT
                 !.state = IF @ = "live" THEN "revoked" ELSE @]]

AccessFor(u) == [authVersion |-> u.authVersion, role |-> u.role,
                 mustChange |-> u.mustChange]

IsLockedAt(u, at) == u.lockedUntil # 0 /\ u.lockedUntil > at

(* login: answers with a refusal before or after the password is compared. *)
RefuseLogin(c) ==
    /\ AtCommit(c, "login")
    /\ LET found == txn[c].user IN
          ~found.active \/ IsLockedAt(found, req[c].at)
    /\ Refuse(c)

Failures(u) == IF u.lockedUntil # 0 THEN 1 ELSE u.failedCount + 1

CountFailure(c) ==
    /\ AtCommit(c, "login")
    /\ LET found == txn[c].user
           at    == req[c].at IN
          /\ found.active /\ ~IsLockedAt(found, at)
          /\ found.password # req[c].password
          /\ user' = [user EXCEPT
                !.failedCount = Failures(found),
                !.lockedUntil = IF Failures(found) >= MaxFailed
                                THEN at + LockTime ELSE 0]
          /\ streak' = [count |-> IF streak.count >= MaxFailed THEN 1
                                  ELSE streak.count + 1,
                        at |-> at]
    /\ Finish(c, Keep)
    /\ UNCHANGED <<session, issued, origin>>

NoStreak == [count |-> 0, at |-> 0]

Admit(c) ==
    /\ AtCommit(c, "login")
    /\ LET found == txn[c].user
           at    == req[c].at IN
          /\ found.active /\ ~IsLockedAt(found, at)
          /\ found.password = req[c].password
          /\ user' = [user EXCEPT !.failedCount = 0, !.lockedUntil = 0]
          /\ \E s \in Sessions :
                /\ session[s].state = "unused"
                /\ session' = [session EXCEPT ![s] = Opened(at)]
                /\ origin' = [origin EXCEPT ![s] =
                      [login |-> s, authVersion |-> found.authVersion,
                       password |-> found.password]]
                /\ Finish(c, [kind |-> "set", session |-> s])
          /\ issued' = issued \cup {AccessFor(found)}
    /\ streak' = NoStreak

(* refresh: a token that was revoked, one that was used before, one that   *)
(* has expired, and one that is exchanged for its successor.               *)
RejectRefresh(c) ==
    /\ AtCommit(c, "refresh")
    /\ txn[c].session.state = "revoked"
    /\ txn[c].session.replacedBy = None
    /\ Refuse(c)

DetectReuse(c) ==
    /\ AtCommit(c, "refresh")
    /\ txn[c].session.state = "revoked"
    /\ txn[c].session.replacedBy # None
    /\ LiveAreFree(c)
    /\ session' = RevokeAll
    /\ Finish(c, Keep)
    /\ UNCHANGED <<user, history>>

IsOver(c) == txn[c].session.expiresAt <= req[c].at \/ ~txn[c].user.active

ExpireSession(c) ==
    /\ AtCommit(c, "refresh")
    /\ txn[c].session.state = "live"
    /\ IsOver(c)
    /\ session' = [session EXCEPT ![req[c].token].state = "revoked"]
    /\ Finish(c, Keep)
    /\ UNCHANGED <<user, history>>

Rotate(c) ==
    /\ AtCommit(c, "refresh")
    /\ txn[c].session.state = "live"
    /\ ~IsOver(c)
    /\ LET old == req[c].token IN
       \E new \in Sessions :
          /\ session[new].state = "unused"
          /\ session' = [session EXCEPT
                ![new] = Opened(req[c].at),
                ![old] = [@ EXCEPT !.state = "revoked", !.replacedBy = new]]
          /\ origin' = [origin EXCEPT ![new] = origin[old]]
          /\ Finish(c, [kind |-> "set", session |-> new])
    /\ issued' = issued \cup {AccessFor(txn[c].user)}
    /\ UNCHANGED <<user, streak>>

(* logout: revokes the session of its own token, if it is still live.      *)
Logout(c) ==
    /\ AtCommit(c, "logout")
    /\ session' = IF txn[c].session.state = "live"
                  THEN [session EXCEPT ![req[c].token].state = "revoked"]
                  ELSE session
    /\ Finish(c, Clear)
    /\ UNCHANGED <<user, history>>

(* changePassword.                                                         *)
MayChange(c) ==
    /\ txn[c].user.active
    /\ txn[c].user.password = req[c].password
    /\ req[c].password # req[c].new

RefusePassword(c) ==
    /\ AtCommit(c, "password")
    /\ ~MayChange(c)
    /\ Refuse(c)

NewPassword(c, mustChange) ==
    /\ user' = [user EXCEPT !.password = req[c].new, !.mustChange = mustChange,
                            !.authVersion = txn[c].user.authVersion + 1,
                            !.failedCount = 0, !.lockedUntil = 0]
    /\ session' = RevokeAll
    /\ streak' = NoStreak
    /\ UNCHANGED <<issued, origin>>

ChangePassword(c) ==
    /\ AtCommit(c, "password")
    /\ MayChange(c)
    /\ LiveAreFree(c)
    /\ NewPassword(c, FALSE)
    /\ Finish(c, Clear)

(* Administrators: reissueTemporaryPassword, updateStatus and update.      *)
(* Their own checks (version, last administrator) may refuse them: Abort.  *)
Reissue(c) ==
    /\ AtCommit(c, "reissue")
    /\ LiveAreFree(c)
    /\ NewPassword(c, TRUE)
    /\ Finish(c, Keep)

Deactivate_SameVersion(c) ==
    /\ AtCommit(c, "deactivate")
    /\ IF txn[c].user.active
       THEN /\ LiveAreFree(c)
            /\ user' = [user EXCEPT !.active = FALSE]
            /\ session' = RevokeAll
       ELSE UNCHANGED rows
    /\ Finish(c, Keep)
    /\ UNCHANGED history

Deactivate(c) ==
    /\ AtCommit(c, "deactivate")
    /\ IF txn[c].user.active
       THEN /\ LiveAreFree(c)
            /\ user' = [user EXCEPT !.active = FALSE,
                           !.authVersion = txn[c].user.authVersion + 1]
            /\ session' = RevokeAll
       ELSE UNCHANGED rows
    /\ Finish(c, Keep)
    /\ UNCHANGED history

Activate(c) ==
    /\ AtCommit(c, "activate")
    /\ user' = [user EXCEPT !.active = TRUE]
    /\ Finish(c, Keep)
    /\ UNCHANGED <<session, history>>

(* An edit may change the role; it leaves authVersion and sessions alone.  *)
Update(c) ==
    /\ AtCommit(c, "update")
    /\ user' = [user EXCEPT !.role = req[c].role]
    /\ Finish(c, Keep)
    /\ UNCHANGED <<session, history>>

-----------------------------------------------------------------------------
Commit(c) ==
    \/ RefuseLogin(c) \/ CountFailure(c) \/ Admit(c)
    \/ RejectRefresh(c) \/ DetectReuse(c) \/ ExpireSession(c) \/ Rotate(c)
    \/ Logout(c)
    \/ RefusePassword(c) \/ ChangePassword(c)
    \/ Reissue(c) \/ Deactivate(c) \/ Activate(c) \/ Update(c)

Handle(c) ==
    \/ Guard(c) \/ LockSession(c) \/ LockUser(c)
    \/ Commit(c)
    \/ Deliver(c) \/ Lose(c)

Next ==
    \/ \E c \in Clients : Submit(c) \/ Handle(c) \/ Abort(c)
    \/ Tick

Spec == Init /\ [][Next]_vars

(* A handler is a chain of awaited statements, InnoDB grants row locks in  *)
(* the order they are asked for and breaks every deadlock.                 *)
FairSpec ==
    /\ Spec
    /\ \A c \in Clients : SF_vars(Handle(c))
    /\ WF_vars(Victim)

-----------------------------------------------------------------------------
(* Properties.                                                             *)

(* Rotation makes one chain per login: every token but one is used up and  *)
(* names its successor, so that it is recognised when it comes again, also *)
(* when two refreshes carry the same token (lines 178-230).                *)
OneChainPerLogin ==
    \A s, t \in {r \in Sessions : session[r].state # "unused"} :
        /\ session[s].replacedBy # None =>
              /\ session[s].state = "revoked"
              /\ origin[session[s].replacedBy] = origin[s]
        /\ origin[s].login = origin[t].login
           /\ session[s].replacedBy = None /\ session[t].replacedBy = None
              => s = t

(* A session that can still be refreshed belongs to an active user who     *)
(* logged in with the present password and authVersion: no refresh or      *)
(* login under way survives a deactivation, a change or a reissue.         *)
LiveIsCurrent ==
    \A s \in Live :
        /\ user.active
        /\ origin[s].authVersion = user.authVersion
        /\ origin[s].password = user.password

(* An access token refused for the user's status, authVersion or           *)
(* mustChangePassword is refused for ever: no activation, no later password*)
(* and no edit brings it back.  Only a token refused for its role alone is *)
(* accepted again, when the user has that role again: an edit of the role  *)
(* changes no authVersion (jwt-auth.guard.ts 52-60, users.service.ts 134). *)
RevokedForever ==
    [][\A t \in issued : Accepts(t)' =>
          Accepts(t) \/ (~Revoked(t) /\ user'.role # user.role)]_vars

(* No login sent within LockTime of the last of MaxFailed wrong passwords  *)
(* in a row succeeds, and overlapping attempts are all counted: the        *)
(* history, kept apart from the row, says so (lines 93-121).               *)
LockedAt(at) == streak.count >= MaxFailed /\ at < streak.at + LockTime

LockoutHolds ==
    [][\A c \in Clients :
          AtCommit(c, "login") /\ reply'[c].kind = "set"
             => ~LockedAt(req[c].at)]_vars

(* The inductive invariant: who has locked a row is alone and has read it   *)
(* as it is; tokens on their way are known to the table; what was handed   *)
(* out, and what the row counts, is what the history says.                 *)
Made == {s \in Sessions : session[s].state # "unused"}

StageOK(c) ==
    /\ pc[c] = "idle" => req[c] = NoRequest
    /\ pc[c] # "idle" => req[c] \in Request
    /\ pc[c] = "guard" => req[c].op = "password"
    /\ pc[c] = "user" => req[c].op \notin {"refresh", "logout"}
    /\ pc[c] = "session" => req[c].op \in {"refresh", "logout"}
    /\ pc[c] = "join" => req[c].op = "refresh"
    /\ pc[c] = "reply" => req[c].op \in {"login", "refresh", "logout", "password"}
    /\ pc[c] \in {"session", "join", "commit"}
       /\ req[c].op \in {"refresh", "logout"} => req[c].token \in Made
    /\ pc[c] # "reply" => reply[c] = Keep
    /\ reply[c].kind = "set" => reply[c].session \in Made

LocksOK ==
    \A c, d \in Clients :
        c # d => /\ ~(HoldsUser(c) /\ HoldsUser(d))
                 /\ \A s \in Sessions : ~(HoldsSession(c, s) /\ HoldsSession(d, s))

ReadsOK ==
    \A c \in Clients :
        /\ HoldsUser(c) => txn[c].user = user
        /\ \A s \in Sessions : HoldsSession(c, s) => txn[c].session = session[s]

SessionsOK ==
    /\ \A d \in Devices : cookie[d] # None => cookie[d] \in Made
    /\ \A s \in Sessions \ Made : session[s].replacedBy = None
    /\ \A s \in Made :
          /\ origin[s].login \in Made
          /\ session[s].replacedBy # None => session[s].replacedBy \in Made

IssuedOK ==
    \A t \in issued :
        /\ t.authVersion <= user.authVersion
        /\ t.authVersion = user.authVersion =>
              user.active /\ t.mustChange = user.mustChange

StreakOK ==
    IF user.lockedUntil = 0
    THEN user.failedCount = streak.count /\ streak.count < MaxFailed
    ELSE streak.count >= MaxFailed /\ user.lockedUntil = streak.at + LockTime

IInv ==
    /\ \A c \in Clients : StageOK(c)
    /\ LocksOK /\ ReadsOK
    /\ SessionsOK /\ OneChainPerLogin /\ LiveIsCurrent
    /\ IssuedOK /\ StreakOK

(* Every request ends, although a refresh and a revocation take the same   *)
(* rows in opposite orders.                                                *)
Answered == \A c \in Clients : pc[c] # "idle" ~> pc[c] = "idle"

(* docs/features/auth.md:20: a logout revokes the session of its device.   *)
(* It does not when a refresh that carried the same token came first.      *)
LogoutEndsLogin ==
    [][\A c \in Clients :
          AtCommit(c, "logout") /\ reply'[c] = Clear
             => \A s \in Sessions :
                   origin[s].login = origin[req[c].token].login
                      => session'[s].state # "live"]_vars

=============================================================================
