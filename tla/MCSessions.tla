---------------------------- MODULE MCSessions -----------------------------
(* Three small instances of AuthSessions in one run, chosen by part: in    *)
(* "chains" logins, refreshes and logouts over three sessions, with a      *)
(* clock that stands still; in "account" every operation but the edit of   *)
(* the role, over two sessions; in "roles" that edit among the operations  *)
(* that hand out and revoke tokens.  A part only restricts the requests    *)
(* that arrive; without the edit a role is only a name.                    *)
EXTENDS AuthSessions

VARIABLE part

sessionsVars == <<part, vars>>

(* The session that only "chains" uses.                                    *)
Spare == CHOOSE s \in Sessions : TRUE

Unused == {s \in Sessions \ {Spare} : session[s].state = "unused"}

Spares(r) == r.op \in Granters => Cardinality(UnderWay(Granters)) < Cardinality(Unused)

Arrives(r) ==
    CASE part = "chains"  -> r.op \in {"login", "refresh", "logout"}
      [] part = "account" -> r.op # "update" /\ Spares(r)
      [] part = "roles"   -> r.op \notin {"logout", "password"} /\ Spares(r)

SessionsInit ==
    /\ Init
    /\ part \in {"chains", "account", "roles"}
    /\ part # "roles" => user.role = "WORKER"

SessionsNext ==
    /\ UNCHANGED part
    /\ \/ \E c \in Clients :
            \/ Submit(c) /\ Arrives(req'[c])
            \/ Handle(c)
            \/ Abort(c)
       \/ part = "account" /\ Tick
    /\ part # "chains" => session'[Spare].state = "unused"

(* The fairness of FairSpec.                                               *)
SessionsSpec ==
    /\ SessionsInit
    /\ [][SessionsNext]_sessionsVars
    /\ \A c \in Clients : SF_vars(Handle(c))
    /\ WF_vars(Victim)
=============================================================================
