--------------------------- MODULE SessionClient ---------------------------
(* The browser's side of a session: the Pinia session store, the Axios     *)
(* client with its interceptors, the router's guard, the screens that sign *)
(* in and out, and the loop that waits for a sleeping backend.  JavaScript *)
(* runs one handler to its next await, so one action is one handler; what  *)
(* interleaves is the answers.  The server keeps only what the browser can *)
(* tell apart: which access tokens it accepts and which refresh tokens are *)
(* live (AuthSessions has the whole of it).                                *)
EXTENDS Naturals, FiniteSets

CONSTANTS Calls,        \* the requests screens may have under way
          MaxPairs,     \* token pairs the server issues (a bound)
          MaxUpsets     \* reloads, sleeps, reissues, changes of the user's role
                        \* and lost answers (a bound)

ASSUME ClientBounds == MaxPairs \in Nat \ {0} /\ MaxUpsets \in Nat

VARIABLES store,        \* stores/auth.ts: [status, token, must, role]
          refreshing,   \* stores/auth.ts: refreshPromise is set
          notified,     \* api/client.ts: sessionExpirationNotified
          observed,     \* api/client.ts: lastObservedAccessToken
          calls,        \* HTTP calls under way, refreshes included
          route,        \* name of the route on screen, or "none" before the first
          boot,         \* main.ts: "waiting", "restoring", "done"
          startup,      \* stores/backend-startup.ts: status
          loops,        \* health loops: "idle", "request", "delay"
          cookie,       \* the browser's refresh token
          server,       \* [up, valid, live, rotated, issued, must, role];
                        \* valid: access tokens with the role they were issued for
          upsets,       \* upsets so far (bounds the model)
          noticed       \* history: tokens whose expiry was announced

storeVars   == <<store, refreshing, notified, observed, noticed>>
startupVars == <<startup, loops>>
clientVars  == <<storeVars, calls, route, boot, startupVars, cookie, server, upsets>>
-----------------------------------------------------------------------------
(* Two slots for refreshes, though the store means to use one at a time,   *)
(* and two for health loops, though it means to run one.                   *)
RefreshSlots == {"refresh", "other refresh"}
LoopSlots    == 1..2

ASSUME SlotsAssumption == Calls \cap RefreshSlots = {}

Slots   == Calls \cup RefreshSlots
Kinds   == {"none", "business", "password", "login", "logout", "refresh"}
Phases  == {"idle", "sent", "answered", "waiting"}
Answers == {"none", "ok", "401", "starting", "failed"}   \* failed: any other error
Pairs   == 0..MaxPairs                              \* 0: no token
Roles   == {"ADMIN", "WORKER"}

NoRole  == "no role"

(* carries: the access token or cookie sent; pair, must, role: what a login*)
(* or refresh returned; own: its screen still waits for it with a flag.    *)
Call == [kind : Kinds, phase : Phases, ans : Answers, carries : Pairs,
         pair : Pairs, must : BOOLEAN, role : Roles \cup {NoRole},
         retried : BOOLEAN, own : BOOLEAN]

NoCall == [kind |-> "none", phase |-> "idle", ans |-> "none", carries |-> 0,
           pair |-> 0, must |-> FALSE, role |-> NoRole,
           retried |-> FALSE, own |-> FALSE]

Inner  == {"home", "password-change", "users", "forbidden"}   \* inside AppLayout
Routes == Inner \cup {"login", "initial-password-change", "session-expired"}

(* Something goes wrong, as often as the bound allows.                     *)
Upset == upsets < MaxUpsets /\ upsets' = upsets + 1

Idle(c)      == calls[c].phase = "idle"
UnderWay(k)  == {c \in Slots : calls[c].kind = k
                                 /\ calls[c].phase \in {"sent", "answered"}}
Waiting      == {c \in Calls : calls[c].phase = "waiting"}
Running      == {l \in LoopSlots : loops[l] # "idle"}
Busy(ks)     == \E c \in Calls : calls[c].kind \in ks /\ calls[c].own
-----------------------------------------------------------------------------
(* The session store.                                                      *)

(* Mutant: the token is left in memory.                                    *)
ClearedStatusOnly == [store EXCEPT !.status = "anonymous"]

Cleared == [status |-> "anonymous", token |-> 0, must |-> FALSE, role |-> NoRole]

Unchecked == [status |-> "checking", token |-> 0, must |-> FALSE, role |-> NoRole]

Applied(c) == [status |-> "authenticated", token |-> calls[c].pair,
               must |-> calls[c].must, role |-> calls[c].role]

IsAuthenticated(s) == s.status = "authenticated" /\ s.token # 0
-----------------------------------------------------------------------------
(* The router: the route a navigation to "to" ends on, given the store.    *)
RequiresAuth(to)        == to \in Inner \cup {"initial-password-change"}
BeforePasswordChange(to) == to = "initial-password-change"

(* A route without meta.roles asks for none.                               *)
AllowedRoles(to) == IF to = "users" THEN {"ADMIN"} ELSE Roles \cup {NoRole}

(* Mutants: the routes' roles, or the first password change, forgotten.    *)
GuardedAnyRole(to, s) ==
    IF ~IsAuthenticated(s)
    THEN IF RequiresAuth(to) THEN "login" ELSE to
    ELSE IF s.must THEN "initial-password-change"
    ELSE IF BeforePasswordChange(to) \/ to = "login" THEN "home"
    ELSE to

GuardedAnyPassword(to, s) ==
    IF ~IsAuthenticated(s)
    THEN IF RequiresAuth(to) THEN "login" ELSE to
    ELSE IF to = "login" THEN "home"
    ELSE IF s.role \notin AllowedRoles(to) THEN "forbidden"
    ELSE to

Guarded(to, s) ==
    IF ~IsAuthenticated(s)
    THEN IF RequiresAuth(to) THEN "login" ELSE to
    ELSE IF s.must THEN "initial-password-change"
    ELSE IF BeforePasswordChange(to) \/ to = "login" THEN "home"
    ELSE IF s.role \notin AllowedRoles(to) THEN "forbidden"
    ELSE to

(* The busy flags are the screens' own: a screen that is taken down leaves *)
(* its call under way without them.  AppLayout outlives the screens in it. *)
Disowned(cs, from, to) ==
    [c \in Slots |->
        [cs[c] EXCEPT !.own = @ /\ (from = to \/ (cs[c].kind = "logout"
                                                  /\ {from, to} \subseteq Inner))]]
-----------------------------------------------------------------------------
(* Start-up of the backend.                                                *)
StartLoop(ls) ==        \* waitUntilReady, when no loop is running
    IF \E l \in LoopSlots : ls[l] # "idle" THEN ls
    ELSE [ls EXCEPT ![CHOOSE l \in LoopSlots : ls[l] = "idle"] = "request"]

(* Mutant: every 503 starts a loop of its own.                             *)
MarkUnavailableEach ==
    /\ startup' = IF startup = "ready" THEN "waiting" ELSE startup
    /\ loops'   = [l \in LoopSlots |-> IF loops[l] = "idle" /\ (l = 1 \/ loops[1] # "idle")
                                       THEN "request" ELSE loops[l]]

OneLoop == [l \in LoopSlots |-> IF l = 1 THEN "request" ELSE "idle"]

MarkUnavailable ==
    /\ startup' = IF startup = "ready" THEN "waiting" ELSE startup
    /\ loops'   = StartLoop(loops)

(* App.vue takes the routed screens down while the backend is not ready.   *)
Shown == startup = "ready" /\ route # "none"

(* What a delivered answer does to the start-up store, and to the screens. *)
Noted(ans) == IF ans = "starting" THEN MarkUnavailable ELSE UNCHANGED startupVars

TakenDown(cs, ans) ==
    IF ans = "starting" /\ startup = "ready"
    THEN [c \in Slots |-> [cs[c] EXCEPT !.own = FALSE]]
    ELSE cs
-----------------------------------------------------------------------------
(* The Axios client.                                                       *)

(* Mutant: every caller refreshes for itself.                              *)
WithRefreshEach(cs) ==
    IF \E r \in RefreshSlots : cs[r].phase = "idle"
    THEN [cs EXCEPT ![CHOOSE r \in RefreshSlots : cs[r].phase = "idle"] =
            [NoCall EXCEPT !.kind = "refresh", !.phase = "sent", !.carries = cookie]]
    ELSE cs

(* refreshAccessToken: one refresh, whoever asks.                          *)
WithRefresh(cs) ==
    IF refreshing THEN cs
    ELSE [cs EXCEPT ![CHOOSE r \in RefreshSlots : cs[r].phase = "idle"] =
            [NoCall EXCEPT !.kind = "refresh", !.phase = "sent", !.carries = cookie]]

(* The request interceptor: a new token re-arms the notice.                *)
Observe(t) ==
    /\ observed' = IF t # 0 THEN t ELSE observed
    /\ notified' = (notified /\ (t = 0 \/ t = observed))

(* Mutant: every failure gives notice.                                     *)
NotifySessionExpiredEach(cs, ans) ==
    /\ notified' = TRUE
    /\ UNCHANGED observed
    /\ store'   = Cleared
    /\ route'   = "session-expired"
    /\ noticed' = noticed \cup {observed}
    /\ calls'   = Disowned(TakenDown(cs, ans), route, "session-expired")

(* notifySessionExpiredOnce with main.ts's onSessionExpired: the store is  *)
(* emptied and the route replaced.                                         *)
NotifySessionExpiredOnce(cs, ans) ==
    /\ notified' = TRUE
    /\ UNCHANGED observed
    /\ IF notified
       THEN calls' = TakenDown(cs, ans) /\ UNCHANGED <<store, route, noticed>>
       ELSE /\ store'   = Cleared
            /\ route'   = "session-expired"
            /\ noticed' = noticed \cup {observed}
            /\ calls'   = Disowned(TakenDown(cs, ans), route, "session-expired")

SendCall(c, kind, carries, own) ==
    /\ Shown
    /\ Idle(c)
    /\ calls' = [calls EXCEPT ![c] = [NoCall EXCEPT
            !.kind = kind, !.phase = "sent", !.carries = carries, !.own = own]]
    /\ UNCHANGED <<store, refreshing, noticed, route, boot, startupVars, cookie,
                   server, upsets>>
-----------------------------------------------------------------------------
ClientInit ==
    /\ store = Unchecked
    /\ refreshing = FALSE /\ notified = FALSE /\ observed = 0 /\ noticed = {}
    /\ calls = [c \in Slots |-> NoCall]
    /\ route = "none"
    /\ boot = "waiting"
    /\ startup = "checking"
    /\ loops = OneLoop
    /\ cookie \in {0, 1}
    /\ \E up \in BOOLEAN, live \in SUBSET ({cookie} \ {0}), role \in Roles :
         server = [up |-> up, valid |-> {}, live |-> live, rotated |-> {},
                   issued |-> cookie, must |-> FALSE, role |-> role]
    /\ upsets = 0
-----------------------------------------------------------------------------
(* Mutant: a failed check ends the loop.                                   *)
HealthFailsForGood(l) ==
    /\ loops[l] = "request"
    /\ startup' = "waiting"
    /\ loops'   = [loops EXCEPT ![l] = "idle"]
    /\ UNCHANGED <<storeVars, calls, route, boot, cookie, server, upsets>>

(* runHealthChecks.                                                        *)
HealthOk(l) ==
    /\ loops[l] = "request"
    /\ server.up
    /\ startup' = "ready"
    /\ loops'   = [loops EXCEPT ![l] = "idle"]
    /\ IF boot = "waiting"                            \* then restoreSession
       THEN /\ boot' = "restoring"
            /\ store' = [store EXCEPT !.status = "checking"]
            /\ calls' = WithRefresh(calls)
            /\ refreshing' = TRUE
       ELSE UNCHANGED <<boot, store, calls, refreshing>>
    /\ UNCHANGED <<notified, observed, noticed, route, cookie, server, upsets>>

HealthFails(l) ==       \* refused, or cut off after four seconds
    /\ loops[l] = "request"
    /\ startup' = "waiting"
    /\ loops'   = [loops EXCEPT ![l] = "delay"]
    /\ UNCHANGED <<storeVars, calls, route, boot, cookie, server, upsets>>

HealthRetries(l) ==
    /\ loops[l] = "delay"
    /\ loops' = [loops EXCEPT ![l] = "request"]
    /\ UNCHANGED <<storeVars, calls, route, boot, startup, cookie, server, upsets>>
-----------------------------------------------------------------------------
(* What the user does.                                                     *)
Links == CASE route \in Inner         -> {"home", "password-change"} \cup
                                         (IF store.role = "ADMIN" THEN {"users"} ELSE {})
           [] route = "session-expired" -> {"login"}
           [] OTHER                 -> {"home"}       \* the back button

Navigate(to) ==
    /\ Shown /\ to \in Links
    /\ route' = Guarded(to, store)
    /\ calls' = Disowned(calls, route, route')
    /\ UNCHANGED <<storeVars, boot, startupVars, cookie, server, upsets>>

BusinessCall(c) ==
    /\ route \in Inner
    /\ SendCall(c, "business", store.token, FALSE)
    /\ Observe(store.token)

SubmitLogin(c) ==
    /\ route = "login" /\ ~Busy({"login"})
    /\ SendCall(c, "login", 0, TRUE)
    /\ UNCHANGED <<notified, observed>>

SubmitPassword(c) ==
    /\ route \in {"password-change", "initial-password-change"}
    /\ ~Busy({"password"})
    /\ SendCall(c, "password", store.token, TRUE)
    /\ Observe(store.token)

HandleLogout(c) ==
    /\ route \in Inner /\ ~Busy({"logout"})
    /\ SendCall(c, "logout", cookie, TRUE)
    /\ UNCHANGED <<notified, observed>>

BackToLogin(c) ==       \* no flag keeps it from being pressed again
    /\ route = "initial-password-change" /\ ~Busy({"password"})
    /\ SendCall(c, "logout", cookie, FALSE)
    /\ UNCHANGED <<notified, observed>>

(* The page is loaded anew: its memory is gone, and with it the answers to *)
(* what it sent; the cookie stays.                                         *)
ReloadPage ==
    /\ Upset
    /\ store' = Unchecked
    /\ refreshing' = FALSE /\ notified' = FALSE /\ observed' = 0 /\ noticed' = {}
    /\ calls' = [c \in Slots |-> NoCall]
    /\ route' = "none" /\ boot' = "waiting" /\ startup' = "checking"
    /\ loops' = OneLoop
    /\ UNCHANGED <<cookie, server>>
-----------------------------------------------------------------------------
(* The server, as far as the browser can tell.                             *)
Issue(s) == [s EXCEPT !.issued = @ + 1,
                      !.valid = @ \cup {<<s.issued + 1, s.role>>},
                      !.live = @ \cup {s.issued + 1}]

RefreshAt(s, t) ==      \* rotate; a token used twice ends every session
    IF t \in s.live
    THEN [Issue(s) EXCEPT !.live = @ \ {t}, !.rotated = @ \cup {t}]
    ELSE IF t \in s.rotated THEN [s EXCEPT !.live = {}] ELSE s

EverySessionEnded(s) ==
    [s EXCEPT !.rotated = @ \cup s.live, !.valid = {}, !.live = {}]

(* Serve one call: the answers it may get and what becomes of the server.  *)
Answer(c, ans, pair, s) ==
    /\ calls' = [calls EXCEPT ![c].phase = "answered", ![c].ans = ans,
                              ![c].pair = pair, ![c].must = pair # 0 /\ s.must,
                              ![c].role = IF pair # 0 THEN s.role ELSE NoRole]
    /\ server' = s
    /\ UNCHANGED <<storeVars, route, boot, startupVars, cookie>>

RefuseCall(c, anss) == \E ans \in anss : Answer(c, ans, 0, server)

Issuable == server.issued < MaxPairs

(* A token is accepted while the user has the role it was issued for.      *)
Permitted(c) == <<calls[c].carries, server.role>> \in server.valid

ServeBusiness(c) ==
    /\ calls[c].kind = "business"
    /\ RefuseCall(c, IF ~Permitted(c) THEN {"401"}
                 ELSE IF server.must THEN {"failed"} ELSE {"ok", "failed"})

ServePassword(c) ==     \* a wrong or an unchanged password is a 422
    /\ calls[c].kind = "password"
    /\ \/ ~Permitted(c) /\ RefuseCall(c, {"401"})
       \/ Permitted(c) /\ RefuseCall(c, {"failed"})
       \/ Permitted(c) /\ Answer(c, "ok", 0, [EverySessionEnded(server) EXCEPT !.must = FALSE])

ServeLogin(c) ==
    /\ calls[c].kind = "login"
    /\ \/ RefuseCall(c, {"failed"})
       \/ Issuable /\ Answer(c, "ok", server.issued + 1, Issue(server))

ServeLogout(c) ==
    /\ calls[c].kind = "logout"
    /\ LET ended == {calls[c].carries} \cap server.live
       IN  Answer(c, "ok", 0, [server EXCEPT !.live = @ \ ended, !.rotated = @ \cup ended])

ServeRefresh(c) ==
    LET t == calls[c].carries IN
    /\ calls[c].kind = "refresh"
    /\ IF t \notin server.live THEN Answer(c, "401", 0, RefreshAt(server, t))
       ELSE IF Issuable THEN Answer(c, "ok", server.issued + 1, RefreshAt(server, t))
       ELSE RefuseCall(c, {"failed"})

EdgeAnswers(c) == ~server.up /\ RefuseCall(c, {"starting"})

ServeCall(c) ==
    /\ calls[c].phase = "sent"
    /\ UNCHANGED upsets
    /\ \/ EdgeAnswers(c)
       \/ /\ server.up
          /\ \/ ServeBusiness(c) \/ ServePassword(c) \/ ServeLogin(c)
             \/ ServeLogout(c) \/ ServeRefresh(c)

(* The connection breaks before the server has done its part, or after.    *)
Lose(c) ==
    /\ Upset
    /\ \/ calls[c].phase = "sent"
       \/ calls[c].phase = "answered" /\ calls[c].ans = "ok"
    /\ calls' = [calls EXCEPT ![c].phase = "answered", ![c].ans = "failed"]
    /\ UNCHANGED <<storeVars, route, boot, startupVars, cookie, server>>

AccessExpires(t) ==
    /\ \E v \in server.valid : v[1] = t
    /\ server' = [server EXCEPT !.valid = {v \in @ : v[1] # t}]
    /\ UNCHANGED <<storeVars, calls, route, boot, startupVars, cookie, upsets>>

Reissued ==             \* by an administrator: every session ends
    /\ ~server.must /\ Upset
    /\ server' = [EverySessionEnded(server) EXCEPT !.must = TRUE]
    /\ UNCHANGED <<storeVars, calls, route, boot, startupVars, cookie>>

RoleChanged ==          \* by an administrator: the sessions stay
    /\ Upset
    /\ \E role \in Roles \ {server.role} : server' = [server EXCEPT !.role = role]
    /\ UNCHANGED <<storeVars, calls, route, boot, startupVars, cookie>>

Sleeps == /\ server.up /\ Upset
          /\ server' = [server EXCEPT !.up = FALSE]
          /\ UNCHANGED <<storeVars, calls, route, boot, startupVars, cookie>>

Wakes  == /\ ~server.up
          /\ server' = [server EXCEPT !.up = TRUE]
          /\ UNCHANGED <<storeVars, calls, route, boot, startupVars, cookie, upsets>>
-----------------------------------------------------------------------------
(* Answers.  Each handler below runs to its end before another starts.     *)
Delivered(c) == calls[c].phase = "answered"

Settled(c) == [calls EXCEPT ![c] = NoCall]

AnswerOk(c) ==
    /\ calls[c].kind = "business"
    /\ Delivered(c) /\ calls[c].ans = "ok"
    /\ calls' = Settled(c)
    /\ UNCHANGED <<storeVars, route, boot, startupVars, cookie, server, upsets>>

Refused(c) ==           \* the error is handed to the screen
    /\ calls[c].kind \in {"business", "password"} /\ Delivered(c)
    /\ ~calls[c].retried /\ calls[c].ans \notin {"ok", "401"}
    /\ calls' = TakenDown(Settled(c), calls[c].ans)
    /\ Noted(calls[c].ans)
    /\ UNCHANGED <<storeVars, route, boot, cookie, server, upsets>>

Unauthorized(c) ==      \* the first 401: wait for a refresh
    /\ calls[c].kind \in {"business", "password"} /\ Delivered(c)
    /\ ~calls[c].retried /\ calls[c].ans = "401"
    /\ calls' = WithRefresh([calls EXCEPT ![c].phase = "waiting",
                                          ![c].ans = "none", ![c].retried = TRUE])
    /\ refreshing' = TRUE
    /\ UNCHANGED <<store, notified, observed, noticed, route, boot, startupVars,
                   cookie, server, upsets>>

RetryFailed(c) ==       \* whatever the retry met, the outer catch gives notice
    /\ calls[c].kind \in {"business", "password"} /\ Delivered(c)
    /\ calls[c].retried /\ calls[c].ans # "ok"
    /\ NotifySessionExpiredOnce(Settled(c), calls[c].ans)
    /\ Noted(calls[c].ans)
    /\ UNCHANGED <<refreshing, boot, cookie, server, upsets>>

PasswordChanged(c) ==
    /\ calls[c].kind = "password" /\ Delivered(c) /\ calls[c].ans = "ok"
    /\ cookie' = 0
    /\ store'  = Cleared
    /\ route'  = Guarded("login", store')
    /\ calls'  = Disowned(Settled(c), route, route')
    /\ UNCHANGED <<refreshing, notified, observed, noticed, boot, startupVars,
                   server, upsets>>

LoggedIn(c) ==
    /\ calls[c].kind = "login" /\ Delivered(c) /\ calls[c].ans = "ok"
    /\ cookie' = calls[c].pair
    /\ store'  = Applied(c)
    /\ \E redirect \in {"home", "users"} :
         route' = Guarded(IF calls[c].must THEN "initial-password-change"
                                           ELSE redirect, store')
    /\ calls'  = Disowned(Settled(c), route, route')
    /\ UNCHANGED <<refreshing, notified, observed, noticed, boot, startupVars,
                   server, upsets>>

LoginFailed(c) ==
    /\ calls[c].kind = "login" /\ Delivered(c) /\ calls[c].ans # "ok"
    /\ calls' = TakenDown(Settled(c), calls[c].ans)
    /\ Noted(calls[c].ans)
    /\ UNCHANGED <<storeVars, route, boot, cookie, server, upsets>>

LoggedOut(c) ==         \* whatever the answer
    /\ calls[c].kind = "logout" /\ Delivered(c)
    /\ cookie' = IF calls[c].ans = "ok" THEN 0 ELSE cookie
    /\ store'  = Cleared
    /\ route'  = Guarded("login", store')
    /\ calls'  = Disowned(TakenDown(Settled(c), calls[c].ans), route, route')
    /\ Noted(calls[c].ans)
    /\ UNCHANGED <<refreshing, notified, observed, noticed, boot, server, upsets>>
-----------------------------------------------------------------------------
(* The refresh's promise settles: main.ts navigates for the first time,    *)
(* and every call that waited is sent again or fails.                      *)
Resent(cs, t) ==
    [c \in Slots |-> IF c \in Waiting
                     THEN [cs[c] EXCEPT !.phase = "sent", !.carries = t]
                     ELSE cs[c]]

FirstNavigation ==
    IF boot = "restoring"
    THEN /\ boot' = "done"
         /\ \E to \in Routes : route' = Guarded(to, store')
    ELSE UNCHANGED <<boot, route>>

GivenUp(cs) == [c \in Slots |-> IF c \in Waiting THEN NoCall ELSE cs[c]]

Refreshed(r) ==
    /\ calls[r].kind = "refresh" /\ Delivered(r) /\ calls[r].ans = "ok"
    /\ cookie' = calls[r].pair
    /\ store'  = Applied(r)
    /\ refreshing' = FALSE
    /\ FirstNavigation
    /\ calls' = Resent(Settled(r), calls[r].pair)
    /\ IF Waiting = {} THEN UNCHANGED <<notified, observed>> ELSE Observe(calls[r].pair)
    /\ UNCHANGED <<noticed, startupVars, server, upsets>>

(* Mutant: the refresh goes through the client that refreshes on a 401.    *)
RefreshWaitsForItself(r) ==
    /\ calls[r].kind = "refresh" /\ Delivered(r)
    /\ calls[r].ans \notin {"ok", "401"}
    /\ refreshing' = FALSE
    /\ Noted(calls[r].ans)
    /\ NotifySessionExpiredOnce(GivenUp(Settled(r)), calls[r].ans)
    /\ UNCHANGED <<boot, cookie, server, upsets>>

RefreshFailed(r) ==
    /\ calls[r].kind = "refresh" /\ Delivered(r) /\ calls[r].ans # "ok"
    /\ refreshing' = FALSE
    /\ Noted(calls[r].ans)
    /\ IF boot = "restoring" \/ Waiting = {}
       THEN /\ IF boot = "restoring" THEN store' = Cleared ELSE UNCHANGED store
            /\ FirstNavigation
            /\ calls' = TakenDown(Settled(r), calls[r].ans)
            /\ UNCHANGED <<notified, observed, noticed>>
       ELSE /\ NotifySessionExpiredOnce(GivenUp(Settled(r)), calls[r].ans)
            /\ UNCHANGED boot
    /\ UNCHANGED <<cookie, server, upsets>>
-----------------------------------------------------------------------------
Deliver(c) == \/ AnswerOk(c) \/ Refused(c) \/ Unauthorized(c) \/ RetryFailed(c)
              \/ PasswordChanged(c) \/ LoggedIn(c) \/ LoginFailed(c) \/ LoggedOut(c)

Settle(r) == Refreshed(r) \/ RefreshFailed(r)

UserActs ==
    \/ \E to \in Routes : Navigate(to)
    \/ \E c \in Calls : \/ BusinessCall(c) \/ SubmitLogin(c) \/ SubmitPassword(c)
                        \/ HandleLogout(c) \/ BackToLogin(c)
    \/ ReloadPage

ServerActs ==
    \/ \E c \in Slots : ServeCall(c) \/ Lose(c)
    \/ \E t \in 1..MaxPairs : AccessExpires(t)
    \/ Reissued \/ RoleChanged \/ Sleeps \/ Wakes

ClientNext ==
    \/ \E l \in LoopSlots : HealthOk(l) \/ HealthFails(l) \/ HealthRetries(l)
    \/ UserActs
    \/ ServerActs
    \/ \E c \in Calls : Deliver(c)
    \/ \E r \in RefreshSlots : Settle(r)

ClientSpec == ClientInit /\ [][ClientNext]_clientVars

(* Timers fire, every HTTP call ends in an answer or an error, and the     *)
(* health check of a backend that stays up gets through at some time.      *)
ClientFairness ==
    /\ \A l \in LoopSlots : /\ SF_clientVars(HealthOk(l))
                            /\ WF_clientVars(HealthRetries(l))
    /\ \A c \in Slots : WF_clientVars(ServeCall(c))
    /\ \A c \in Calls : WF_clientVars(Deliver(c))
    /\ \A r \in RefreshSlots : WF_clientVars(Settle(r))

FairClientSpec == ClientSpec /\ ClientFairness
-----------------------------------------------------------------------------
ClientTypeOK ==
    /\ store \in [status : {"checking", "anonymous", "authenticated"},
                  token : Pairs, must : BOOLEAN, role : Roles \cup {NoRole}]
    /\ (store.status = "authenticated") = (store.token # 0)
    /\ refreshing \in BOOLEAN /\ notified \in BOOLEAN
    /\ observed \in Pairs /\ noticed \subseteq Pairs
    /\ calls \in [Slots -> Call]
    /\ route \in Routes \cup {"none"}
    /\ boot \in {"waiting", "restoring", "done"}
    /\ startup \in {"checking", "waiting", "ready"}
    /\ loops \in [LoopSlots -> {"idle", "request", "delay"}]
    /\ cookie \in Pairs /\ upsets \in 0..MaxUpsets
    /\ server \in [up : BOOLEAN, valid : SUBSET (Pairs \X Roles),
                   live : SUBSET Pairs, rotated : SUBSET Pairs, issued : Pairs,
                   must : BOOLEAN, role : Roles]

(* However many requests are refused at once, and whoever asks, one        *)
(* refresh is under way, exactly while refreshPromise is set.  A second    *)
(* one would carry a rotated token, which ends every session of the user.  *)
OneRefresh ==
    /\ Cardinality(UnderWay("refresh")) = (IF refreshing THEN 1 ELSE 0)
    /\ Waiting # {} => refreshing

(* One health loop at most runs, and one runs whenever the start-up screen *)
(* is up, whichever calls met the 503 and however their answers interleave *)
(* with a loop that is ending.                                             *)
OneLoopWhileNotReady ==
    Cardinality(Running) = (IF startup = "ready" THEN 0 ELSE 1)

(* The user's role does not allow the screen that is up.                   *)
ExceedsRole == IsAuthenticated(store) /\ store.role \notin AllowedRoles(route)

(* A refresh has come back with another role than the store's.             *)
ChangesRole(r) == /\ calls[r].kind = "refresh" /\ Delivered(r) /\ calls[r].ans = "ok"
                  /\ calls[r].role # store.role

HasSession == RequiresAuth(route) => IsAuthenticated(store)

(* No screen of a signed-in user outlives the session: not after a logout, *)
(* a password change or an expiry, whatever else was under way.  The user  *)
(* administration comes on screen for administrators only: no navigation,  *)
(* login or restored session leads there without the role.  One event      *)
(* leaves it up under a user who may not see it: a refresh that brings the *)
(* changed role replaces the session and not the route (applySession); the *)
(* next navigation leads away.                                             *)
ScreensHaveSession ==
    [][/\ HasSession'
       /\ ExceedsRole' =>
             /\ route' = route
             /\ ExceedsRole \/ \E r \in RefreshSlots : ChangesRole(r) /\ ~(Delivered(r))'
      ]_clientVars

(* A user who must change the password sees an inner screen.               *)
WorksUnchanged == IsAuthenticated(store) /\ store.must /\ route \in Inner

(* An answer to a refresh whose cookie was replaced or cleared meanwhile.  *)
LateRefresh(r) == /\ calls[r].kind = "refresh" /\ Delivered(r) /\ calls[r].ans = "ok"
                  /\ calls[r].carries # cookie

(* A user who must change the password gets past no screen but the one     *)
(* that changes it: no navigation, no login and no refresh of the session  *)
(* at hand leads to an inner screen.  The session under a screen that is   *)
(* up turns into such a session by one event only: applySession is called  *)
(* with the late answer to a refresh of an earlier session.                *)
PasswordFirst ==
    [][WorksUnchanged' =>
          /\ route' = route
          /\ WorksUnchanged \/ \E r \in RefreshSlots : LateRefresh(r) /\ ~(Delivered(r))'
      ]_clientVars

(* Together, with the types: what every state of the client satisfies.     *)
ClientInv == ClientTypeOK /\ OneRefresh /\ OneLoopWhileNotReady

Expires == /\ boot = "done"
           /\ route' = "session-expired" /\ route # "session-expired"
           /\ \E c \in Slots : Delivered(c) /\ ~(Delivered(c))'

(* The user is sent to the expiry screen once per access token, however    *)
(* many calls failed with it, and only by a failed refresh or a failed     *)
(* retry: an answer of 403, 404, 409 or 503 to a first try never ends the  *)
(* session.                                                                *)
ExpiresOnce ==
    [][Expires => /\ observed \notin noticed
                  /\ \E c \in Slots : /\ Delivered(c) /\ calls[c].ans # "ok"
                                      /\ (calls[c].kind = "refresh" \/ calls[c].retried)
      ]_clientVars

(* What the plan of the session handling says: while the user works, only  *)
(* a refresh that failed, or a retry that was answered 401 again, shows    *)
(* the expiry screen.                                                      *)
ExpiryMeansRefreshFailed ==
    [][Expires => \E c \in Slots : /\ Delivered(c) /\ calls[c].ans # "ok"
                                  /\ (calls[c].kind = "refresh" \/ calls[c].ans = "401")
      ]_clientVars

(* Every call a screen waits for ends: no call waits for a refresh that    *)
(* waits for it, and the browser never leaves one behind.                  *)
CallsEnd == \A c \in Calls : calls[c].phase # "idle" ~> calls[c].phase = "idle"

(* Once the backend stays up, the start-up screen goes for good, and the   *)
(* page gets past restoring the session to its first screen.               *)
StartsUp == <>[]server.up => <>[](startup = "ready" /\ route # "none")
=============================================================================
