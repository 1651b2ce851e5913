------------------------ MODULE SessionClientProofs ------------------------
(***************************************************************************)
(* Theorems about SessionClient, for any number of calls under way, token  *)
(* pairs, and reloads, sleeps and lost answers.                            *)
(***************************************************************************)
EXTENDS SessionClient, FiniteSetTheorems, TLAPS

(* The calls: a slot for refreshes holds a refresh or nothing, one is in   *)
(* use exactly when the store has its promise, and calls wait for it only. *)
SlotsOK(cs, promised) ==
    /\ cs \in [Slots -> Call]
    /\ \A c \in Calls : cs[c].kind # "refresh"
    /\ \A r \in RefreshSlots : cs[r].phase # "idle" =>
          cs[r].kind = "refresh" /\ cs[r].phase \in {"sent", "answered"}
    /\ promised => \E r \in RefreshSlots : \A s \in RefreshSlots :
          cs[s].phase # "idle" <=> s = r
    /\ ~promised => \A s \in RefreshSlots : cs[s].phase = "idle"
    /\ \A c \in Slots : cs[c].ans = "ok" /\ cs[c].kind \in {"login", "refresh"}
                          => cs[c].pair # 0

WaitOK(cs, promised) == (\E c \in Calls : cs[c].phase = "waiting") => promised

(* One loop runs, and none when the backend is ready.                      *)
LoopsOK ==
    /\ startup = "ready" => \A l \in LoopSlots : loops[l] = "idle"
    /\ startup # "ready" =>
          \E l \in LoopSlots : \A k \in LoopSlots : loops[k] # "idle" <=> k = l

(* Before the first navigation no screen has called.                       *)
BootOK ==
    /\ boot # "done" => route = "none" /\ \A c \in Calls : calls[c].phase = "idle"
    /\ boot = "waiting" => ~refreshing /\ store.token = 0

AllClientInv ==
    /\ ClientTypeOK
    /\ SlotsOK(calls, refreshing) /\ WaitOK(calls, refreshing)
    /\ LoopsOK
    /\ BootOK
    /\ HasSession

LEMMA NoCallIsCall == NoCall \in Call
  BY ClientBounds DEF NoCall, Call, Kinds, Phases, Answers, Pairs

LEMMA GuardedOK ==
    ASSUME NEW to \in Routes, NEW s
    PROVE  /\ Guarded(to, s) \in Routes
           /\ RequiresAuth(Guarded(to, s)) => IsAuthenticated(s)
  BY DEF Guarded, Routes, Inner, RequiresAuth, BeforePasswordChange

(* The invariant says what OneRefresh and OneLoopWhileNotReady count.      *)
LEMMA Counted == AllClientInv => ClientInv
  <1> SUFFICES ASSUME AllClientInv PROVE OneRefresh /\ OneLoopWhileNotReady
    BY DEF AllClientInv, ClientInv
  <1>1. Cardinality(UnderWay("refresh")) = IF refreshing THEN 1 ELSE 0
    <2>1. \A c \in Slots : c \in UnderWay("refresh") <=> c \in RefreshSlots /\ calls[c].phase # "idle"
      BY DEF AllClientInv, SlotsOK, UnderWay, Slots
    <2>2. UnderWay("refresh") \subseteq Slots
      BY DEF UnderWay
    <2>3. CASE refreshing
      <3>1. PICK r \in RefreshSlots : \A s \in RefreshSlots : calls[s].phase # "idle" <=> s = r
        BY <2>3 DEF AllClientInv, SlotsOK
      <3>2. UnderWay("refresh") = {r}
        BY <2>1, <2>2, <3>1 DEF Slots
      <3> QED BY <2>3, <3>2, FS_Singleton
    <2>4. CASE ~refreshing
      <3>1. UnderWay("refresh") = {}
        BY <2>1, <2>2, <2>4 DEF AllClientInv, SlotsOK
      <3> QED BY <2>4, <3>1, FS_EmptySet
    <2> QED BY <2>3, <2>4
  <1>2. Waiting # {} => refreshing
    BY DEF AllClientInv, WaitOK, Waiting
  <1>3. OneLoopWhileNotReady
    <2>1. CASE startup = "ready"
      <3>1. Running = {}
        BY <2>1 DEF AllClientInv, LoopsOK, Running
      <3> QED BY <2>1, <3>1, FS_EmptySet DEF OneLoopWhileNotReady
    <2>2. CASE startup # "ready"
      <3>1. PICK l \in LoopSlots : \A k \in LoopSlots : loops[k] # "idle" <=> k = l
        BY <2>2 DEF AllClientInv, LoopsOK
      <3>2. Running = {l}
        BY <3>1 DEF Running
      <3> QED BY <2>2, <3>2, FS_Singleton DEF OneLoopWhileNotReady
    <2> QED BY <2>1, <2>2
  <1> QED BY <1>1, <1>2, <1>3 DEF OneRefresh

LEMMA InitInv == ClientInit => AllClientInv
  <1> SUFFICES ASSUME ClientInit PROVE AllClientInv
    OBVIOUS
  <1>1. 0 \in Pairs /\ 1 \in Pairs /\ 0 \in 0..MaxUpsets
    BY ClientBounds DEF Pairs
  <1>2. calls \in [Slots -> Call] /\ \A c \in Slots : calls[c] = NoCall
    BY NoCallIsCall DEF ClientInit
  <1>3. SlotsOK(calls, refreshing) /\ WaitOK(calls, refreshing)
    BY <1>2 DEF ClientInit, SlotsOK, WaitOK, NoCall, Slots
  <1>4. PICK up \in BOOLEAN, live \in SUBSET ({cookie} \ {0}), role \in Roles :
           server = [up |-> up, valid |-> {}, live |-> live, rotated |-> {},
                     issued |-> cookie, must |-> FALSE, role |-> role]
    BY DEF ClientInit
  <1>5. cookie \in Pairs /\ live \in SUBSET Pairs
    BY <1>1 DEF ClientInit
  <1>6. server \in [up : BOOLEAN, valid : SUBSET (Pairs \X Roles), live : SUBSET Pairs,
                    rotated : SUBSET Pairs, issued : Pairs, must : BOOLEAN, role : Roles]
    BY <1>4, <1>5
  <1>7. loops \in [LoopSlots -> {"idle", "request", "delay"}] /\ LoopsOK
    <2>1. loops \in [LoopSlots -> {"idle", "request", "delay"}]
      BY DEF ClientInit, OneLoop
    <2>2. 1 \in LoopSlots /\ \A k \in LoopSlots : loops[k] # "idle" <=> k = 1
      BY DEF ClientInit, OneLoop, LoopSlots
    <2> QED BY <2>1, <2>2 DEF ClientInit, LoopsOK
  <1>8. ClientTypeOK
    BY <1>1, <1>2, <1>5, <1>6, <1>7 DEF ClientInit, ClientTypeOK, Unchecked
  <1>9. BootOK
    BY <1>2 DEF ClientInit, BootOK, Unchecked, NoCall, Slots
  <1>10. HasSession
    BY DEF ClientInit, HasSession, RequiresAuth, Inner
  <1> QED BY <1>3, <1>7, <1>8, <1>9, <1>10 DEF AllClientInv
-----------------------------------------------------------------------------
(* Operations on the calls.                                                *)
LEMMA DisownedOK ==
    ASSUME NEW cs, NEW b \in BOOLEAN, SlotsOK(cs, b), NEW from, NEW to
    PROVE  /\ SlotsOK(Disowned(cs, from, to), b)
           /\ WaitOK(cs, b) => WaitOK(Disowned(cs, from, to), b)
           /\ \A c \in Slots : Disowned(cs, from, to)[c].phase = cs[c].phase
  <1> DEFINE ds == Disowned(cs, from, to)
  <1>1. cs \in [Slots -> Call]
    BY DEF SlotsOK
  <1>2. \A c \in Slots :
           ds[c] = [cs[c] EXCEPT !.own = @ /\ (from = to \/ (cs[c].kind = "logout"
                                                          /\ {from, to} \subseteq Inner))]
    BY DEF Disowned
  <1>3. \A c \in Slots : /\ ds[c].kind = cs[c].kind /\ ds[c].phase = cs[c].phase
                          /\ ds[c].ans = cs[c].ans /\ ds[c].pair = cs[c].pair
                          /\ ds[c] \in Call
    BY <1>1, <1>2 DEF Call
  <1>4. ds \in [Slots -> Call]
    BY <1>3 DEF Disowned
  <1> HIDE DEF ds
  <1>5. SlotsOK(ds, b) /\ (WaitOK(cs, b) => WaitOK(ds, b))
    BY <1>3, <1>4 DEF SlotsOK, WaitOK, Slots
  <1> QED BY <1>3, <1>5 DEF ds

LEMMA TakenDownOK ==
    ASSUME NEW cs, NEW b \in BOOLEAN, SlotsOK(cs, b), NEW ans
    PROVE  /\ SlotsOK(TakenDown(cs, ans), b)
           /\ WaitOK(cs, b) => WaitOK(TakenDown(cs, ans), b)
           /\ \A c \in Slots : TakenDown(cs, ans)[c].phase = cs[c].phase
  <1> DEFINE ds == [c \in Slots |-> [cs[c] EXCEPT !.own = FALSE]]
  <1>1. cs \in [Slots -> Call]
    BY DEF SlotsOK
  <1>2. \A c \in Slots : ds[c] = [cs[c] EXCEPT !.own = FALSE]
    OBVIOUS
  <1>3. \A c \in Slots : /\ ds[c].kind = cs[c].kind /\ ds[c].phase = cs[c].phase
                          /\ ds[c].ans = cs[c].ans /\ ds[c].pair = cs[c].pair
                          /\ ds[c] \in Call
    BY <1>1, <1>2 DEF Call
  <1>4. ds \in [Slots -> Call]
    BY <1>3
  <1>5. TakenDown(cs, ans) \in {cs, ds}
    BY DEF TakenDown
  <1> HIDE DEF ds
  <1>6. SlotsOK(ds, b) /\ (WaitOK(cs, b) => WaitOK(ds, b))
    BY <1>3, <1>4 DEF SlotsOK, WaitOK, Slots
  <1> QED BY <1>3, <1>5, <1>6

(* A change of a screen's call.                                            *)
LEMMA ScreenCallOK ==
    ASSUME NEW b \in BOOLEAN, SlotsOK(calls, b), NEW c \in Calls, NEW call \in Call,
           call.kind # "refresh",
           call.ans = "ok" /\ call.kind = "login" => call.pair # 0
    PROVE  /\ SlotsOK([calls EXCEPT ![c] = call], b)
           /\ WaitOK(calls, b) /\ (call.phase = "waiting" => b)
                => WaitOK([calls EXCEPT ![c] = call], b)
  <1> DEFINE ds == [calls EXCEPT ![c] = call]
  <1>1. calls \in [Slots -> Call] /\ c \in Slots /\ c \notin RefreshSlots
    BY SlotsAssumption DEF SlotsOK, Slots
  <1>2. ds \in [Slots -> Call] /\ ds[c] = call /\ \A d \in Slots \ {c} : ds[d] = calls[d]
    BY <1>1
  <1> HIDE DEF ds
  <1>3. SlotsOK(ds, b) /\ (WaitOK(calls, b) /\ (call.phase = "waiting" => b) => WaitOK(ds, b))
    BY <1>1, <1>2 DEF SlotsOK, WaitOK, Slots
  <1> QED BY <1>3 DEF ds

(* A change of a refresh under way.                                        *)
LEMMA RefreshCallOK ==
    ASSUME NEW b \in BOOLEAN, SlotsOK(calls, b), NEW r \in RefreshSlots, NEW call \in Call,
           calls[r].phase # "idle",
           call.kind = "refresh", call.phase \in {"sent", "answered"},
           call.ans = "ok" => call.pair # 0
    PROVE  /\ SlotsOK([calls EXCEPT ![r] = call], b)
           /\ WaitOK(calls, b) => WaitOK([calls EXCEPT ![r] = call], b)
  <1> DEFINE ds == [calls EXCEPT ![r] = call]
  <1>1. calls \in [Slots -> Call] /\ r \in Slots /\ r \notin Calls
    BY SlotsAssumption DEF SlotsOK, Slots
  <1>2. ds \in [Slots -> Call] /\ ds[r] = call /\ \A d \in Slots \ {r} : ds[d] = calls[d]
    BY <1>1
  <1> HIDE DEF ds
  <1>3. SlotsOK(ds, b) /\ (WaitOK(calls, b) => WaitOK(ds, b))
    BY <1>1, <1>2 DEF SlotsOK, WaitOK, Slots
  <1> QED BY <1>3 DEF ds

(* Whoever asks for a refresh, one is under way afterwards.                *)
LEMMA WithRefreshOK ==
    ASSUME NEW cs, SlotsOK(cs, refreshing), refreshing \in BOOLEAN, cookie \in Pairs
    PROVE  /\ SlotsOK(WithRefresh(cs), TRUE) /\ WaitOK(WithRefresh(cs), TRUE)
           /\ \A c \in Calls : WithRefresh(cs)[c] = cs[c]
  <1>1. CASE refreshing
    BY <1>1 DEF WithRefresh, WaitOK
  <1>2. CASE ~refreshing
    <2> DEFINE new == [NoCall EXCEPT !.kind = "refresh", !.phase = "sent", !.carries = cookie]
               r == CHOOSE q \in RefreshSlots : cs[q].phase = "idle"
               ds == [cs EXCEPT ![r] = new]
    <2>1. \A q \in RefreshSlots : cs[q].phase = "idle"
      BY <1>2 DEF SlotsOK
    <2>2. r \in RefreshSlots
      BY <2>1 DEF RefreshSlots
    <2>3. new \in Call /\ new.kind = "refresh" /\ new.phase = "sent" /\ new.ans = "none"
      BY NoCallIsCall DEF NoCall, Call, Kinds, Phases
    <2>4. WithRefresh(cs) = ds
      BY <1>2 DEF WithRefresh
    <2>5. cs \in [Slots -> Call] /\ r \in Slots /\ r \notin Calls
      BY <2>2, SlotsAssumption DEF SlotsOK, Slots
    <2> HIDE DEF r, new
    <2>6. ds \in [Slots -> Call] /\ ds[r] = new /\ \A d \in Slots \ {r} : ds[d] = cs[d]
      BY <2>3, <2>5
    <2> HIDE DEF ds
    <2>7. SlotsOK(ds, TRUE) /\ WaitOK(ds, TRUE)
      BY <2>1, <2>2, <2>3, <2>5, <2>6 DEF SlotsOK, WaitOK, Slots
    <2> QED BY <2>4, <2>5, <2>6, <2>7 DEF Slots
  <1> QED BY <1>1, <1>2

(* A refresh that settles leaves its slot.                                 *)
LEMMA SettledRefreshOK ==
    ASSUME SlotsOK(calls, refreshing), refreshing \in BOOLEAN,
           NEW r \in RefreshSlots, calls[r].phase # "idle"
    PROVE  /\ SlotsOK(Settled(r), FALSE)
           /\ \A c \in Calls : Settled(r)[c] = calls[c]
  <1> DEFINE ds == [calls EXCEPT ![r] = NoCall]
  <1>1. calls \in [Slots -> Call] /\ r \in Slots /\ r \notin Calls
    BY SlotsAssumption DEF SlotsOK, Slots
  <1>2. ds \in [Slots -> Call] /\ ds[r] = NoCall /\ \A d \in Slots \ {r} : ds[d] = calls[d]
    BY <1>1, NoCallIsCall
  <1>3. refreshing
    BY DEF SlotsOK
  <1>4. NoCall.phase = "idle" /\ NoCall.ans = "none"
    BY DEF NoCall
  <1> HIDE DEF ds
  <1>5. \A s \in RefreshSlots : ds[s].phase = "idle"
    BY <1>1, <1>2, <1>3, <1>4 DEF SlotsOK, Slots
  <1>6. SlotsOK(ds, FALSE)
    BY <1>1, <1>2, <1>4, <1>5 DEF SlotsOK, Slots
  <1> QED BY <1>1, <1>2, <1>6 DEF Settled, ds, Slots

(* The calls that waited are sent again, or given up.                      *)
LEMMA WaitersOK ==
    ASSUME NEW cs, SlotsOK(cs, FALSE), \A c \in Calls : cs[c] = calls[c], NEW t \in Pairs
    PROVE  /\ SlotsOK(Resent(cs, t), FALSE) /\ WaitOK(Resent(cs, t), FALSE)
           /\ SlotsOK(GivenUp(cs), FALSE) /\ WaitOK(GivenUp(cs), FALSE)
           /\ \A c \in Slots : cs[c].phase = "idle" => /\ Resent(cs, t)[c].phase = "idle"
                                                       /\ GivenUp(cs)[c].phase = "idle"
  <1> DEFINE ds == Resent(cs, t)
             es == GivenUp(cs)
  <1>1. cs \in [Slots -> Call]
    BY DEF SlotsOK
  <1>2. \A c \in Slots : c \in Waiting <=> c \in Calls /\ cs[c].phase = "waiting"
    BY DEF Waiting
  <1>3. \A c \in Slots :
           /\ ds[c] = IF c \in Waiting THEN [cs[c] EXCEPT !.phase = "sent", !.carries = t]
                      ELSE cs[c]
           /\ es[c] = IF c \in Waiting THEN NoCall ELSE cs[c]
    BY DEF Resent, GivenUp
  <1>4. \A c \in Slots : /\ ds[c] \in Call /\ ds[c].kind = cs[c].kind /\ ds[c].ans = cs[c].ans
                          /\ ds[c].pair = cs[c].pair
                          /\ ds[c].phase = IF c \in Waiting THEN "sent" ELSE cs[c].phase
    BY <1>1, <1>3 DEF Call, Phases
  <1>5. ds \in [Slots -> Call] /\ es \in [Slots -> Call]
    BY <1>1, <1>3, <1>4, NoCallIsCall DEF Resent, GivenUp
  <1>6. NoCall.phase = "idle" /\ NoCall.ans = "none" /\ NoCall.kind = "none"
    BY DEF NoCall
  <1> HIDE DEF ds, es
  <1>7. SlotsOK(ds, FALSE) /\ WaitOK(ds, FALSE)
    BY <1>2, <1>4, <1>5, SlotsAssumption DEF SlotsOK, WaitOK, Slots
  <1>8. SlotsOK(es, FALSE) /\ WaitOK(es, FALSE)
    BY <1>2, <1>3, <1>5, <1>6, SlotsAssumption DEF SlotsOK, WaitOK, Slots
  <1>9. \A c \in Slots : cs[c].phase = "idle" => ds[c].phase = "idle" /\ es[c].phase = "idle"
    BY <1>2, <1>3, <1>4
  <1> QED BY <1>7, <1>8, <1>9 DEF ds, es
-----------------------------------------------------------------------------
(* The parts of a step.                                                    *)
Accepted == SUBSET (Pairs \X Roles)

ServerState == [up : BOOLEAN, valid : Accepted, live : SUBSET Pairs,
                rotated : SUBSET Pairs, issued : Pairs, must : BOOLEAN, role : Roles]

StoreOK(s) ==
    /\ s \in [status : {"checking", "anonymous", "authenticated"}, token : Pairs,
              must : BOOLEAN, role : Roles \cup {NoRole}]
    /\ (s.status = "authenticated") = (s.token # 0)

ScreenOK(s, to) ==
    /\ StoreOK(s) /\ to \in Routes \cup {"none"}
    /\ RequiresAuth(to) => IsAuthenticated(s)

LoopsTyped ==
    /\ startup \in {"checking", "waiting", "ready"}
    /\ loops \in [LoopSlots -> {"idle", "request", "delay"}]
    /\ LoopsOK

ClientParts ==
    /\ ScreenOK(store, route)
    /\ refreshing \in BOOLEAN /\ notified \in BOOLEAN
    /\ observed \in Pairs /\ noticed \subseteq Pairs
    /\ SlotsOK(calls, refreshing) /\ WaitOK(calls, refreshing)
    /\ boot \in {"waiting", "restoring", "done"} /\ BootOK
    /\ LoopsTyped
    /\ cookie \in Pairs /\ upsets \in 0..MaxUpsets
    /\ server \in ServerState

LEMMA PartsOfInv == AllClientInv <=> ClientParts
  BY DEF AllClientInv, ClientParts, ClientTypeOK, ServerState, Accepted, ScreenOK, StoreOK,
         HasSession, LoopsTyped, SlotsOK

LEMMA ClearedOK == StoreOK(Cleared) /\ ~IsAuthenticated(Cleared)
  BY ClientBounds DEF StoreOK, Cleared, IsAuthenticated, Pairs

LEMMA AppliedOK ==
    ASSUME ClientParts, NEW c \in Slots, calls[c].kind \in {"login", "refresh"},
           calls[c].ans = "ok"
    PROVE  StoreOK(Applied(c)) /\ calls[c].pair \in Pairs
  <1>1. calls[c] \in Call /\ calls[c].pair # 0
    BY DEF ClientParts, SlotsOK
  <1> QED BY <1>1 DEF StoreOK, Applied, Call

LEMMA PublicOK ==
    ASSUME NEW to \in {"login", "session-expired", "none"}, NEW s, StoreOK(s)
    PROVE  ScreenOK(s, to)
  BY DEF ScreenOK, RequiresAuth, Routes, Inner

LEMMA GuardedScreenOK ==
    ASSUME NEW to \in Routes, NEW s, StoreOK(s)
    PROVE  ScreenOK(s, Guarded(to, s))
  BY GuardedOK DEF ScreenOK

LEMMA NotedOK ==
    ASSUME LoopsTyped, NEW ans, Noted(ans)
    PROVE  LoopsTyped'
  <1>1. CASE UNCHANGED startupVars
    BY <1>1 DEF startupVars, LoopsTyped, LoopsOK
  <1>2. CASE MarkUnavailable
    <2>1. CASE startup # "ready"
      <3>1. loops' = loops /\ startup' = startup
        BY <1>2, <2>1 DEF MarkUnavailable, StartLoop, LoopsTyped, LoopsOK
      <3> QED BY <3>1 DEF LoopsTyped, LoopsOK
    <2>2. CASE startup = "ready"
      <3> DEFINE l == CHOOSE k \in LoopSlots : loops[k] = "idle"
      <3>1. \A k \in LoopSlots : loops[k] = "idle"
        BY <2>2 DEF LoopsTyped, LoopsOK
      <3>2. l \in LoopSlots
        BY <3>1 DEF LoopSlots
      <3>3. loops' = [loops EXCEPT ![l] = "request"] /\ startup' = "waiting"
        BY <1>2, <2>2, <3>1 DEF MarkUnavailable, StartLoop
      <3> HIDE DEF l
      <3>4. \A k \in LoopSlots : loops'[k] = IF k = l THEN "request" ELSE "idle"
        BY <3>1, <3>2, <3>3 DEF LoopsTyped
      <3>5. loops' \in [LoopSlots -> {"idle", "request", "delay"}]
        BY <3>3 DEF LoopsTyped
      <3> QED BY <3>2, <3>3, <3>4, <3>5 DEF LoopsTyped, LoopsOK
    <2> QED BY <2>1, <2>2
  <1> QED BY <1>1, <1>2 DEF Noted

LEMMA SameLoops == ASSUME LoopsTyped, UNCHANGED startupVars PROVE LoopsTyped'
  BY DEF startupVars, LoopsTyped, LoopsOK

(* A notice of expiry sends the user to its screen, and only once.         *)
LEMMA NotifyOK ==
    ASSUME ClientParts, NEW cs, NEW b \in BOOLEAN, SlotsOK(cs, b), WaitOK(cs, b), NEW ans,
           NotifySessionExpiredOnce(cs, ans)
    PROVE  /\ SlotsOK(calls', b) /\ WaitOK(calls', b)
           /\ ScreenOK(store', route')
           /\ notified' \in BOOLEAN /\ observed' \in Pairs /\ noticed' \subseteq Pairs
  <1> DEFINE ds == TakenDown(cs, ans)
  <1>1. SlotsOK(ds, b) /\ WaitOK(ds, b)
    BY TakenDownOK
  <1>2. CASE notified
    <2>1. calls' = ds /\ UNCHANGED <<store, route, noticed, observed>> /\ notified' = TRUE
      BY <1>2 DEF NotifySessionExpiredOnce
    <2> QED BY <1>1, <2>1 DEF ClientParts
  <1>3. CASE ~notified
    <2>1. /\ store' = Cleared /\ route' = "session-expired" /\ observed' = observed
          /\ noticed' = noticed \cup {observed} /\ notified' = TRUE
          /\ calls' = Disowned(ds, route, "session-expired")
      BY <1>3 DEF NotifySessionExpiredOnce
    <2> HIDE DEF ds
    <2>2. SlotsOK(calls', b) /\ WaitOK(calls', b)
      BY <1>1, <2>1, DisownedOK
    <2>3. ScreenOK(store', route')
      BY <2>1, ClearedOK, PublicOK
    <2> QED BY <2>1, <2>2, <2>3 DEF ClientParts
  <1> QED BY <1>2, <1>3

(* A new token re-arms the notice.                                         *)
LEMMA ObserveOK ==
    ASSUME ClientParts, NEW t \in Pairs, Observe(t)
    PROVE  notified' \in BOOLEAN /\ observed' \in Pairs
  BY DEF ClientParts, Observe

LEMMA ServerOps ==
    ASSUME NEW s \in ServerState
    PROVE  /\ s.issued < MaxPairs => Issue(s) \in ServerState /\ s.issued + 1 \in Pairs \ {0}
           /\ \A t \in Pairs : t \notin s.live \/ s.issued < MaxPairs
                                => RefreshAt(s, t) \in ServerState
           /\ EverySessionEnded(s) \in ServerState
  <1>1. ASSUME s.issued < MaxPairs
        PROVE  Issue(s) \in ServerState /\ s.issued + 1 \in Pairs \ {0}
    <2> DEFINE n == s.issued + 1
               v == s.valid \cup {<<n, s.role>>}
               l == s.live \cup {n}
    <2>1. n \in Pairs \ {0}
      BY <1>1, ClientBounds DEF ServerState, Pairs
    <2>2. v \in Accepted /\ l \in SUBSET Pairs
      BY <2>1 DEF ServerState, Accepted
    <2>3. Issue(s) = [s EXCEPT !.issued = n, !.valid = v, !.live = l]
      BY DEF Issue
    <2> HIDE DEF n, v, l
    <2>4. Issue(s) \in ServerState
      BY <2>1, <2>2, <2>3 DEF ServerState
    <2> QED BY <2>1, <2>4 DEF n
  <1>2. ASSUME NEW t \in Pairs, t \notin s.live \/ s.issued < MaxPairs
        PROVE  RefreshAt(s, t) \in ServerState
    <2>1. CASE t \in s.live
      <3>1. Issue(s) \in ServerState
        BY <1>1, <1>2, <2>1
      <3> DEFINE i == Issue(s)
                 j == [i EXCEPT !.live = @ \ {t}, !.rotated = @ \cup {t}]
      <3>2. RefreshAt(s, t) = j
        BY <2>1 DEF RefreshAt
      <3> HIDE DEF i
      <3>3. i \in ServerState => j \in ServerState
        BY DEF ServerState
      <3> QED BY <3>1, <3>2, <3>3 DEF i
    <2>2. CASE t \notin s.live
      BY <2>2 DEF RefreshAt, ServerState
    <2> QED BY <2>1, <2>2
  <1>3. EverySessionEnded(s) \in ServerState
    BY DEF EverySessionEnded, ServerState, Accepted
  <1> QED BY <1>1, <1>2, <1>3
-----------------------------------------------------------------------------
(* What users do.                                                          *)
LEMMA SendStep ==
    ASSUME ClientParts, NEW c \in Calls, NEW kind \in Kinds \ {"none", "refresh"},
           NEW carries \in Pairs, NEW own \in BOOLEAN, SendCall(c, kind, carries, own),
           notified' \in BOOLEAN, observed' \in Pairs
    PROVE  ClientParts'
  <1> DEFINE call == [NoCall EXCEPT !.kind = kind, !.phase = "sent", !.carries = carries,
                                    !.own = own]
  <1>1. call \in Call /\ call.kind = kind /\ call.phase = "sent" /\ call.ans = "none"
    BY NoCallIsCall DEF NoCall, Call, Phases
  <1>2. calls' = [calls EXCEPT ![c] = call]
    BY DEF SendCall
  <1> HIDE DEF call
  <1>3. SlotsOK(calls', refreshing) /\ WaitOK(calls', refreshing)
    BY <1>1, <1>2, ScreenCallOK DEF ClientParts
  <1>4. boot = "done"
    BY DEF SendCall, Shown, ClientParts, BootOK
  <1>5. UNCHANGED <<store, refreshing, noticed, route, boot, startupVars, cookie, server, upsets>>
    BY DEF SendCall
  <1>6. LoopsTyped'
    BY <1>5, SameLoops DEF ClientParts
  <1> QED BY <1>3, <1>4, <1>5, <1>6 DEF ClientParts, BootOK

LEMMA UserStep ==
    ASSUME ClientParts, UserActs
    PROVE  ClientParts'
  <1>1. store.token \in Pairs /\ cookie \in Pairs /\ 0 \in Pairs
    BY ClientBounds DEF ClientParts, ScreenOK, StoreOK, Pairs
  <1>2. ASSUME NEW to \in Routes, Navigate(to) PROVE ClientParts'
    <2>1. /\ Shown /\ route' = Guarded(to, store) /\ calls' = Disowned(calls, route, route')
          /\ UNCHANGED <<storeVars, boot, startupVars, cookie, server, upsets>>
      BY <1>2 DEF Navigate
    <2>2. boot = "done"
      BY <2>1 DEF Shown, ClientParts, BootOK
    <2>3. ScreenOK(store, route')
      BY <2>1, GuardedScreenOK DEF ClientParts, ScreenOK
    <2>4. SlotsOK(calls', refreshing) /\ WaitOK(calls', refreshing)
      BY <2>1, DisownedOK DEF ClientParts
    <2>5. LoopsTyped'
      BY <2>1, SameLoops DEF ClientParts
    <2> QED BY <2>1, <2>2, <2>3, <2>4, <2>5 DEF ClientParts, BootOK, storeVars
  <1>3. ASSUME NEW c \in Calls, BusinessCall(c) \/ SubmitPassword(c) PROVE ClientParts'
    <2>1. \E kind \in Kinds \ {"none", "refresh"}, own \in BOOLEAN :
             SendCall(c, kind, store.token, own)
      BY <1>3 DEF BusinessCall, SubmitPassword, Kinds
    <2>2. Observe(store.token)
      BY <1>3 DEF BusinessCall, SubmitPassword
    <2> QED BY <1>1, <2>1, <2>2, ObserveOK, SendStep
  <1>4. ASSUME NEW c \in Calls, SubmitLogin(c) \/ HandleLogout(c) \/ BackToLogin(c)
        PROVE  ClientParts'
    <2>1. \E kind \in Kinds \ {"none", "refresh"}, carries \in Pairs, own \in BOOLEAN :
             SendCall(c, kind, carries, own)
      BY <1>1, <1>4 DEF SubmitLogin, HandleLogout, BackToLogin, Kinds
    <2>2. notified' \in BOOLEAN /\ observed' \in Pairs
      BY <1>4 DEF SubmitLogin, HandleLogout, BackToLogin, ClientParts
    <2> QED BY <2>1, <2>2, SendStep
  <1>5. CASE ReloadPage
    <2>1. /\ store' = Unchecked /\ refreshing' = FALSE /\ notified' = FALSE /\ observed' = 0
          /\ noticed' = {} /\ calls' = [c \in Slots |-> NoCall] /\ route' = "none"
          /\ boot' = "waiting" /\ startup' = "checking" /\ loops' = OneLoop
          /\ UNCHANGED <<cookie, server>>
      BY <1>5 DEF ReloadPage
    <2>2. upsets' \in 0..MaxUpsets
      BY <1>5, ClientBounds DEF ReloadPage, Upset, ClientParts
    <2>3. StoreOK(Unchecked) /\ Unchecked.token = 0
      BY <1>1 DEF StoreOK, Unchecked
    <2>4. SlotsOK(calls', FALSE) /\ WaitOK(calls', FALSE)
          /\ \A c \in Slots : calls'[c].phase = "idle"
      BY <2>1, NoCallIsCall DEF SlotsOK, WaitOK, NoCall, Slots
    <2>5. LoopsTyped'
      <3>1. loops' \in [LoopSlots -> {"idle", "request", "delay"}]
        BY <2>1 DEF OneLoop
      <3>2. 1 \in LoopSlots /\ \A k \in LoopSlots : loops'[k] # "idle" <=> k = 1
        BY <2>1 DEF OneLoop, LoopSlots
      <3> QED BY <2>1, <3>1, <3>2 DEF LoopsTyped, LoopsOK
    <2>6. ScreenOK(store', route')
      BY <2>1, <2>3, PublicOK
    <2>7. BootOK'
      BY <2>1, <2>3, <2>4 DEF BootOK, Slots
    <2> QED BY <1>1, <2>1, <2>2, <2>4, <2>5, <2>6, <2>7 DEF ClientParts
  <1> QED BY <1>2, <1>3, <1>4, <1>5 DEF UserActs
-----------------------------------------------------------------------------
(* What the server and the network do.                                     *)

(* An answer leaves the call where it was, but for what it brings.         *)
LEMMA AnsweredCallOK ==
    ASSUME ClientParts, NEW c \in Slots, calls[c].phase \in {"sent", "answered"},
           NEW call \in Call, call.kind = calls[c].kind, call.phase = "answered",
           call.ans = "ok" /\ call.kind \in {"login", "refresh"} => call.pair # 0,
           calls' = [calls EXCEPT ![c] = call], refreshing' = refreshing,
           boot' = boot, store' = store, route' = route
    PROVE  SlotsOK(calls', refreshing') /\ WaitOK(calls', refreshing') /\ BootOK'
  <1>1. calls \in [Slots -> Call]
    BY DEF ClientParts, SlotsOK
  <1>2. CASE c \in Calls
    <2>1. call.kind # "refresh" /\ boot = "done"
      BY <1>2 DEF ClientParts, SlotsOK, BootOK
    <2> QED BY <1>2, <2>1, ScreenCallOK DEF ClientParts, BootOK
  <1>3. CASE c \in RefreshSlots
    <2>1. call.kind = "refresh" /\ c \notin Calls
      BY <1>3, SlotsAssumption DEF ClientParts, SlotsOK
    <2>2. \A d \in Calls : calls'[d] = calls[d]
      BY <1>1, <2>1 DEF Slots
    <2> QED BY <1>3, <2>1, <2>2, RefreshCallOK DEF ClientParts, BootOK
  <1> QED BY <1>2, <1>3 DEF Slots

LEMMA AnswerStep ==
    ASSUME ClientParts, NEW c \in Slots, calls[c].phase = "sent",
           NEW ans \in Answers, NEW pair \in Pairs, NEW s \in ServerState,
           ans = "ok" /\ calls[c].kind \in {"login", "refresh"} => pair # 0,
           Answer(c, ans, pair, s), UNCHANGED upsets
    PROVE  ClientParts'
  <1> DEFINE call == [calls[c] EXCEPT !.phase = "answered", !.ans = ans, !.pair = pair,
                                      !.must = pair # 0 /\ s.must,
                                      !.role = IF pair # 0 THEN s.role ELSE NoRole]
  <1>1. calls \in [Slots -> Call] /\ calls[c] \in Call
    BY DEF ClientParts, SlotsOK
  <1>2. calls' = [calls EXCEPT ![c] = call]
    BY <1>1 DEF Answer, Call
  <1>3. s.must \in BOOLEAN /\ s.role \in Roles
    BY DEF ServerState
  <1>4. /\ call \in Call /\ call.kind = calls[c].kind /\ call.phase = "answered"
        /\ call.ans = ans /\ call.pair = pair
    BY <1>1, <1>3 DEF Call, Phases
  <1> HIDE DEF call
  <1>5. server' = s /\ UNCHANGED <<storeVars, route, boot, startupVars, cookie>>
    BY DEF Answer
  <1>6. SlotsOK(calls', refreshing') /\ WaitOK(calls', refreshing') /\ BootOK'
    BY <1>2, <1>4, <1>5, AnsweredCallOK DEF storeVars
  <1>7. LoopsTyped'
    BY <1>5, SameLoops DEF ClientParts
  <1> QED BY <1>5, <1>6, <1>7 DEF ClientParts, storeVars

LEMMA ServeStep ==
    ASSUME ClientParts, NEW c \in Slots, ServeCall(c)
    PROVE  ClientParts'
  <1>1. calls[c].phase = "sent" /\ UNCHANGED upsets
    BY DEF ServeCall
  <1>2. server \in ServerState /\ 0 \in Pairs /\ calls[c].carries \in Pairs
    BY ClientBounds DEF ClientParts, SlotsOK, Call, Pairs
  <1>3. ASSUME NEW anss \in SUBSET Answers, RefuseCall(c, anss),
               "ok" \in anss => calls[c].kind = "business"
        PROVE  ClientParts'
    <2>1. PICK ans \in anss : Answer(c, ans, 0, server)
      BY <1>3 DEF RefuseCall
    <2> QED BY <1>1, <1>2, <1>3, <2>1, AnswerStep
  <1>4. ASSUME NEW pair \in Pairs, NEW s \in ServerState, Answer(c, "ok", pair, s),
               calls[c].kind \in {"login", "refresh"} => pair # 0
        PROVE  ClientParts'
    BY <1>1, <1>4, AnswerStep DEF Answers
  <1>5. CASE EdgeAnswers(c)
    <2>1. RefuseCall(c, {"starting"})
      BY <1>5 DEF EdgeAnswers
    <2> QED BY <1>3, <2>1 DEF Answers
  <1>6. CASE ServeBusiness(c)
    <2> DEFINE anss == IF ~Permitted(c) THEN {"401"}
                       ELSE IF server.must THEN {"failed"} ELSE {"ok", "failed"}
    <2>1. anss \in SUBSET Answers
      BY DEF Answers
    <2>2. RefuseCall(c, anss) /\ calls[c].kind = "business"
      BY <1>6 DEF ServeBusiness
    <2> HIDE DEF anss
    <2> QED BY <1>3, <2>1, <2>2
  <1>7. CASE ServePassword(c)
    <2>1. CASE RefuseCall(c, {"401"}) \/ RefuseCall(c, {"failed"})
      BY <1>3, <2>1 DEF Answers
    <2>2. CASE Answer(c, "ok", 0, [EverySessionEnded(server) EXCEPT !.must = FALSE])
      <3>1. [EverySessionEnded(server) EXCEPT !.must = FALSE] \in ServerState
        <4>1. EverySessionEnded(server) \in ServerState
          BY <1>2, ServerOps
        <4> QED BY <4>1 DEF ServerState
      <3>2. calls[c].kind = "password"
        BY <1>7 DEF ServePassword
      <3> QED BY <1>2, <1>4, <2>2, <3>1, <3>2
    <2> QED BY <1>7, <2>1, <2>2 DEF ServePassword
  <1>8. CASE ServeLogin(c)
    <2>1. CASE RefuseCall(c, {"failed"})
      BY <1>3, <2>1 DEF Answers
    <2>2. CASE Issuable /\ Answer(c, "ok", server.issued + 1, Issue(server))
      <3>1. Issue(server) \in ServerState /\ server.issued + 1 \in Pairs \ {0}
        BY <1>2, <2>2, ServerOps DEF Issuable
      <3> QED BY <1>4, <2>2, <3>1
    <2> QED BY <1>8, <2>1, <2>2 DEF ServeLogin
  <1>9. CASE ServeLogout(c)
    <2> DEFINE ended == {calls[c].carries} \cap server.live
               s == [server EXCEPT !.live = @ \ ended, !.rotated = @ \cup ended]
    <2>1. ended \subseteq Pairs
      BY <1>2
    <2>2. Answer(c, "ok", 0, s) /\ calls[c].kind = "logout"
      BY <1>9 DEF ServeLogout
    <2> HIDE DEF ended
    <2>3. s \in ServerState
      BY <1>2, <2>1 DEF ServerState
    <2> HIDE DEF s
    <2> QED BY <1>2, <1>4, <2>2, <2>3
  <1>10. CASE ServeRefresh(c)
    <2> DEFINE t == calls[c].carries
    <2>1. CASE t \notin server.live
      <3>1. Answer(c, "401", 0, RefreshAt(server, t))
        BY <1>10, <2>1 DEF ServeRefresh
      <3>2. RefreshAt(server, t) \in ServerState
        BY <1>2, <2>1, ServerOps
      <3> QED BY <1>1, <1>2, <3>1, <3>2, AnswerStep DEF Answers
    <2>2. CASE t \in server.live /\ Issuable
      <3>1. Answer(c, "ok", server.issued + 1, RefreshAt(server, t))
        BY <1>10, <2>2 DEF ServeRefresh
      <3>2. RefreshAt(server, t) \in ServerState /\ server.issued + 1 \in Pairs \ {0}
        BY <1>2, <2>2, ServerOps DEF Issuable
      <3> QED BY <1>4, <3>1, <3>2
    <2>3. CASE t \in server.live /\ ~Issuable
      <3>1. RefuseCall(c, {"failed"})
        BY <1>10, <2>3 DEF ServeRefresh
      <3> QED BY <1>3, <3>1 DEF Answers
    <2> QED BY <2>1, <2>2, <2>3
  <1> QED BY <1>5, <1>6, <1>7, <1>8, <1>9, <1>10 DEF ServeCall

LEMMA LoseStep ==
    ASSUME ClientParts, NEW c \in Slots, Lose(c)
    PROVE  ClientParts'
  <1> DEFINE call == [calls[c] EXCEPT !.phase = "answered", !.ans = "failed"]
  <1>1. calls \in [Slots -> Call] /\ calls[c] \in Call
    BY DEF ClientParts, SlotsOK
  <1>2. /\ calls' = [calls EXCEPT ![c] = call] /\ calls[c].phase \in {"sent", "answered"}
        /\ UNCHANGED <<storeVars, route, boot, startupVars, cookie, server>>
    BY <1>1 DEF Lose, Call
  <1>3. call \in Call /\ call.kind = calls[c].kind /\ call.phase = "answered" /\ call.ans = "failed"
    BY <1>1 DEF Call, Phases, Answers
  <1> HIDE DEF call
  <1>4. SlotsOK(calls', refreshing') /\ WaitOK(calls', refreshing') /\ BootOK'
    BY <1>2, <1>3, AnsweredCallOK DEF storeVars
  <1>5. upsets' \in 0..MaxUpsets
    BY ClientBounds DEF Lose, Upset, ClientParts
  <1>6. LoopsTyped'
    BY <1>2, SameLoops DEF ClientParts
  <1> QED BY <1>2, <1>4, <1>5, <1>6 DEF ClientParts, storeVars

LEMMA ServerStep ==
    ASSUME ClientParts, ServerActs
    PROVE  ClientParts'
  <1>1. CASE \E c \in Slots : ServeCall(c) \/ Lose(c)
    BY <1>1, ServeStep, LoseStep
  <1>2. CASE (\E t \in 1..MaxPairs : AccessExpires(t)) \/ Reissued \/ RoleChanged \/ Sleeps \/ Wakes
    <2>1. UNCHANGED <<storeVars, calls, route, boot, startupVars, cookie>>
      BY <1>2 DEF AccessExpires, Reissued, RoleChanged, Sleeps, Wakes
    <2>2. upsets' \in 0..MaxUpsets
      BY <1>2, ClientBounds DEF AccessExpires, Reissued, RoleChanged, Sleeps, Wakes, Upset, ClientParts
    <2>3. server \in ServerState
      BY DEF ClientParts
    <2>4. server' \in ServerState
      <3>1. CASE Reissued
        <4> DEFINE s == EverySessionEnded(server)
        <4>1. s \in ServerState
          BY <2>3, ServerOps
        <4>2. server' = [s EXCEPT !.must = TRUE]
          BY <3>1 DEF Reissued
        <4> HIDE DEF s
        <4> QED BY <4>1, <4>2 DEF ServerState
      <3>2. CASE \E t \in 1..MaxPairs : AccessExpires(t)
        BY <2>3, <3>2 DEF AccessExpires, ServerState, Accepted
      <3>3. CASE RoleChanged \/ Sleeps \/ Wakes
        BY <2>3, <3>3 DEF RoleChanged, Sleeps, Wakes, ServerState
      <3> QED BY <1>2, <3>1, <3>2, <3>3
    <2>5. LoopsTyped'
      BY <2>1, SameLoops DEF ClientParts
    <2> QED BY <2>1, <2>2, <2>4, <2>5 DEF ClientParts, storeVars, BootOK
  <1> QED BY <1>1, <1>2 DEF ServerActs
-----------------------------------------------------------------------------
(* The health loop: the first check that passes restores the session.      *)
LEMMA HealthStep ==
    ASSUME ClientParts, NEW l \in LoopSlots, HealthOk(l) \/ HealthFails(l) \/ HealthRetries(l)
    PROVE  ClientParts'
  <1>1. loops \in [LoopSlots -> {"idle", "request", "delay"}] /\ LoopsOK /\ LoopsTyped
    BY DEF ClientParts, LoopsTyped
  <1>2. loops[l] # "idle"
    BY DEF HealthOk, HealthFails, HealthRetries
  <1>3. startup # "ready" /\ \A k \in LoopSlots : loops[k] # "idle" <=> k = l
    BY <1>1, <1>2 DEF LoopsOK
  <1>4. CASE HealthOk(l)
    <2>1. /\ startup' = "ready" /\ loops' = [loops EXCEPT ![l] = "idle"]
          /\ UNCHANGED <<notified, observed, noticed, route, cookie, server, upsets>>
      BY <1>4 DEF HealthOk
    <2>2. LoopsTyped'
      BY <1>1, <1>3, <2>1 DEF LoopsTyped, LoopsOK
    <2>3. CASE boot = "waiting"
      <3>1. /\ boot' = "restoring" /\ store' = [store EXCEPT !.status = "checking"]
            /\ calls' = WithRefresh(calls) /\ refreshing' = TRUE
        BY <1>4, <2>3 DEF HealthOk
      <3>2. store.token = 0 /\ route = "none" /\ \A c \in Calls : calls[c].phase = "idle"
        BY <2>3 DEF ClientParts, BootOK
      <3>3. /\ SlotsOK(calls', TRUE) /\ WaitOK(calls', TRUE)
            /\ \A c \in Calls : calls'[c] = calls[c]
        BY <3>1, WithRefreshOK DEF ClientParts
      <3>4. StoreOK(store')
        BY <3>1, <3>2 DEF ClientParts, ScreenOK, StoreOK
      <3>5. ScreenOK(store', route')
        BY <2>1, <3>2, <3>4, PublicOK
      <3>6. BootOK'
        BY <2>1, <3>1, <3>2, <3>3 DEF BootOK
      <3> QED BY <2>1, <2>2, <3>1, <3>3, <3>5, <3>6 DEF ClientParts
    <2>4. CASE boot # "waiting"
      <3>1. UNCHANGED <<boot, store, calls, refreshing>>
        BY <1>4, <2>4 DEF HealthOk
      <3> QED BY <2>1, <2>2, <3>1 DEF ClientParts, BootOK
    <2> QED BY <2>3, <2>4
  <1>5. CASE HealthFails(l) \/ HealthRetries(l)
    <2>1. /\ loops' \in {[loops EXCEPT ![l] = "delay"], [loops EXCEPT ![l] = "request"]}
          /\ startup' \in {"waiting", startup}
          /\ UNCHANGED <<storeVars, calls, route, boot, cookie, server, upsets>>
      BY <1>5 DEF HealthFails, HealthRetries
    <2>2. LoopsTyped'
      BY <1>1, <1>3, <2>1 DEF LoopsTyped, LoopsOK
    <2> QED BY <2>1, <2>2 DEF ClientParts, BootOK, storeVars
  <1> QED BY <1>4, <1>5
-----------------------------------------------------------------------------
(* Answers to the calls of screens.                                        *)
LEMMA SettledOK ==
    ASSUME ClientParts, NEW c \in Calls
    PROVE  SlotsOK(Settled(c), refreshing) /\ WaitOK(Settled(c), refreshing)
  <1>1. NoCall.kind = "none" /\ NoCall.ans = "none" /\ NoCall.phase = "idle"
    BY DEF NoCall
  <1> QED BY <1>1, NoCallIsCall, ScreenCallOK DEF ClientParts, Settled

LEMMA DeliverStep ==
    ASSUME ClientParts, NEW c \in Calls, Deliver(c)
    PROVE  ClientParts'
  <1>1. Delivered(c)
    BY DEF Deliver, AnswerOk, Refused, Unauthorized, RetryFailed, PasswordChanged, LoggedIn,
           LoginFailed, LoggedOut
  <1>2. boot = "done"
    BY <1>1 DEF ClientParts, BootOK, Delivered
  <1>3. UNCHANGED <<boot, server, upsets>>
    BY DEF Deliver, AnswerOk, Refused, Unauthorized, RetryFailed, PasswordChanged, LoggedIn,
           LoginFailed, LoggedOut
  <1>4. BootOK'
    BY <1>2, <1>3 DEF BootOK
  <1>5. refreshing \in BOOLEAN /\ ScreenOK(store, route) /\ LoopsTyped
    BY DEF ClientParts
  <1>6. SlotsOK(Settled(c), refreshing) /\ WaitOK(Settled(c), refreshing)
    BY SettledOK
  <1>7. CASE AnswerOk(c)
    <2>1. calls' = Settled(c) /\ UNCHANGED <<storeVars, route, startupVars, cookie>>
      BY <1>7 DEF AnswerOk
    <2> QED BY <1>3, <1>4, <1>5, <1>6, <2>1, SameLoops DEF ClientParts, storeVars
  <1>8. CASE Refused(c) \/ LoginFailed(c)
    <2>1. /\ calls' = TakenDown(Settled(c), calls[c].ans) /\ Noted(calls[c].ans)
          /\ UNCHANGED <<storeVars, route, cookie>>
      BY <1>8 DEF Refused, LoginFailed
    <2>2. SlotsOK(calls', refreshing) /\ WaitOK(calls', refreshing)
      BY <1>5, <1>6, <2>1, TakenDownOK
    <2> QED BY <1>3, <1>4, <1>5, <2>1, <2>2, NotedOK DEF ClientParts, storeVars
  <1>9. CASE Unauthorized(c)
    <2> DEFINE call == [calls[c] EXCEPT !.phase = "waiting", !.ans = "none", !.retried = TRUE]
               cs == [calls EXCEPT ![c] = call]
    <2>1. calls \in [Slots -> Call] /\ calls[c] \in Call /\ calls[c].kind # "refresh"
      BY DEF ClientParts, SlotsOK, Slots
    <2>2. call \in Call /\ call.kind = calls[c].kind /\ call.ans = "none"
      BY <2>1 DEF Call, Phases, Answers
    <2>3. /\ calls' = WithRefresh(cs) /\ refreshing' = TRUE
          /\ UNCHANGED <<store, notified, observed, noticed, route, startupVars, cookie>>
      <3>1. [calls EXCEPT ![c].phase = "waiting", ![c].ans = "none", ![c].retried = TRUE] = cs
        BY <2>1 DEF Call
      <3> QED BY <1>9, <3>1 DEF Unauthorized
    <2> HIDE DEF call
    <2>4. SlotsOK(cs, refreshing)
      BY <1>5, <2>1, <2>2, ScreenCallOK DEF ClientParts
    <2> HIDE DEF cs
    <2>5. SlotsOK(calls', TRUE) /\ WaitOK(calls', TRUE)
      BY <1>5, <2>3, <2>4, WithRefreshOK DEF ClientParts
    <2> QED BY <1>3, <1>4, <1>5, <2>3, <2>5, SameLoops DEF ClientParts
  <1>10. CASE RetryFailed(c)
    <2>1. /\ NotifySessionExpiredOnce(Settled(c), calls[c].ans) /\ Noted(calls[c].ans)
          /\ UNCHANGED <<refreshing, cookie>>
      BY <1>10 DEF RetryFailed
    <2>2. /\ SlotsOK(calls', refreshing) /\ WaitOK(calls', refreshing)
          /\ ScreenOK(store', route')
          /\ notified' \in BOOLEAN /\ observed' \in Pairs /\ noticed' \subseteq Pairs
      BY <1>5, <1>6, <2>1, NotifyOK
    <2> QED BY <1>3, <1>4, <1>5, <2>1, <2>2, NotedOK DEF ClientParts
  <1>11. CASE PasswordChanged(c)
    <2>1. /\ cookie' = 0 /\ store' = Cleared /\ route' = Guarded("login", store')
          /\ calls' = Disowned(Settled(c), route, route')
          /\ UNCHANGED <<refreshing, notified, observed, noticed, startupVars>>
      BY <1>11 DEF PasswordChanged
    <2>2. SlotsOK(calls', refreshing) /\ WaitOK(calls', refreshing)
      BY <1>5, <1>6, <2>1, DisownedOK
    <2>3. ScreenOK(store', route')
      BY <2>1, ClearedOK, GuardedScreenOK DEF Routes
    <2>4. cookie' \in Pairs
      BY <2>1, ClientBounds DEF Pairs
    <2> QED BY <1>3, <1>4, <1>5, <2>1, <2>2, <2>3, <2>4, SameLoops DEF ClientParts
  <1>12. CASE LoggedIn(c)
    <2>1. /\ cookie' = calls[c].pair /\ store' = Applied(c)
          /\ calls' = Disowned(Settled(c), route, route')
          /\ UNCHANGED <<refreshing, notified, observed, noticed, startupVars>>
          /\ calls[c].kind = "login" /\ calls[c].ans = "ok"
      BY <1>12 DEF LoggedIn
    <2>2. \E to \in Routes : route' = Guarded(to, store')
      <3>1. PICK redirect \in {"home", "users"} :
               route' = Guarded(IF calls[c].must THEN "initial-password-change"
                                                 ELSE redirect, store')
        BY <1>12 DEF LoggedIn
      <3>2. (IF calls[c].must THEN "initial-password-change" ELSE redirect) \in Routes
        BY DEF Routes, Inner
      <3> QED BY <3>1, <3>2
    <2>3. StoreOK(store') /\ cookie' \in Pairs
      BY <2>1, AppliedOK DEF Slots
    <2>4. ScreenOK(store', route')
      BY <2>2, <2>3, GuardedScreenOK
    <2>5. SlotsOK(calls', refreshing) /\ WaitOK(calls', refreshing)
      BY <1>5, <1>6, <2>1, DisownedOK
    <2> QED BY <1>3, <1>4, <1>5, <2>1, <2>3, <2>4, <2>5, SameLoops DEF ClientParts
  <1>13. CASE LoggedOut(c)
    <2> DEFINE cs == TakenDown(Settled(c), calls[c].ans)
    <2>1. /\ cookie' = (IF calls[c].ans = "ok" THEN 0 ELSE cookie) /\ store' = Cleared
          /\ route' = Guarded("login", store') /\ calls' = Disowned(cs, route, route')
          /\ Noted(calls[c].ans) /\ UNCHANGED <<refreshing, notified, observed, noticed>>
      BY <1>13 DEF LoggedOut
    <2>2. SlotsOK(cs, refreshing) /\ WaitOK(cs, refreshing)
      BY <1>5, <1>6, TakenDownOK
    <2> HIDE DEF cs
    <2>3. SlotsOK(calls', refreshing) /\ WaitOK(calls', refreshing)
      BY <1>5, <2>1, <2>2, DisownedOK
    <2>4. ScreenOK(store', route')
      BY <2>1, ClearedOK, GuardedScreenOK DEF Routes
    <2>5. cookie' \in Pairs
      BY <2>1, ClientBounds DEF Pairs, ClientParts
    <2> QED BY <1>3, <1>4, <1>5, <2>1, <2>3, <2>4, <2>5, NotedOK DEF ClientParts
  <1> QED BY <1>7, <1>8, <1>9, <1>10, <1>11, <1>12, <1>13 DEF Deliver
-----------------------------------------------------------------------------
(* The refresh settles.                                                    *)
LEMMA SettleStep ==
    ASSUME ClientParts, NEW r \in RefreshSlots, Settle(r)
    PROVE  ClientParts'
  <1>1. /\ calls[r].kind = "refresh" /\ calls[r].phase = "answered" /\ refreshing' = FALSE
        /\ UNCHANGED <<server, upsets>>
    BY DEF Settle, Refreshed, RefreshFailed, Delivered
  <1>2. boot # "waiting" /\ LoopsTyped
    BY <1>1 DEF ClientParts, BootOK, SlotsOK
  <1>3. SlotsOK(Settled(r), FALSE) /\ \A c \in Calls : Settled(r)[c] = calls[c]
    BY <1>1, SettledRefreshOK DEF ClientParts
  <1>4. ASSUME FirstNavigation, StoreOK(store'), IsAuthenticated(store') \/ store' = store
                                                 \/ boot = "restoring"
        PROVE  ScreenOK(store', route') /\ boot' = "done"
    <2>1. CASE boot = "restoring"
      BY <1>4, <2>1, GuardedScreenOK DEF FirstNavigation
    <2>2. CASE boot = "done"
      <3>1. boot' = boot /\ route' = route
        BY <1>4, <2>2 DEF FirstNavigation
      <3> QED BY <1>4, <2>2, <3>1 DEF ScreenOK, ClientParts
    <2> QED BY <1>2, <2>1, <2>2 DEF ClientParts
  <1>5. CASE Refreshed(r)
    <2>1. /\ cookie' = calls[r].pair /\ store' = Applied(r) /\ FirstNavigation
          /\ calls' = Resent(Settled(r), calls[r].pair) /\ calls[r].ans = "ok"
          /\ UNCHANGED <<noticed, startupVars>>
      BY <1>5 DEF Refreshed
    <2>2. StoreOK(store') /\ calls[r].pair \in Pairs
      BY <1>1, <2>1, AppliedOK DEF Slots
    <2>3. IsAuthenticated(store')
      BY <2>1, <2>2 DEF StoreOK, Applied, IsAuthenticated
    <2>4. ScreenOK(store', route') /\ boot' = "done"
      BY <1>4, <2>1, <2>2, <2>3
    <2>5. SlotsOK(calls', FALSE) /\ WaitOK(calls', FALSE)
      BY <1>3, <2>1, <2>2, WaitersOK
    <2>6. notified' \in BOOLEAN /\ observed' \in Pairs
      <3>1. CASE Waiting = {}
        BY <1>5, <3>1 DEF Refreshed, ClientParts
      <3>2. CASE Waiting # {}
        BY <1>5, <2>2, <3>2, ObserveOK DEF Refreshed
      <3> QED BY <3>1, <3>2
    <2>7. LoopsTyped'
      BY <1>2, <2>1, SameLoops
    <2> QED BY <1>1, <2>1, <2>2, <2>4, <2>5, <2>6, <2>7 DEF ClientParts, BootOK
  <1>6. CASE RefreshFailed(r)
    <2>1. Noted(calls[r].ans) /\ UNCHANGED cookie
      BY <1>6 DEF RefreshFailed
    <2>2. LoopsTyped'
      BY <1>2, <2>1, NotedOK
    <2>3. CASE boot = "restoring" \/ Waiting = {}
      <3>1. /\ IF boot = "restoring" THEN store' = Cleared ELSE UNCHANGED store
            /\ FirstNavigation /\ calls' = TakenDown(Settled(r), calls[r].ans)
            /\ UNCHANGED <<notified, observed, noticed>>
        BY <1>6, <2>3 DEF RefreshFailed
      <3>2. StoreOK(store')
        BY <3>1, ClearedOK DEF ClientParts, ScreenOK
      <3>3. ScreenOK(store', route') /\ boot' = "done"
        BY <1>4, <3>1, <3>2
      <3>4. \A c \in Calls : calls[c].phase # "waiting"
        BY <2>3 DEF Waiting, ClientParts, BootOK
      <3>5. WaitOK(Settled(r), FALSE)
        BY <1>3, <3>4 DEF WaitOK
      <3>6. SlotsOK(calls', FALSE) /\ WaitOK(calls', FALSE)
        BY <1>3, <3>1, <3>5, TakenDownOK
      <3> QED BY <1>1, <2>1, <2>2, <3>1, <3>3, <3>6 DEF ClientParts, BootOK
    <2>4. CASE ~(boot = "restoring" \/ Waiting = {})
      <3>1. NotifySessionExpiredOnce(GivenUp(Settled(r)), calls[r].ans) /\ UNCHANGED boot
        BY <1>6, <2>4 DEF RefreshFailed
      <3>2. 0 \in Pairs
        BY ClientBounds DEF Pairs
      <3>3. SlotsOK(GivenUp(Settled(r)), FALSE) /\ WaitOK(GivenUp(Settled(r)), FALSE)
        BY <1>3, <3>2, WaitersOK
      <3>4. /\ SlotsOK(calls', FALSE) /\ WaitOK(calls', FALSE) /\ ScreenOK(store', route')
            /\ notified' \in BOOLEAN /\ observed' \in Pairs /\ noticed' \subseteq Pairs
        BY <3>1, <3>3, NotifyOK
      <3>5. boot = "done"
        BY <1>2, <2>4 DEF ClientParts
      <3> QED BY <1>1, <2>1, <2>2, <3>1, <3>4, <3>5 DEF ClientParts, BootOK
    <2> QED BY <2>3, <2>4
  <1> QED BY <1>5, <1>6 DEF Settle
-----------------------------------------------------------------------------
LEMMA NextInv == AllClientInv /\ [ClientNext]_clientVars => AllClientInv'
  <1> SUFFICES ASSUME ClientParts, [ClientNext]_clientVars PROVE ClientParts'
    BY PartsOfInv DEF AllClientInv, ClientParts, ClientTypeOK, ServerState, Accepted, ScreenOK,
                      StoreOK, HasSession, LoopsTyped, SlotsOK
  <1>1. CASE UNCHANGED clientVars
    BY <1>1 DEF clientVars, storeVars, startupVars, ClientParts, LoopsTyped, LoopsOK, BootOK
  <1> QED BY <1>1, HealthStep, UserStep, ServerStep, DeliverStep, SettleStep DEF ClientNext

LEMMA AllClientInvAlways == ClientSpec => []AllClientInv
  BY InitInv, NextInv, PTL DEF ClientSpec

(* For any number of calls at once, whatever is answered, lost or reloaded:*)
(* one refresh at most is under way, exactly while the store waits for it, *)
(* and one health loop runs, exactly while the backend is not ready.       *)
THEOREM ClientInvAlways == ClientSpec => []ClientInv
  BY Counted, AllClientInvAlways, PTL
-----------------------------------------------------------------------------
(* The pairs on their way.  A pair that an answer brings is fresh: nothing *)
(* in the browser names it, and no other answer brings it.                 *)
Brings(call) == call.kind \in {"login", "refresh"} /\ call.phase = "answered" /\ call.ans = "ok"

Exposed == {0, cookie, store.token, observed} \cup noticed \cup {calls[c].carries : c \in Slots}

FreshPairs ==
    /\ Exposed \subseteq 0..server.issued
    /\ server.live \subseteq 0..server.issued
    /\ \A c \in Slots : Brings(calls[c]) =>
          /\ calls[c].pair \in 1..server.issued /\ calls[c].pair \notin Exposed
          /\ \A d \in Slots : Brings(calls[d]) /\ calls[d].pair = calls[c].pair => d = c

(* While the session at hand is alive, the user must change the password   *)
(* in the browser exactly if so on the server; and an answered refresh of  *)
(* the session at hand says no more than that session does.                *)
MustHeld ==
    /\ store.token # 0 => /\ store.token = cookie
                          /\ cookie \in server.live => store.must = server.must
    /\ \A c \in Slots : Brings(calls[c]) =>
          /\ calls[c].pair \in server.live => calls[c].must = server.must
          /\ calls[c].kind = "refresh" /\ store.token # 0 /\ calls[c].carries = cookie
                => calls[c].must = store.must

(* A token whose expiry was announced is not used again.                   *)
NoticeHeld ==
    /\ observed \in noticed => notified
    /\ store.token # 0 => store.token \notin noticed

PairsHeld == FreshPairs /\ MustHeld /\ NoticeHeld

(* The calls "ds" follow from "cs": no pair is new, and nothing is carried *)
(* but what was carried or is in T.                                        *)
After(old, new, T) ==
    /\ Brings(new) => /\ Brings(old) /\ new.kind = old.kind /\ new.pair = old.pair
                      /\ new.must = old.must /\ new.carries = old.carries
    /\ new.carries \in {0, old.carries} \cup T

Follows(cs, ds, T) == \A c \in Slots : After(cs[c], ds[c], T)

LEMMA OwnIsLost ==
    ASSUME NEW call \in Call, NEW b \in BOOLEAN, NEW T
    PROVE  /\ [call EXCEPT !.own = b] \in Call
           /\ After(call, [call EXCEPT !.own = b], T)
  <1> DEFINE new == [call EXCEPT !.own = b]
  <1>1. /\ new \in Call /\ new.kind = call.kind /\ new.phase = call.phase
        /\ new.ans = call.ans /\ new.pair = call.pair /\ new.carries = call.carries
    BY DEF Call
  <1>2. new.must = call.must
    BY DEF Call
  <1> HIDE DEF new
  <1>3. After(call, new, T)
    BY <1>1, <1>2 DEF After, Brings
  <1> QED BY <1>1, <1>3 DEF new

Again(call, t) == [call EXCEPT !.phase = "sent", !.carries = t]

LEMMA SentAgain ==
    ASSUME NEW call \in Call, NEW t \in Pairs
    PROVE  Again(call, t) \in Call /\ After(call, Again(call, t), {t})
  <1> DEFINE new == Again(call, t)
  <1>1. new \in Call /\ new.phase = "sent" /\ new.carries = t
    BY DEF Call, Phases, Again
  <1> HIDE DEF new
  <1>2. After(call, new, {t})
    BY <1>1 DEF After, Brings
  <1> QED BY <1>1, <1>2 DEF new

LEMMA BringsNothing ==
    ASSUME NEW old, NEW new, NEW T, ~Brings(new), new.carries \in {0, old.carries} \cup T
    PROVE  After(old, new, T)
  BY DEF After

LEMMA NoCallBringsNothing ==
    /\ ~Brings(NoCall) /\ NoCall \in Call
    /\ \A old, T : After(old, NoCall, T)
  BY NoCallIsCall DEF Brings, NoCall, After

LEMMA SameCall == \A old, T : After(old, old, T)
  BY DEF After

LEMMA FollowsOn ==
    ASSUME NEW cs, NEW ds, NEW es, NEW T, NEW U, Follows(cs, ds, T), Follows(ds, es, U),
           T \subseteq U
    PROVE  Follows(cs, es, U)
  <1> SUFFICES ASSUME NEW c \in Slots PROVE After(cs[c], es[c], U)
    BY DEF Follows
  <1>1. After(cs[c], ds[c], T) /\ After(ds[c], es[c], U)
    BY DEF Follows
  <1> QED BY <1>1 DEF After

LEMMA FollowsSelf == ASSUME NEW cs, NEW T PROVE Follows(cs, cs, T)
  BY SameCall DEF Follows

LEMMA ScreensFollow ==
    ASSUME NEW cs, cs \in [Slots -> Call], NEW from, NEW to, NEW ans, NEW T
    PROVE  /\ Follows(cs, Disowned(cs, from, to), T) /\ Follows(cs, TakenDown(cs, ans), T)
           /\ Disowned(cs, from, to) \in [Slots -> Call] /\ TakenDown(cs, ans) \in [Slots -> Call]
  <1> DEFINE ds == Disowned(cs, from, to)
             es == [c \in Slots |-> [cs[c] EXCEPT !.own = FALSE]]
  <1>1. ASSUME NEW c \in Slots
        PROVE  ds[c] \in Call /\ After(cs[c], ds[c], T) /\ es[c] \in Call /\ After(cs[c], es[c], T)
    <2> DEFINE b == cs[c].own /\ (from = to \/ (cs[c].kind = "logout" /\ {from, to} \subseteq Inner))
    <2>1. ds[c] = [cs[c] EXCEPT !.own = b] /\ es[c] = [cs[c] EXCEPT !.own = FALSE]
      BY DEF Disowned
    <2>2. cs[c] \in Call /\ b \in BOOLEAN
      OBVIOUS
    <2> DEFINE call == cs[c]
    <2> HIDE DEF b, ds, es, call
    <2>3. call \in Call /\ b \in BOOLEAN /\ FALSE \in BOOLEAN
      BY <2>2 DEF call
    <2>4. /\ [call EXCEPT !.own = b] \in Call /\ After(call, [call EXCEPT !.own = b], T)
          /\ [call EXCEPT !.own = FALSE] \in Call /\ After(call, [call EXCEPT !.own = FALSE], T)
      BY <2>3, OwnIsLost
    <2> QED BY <2>1, <2>4 DEF call
  <1>2. ds = [c \in Slots |-> ds[c]]
    BY DEF Disowned
  <1> HIDE DEF ds
  <1>3. ds \in [Slots -> Call] /\ es \in [Slots -> Call]
    BY <1>1, <1>2
  <1>4. TakenDown(cs, ans) \in {cs, es}
    BY DEF TakenDown
  <1> HIDE DEF es
  <1>5. Follows(cs, ds, T) /\ Follows(cs, es, T)
    BY <1>1 DEF Follows
  <1> QED BY <1>3, <1>4, <1>5, FollowsSelf DEF ds

(* One call is replaced by one that brings nothing.                        *)
LEMMA CallFollows ==
    ASSUME NEW cs, cs \in [Slots -> Call], NEW c \in Slots, NEW call \in Call, NEW T,
           ~Brings(call), call.carries \in {0, cs[c].carries} \cup T
    PROVE  /\ Follows(cs, [cs EXCEPT ![c] = call], T)
           /\ [cs EXCEPT ![c] = call] \in [Slots -> Call]
           /\ [cs EXCEPT ![c] = call][c] = call
  <1> DEFINE ds == [cs EXCEPT ![c] = call]
  <1>1. ds \in [Slots -> Call] /\ ds[c] = call /\ \A d \in Slots \ {c} : ds[d] = cs[d]
    OBVIOUS
  <1> HIDE DEF ds
  <1>2. After(cs[c], ds[c], T)
    BY <1>1, BringsNothing
  <1>3. \A d \in Slots \ {c} : After(cs[d], ds[d], T)
    BY <1>1, SameCall
  <1> QED BY <1>1, <1>2, <1>3 DEF ds, Follows

LEMMA SettledFollows ==
    ASSUME calls \in [Slots -> Call], NEW c \in Slots, NEW T
    PROVE  /\ Follows(calls, Settled(c), T) /\ Settled(c) \in [Slots -> Call]
           /\ ~Brings(Settled(c)[c])
  <1>1. NoCall.carries = 0
    BY DEF NoCall
  <1> QED BY <1>1, NoCallBringsNothing, CallFollows DEF Settled

LEMMA WaitersFollow ==
    ASSUME NEW cs, cs \in [Slots -> Call], NEW t \in Pairs
    PROVE  /\ Follows(cs, Resent(cs, t), {t}) /\ Resent(cs, t) \in [Slots -> Call]
           /\ Follows(cs, GivenUp(cs), {}) /\ GivenUp(cs) \in [Slots -> Call]
  <1> DEFINE ds == Resent(cs, t)
             es == GivenUp(cs)
  <1>1. ASSUME NEW c \in Slots
        PROVE  /\ ds[c] \in Call /\ After(cs[c], ds[c], {t})
               /\ es[c] \in Call /\ After(cs[c], es[c], {})
    <2>1. cs[c] \in Call
      OBVIOUS
    <2>2. CASE c \in Waiting
      <3>1. ds[c] = Again(cs[c], t) /\ es[c] = NoCall
        BY <2>2 DEF Resent, GivenUp, Again
      <3> HIDE DEF ds, es
      <3> QED BY <2>1, <3>1, SentAgain, NoCallBringsNothing
    <2>3. CASE c \notin Waiting
      <3>1. ds[c] = cs[c] /\ es[c] = cs[c]
        BY <2>3 DEF Resent, GivenUp
      <3> HIDE DEF ds, es
      <3> QED BY <2>1, <3>1, SameCall
    <2> QED BY <2>2, <2>3
  <1>2. ds = [c \in Slots |-> ds[c]] /\ es = [c \in Slots |-> es[c]]
    BY DEF Resent, GivenUp
  <1> HIDE DEF ds, es
  <1>3. ds \in [Slots -> Call] /\ es \in [Slots -> Call]
    BY <1>1, <1>2
  <1> QED BY <1>1, <1>3 DEF ds, es, Follows

LEMMA RefreshFollows ==
    ASSUME NEW cs, SlotsOK(cs, refreshing), cookie \in Pairs, refreshing \in BOOLEAN
    PROVE  Follows(cs, WithRefresh(cs), {cookie})
  <1>1. CASE refreshing
    BY <1>1, FollowsSelf DEF WithRefresh
  <1>2. CASE ~refreshing
    <2> DEFINE new == [NoCall EXCEPT !.kind = "refresh", !.phase = "sent", !.carries = cookie]
               r == CHOOSE q \in RefreshSlots : cs[q].phase = "idle"
    <2>1. \A q \in RefreshSlots : cs[q].phase = "idle"
      BY <1>2 DEF SlotsOK
    <2>2. r \in RefreshSlots
      <3>1. "refresh" \in RefreshSlots
        BY DEF RefreshSlots
      <3> QED BY <2>1, <3>1
    <2>3. new \in Call /\ new.carries = cookie /\ ~Brings(new)
      BY NoCallIsCall DEF NoCall, Call, Kinds, Phases, Brings
    <2>4. WithRefresh(cs) = [cs EXCEPT ![r] = new]
      BY <1>2 DEF WithRefresh
    <2>5. cs \in [Slots -> Call] /\ r \in Slots
      BY <2>2 DEF SlotsOK, Slots
    <2> HIDE DEF r, new
    <2>6. Follows(cs, [cs EXCEPT ![r] = new], {cookie})
      BY <2>3, <2>5, CallFollows
    <2> QED BY <2>4, <2>6
  <1> QED BY <1>1, <1>2

-----------------------------------------------------------------------------
(* What a step that issues no pair does to what the pairs are held in: the *)
(* session stays, ends or is replaced by the one that an answer brings.    *)
Kept == store'.token = store.token /\ store'.must = store.must /\ cookie' = cookie

Emptied == store'.token = 0 /\ cookie' \in {0, cookie}

SignedIn(r) ==
    /\ Brings(calls[r]) /\ ~Brings(calls'[r])
    /\ store'.token = calls[r].pair /\ store'.must = calls[r].must
    /\ cookie' = calls[r].pair

NoticeMoves ==
    \/ observed' \in {observed} \cup ({store'.token} \ {0}) /\ noticed' = noticed
       /\ (notified => notified' \/ observed' # observed)
    \/ /\ observed' = observed /\ noticed' = noticed \cup {observed} /\ notified'
       /\ store'.token = 0
    \/ observed' = 0 /\ noticed' = {}

Moves ==
    /\ server'.issued = server.issued /\ server'.live \subseteq server.live
    /\ server'.must = server.must \/ server'.live = {}
    /\ Kept \/ Emptied \/ \E r \in Slots : SignedIn(r)
    /\ NoticeMoves
    /\ Follows(calls, calls', {cookie, store.token, cookie'})

LEMMA ExposedInCalls == \A c \in Slots : calls[c].carries \in Exposed
  BY DEF Exposed

(* A step shows no token but the pair of the answer that it uses up.       *)
LEMMA ExposedMoves ==
    ASSUME Moves
    PROVE  \/ Exposed' \subseteq Exposed
           \/ \E r \in Slots : SignedIn(r) /\ Exposed' \subseteq Exposed \cup {calls[r].pair}
  <1> DEFINE old == {0, cookie, store.token, observed} \cup noticed
                    \cup {calls[c].carries : c \in Slots}
  <1>1. old = Exposed
    BY DEF Exposed
  <1>2. ASSUME NEW x \in Exposed', x \notin Exposed
        PROVE  x \in {cookie', store'.token}
    <2>1. CASE x \in {0, cookie', store'.token, observed'} \cup noticed'
      BY <1>2, <2>1 DEF Moves, NoticeMoves, Exposed
    <2>2. CASE \E c \in Slots : x = calls'[c].carries
      <3>1. PICK c \in Slots : x = calls'[c].carries
        BY <2>2
      <3>2. calls'[c].carries \in {0, calls[c].carries} \cup {cookie, store.token, cookie'}
        BY DEF Moves, Follows, After
      <3>3. calls[c].carries \in Exposed /\ {0, cookie, store.token} \subseteq Exposed
        BY DEF Exposed
      <3> QED BY <1>2, <3>1, <3>2, <3>3
    <2> QED BY <2>1, <2>2 DEF Exposed
  <1>3. {0, cookie, store.token} \subseteq Exposed
    BY DEF Exposed
  <1>4. CASE Kept \/ Emptied
    <2>1. {cookie', store'.token} \subseteq Exposed
      BY <1>3, <1>4 DEF Kept, Emptied
    <2> QED BY <1>2, <2>1
  <1>5. CASE \E r \in Slots : SignedIn(r)
    <2>1. PICK r \in Slots : SignedIn(r)
      BY <1>5
    <2>2. {cookie', store'.token} \subseteq {calls[r].pair}
      BY <2>1 DEF SignedIn
    <2> QED BY <1>2, <2>1, <2>2
  <1> QED BY <1>4, <1>5 DEF Moves

LEMMA FreshMoves ==
    ASSUME FreshPairs, Moves
    PROVE  FreshPairs'
  <1>1. server'.issued = server.issued /\ server'.live \subseteq server.live
    BY DEF Moves
  <1>2. \A c \in Slots : Brings(calls'[c]) => Brings(calls[c]) /\ calls'[c].pair = calls[c].pair
    BY DEF Moves, Follows, After
  <1>3. Exposed' \subseteq 0..server.issued
        /\ \A c \in Slots : Brings(calls'[c]) => calls[c].pair \notin Exposed'
    <2>1. CASE Exposed' \subseteq Exposed
      BY <1>2, <2>1 DEF FreshPairs
    <2>2. ASSUME NEW r \in Slots, SignedIn(r), Exposed' \subseteq Exposed \cup {calls[r].pair}
          PROVE  Exposed' \subseteq 0..server.issued
                 /\ \A c \in Slots : Brings(calls'[c]) => calls[c].pair \notin Exposed'
      <3>1. Brings(calls[r]) /\ ~Brings(calls'[r])
        BY <2>2 DEF SignedIn
      <3>2. calls[r].pair \in 0..server.issued
        <4>1. calls[r].pair \in 1..server.issued
          BY <3>1 DEF FreshPairs
        <4> QED BY <4>1
      <3>3. \A c \in Slots : Brings(calls'[c]) => calls[c].pair # calls[r].pair
        BY <1>2, <3>1 DEF FreshPairs
      <3> QED BY <1>2, <2>2, <3>2, <3>3 DEF FreshPairs
    <2> QED BY <2>1, <2>2, ExposedMoves
  <1> QED BY <1>1, <1>2, <1>3 DEF FreshPairs

LEMMA MustMoves ==
    ASSUME FreshPairs, MustHeld, Moves
    PROVE  MustHeld'
  <1>1. \A c \in Slots : Brings(calls'[c]) =>
           /\ Brings(calls[c]) /\ calls'[c].kind = calls[c].kind /\ calls'[c].pair = calls[c].pair
           /\ calls'[c].must = calls[c].must /\ calls'[c].carries = calls[c].carries
    BY DEF Moves, Follows, After
  <1>2. server'.live \subseteq server.live /\ (server'.must = server.must \/ server'.live = {})
    BY DEF Moves
  <1>3. \A c \in Slots : Brings(calls'[c]) =>
           (calls'[c].pair \in server'.live => calls'[c].must = server'.must)
    BY <1>1, <1>2 DEF MustHeld
  <1>4. CASE Kept
    BY <1>1, <1>2, <1>3, <1>4 DEF MustHeld, Kept
  <1>5. CASE Emptied
    BY <1>3, <1>5 DEF MustHeld, Emptied
  <1>6. ASSUME NEW r \in Slots, SignedIn(r) PROVE MustHeld'
    <2>1. /\ Brings(calls[r]) /\ store'.token = calls[r].pair /\ store'.must = calls[r].must
          /\ cookie' = calls[r].pair
      BY <1>6 DEF SignedIn
    <2>2. calls[r].pair \in server.live => calls[r].must = server.must
      BY <2>1 DEF MustHeld
    <2>3. calls[r].pair \notin Exposed
      BY <2>1 DEF FreshPairs
    <2>4. \A c \in Slots : Brings(calls'[c]) => calls'[c].carries # cookie'
      BY <1>1, <2>1, <2>3, ExposedInCalls
    <2> QED BY <1>2, <1>3, <2>1, <2>2, <2>4 DEF MustHeld
  <1> QED BY <1>4, <1>5, <1>6 DEF Moves

LEMMA NoticeMovesOn ==
    ASSUME FreshPairs, NoticeHeld, Moves
    PROVE  NoticeHeld'
  <1>1. store'.token # 0 => store'.token \notin noticed
    <2>1. CASE Kept \/ Emptied
      BY <2>1 DEF Kept, Emptied, NoticeHeld
    <2>2. ASSUME NEW r \in Slots, SignedIn(r) PROVE store'.token \notin noticed
      <3>1. Brings(calls[r]) /\ store'.token = calls[r].pair
        BY <2>2 DEF SignedIn
      <3>2. calls[r].pair \notin Exposed
        BY <3>1 DEF FreshPairs
      <3> QED BY <3>1, <3>2 DEF Exposed
    <2> QED BY <2>1, <2>2 DEF Moves
  <1>2. CASE observed' \in {observed} \cup ({store'.token} \ {0}) /\ noticed' = noticed
             /\ (notified => notified' \/ observed' # observed)
    BY <1>1, <1>2 DEF NoticeHeld
  <1>3. CASE /\ observed' = observed /\ noticed' = noticed \cup {observed} /\ notified'
             /\ store'.token = 0
    BY <1>3 DEF NoticeHeld
  <1>4. CASE observed' = 0 /\ noticed' = {}
    BY <1>4 DEF NoticeHeld
  <1> QED BY <1>2, <1>3, <1>4 DEF Moves, NoticeMoves

LEMMA PairsMove == ASSUME PairsHeld, Moves PROVE PairsHeld'
  BY FreshMoves, MustMoves, NoticeMovesOn DEF PairsHeld

(* The server issues a pair: nobody has seen it, and it says of the        *)
(* password what the session that asked for it says, if that is alive.     *)
LEMMA PairIssued ==
    ASSUME ClientParts, PairsHeld, NEW c \in Slots, calls[c].kind \in {"login", "refresh"},
           calls[c].phase = "sent", NEW s \in ServerState, s.issued = server.issued + 1,
           s.must = server.must, s.live \subseteq server.live \cup {server.issued + 1},
           calls[c].kind = "refresh" => calls[c].carries \in server.live,
           server.issued + 1 \in Pairs, Answer(c, "ok", server.issued + 1, s)
    PROVE  PairsHeld'
  <1> DEFINE n == server.issued + 1
             call == [calls[c] EXCEPT !.phase = "answered", !.ans = "ok", !.pair = n,
                                      !.must = n # 0 /\ s.must,
                                      !.role = IF n # 0 THEN s.role ELSE NoRole]
  <1>1. calls \in [Slots -> Call] /\ calls[c] \in Call /\ server.issued \in Nat
    BY ClientBounds DEF ClientParts, SlotsOK, ServerState, Pairs
  <1>2. calls' = [calls EXCEPT ![c] = call]
    BY <1>1 DEF Answer, Call
  <1>3. s.must \in BOOLEAN /\ n # 0
    BY <1>1 DEF ServerState
  <1>4. /\ call.kind = calls[c].kind /\ call.pair = n /\ call.carries = calls[c].carries
        /\ call.must = s.must
    BY <1>1, <1>3 DEF Call
  <1> HIDE DEF call
  <1>5. calls'[c] = call /\ \A d \in Slots \ {c} : calls'[d] = calls[d]
    BY <1>1, <1>2
  <1>6. server' = s /\ UNCHANGED <<store, observed, notified, noticed, cookie>>
    BY DEF Answer, storeVars
  <1>7. \A d \in Slots : calls'[d].carries = calls[d].carries
    BY <1>4, <1>5
  <1>8. Exposed' = Exposed
    BY <1>6, <1>7 DEF Exposed
  <1>9. n \notin 0..server.issued /\ n \in 1..s.issued /\ 0..server.issued \subseteq 0..s.issued
        /\ 1..server.issued \subseteq 1..s.issued /\ 1..server.issued \subseteq 0..server.issued
        /\ n \in 0..s.issued
    BY <1>1
  <1>10. ~Brings(calls[c])
    BY DEF Brings
  <1> HIDE DEF n
  <1>11. FreshPairs'
    <2>1. Exposed' \subseteq 0..s.issued /\ s.live \subseteq 0..s.issued
      BY <1>8, <1>9 DEF PairsHeld, FreshPairs, n
    <2>2. n \notin Exposed
      BY <1>9 DEF PairsHeld, FreshPairs
    <2>3. \A d \in Slots \ {c} : Brings(calls'[d]) =>
             /\ Brings(calls[d]) /\ calls'[d].pair = calls[d].pair /\ calls[d].pair # n
             /\ calls[d].pair \in 1..s.issued /\ calls[d].pair \notin Exposed
      BY <1>5, <1>9 DEF PairsHeld, FreshPairs
    <2>4. \A d \in Slots : Brings(calls'[d]) =>
             /\ calls'[d].pair \in 1..s.issued /\ calls'[d].pair \notin Exposed
      BY <1>4, <1>5, <1>9, <2>2, <2>3
    <2>5. ASSUME NEW d \in Slots, NEW e \in Slots, Brings(calls'[d]), Brings(calls'[e]),
                 calls'[e].pair = calls'[d].pair
          PROVE  e = d
      <3>1. CASE d = c \/ e = c
        BY <1>4, <1>5, <2>3, <2>5, <3>1
      <3>2. CASE d # c /\ e # c
        BY <2>3, <2>5, <3>2 DEF PairsHeld, FreshPairs
      <3> QED BY <3>1, <3>2
    <2> QED BY <1>6, <1>8, <2>1, <2>4, <2>5 DEF FreshPairs
  <1>12. MustHeld'
    <2>1. \A x \in 0..server.issued : x \in s.live => x \in server.live
      BY <1>9 DEF n
    <2>2. cookie \in 0..server.issued
      BY DEF PairsHeld, FreshPairs, Exposed
    <2>3. store.token # 0 => /\ store.token = cookie
                             /\ cookie \in s.live => store.must = s.must
      BY <2>1, <2>2 DEF PairsHeld, MustHeld
    <2>4. \A d \in Slots \ {c} : Brings(calls[d]) =>
             /\ calls[d].pair \in s.live => calls[d].must = s.must
             /\ calls[d].kind = "refresh" /\ store.token # 0 /\ calls[d].carries = cookie
                   => calls[d].must = store.must
      BY <1>9, <2>1 DEF PairsHeld, MustHeld, FreshPairs
    <2>5. call.kind = "refresh" /\ store.token # 0 /\ call.carries = cookie
             => call.must = store.must
      BY <1>4 DEF PairsHeld, MustHeld
    <2> QED BY <1>4, <1>5, <1>6, <2>3, <2>4, <2>5 DEF MustHeld
  <1>13. NoticeHeld'
    BY <1>6 DEF PairsHeld, NoticeHeld
  <1> QED BY <1>11, <1>12, <1>13 DEF PairsHeld

-----------------------------------------------------------------------------
(* Every step but the issue of a pair moves pairs so.                      *)
Near == {cookie, store.token, cookie'}

LEMMA CallsTyped == ClientParts => calls \in [Slots -> Call] /\ cookie \in Pairs
  BY DEF ClientParts, SlotsOK

LEMMA QuietMoves ==
    ASSUME server' = server, UNCHANGED <<observed, notified, noticed>>,
           Kept \/ Emptied \/ \E r \in Slots : SignedIn(r), Follows(calls, calls', Near)
    PROVE  Moves
  BY DEF Moves, NoticeMoves, Near

LEMMA NotifyMoves ==
    ASSUME NEW cs, cs \in [Slots -> Call], NEW ans, NotifySessionExpiredOnce(cs, ans),
           Follows(calls, cs, Near), server' = server, cookie' = cookie
    PROVE  Moves
  <1> DEFINE ds == TakenDown(cs, ans)
  <1>1. ds \in [Slots -> Call] /\ Follows(cs, ds, Near)
    BY ScreensFollow
  <1>2. CASE notified
    <2>1. calls' = ds /\ UNCHANGED <<store, route, noticed, observed>> /\ notified' = TRUE
      BY <1>2 DEF NotifySessionExpiredOnce
    <2>2. Follows(calls, calls', Near)
      BY <1>1, <2>1, FollowsOn
    <2>3. Kept
      BY <2>1 DEF Kept
    <2>4. NoticeMoves
      BY <2>1 DEF NoticeMoves
    <2> QED BY <2>2, <2>3, <2>4 DEF Moves, Near
  <1>3. CASE ~notified
    <2>1. /\ store' = Cleared /\ observed' = observed /\ noticed' = noticed \cup {observed}
          /\ notified' = TRUE /\ calls' = Disowned(ds, route, "session-expired")
      BY <1>3 DEF NotifySessionExpiredOnce
    <2> HIDE DEF ds
    <2>2. Follows(ds, calls', Near)
      BY <1>1, <2>1, ScreensFollow
    <2>3. Follows(calls, ds, Near)
      BY <1>1, FollowsOn
    <2>4. Follows(calls, calls', Near)
      BY <2>2, <2>3, FollowsOn
    <2>5. Emptied
      BY <2>1 DEF Emptied, Cleared
    <2>6. NoticeMoves
      BY <2>1 DEF NoticeMoves, Cleared
    <2> QED BY <2>4, <2>5, <2>6 DEF Moves, Near
  <1> QED BY <1>2, <1>3

LEMMA HealthMoves ==
    ASSUME ClientParts, NEW l \in LoopSlots, HealthOk(l) \/ HealthFails(l) \/ HealthRetries(l)
    PROVE  Moves
  <1>1. UNCHANGED <<server, observed, notified, noticed, cookie>>
    BY DEF HealthOk, HealthFails, HealthRetries, storeVars
  <1>2. /\ store' = store \/ store' = [store EXCEPT !.status = "checking"]
        /\ calls' = calls \/ calls' = WithRefresh(calls)
    BY DEF HealthOk, HealthFails, HealthRetries, storeVars
  <1>3. Kept
    BY <1>1, <1>2 DEF Kept, ClientParts, ScreenOK, StoreOK
  <1>4. Follows(calls, WithRefresh(calls), {cookie})
    BY RefreshFollows DEF ClientParts
  <1>5. Follows(calls, calls', {cookie})
    BY <1>2, <1>4, FollowsSelf
  <1>6. Follows(calls, calls', Near)
    BY <1>5 DEF Follows, After, Near
  <1> QED BY <1>1, <1>3, <1>6, QuietMoves

LEMMA UserMoves ==
    ASSUME ClientParts, UserActs
    PROVE  Moves
  <1>1. calls \in [Slots -> Call]
    BY CallsTyped
  <1>2. ASSUME NEW to \in Routes, Navigate(to) PROVE Moves
    <2>1. calls' = Disowned(calls, route, route') /\ UNCHANGED <<storeVars, cookie, server>>
      BY <1>2 DEF Navigate
    <2>2. Follows(calls, calls', Near)
      BY <1>1, <2>1, ScreensFollow
    <2> QED BY <2>1, <2>2, QuietMoves DEF Kept, storeVars
  <1>3. ASSUME NEW c \in Calls, NEW kind \in Kinds \ {"none", "refresh"}, NEW own \in BOOLEAN,
               NEW carries \in {0, cookie, store.token}, SendCall(c, kind, carries, own)
        PROVE  Follows(calls, calls', Near) /\ Kept /\ UNCHANGED <<server, store, noticed>>
    <2> DEFINE call == [NoCall EXCEPT !.kind = kind, !.phase = "sent", !.carries = carries,
                                      !.own = own]
    <2>1. carries \in Pairs
      BY ClientBounds DEF ClientParts, ScreenOK, StoreOK, Pairs
    <2>2. call \in Call /\ call.phase = "sent" /\ call.carries = carries
      BY <2>1, NoCallIsCall DEF NoCall, Call, Phases
    <2>3. calls' = [calls EXCEPT ![c] = call]
      BY <1>3 DEF SendCall
    <2> HIDE DEF call
    <2>4. ~Brings(call) /\ call.carries \in {0, calls[c].carries} \cup Near
      BY <1>3, <2>2 DEF Brings, Near
    <2>5. Follows(calls, calls', Near)
      BY <1>1, <2>2, <2>3, <2>4, CallFollows DEF Slots
    <2>6. UNCHANGED <<store, cookie, server, noticed>>
      BY <1>3 DEF SendCall
    <2> QED BY <2>5, <2>6 DEF Kept
  <1>4. ASSUME NEW c \in Calls, BusinessCall(c) \/ SubmitPassword(c) PROVE Moves
    <2>1. \E kind \in Kinds \ {"none", "refresh"}, own \in BOOLEAN :
             SendCall(c, kind, store.token, own)
      BY <1>4 DEF BusinessCall, SubmitPassword, Kinds
    <2>2. Follows(calls, calls', Near) /\ Kept /\ UNCHANGED <<server, store, noticed>>
      BY <1>3, <2>1
    <2>3. Observe(store.token)
      BY <1>4 DEF BusinessCall, SubmitPassword
    <2>4. NoticeMoves
      BY <2>2, <2>3 DEF NoticeMoves, Observe
    <2> QED BY <2>2, <2>4 DEF Moves, Near
  <1>5. ASSUME NEW c \in Calls, SubmitLogin(c) \/ HandleLogout(c) \/ BackToLogin(c)
        PROVE  Moves
    <2>1. \E kind \in Kinds \ {"none", "refresh"}, carries \in {0, cookie, store.token},
             own \in BOOLEAN : SendCall(c, kind, carries, own)
      BY <1>5 DEF SubmitLogin, HandleLogout, BackToLogin, Kinds
    <2>2. Follows(calls, calls', Near) /\ Kept /\ UNCHANGED <<server, store, noticed>>
      BY <1>3, <2>1
    <2>3. UNCHANGED <<notified, observed>>
      BY <1>5 DEF SubmitLogin, HandleLogout, BackToLogin
    <2> QED BY <2>2, <2>3, QuietMoves
  <1>6. CASE ReloadPage
    <2>1. /\ store' = Unchecked /\ observed' = 0 /\ noticed' = {}
          /\ calls' = [c \in Slots |-> NoCall] /\ UNCHANGED <<cookie, server>>
      BY <1>6 DEF ReloadPage
    <2>2. Follows(calls, calls', Near)
      BY <2>1, NoCallBringsNothing DEF Follows
    <2>3. Emptied
      BY <2>1 DEF Emptied, Unchecked
    <2>4. NoticeMoves
      BY <2>1 DEF NoticeMoves
    <2> QED BY <2>1, <2>2, <2>3, <2>4 DEF Moves, Near
  <1> QED BY <1>2, <1>4, <1>5, <1>6 DEF UserActs

(* What the server does without issuing a pair.                            *)
LEMMA QuietServer ==
    ASSUME UNCHANGED <<store, observed, notified, noticed, cookie>>,
           server'.issued = server.issued, server'.live \subseteq server.live,
           server'.must = server.must \/ server'.live = {}, Follows(calls, calls', Near)
    PROVE  Moves
  BY DEF Moves, NoticeMoves, Kept, Near

LEMMA AnswerMoves ==
    ASSUME ClientParts, NEW c \in Slots, NEW ans \in Answers, NEW s \in ServerState,
           ans = "ok" => calls[c].kind \notin {"login", "refresh"},
           s.issued = server.issued, s.live \subseteq server.live,
           s.must = server.must \/ s.live = {}, Answer(c, ans, 0, s)
    PROVE  Moves
  <1> DEFINE call == [calls[c] EXCEPT !.phase = "answered", !.ans = ans, !.pair = 0,
                                      !.must = 0 # 0 /\ s.must,
                                      !.role = IF 0 # 0 THEN s.role ELSE NoRole]
  <1>1. calls \in [Slots -> Call] /\ calls[c] \in Call
    BY CallsTyped
  <1>2. calls' = [calls EXCEPT ![c] = call]
    BY <1>1 DEF Answer, Call
  <1>3. s.must \in BOOLEAN /\ 0 \in Pairs
    BY ClientBounds DEF ServerState, Pairs
  <1>4. /\ call \in Call /\ call.kind = calls[c].kind /\ call.ans = ans
        /\ call.carries = calls[c].carries
    BY <1>1, <1>3 DEF Call, Phases
  <1> HIDE DEF call
  <1>5. ~Brings(call)
    BY <1>4 DEF Brings
  <1>6. Follows(calls, calls', Near)
    BY <1>1, <1>2, <1>4, <1>5, CallFollows
  <1>7. server' = s /\ UNCHANGED <<store, observed, notified, noticed, cookie>>
    BY DEF Answer, storeVars
  <1> QED BY <1>6, <1>7, QuietServer

LEMMA EndedAll ==
    ASSUME NEW s \in ServerState
    PROVE  /\ EverySessionEnded(s) \in ServerState
           /\ EverySessionEnded(s).issued = s.issued /\ EverySessionEnded(s).live = {}
  <1>1. EverySessionEnded(s) \in ServerState
    BY ServerOps
  <1>2. EverySessionEnded(s).issued = s.issued /\ EverySessionEnded(s).live = {}
    BY DEF EverySessionEnded, ServerState
  <1> QED BY <1>1, <1>2

LEMMA ServeHeld ==
    ASSUME ClientParts, PairsHeld, NEW c \in Slots, ServeCall(c)
    PROVE  PairsHeld'
  <1>1. calls[c].phase = "sent" /\ server \in ServerState
    BY DEF ServeCall, ClientParts
  <1>2. calls[c].carries \in Pairs
    BY DEF ClientParts, SlotsOK, Call
  <1>3. ASSUME NEW anss \in SUBSET Answers, RefuseCall(c, anss),
               "ok" \in anss => calls[c].kind = "business"
        PROVE  PairsHeld'
    <2>1. PICK ans \in anss : Answer(c, ans, 0, server)
      BY <1>3 DEF RefuseCall
    <2>2. Moves
      BY <1>1, <1>3, <2>1, AnswerMoves
    <2> QED BY <2>2, PairsMove
  <1>4. ASSUME NEW ans \in Answers, ans = "ok" => calls[c].kind \notin {"login", "refresh"},
               NEW s \in ServerState, Answer(c, ans, 0, s),
               s.issued = server.issued, s.live \subseteq server.live,
               s.must = server.must \/ s.live = {}
        PROVE  PairsHeld'
    BY <1>4, AnswerMoves, PairsMove
  <1>5. ASSUME NEW s \in ServerState, Issuable, Answer(c, "ok", server.issued + 1, s),
               calls[c].kind \in {"login", "refresh"},
               s.issued = server.issued + 1, s.must = server.must,
               s.live \subseteq server.live \cup {server.issued + 1},
               calls[c].kind = "refresh" => calls[c].carries \in server.live
        PROVE  PairsHeld'
    <2>1. server.issued + 1 \in Pairs
      BY <1>1, <1>5, ServerOps DEF Issuable
    <2> QED BY <1>1, <1>5, <2>1, PairIssued
  <1>6. Issuable => /\ Issue(server) \in ServerState /\ Issue(server).issued = server.issued + 1
                    /\ Issue(server).must = server.must
                    /\ Issue(server).live = server.live \cup {server.issued + 1}
    <2>1. Issuable => Issue(server) \in ServerState
      BY <1>1, ServerOps DEF Issuable
    <2> QED BY <1>1, <2>1 DEF Issue, ServerState
  <1>7. CASE EdgeAnswers(c)
    <2>1. RefuseCall(c, {"starting"})
      BY <1>7 DEF EdgeAnswers
    <2> QED BY <1>3, <2>1 DEF Answers
  <1>8. CASE ServeBusiness(c)
    <2> DEFINE anss == IF ~Permitted(c) THEN {"401"}
                       ELSE IF server.must THEN {"failed"} ELSE {"ok", "failed"}
    <2>1. anss \in SUBSET Answers
      BY DEF Answers
    <2>2. RefuseCall(c, anss) /\ calls[c].kind = "business"
      BY <1>8 DEF ServeBusiness
    <2> HIDE DEF anss
    <2> QED BY <1>3, <2>1, <2>2
  <1>9. CASE ServePassword(c)
    <2>1. CASE RefuseCall(c, {"401"}) \/ RefuseCall(c, {"failed"})
      BY <1>3, <2>1 DEF Answers
    <2>2. CASE Answer(c, "ok", 0, [EverySessionEnded(server) EXCEPT !.must = FALSE])
      <3> DEFINE e == EverySessionEnded(server)
                 s == [e EXCEPT !.must = FALSE]
      <3>1. e \in ServerState /\ e.issued = server.issued /\ e.live = {}
        BY <1>1, EndedAll
      <3> HIDE DEF e
      <3>2. s \in ServerState /\ s.issued = server.issued /\ s.live = {}
        BY <3>1 DEF ServerState
      <3>3. calls[c].kind = "password" /\ Answer(c, "ok", 0, s)
        BY <1>9, <2>2 DEF ServePassword, e
      <3> HIDE DEF s
      <3> QED BY <1>4, <3>2, <3>3 DEF Answers
    <2> QED BY <1>9, <2>1, <2>2 DEF ServePassword
  <1>10. CASE ServeLogin(c)
    <2>1. CASE RefuseCall(c, {"failed"})
      BY <1>3, <2>1 DEF Answers
    <2>2. CASE Issuable /\ Answer(c, "ok", server.issued + 1, Issue(server))
      <3>1. calls[c].kind = "login"
        BY <1>10 DEF ServeLogin
      <3> QED BY <1>5, <1>6, <2>2, <3>1
    <2> QED BY <1>10, <2>1, <2>2 DEF ServeLogin
  <1>11. CASE ServeLogout(c)
    <2> DEFINE ended == {calls[c].carries} \cap server.live
               s == [server EXCEPT !.live = @ \ ended, !.rotated = @ \cup ended]
    <2>1. Answer(c, "ok", 0, s) /\ calls[c].kind = "logout"
      BY <1>11 DEF ServeLogout
    <2>2. ended \subseteq Pairs
      BY <1>2
    <2> HIDE DEF ended
    <2>3. s \in ServerState /\ s.issued = server.issued /\ s.live \subseteq server.live
          /\ s.must = server.must
      BY <1>1, <2>2 DEF ServerState
    <2> HIDE DEF s
    <2> QED BY <1>4, <2>1, <2>3 DEF Answers
  <1>12. CASE ServeRefresh(c)
    <2> DEFINE t == calls[c].carries
               s == RefreshAt(server, t)
    <2>1. CASE t \notin server.live
      <3>1. Answer(c, "401", 0, s)
        BY <1>12, <2>1 DEF ServeRefresh
      <3>2. s \in ServerState
        BY <1>1, <1>2, <2>1, ServerOps
      <3>3. s = server \/ s = [server EXCEPT !.live = {}]
        BY <2>1 DEF RefreshAt
      <3> HIDE DEF s
      <3>4. s.issued = server.issued /\ s.live \subseteq server.live /\ s.must = server.must
        BY <1>1, <3>3 DEF ServerState
      <3> QED BY <1>4, <3>1, <3>2, <3>4 DEF Answers
    <2>2. CASE t \in server.live /\ Issuable
      <3>1. Answer(c, "ok", server.issued + 1, s) /\ calls[c].kind = "refresh"
        BY <1>12, <2>2 DEF ServeRefresh
      <3>2. s \in ServerState
        BY <1>1, <1>2, <2>2, ServerOps DEF Issuable
      <3> DEFINE i == Issue(server)
      <3>3. s = [i EXCEPT !.live = @ \ {t}, !.rotated = @ \cup {t}] /\ i \in ServerState
        BY <1>6, <2>2 DEF RefreshAt
      <3> HIDE DEF i, s
      <3>4. s.issued = i.issued /\ s.live \subseteq i.live /\ s.must = i.must
        BY <3>3 DEF ServerState
      <3> QED BY <1>5, <1>6, <2>2, <3>1, <3>2, <3>4 DEF i
    <2>3. CASE t \in server.live /\ ~Issuable
      <3>1. RefuseCall(c, {"failed"})
        BY <1>12, <2>3 DEF ServeRefresh
      <3> QED BY <1>3, <3>1 DEF Answers
    <2> QED BY <2>1, <2>2, <2>3
  <1> QED BY <1>7, <1>8, <1>9, <1>10, <1>11, <1>12 DEF ServeCall

LEMMA ServerHeld ==
    ASSUME ClientParts, PairsHeld, ServerActs
    PROVE  PairsHeld'
  <1>1. calls \in [Slots -> Call] /\ server \in ServerState
    BY CallsTyped DEF ClientParts
  <1>2. ASSUME NEW c \in Slots, Lose(c) PROVE PairsHeld'
    <2> DEFINE call == [calls[c] EXCEPT !.phase = "answered", !.ans = "failed"]
    <2>1. calls' = [calls EXCEPT ![c] = call] /\ server' = server
          /\ UNCHANGED <<store, observed, notified, noticed, cookie>>
      BY <1>1, <1>2 DEF Lose, Call, storeVars
    <2>2. call \in Call /\ call.ans = "failed" /\ call.carries = calls[c].carries
      BY <1>1 DEF Call, Phases, Answers
    <2> HIDE DEF call
    <2>3. Follows(calls, calls', Near)
      BY <1>1, <2>1, <2>2, CallFollows DEF Brings
    <2> QED BY <2>1, <2>3, QuietServer, PairsMove
  <1>3. CASE (\E t \in 1..MaxPairs : AccessExpires(t)) \/ Reissued \/ RoleChanged \/ Sleeps \/ Wakes
    <2>1. UNCHANGED <<store, observed, notified, noticed, calls, cookie>>
      BY <1>3 DEF AccessExpires, Reissued, RoleChanged, Sleeps, Wakes, storeVars
    <2>2. /\ server'.issued = server.issued /\ server'.live \subseteq server.live
          /\ server'.must = server.must \/ server'.live = {}
      <3>1. CASE Reissued
        <4> DEFINE e == EverySessionEnded(server)
        <4>1. e \in ServerState /\ e.issued = server.issued /\ e.live = {}
          BY <1>1, EndedAll
        <4>2. server' = [e EXCEPT !.must = TRUE]
          BY <3>1 DEF Reissued
        <4> HIDE DEF e
        <4> QED BY <4>1, <4>2 DEF ServerState
      <3>2. CASE (\E t \in 1..MaxPairs : AccessExpires(t)) \/ RoleChanged \/ Sleeps \/ Wakes
        BY <1>1, <3>2 DEF AccessExpires, RoleChanged, Sleeps, Wakes, ServerState
      <3> QED BY <1>3, <3>1, <3>2
    <2>3. Follows(calls, calls', Near)
      BY <2>1, FollowsSelf
    <2> QED BY <2>1, <2>2, <2>3, QuietServer, PairsMove
  <1> QED BY <1>2, <1>3, ServeHeld DEF ServerActs

LEMMA DeliverMoves ==
    ASSUME ClientParts, NEW c \in Calls, Deliver(c)
    PROVE  Moves
  <1>1. server' = server
    BY DEF Deliver, AnswerOk, Refused, Unauthorized, RetryFailed, PasswordChanged, LoggedIn,
           LoginFailed, LoggedOut
  <1> DEFINE cs == Settled(c)
             ds == TakenDown(cs, calls[c].ans)
  <1>2. /\ calls \in [Slots -> Call] /\ calls[c] \in Call
        /\ Follows(calls, cs, Near) /\ cs \in [Slots -> Call] /\ ~Brings(cs[c])
    BY CallsTyped, SettledFollows DEF Slots
  <1>3. Follows(calls, ds, Near) /\ ds \in [Slots -> Call]
    <2>1. Follows(cs, ds, Near) /\ ds \in [Slots -> Call]
      BY <1>2, ScreensFollow
    <2> QED BY <1>2, <2>1, FollowsOn
  <1> HIDE DEF cs, ds
  <1>4. CASE AnswerOk(c)
    <2>1. calls' = cs /\ UNCHANGED <<storeVars, cookie>>
      BY <1>4 DEF AnswerOk, cs
    <2> QED BY <1>1, <1>2, <2>1, QuietMoves DEF Kept, storeVars
  <1>5. CASE Refused(c) \/ LoginFailed(c)
    <2>1. calls' = ds /\ UNCHANGED <<storeVars, cookie>>
      BY <1>5 DEF Refused, LoginFailed, ds, cs
    <2> QED BY <1>1, <1>3, <2>1, QuietMoves DEF Kept, storeVars
  <1>6. CASE Unauthorized(c)
    <2> DEFINE call == [calls[c] EXCEPT !.phase = "waiting", !.ans = "none", !.retried = TRUE]
               es == [calls EXCEPT ![c] = call]
    <2>1. calls' = WithRefresh(es) /\ UNCHANGED <<store, notified, observed, noticed, cookie>>
      <3>1. [calls EXCEPT ![c].phase = "waiting", ![c].ans = "none", ![c].retried = TRUE] = es
        BY <1>2 DEF Call
      <3> QED BY <1>6, <3>1 DEF Unauthorized
    <2>2. /\ call \in Call /\ call.kind = calls[c].kind /\ call.ans = "none"
          /\ call.carries = calls[c].carries /\ calls[c].kind # "refresh"
      BY <1>2 DEF Call, Phases, Answers, ClientParts, SlotsOK
    <2> HIDE DEF call
    <2>3. SlotsOK(es, refreshing)
      BY <2>2, ScreenCallOK DEF ClientParts
    <2>4. Follows(calls, es, Near) /\ es \in [Slots -> Call]
      BY <1>2, <2>2, CallFollows DEF Brings, Slots
    <2> HIDE DEF es
    <2>5. Follows(es, WithRefresh(es), {cookie})
      BY <2>3, RefreshFollows DEF ClientParts
    <2>6. Follows(es, WithRefresh(es), Near)
      BY <2>5 DEF Follows, After, Near
    <2>7. Follows(calls, calls', Near)
      BY <2>1, <2>4, <2>6, FollowsOn
    <2> QED BY <1>1, <2>1, <2>7, QuietMoves DEF Kept
  <1>7. CASE RetryFailed(c)
    <2>1. NotifySessionExpiredOnce(cs, calls[c].ans) /\ cookie' = cookie
      BY <1>7 DEF RetryFailed, cs
    <2> QED BY <1>1, <1>2, <2>1, NotifyMoves
  <1>8. CASE PasswordChanged(c)
    <2>1. /\ cookie' = 0 /\ store' = Cleared /\ calls' = Disowned(cs, route, route')
          /\ UNCHANGED <<notified, observed, noticed>>
      BY <1>8 DEF PasswordChanged, cs
    <2>2. Follows(cs, calls', Near)
      BY <1>2, <2>1, ScreensFollow
    <2>3. Follows(calls, calls', Near)
      BY <1>2, <2>2, FollowsOn
    <2> QED BY <1>1, <2>1, <2>3, QuietMoves DEF Emptied, Cleared
  <1>9. CASE LoggedIn(c)
    <2>1. /\ cookie' = calls[c].pair /\ store' = Applied(c) /\ calls' = Disowned(cs, route, route')
          /\ UNCHANGED <<notified, observed, noticed>> /\ Brings(calls[c])
      BY <1>9 DEF LoggedIn, cs, Brings, Delivered
    <2>2. Follows(cs, calls', Near)
      BY <1>2, <2>1, ScreensFollow
    <2>3. Follows(calls, calls', Near) /\ ~Brings(calls'[c])
      BY <1>2, <2>2, FollowsOn DEF Follows, After, Slots
    <2>4. SignedIn(c)
      BY <2>1, <2>3 DEF SignedIn, Applied
    <2> QED BY <1>1, <2>1, <2>3, <2>4, QuietMoves DEF Slots
  <1>10. CASE LoggedOut(c)
    <2>1. /\ cookie' \in {0, cookie} /\ store' = Cleared /\ calls' = Disowned(ds, route, route')
          /\ UNCHANGED <<notified, observed, noticed>>
      BY <1>10 DEF LoggedOut, ds, cs
    <2>2. Follows(ds, calls', Near)
      BY <1>3, <2>1, ScreensFollow
    <2>3. Follows(calls, calls', Near)
      BY <1>3, <2>2, FollowsOn
    <2> QED BY <1>1, <2>1, <2>3, QuietMoves DEF Emptied, Cleared
  <1> QED BY <1>4, <1>5, <1>6, <1>7, <1>8, <1>9, <1>10 DEF Deliver

LEMMA SettleMoves ==
    ASSUME ClientParts, NEW r \in RefreshSlots, Settle(r)
    PROVE  Moves
  <1>1. calls[r].kind = "refresh" /\ calls[r].phase = "answered" /\ server' = server
    BY DEF Settle, Refreshed, RefreshFailed, Delivered
  <1> DEFINE cs == Settled(r)
  <1>2. /\ calls \in [Slots -> Call] /\ calls[r] \in Call
        /\ Follows(calls, cs, Near) /\ cs \in [Slots -> Call] /\ ~Brings(cs[r])
    BY CallsTyped, SettledFollows DEF Slots
  <1> HIDE DEF cs
  <1>3. CASE Refreshed(r)
    <2> DEFINE t == calls[r].pair
    <2>1. /\ cookie' = t /\ store' = Applied(r) /\ calls' = Resent(cs, t)
          /\ calls[r].ans = "ok" /\ noticed' = noticed
      BY <1>3 DEF Refreshed, cs
    <2>2. t \in Pairs /\ t # 0
      BY <1>1, <1>2, <2>1 DEF Call, ClientParts, SlotsOK, Slots
    <2>3. Follows(cs, calls', {t})
      BY <1>2, <2>1, <2>2, WaitersFollow
    <2>4. Follows(cs, calls', Near)
      BY <2>1, <2>3 DEF Follows, After, Near
    <2>5. Follows(calls, calls', Near) /\ ~Brings(calls'[r])
      BY <1>2, <2>4, FollowsOn DEF Follows, After, Slots
    <2>6. SignedIn(r)
      BY <1>1, <2>1, <2>5 DEF SignedIn, Applied, Brings
    <2>7. NoticeMoves
      <3>1. CASE Waiting = {}
        BY <1>3, <2>1, <3>1 DEF Refreshed, NoticeMoves
      <3>2. CASE Waiting # {}
        <4>1. Observe(t) /\ store'.token = t
          BY <1>3, <2>1, <3>2 DEF Refreshed, Applied
        <4> HIDE DEF t
        <4>2. observed' = t /\ (notified => notified' \/ observed' # observed)
          BY <2>2, <4>1 DEF Observe
        <4> QED BY <2>1, <2>2, <4>1, <4>2 DEF NoticeMoves
      <3> QED BY <3>1, <3>2
    <2> QED BY <1>1, <2>5, <2>6, <2>7 DEF Moves, Near, Slots
  <1>4. CASE RefreshFailed(r)
    <2>1. cookie' = cookie
      BY <1>4 DEF RefreshFailed
    <2>2. CASE boot = "restoring" \/ Waiting = {}
      <3>1. /\ store' \in {Cleared, store} /\ calls' = TakenDown(cs, calls[r].ans)
            /\ UNCHANGED <<notified, observed, noticed>>
        BY <1>4, <2>2 DEF RefreshFailed, cs
      <3>2. Follows(cs, calls', Near)
        BY <1>2, <3>1, ScreensFollow
      <3>3. Follows(calls, calls', Near)
        BY <1>2, <3>2, FollowsOn
      <3> QED BY <1>1, <2>1, <3>1, <3>3, QuietMoves DEF Kept, Emptied, Cleared
    <2>3. CASE ~(boot = "restoring" \/ Waiting = {})
      <3> DEFINE es == GivenUp(cs)
      <3>1. NotifySessionExpiredOnce(es, calls[r].ans)
        BY <1>4, <2>3 DEF RefreshFailed, cs
      <3>2. Follows(cs, es, {}) /\ es \in [Slots -> Call]
        BY <1>2, ClientBounds, WaitersFollow DEF ClientParts
      <3>3. Follows(cs, es, Near)
        BY <3>2 DEF Follows, After
      <3> HIDE DEF es
      <3>4. Follows(calls, es, Near)
        BY <1>2, <3>3, FollowsOn
      <3> QED BY <1>1, <2>1, <3>1, <3>2, <3>4, NotifyMoves
    <2> QED BY <2>2, <2>3
  <1> QED BY <1>3, <1>4 DEF Settle

LEMMA PairsInit == ClientInit => PairsHeld
  <1> SUFFICES ASSUME ClientInit PROVE PairsHeld
    OBVIOUS
  <1>1. /\ store.token = 0 /\ observed = 0 /\ noticed = {} /\ notified = FALSE
        /\ \A c \in Slots : calls[c] = NoCall
    BY DEF ClientInit, Unchecked
  <1>2. cookie \in {0, 1} /\ server.issued = cookie /\ server.live \subseteq {cookie}
    BY DEF ClientInit
  <1>3. \A c \in Slots : ~Brings(calls[c]) /\ calls[c].carries = 0
    BY <1>1 DEF Brings, NoCall
  <1>4. FreshPairs
    BY <1>1, <1>2, <1>3 DEF FreshPairs, Exposed
  <1> QED BY <1>1, <1>3, <1>4 DEF PairsHeld, MustHeld, NoticeHeld

HeldInv == AllClientInv /\ PairsHeld

LEMMA HeldNext == HeldInv /\ [ClientNext]_clientVars => HeldInv'
  <1> SUFFICES ASSUME HeldInv, [ClientNext]_clientVars PROVE PairsHeld'
    BY NextInv DEF HeldInv
  <1>1. ClientParts /\ PairsHeld
    BY PartsOfInv DEF HeldInv
  <1>2. CASE UNCHANGED clientVars
    BY <1>1, <1>2 DEF clientVars, storeVars, PairsHeld, FreshPairs, Exposed, MustHeld, NoticeHeld
  <1>3. CASE ServerActs
    BY <1>1, <1>3, ServerHeld
  <1>4. CASE ClientNext /\ ~ServerActs
    <2>1. Moves
      BY <1>1, <1>4, HealthMoves, UserMoves, DeliverMoves, SettleMoves DEF ClientNext
    <2> QED BY <1>1, <2>1, PairsMove
  <1> QED BY <1>2, <1>3, <1>4

LEMMA HeldInvAlways == ClientSpec => []HeldInv
  <1>1. ClientInit => HeldInv
    BY InitInv, PairsInit DEF HeldInv
  <1> QED BY <1>1, HeldNext, PTL DEF ClientSpec

-----------------------------------------------------------------------------
(* A token whose expiry is announced was not announced before, and the     *)
(* notice comes from a failed refresh or a failed retry.                   *)
LEMMA NoticeShows ==
    ASSUME NoticeHeld, NEW cs, NEW ans, NotifySessionExpiredOnce(cs, ans), route' # route
    PROVE  observed \notin noticed
  BY DEF NoticeHeld, NotifySessionExpiredOnce

(* What the server does changes neither the store nor the screen.          *)
LEMMA ServerOffScreen == ASSUME ServerActs PROVE store' = store /\ route' = route
  <1>1. ASSUME NEW c, NEW ans, NEW pair, NEW s, Answer(c, ans, pair, s)
        PROVE  store' = store /\ route' = route
    BY <1>1 DEF Answer, storeVars
  <1>2. ASSUME NEW c, NEW anss, RefuseCall(c, anss) PROVE store' = store /\ route' = route
    BY <1>1, <1>2 DEF RefuseCall
  <1>3. ASSUME NEW c \in Slots, ServeCall(c) PROVE store' = store /\ route' = route
    <2>1. CASE EdgeAnswers(c) \/ ServeBusiness(c)
      BY <1>2, <2>1 DEF EdgeAnswers, ServeBusiness
    <2>2. CASE ServePassword(c) \/ ServeLogin(c)
      BY <1>1, <1>2, <2>2 DEF ServePassword, ServeLogin
    <2>3. CASE ServeLogout(c) \/ ServeRefresh(c)
      BY <1>1, <1>2, <2>3 DEF ServeLogout, ServeRefresh
    <2> QED BY <1>3, <2>1, <2>2, <2>3 DEF ServeCall
  <1>4. ASSUME (\E c \in Slots : Lose(c)) \/ (\E t \in 1..MaxPairs : AccessExpires(t))
               \/ Reissued \/ RoleChanged \/ Sleeps \/ Wakes
        PROVE  store' = store /\ route' = route
    BY <1>4 DEF Lose, AccessExpires, Reissued, RoleChanged, Sleeps, Wakes, storeVars
  <1> QED BY <1>3, <1>4 DEF ServerActs

LEMMA GuardNeverExpires ==
    ASSUME NEW to, to # "session-expired", NEW s
    PROVE  Guarded(to, s) # "session-expired"
  BY DEF Guarded

LEMMA ExpiresStep ==
    ASSUME ClientParts, NoticeHeld, ClientNext, Expires
    PROVE  /\ observed \notin noticed
           /\ \E c \in Slots : /\ Delivered(c) /\ calls[c].ans # "ok"
                               /\ (calls[c].kind = "refresh" \/ calls[c].retried)
  <1>1. boot = "done" /\ route' = "session-expired" /\ route # "session-expired"
    BY DEF Expires
  <1>2. ASSUME NEW l \in LoopSlots, HealthOk(l) \/ HealthFails(l) \/ HealthRetries(l)
        PROVE  FALSE
    BY <1>1, <1>2 DEF HealthOk, HealthFails, HealthRetries
  <1>3. CASE UserActs
    <2>1. ASSUME NEW to \in Routes, Navigate(to) PROVE FALSE
      <3>1. to \in Links /\ route' = Guarded(to, store)
        BY <2>1 DEF Navigate
      <3>2. route \in Inner \/ route \notin Inner \cup {"session-expired"}
        BY <1>1
      <3>3. to # "session-expired"
        BY <1>1, <3>1, <3>2 DEF Links
      <3> QED BY <1>1, <3>1, <3>3, GuardNeverExpires
    <2>2. ASSUME NEW c \in Calls, BusinessCall(c) \/ SubmitLogin(c) \/ SubmitPassword(c)
                                  \/ HandleLogout(c) \/ BackToLogin(c)
          PROVE  FALSE
      BY <1>1, <2>2 DEF BusinessCall, SubmitLogin, SubmitPassword, HandleLogout, BackToLogin,
                        SendCall
    <2>3. CASE ReloadPage
      BY <1>1, <2>3 DEF ReloadPage
    <2> QED BY <1>3, <2>1, <2>2, <2>3 DEF UserActs
  <1>4. CASE ServerActs
    <2>1. route' = route
      BY <1>4, ServerOffScreen
    <2> QED BY <1>1, <2>1
  <1>5. ASSUME NEW c \in Calls, Deliver(c)
        PROVE  /\ observed \notin noticed
               /\ Delivered(c) /\ calls[c].ans # "ok" /\ calls[c].retried
    <2>1. CASE AnswerOk(c) \/ Refused(c) \/ Unauthorized(c) \/ LoginFailed(c)
      BY <1>1, <2>1 DEF AnswerOk, Refused, Unauthorized, LoginFailed
    <2>2. CASE PasswordChanged(c) \/ LoggedIn(c) \/ LoggedOut(c)
      <3>1. \E to \in {"login", "initial-password-change", "home", "users"} :
               route' = Guarded(to, store')
        BY <2>2 DEF PasswordChanged, LoggedIn, LoggedOut
      <3> QED BY <1>1, <3>1, GuardNeverExpires
    <2>3. CASE RetryFailed(c)
      <3>1. /\ Delivered(c) /\ calls[c].ans # "ok" /\ calls[c].retried
            /\ NotifySessionExpiredOnce(Settled(c), calls[c].ans)
        BY <2>3 DEF RetryFailed
      <3> QED BY <1>1, <3>1, NoticeShows
    <2> QED BY <1>5, <2>1, <2>2, <2>3 DEF Deliver
  <1>6. ASSUME NEW r \in RefreshSlots, Settle(r)
        PROVE  /\ observed \notin noticed
               /\ Delivered(r) /\ calls[r].ans # "ok" /\ calls[r].kind = "refresh"
    <2>1. ~FirstNavigation
      BY <1>1 DEF FirstNavigation
    <2>2. RefreshFailed(r) /\ ~(boot = "restoring" \/ Waiting = {})
      BY <1>6, <2>1 DEF Settle, Refreshed, RefreshFailed
    <2>3. /\ Delivered(r) /\ calls[r].ans # "ok" /\ calls[r].kind = "refresh"
          /\ NotifySessionExpiredOnce(GivenUp(Settled(r)), calls[r].ans)
      BY <2>2 DEF RefreshFailed
    <2> QED BY <1>1, <2>3, NoticeShows
  <1> QED BY <1>2, <1>3, <1>4, <1>5, <1>6 DEF ClientNext, Slots

(* For any number of calls, tokens and losses: the user is sent to the     *)
(* expiry screen once per access token, and only by a failed refresh or a  *)
(* failed retry.                                                           *)
THEOREM ExpiresOnceAlways == ClientSpec => ExpiresOnce
  <1>1. HeldInv /\ [ClientNext]_clientVars =>
           [Expires => /\ observed \notin noticed
                       /\ \E c \in Slots : /\ Delivered(c) /\ calls[c].ans # "ok"
                                           /\ (calls[c].kind = "refresh" \/ calls[c].retried)
           ]_clientVars
    BY ExpiresStep, PartsOfInv DEF HeldInv, PairsHeld
  <1> QED BY <1>1, HeldInvAlways, PTL DEF ClientSpec, ExpiresOnce
-----------------------------------------------------------------------------
(* How the screen and the session under it move: neither does, the router's*)
(* guard chose the screen, the session is over, or a refresh has replaced  *)
(* it under the screen that is up.                                         *)
ScreenMoves ==
    \/ route' = route /\ store' = store
    \/ \E to \in Routes : route' = Guarded(to, store')
    \/ ~IsAuthenticated(store')
    \/ \E r \in RefreshSlots : Refreshed(r) /\ route' = route

LEMMA ScreenStep == ASSUME ClientParts, ClientNext PROVE ScreenMoves
  <1>1. ASSUME NEW l \in LoopSlots, HealthOk(l) \/ HealthFails(l) \/ HealthRetries(l)
        PROVE  ScreenMoves
    <2>1. route' = route /\ (store' = store \/ store' = [store EXCEPT !.status = "checking"])
      BY <1>1 DEF HealthOk, HealthFails, HealthRetries, storeVars
    <2>2. ~IsAuthenticated([store EXCEPT !.status = "checking"])
      BY DEF ClientParts, ScreenOK, StoreOK, IsAuthenticated
    <2> QED BY <2>1, <2>2 DEF ScreenMoves
  <1>2. CASE UserActs
    <2>1. ASSUME NEW to \in Routes, Navigate(to) PROVE ScreenMoves
      BY <2>1 DEF Navigate, storeVars, ScreenMoves
    <2>2. ASSUME NEW c \in Calls, BusinessCall(c) \/ SubmitLogin(c) \/ SubmitPassword(c)
                                  \/ HandleLogout(c) \/ BackToLogin(c)
          PROVE  ScreenMoves
      BY <2>2 DEF BusinessCall, SubmitLogin, SubmitPassword, HandleLogout, BackToLogin, SendCall,
                  ScreenMoves
    <2>3. ASSUME ReloadPage PROVE ScreenMoves
      BY <2>3 DEF ReloadPage, Unchecked, IsAuthenticated, ScreenMoves
    <2> QED BY <1>2, <2>1, <2>2, <2>3 DEF UserActs
  <1>3. CASE ServerActs
    BY <1>3, ServerOffScreen DEF ScreenMoves
  <1>4. ASSUME NEW cs, NEW ans, NotifySessionExpiredOnce(cs, ans)
        PROVE  ScreenMoves
    BY <1>4, ClearedOK DEF NotifySessionExpiredOnce, ScreenMoves
  <1>5. ASSUME NEW c \in Calls, Deliver(c) PROVE ScreenMoves
    <2>1. CASE AnswerOk(c) \/ Refused(c) \/ Unauthorized(c) \/ LoginFailed(c)
      BY <2>1 DEF AnswerOk, Refused, Unauthorized, LoginFailed, storeVars, ScreenMoves
    <2>2. CASE PasswordChanged(c) \/ LoggedIn(c) \/ LoggedOut(c)
      <3>1. \E to \in {"login", "initial-password-change", "home", "users"} :
               route' = Guarded(to, store')
        BY <2>2 DEF PasswordChanged, LoggedIn, LoggedOut
      <3> QED BY <3>1 DEF ScreenMoves, Routes, Inner
    <2>3. CASE RetryFailed(c)
      BY <1>4, <2>3 DEF RetryFailed
    <2> QED BY <1>5, <2>1, <2>2, <2>3 DEF Deliver
  <1>6. ASSUME NEW r \in RefreshSlots, Settle(r) PROVE ScreenMoves
    <2>1. FirstNavigation => route' = route \/ \E to \in Routes : route' = Guarded(to, store')
      BY DEF FirstNavigation
    <2>2. CASE Refreshed(r)
      BY <2>1, <2>2 DEF Refreshed, ScreenMoves
    <2>3. CASE RefreshFailed(r)
      <3>1. CASE boot = "restoring" \/ Waiting = {}
        <4>1. FirstNavigation /\ (store' = Cleared \/ store' = store)
          BY <2>3, <3>1 DEF RefreshFailed
        <4> QED BY <2>1, <4>1, ClearedOK DEF ScreenMoves
      <3>2. CASE ~(boot = "restoring" \/ Waiting = {})
        BY <1>4, <2>3, <3>2 DEF RefreshFailed
      <3> QED BY <3>1, <3>2
    <2> QED BY <1>6, <2>2, <2>3 DEF Settle
  <1> QED BY <1>1, <1>2, <1>3, <1>5, <1>6 DEF ClientNext

(* An answer that has settled is not delivered any more.                   *)
LEMMA RefreshedOnce ==
    ASSUME ClientParts, NEW r \in RefreshSlots, Refreshed(r)
    PROVE  ~(Delivered(r))'
  <1>1. calls' = Resent(Settled(r), calls[r].pair) /\ calls[r].phase = "answered"
    BY DEF Refreshed, Delivered
  <1>2. calls \in [Slots -> Call] /\ r \in Slots
    BY CallsTyped DEF Slots
  <1>3. Settled(r)[r] = NoCall /\ r \notin Waiting
    BY <1>1, <1>2, SlotsAssumption DEF Settled, Waiting
  <1> DEFINE cs == Settled(r)
             t  == calls[r].pair
  <1> HIDE DEF cs, t
  <1>4. calls'[r] = NoCall
    <2>1. calls' = Resent(cs, t)
      BY <1>1 DEF cs, t
    <2>2. Resent(cs, t)[r] = IF r \in Waiting THEN Again(cs[r], t) ELSE cs[r]
      BY <1>2 DEF Resent, Again
    <2> QED BY <1>3, <2>1, <2>2 DEF cs
  <1> QED BY <1>4 DEF Delivered, NoCall

-----------------------------------------------------------------------------
(* A user who must change the password is kept to the screen for it.       *)
LEMMA GuardKeepsToPassword ==
    ASSUME NEW to, NEW s, IsAuthenticated(s), s.must
    PROVE  Guarded(to, s) \notin Inner
  BY DEF Guarded, Inner

LEMMA PasswordStep ==
    ASSUME ClientParts, PairsHeld, ClientNext, WorksUnchanged'
    PROVE  /\ route' = route
           /\ WorksUnchanged \/ \E r \in RefreshSlots : LateRefresh(r) /\ ~(Delivered(r))'
  <1>1. IsAuthenticated(store') /\ store'.must /\ route' \in Inner
    BY DEF WorksUnchanged
  <1>2. CASE route' = route /\ store' = store
    BY <1>1, <1>2 DEF WorksUnchanged
  <1>3. ASSUME NEW to \in Routes, route' = Guarded(to, store') PROVE FALSE
    BY <1>1, <1>3, GuardKeepsToPassword
  <1>4. ASSUME NEW r \in RefreshSlots, Refreshed(r), route' = route
        PROVE  WorksUnchanged \/ (LateRefresh(r) /\ ~(Delivered(r))')
    <2>1. /\ calls[r].kind = "refresh" /\ Delivered(r) /\ calls[r].ans = "ok"
          /\ store' = Applied(r)
      BY <1>4 DEF Refreshed
    <2>2. IsAuthenticated(store)
      BY <1>1, <1>4 DEF ClientParts, ScreenOK, RequiresAuth
    <2>3. store.token # 0 /\ Brings(calls[r]) /\ r \in Slots
      BY <2>1, <2>2 DEF IsAuthenticated, Brings, Delivered, Slots
    <2>4. CASE calls[r].carries = cookie
      <3>1. calls[r].must = store.must
        BY <2>1, <2>3, <2>4 DEF PairsHeld, MustHeld
      <3>2. store'.must = calls[r].must
        BY <2>1 DEF Applied
      <3> QED BY <1>1, <1>4, <2>2, <3>1, <3>2 DEF WorksUnchanged
    <2>5. CASE calls[r].carries # cookie
      BY <1>4, <2>1, <2>5, RefreshedOnce DEF LateRefresh
    <2> QED BY <2>4, <2>5
  <1> QED BY <1>1, <1>2, <1>3, <1>4, ScreenStep DEF ScreenMoves

(* For any number of calls, tokens and losses: who must change the         *)
(* password is led to no inner screen, and only the late answer to a       *)
(* refresh of an earlier session puts such a session under one.            *)
THEOREM PasswordFirstAlways == ClientSpec => PasswordFirst
  <1>1. HeldInv /\ [ClientNext]_clientVars =>
           [WorksUnchanged' =>
               /\ route' = route
               /\ WorksUnchanged \/ \E r \in RefreshSlots : LateRefresh(r) /\ ~(Delivered(r))'
           ]_clientVars
    BY PasswordStep, PartsOfInv DEF HeldInv
  <1> QED BY <1>1, HeldInvAlways, PTL DEF ClientSpec, PasswordFirst
-----------------------------------------------------------------------------
(* The router leads nobody to a screen that the role does not allow.       *)
LEMMA GuardKeepsToRole ==
    ASSUME NEW to \in Routes, NEW s, StoreOK(s), IsAuthenticated(s)
    PROVE  s.role \in AllowedRoles(Guarded(to, s))
  BY DEF Guarded, AllowedRoles, StoreOK, Roles

(* A role that a screen does not allow came to it with a refresh.          *)
LEMMA RoleStep ==
    ASSUME ClientParts, ClientParts', ClientNext, ExceedsRole'
    PROVE  /\ route' = route
           /\ ExceedsRole \/ \E r \in RefreshSlots : ChangesRole(r) /\ ~(Delivered(r))'
  <1>1. IsAuthenticated(store') /\ store'.role \notin AllowedRoles(route') /\ StoreOK(store')
    BY DEF ExceedsRole, ClientParts, ScreenOK
  <1>2. CASE route' = route /\ store' = store
    BY <1>1, <1>2 DEF ExceedsRole
  <1>3. ASSUME NEW to \in Routes, route' = Guarded(to, store') PROVE FALSE
    BY <1>1, <1>3, GuardKeepsToRole
  <1>4. ASSUME NEW r \in RefreshSlots, Refreshed(r), route' = route
        PROVE  ExceedsRole \/ (ChangesRole(r) /\ ~(Delivered(r))')
    <2>1. /\ calls[r].kind = "refresh" /\ Delivered(r) /\ calls[r].ans = "ok"
          /\ store'.role = calls[r].role
      BY <1>4 DEF Refreshed, Applied
    <2>2. route = "users"
      BY <1>1, <1>4 DEF AllowedRoles, StoreOK
    <2>3. IsAuthenticated(store)
      BY <2>2 DEF ClientParts, ScreenOK, RequiresAuth, Inner
    <2>4. CASE calls[r].role = store.role
      BY <1>1, <1>4, <2>1, <2>3, <2>4 DEF ExceedsRole
    <2>5. CASE calls[r].role # store.role
      BY <1>4, <2>1, <2>5, RefreshedOnce DEF ChangesRole
    <2> QED BY <2>4, <2>5
  <1> QED BY <1>1, <1>2, <1>3, <1>4, ScreenStep DEF ScreenMoves

(* For any number of calls, tokens, losses and changes of the role: no     *)
(* screen of a signed-in user outlives the session, and a screen that the  *)
(* user's role does not allow was not led to: it was up when a refresh     *)
(* brought the changed role.                                               *)
THEOREM ScreensHaveSessionAlways == ClientSpec => ScreensHaveSession
  <1>1. AllClientInv /\ [ClientNext]_clientVars =>
           [/\ HasSession'
            /\ ExceedsRole' =>
                  /\ route' = route
                  /\ ExceedsRole \/ \E r \in RefreshSlots : ChangesRole(r) /\ ~(Delivered(r))'
           ]_clientVars
    <2> SUFFICES ASSUME ClientParts, ClientNext
                 PROVE  /\ HasSession'
                        /\ ExceedsRole' =>
                              /\ route' = route
                              /\ ExceedsRole \/ \E r \in RefreshSlots :
                                                   ChangesRole(r) /\ ~(Delivered(r))'
      BY PartsOfInv
    <2>1. ClientParts'
      BY HealthStep, UserStep, ServerStep, DeliverStep, SettleStep DEF ClientNext
    <2>2. HasSession'
      BY <2>1 DEF ClientParts, ScreenOK, HasSession
    <2> QED BY <2>1, <2>2, RoleStep
  <1> QED BY <1>1, AllClientInvAlways, PTL DEF ClientSpec, ScreensHaveSession

=============================================================================
