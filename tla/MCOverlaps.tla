---------------------------- MODULE MCOverlaps -----------------------------
(* Two small instances of DailyChecklists in one run, chosen by part: in   *)
(* "entries" three clients save values, replace and delete one full-day    *)
(* table over two revisions; in "halves" two clients add a category to     *)
(* tables of either mode, over three revisions.  A part only restricts the *)
(* requests that arrive.                                                   *)
EXTENDS MCDailyChecklists

VARIABLE part

ToolOfC2  == (t1 :> [category |-> c2, status |-> "ACTIVE", stock |-> 1])
DayOfC2   == Day({c2})
AllBodies == {DayOfC2} \cup DayOrHalves

overlapsVars == <<part, vars>>

Makers == {q \in Clients : req[q].op \in {"create", "configure"}}
Unused == {r \in Revisions : header[r].status = "ABSENT"}

InEntries(m) ==
    /\ m.op # "add"
    /\ m.op \in {"create", "configure"} => /\ m.sel = DayOfC2
                                           /\ Cardinality(Makers) + Cardinality(Revisions) - 2 < Cardinality(Unused)

InHalves(m) ==
    /\ m.op # "item"
    /\ m.op \in {"create", "configure"} => m.sel \in DayOrHalves
    /\ Cardinality({q \in Clients : pc[q] # "idle"}) < 2

Arrives(m) == IF part = "entries" THEN InEntries(m) ELSE InHalves(m)

OverlapsInit == Init /\ part \in {"entries", "halves"}

OverlapsNext ==
    /\ UNCHANGED part
    /\ \E q \in Clients :
         \/ /\ pc[q] = "idle"
            /\ \E m \in Requests : Known(m) /\ Arrives(m) /\ Submit(q, m)
         \/ Handle(q)
         \/ Abort(q)

OverlapsSpec == OverlapsInit /\ [][OverlapsNext]_overlapsVars
=============================================================================
