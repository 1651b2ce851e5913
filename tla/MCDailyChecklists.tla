------------------------- MODULE MCDailyChecklists -------------------------
(* Small instances of DailyChecklists for TLC.                             *)
EXTENDS DailyChecklists, TLC

CONSTANTS c0, c1, c2, t1

Day(cats)         == [p \in Period |-> IF p = "FULL_DAY" THEN cats ELSE {}]
Halves(am, pm)    == [p \in Period |-> CASE p = "MORNING"   -> am
                                         [] p = "AFTERNOON" -> pm
                                         [] OTHER           -> {}]

OneTool == (t1 :> [category |-> c1, status |-> "ACTIVE", stock |-> 1])

OutOfStock == (t1 :> [category |-> c1, status |-> "ACTIVE", stock |-> 0])

DayBodies   == {Day({c1})}
DayOrHalves == {Day({c1}), Halves({c1}, {c1})}
AddC2       == {{c2}}

ClientsAndRevisions == Permutations(Clients) \cup Permutations(Revisions)
=============================================================================
