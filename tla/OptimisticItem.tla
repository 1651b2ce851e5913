--------------------------- MODULE OptimisticItem ---------------------------
(***************************************************************************)
(* What the version column of a checklist item promises                    *)
(* (src/backend/src/database/entities/daily-checklist-item.entity.ts): an  *)
(* append-only history that only a writer who knows its end may extend.    *)
(***************************************************************************)
EXTENDS Naturals, Sequences

CONSTANTS
    Writers,
    Values,
    None      \* the author of the first version

VARIABLES
    log,      \* what each version stored, and who wrote it
    known     \* the version each writer has learned last; 0 before the first

vars == <<log, known>>

Entry == [value : Values, by : Writers \cup {None}]

Init ==
    /\ \E v \in Values : log = <<[value |-> v, by |-> None]>>
    /\ known = [w \in Writers |-> 0]

(* Answers may be late, but never take a writer back.                      *)
Learn(w) ==
    /\ \E n \in 1..Len(log) : known[w] <= n /\ known' = [known EXCEPT ![w] = n]
    /\ UNCHANGED log

(* The writer may never learn that its write succeeded.                    *)
Write(w) ==
    /\ known[w] = Len(log)
    /\ \E v \in Values : log' = Append(log, [value |-> v, by |-> w])
    /\ UNCHANGED known

Next == \E w \in Writers : Learn(w) \/ Write(w)

Spec == Init /\ [][Next]_vars
=============================================================================
