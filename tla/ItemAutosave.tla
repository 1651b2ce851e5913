---------------------------- MODULE ItemAutosave ----------------------------
(***************************************************************************)
(* Autosave of ONE checklist item: the save queues of the checklist screen *)
(* (src/frontend/src/views/DailyChecklistView.vue), a network that loses   *)
(* and delays, and the item's row on the server (updateItem).              *)
(*                                                                         *)
(* A queue is the pair of an item object and its ItemSaveState.  Every     *)
(* load of the table makes a new pair; the old one is forgotten by the     *)
(* screen, but the drain that runs on it goes on.  A load and the queue it *)
(* fills share their id.                                                   *)
(***************************************************************************)
EXTENDS Naturals, Sequences

CONSTANTS
    Screens,    \* browser tabs that show the table
    Queues,     \* ids of loads and the queues they fill: a bound on loads
    Values,     \* what an item can store: quantity and check mark
    None,
    MaxInputs   \* bound on the inputs of all users together

ASSUME QueuesAssumption ==
    /\ None \notin Values \cup Queues \cup Screens
    /\ Values # {}
    /\ MaxInputs \in Nat

VARIABLES
    log,        \* every version of the row and the queue that wrote it: the
                \* row is the last entry, its version the length
    stray,      \* saves whose client has given up, still on their way
    owner,      \* the screen that started a load
    load,       \* how far the load is
    item,       \* the item object: the value shown, the version known
    status,     \* ItemSaveState.status
    pending,    \* ItemSaveState.pending
    running,    \* ItemSaveState.running
    conflict,   \* ItemSaveState.conflict
    call,       \* the PATCH the drain waits for
    shown,      \* the queue a screen uses now
    error,      \* whether the screen shows an error in place of a table
    inputs,     \* how many inputs were made
    asked,      \* history: the last input of a queue, until a conflict notice
    displayed   \* history: versions a queue had on display

states  == <<status, pending, running, conflict>>
history == <<inputs, asked, displayed>>
screen  == <<shown, error>>
vars    == <<log, stray, owner, load, item, states, call, screen, history>>

Entry  == [value : Values, by : Queues \cup {None}]
Row    == [value : Values, version : Nat]
Save   == [by : Queues, value : Values, version : Nat]
Call   == [stage : {"none", "sent", "saved", "refused"}, value : Values,
           version : Nat]

LastRow == [value |-> log[Len(log)].value, version |-> Len(log)]

TypeOK ==
    /\ log \in Seq(Entry) /\ Len(log) > 0
    /\ stray \subseteq Save
    /\ owner \in [Queues -> Screens \cup {None}]
    /\ load \in [Queues -> {"none", "asked", "answered", "done", "failed"}]
    /\ item \in [Queues -> Row]
    /\ status \in [Queues -> {"saved", "saving", "failed"}]
    /\ pending \in [Queues -> Values \cup {None}]
    /\ running \in [Queues -> BOOLEAN]
    /\ conflict \in [Queues -> BOOLEAN]
    /\ call \in [Queues -> Call]
    /\ shown \in [Screens -> Queues \cup {None}]
    /\ error \in [Screens -> BOOLEAN]
    /\ inputs \in 0..MaxInputs
    /\ asked \in [Queues -> Values \cup {None}]
    /\ displayed \in [Queues -> SUBSET Nat]
    /\ \A k \in Queues : item[k].version <= Len(log)

AnyValue == CHOOSE v \in Values : TRUE
NoCall   == [stage |-> "none", value |-> AnyValue, version |-> 0]

Init ==
    /\ \E v \in Values : log = <<[value |-> v, by |-> None]>>
    /\ stray = {}
    /\ owner = [k \in Queues |-> None]
    /\ load = [k \in Queues |-> "none"]
    /\ item = [k \in Queues |-> [value |-> AnyValue, version |-> 0]]
    /\ status = [k \in Queues |-> "saved"]
    /\ pending = [k \in Queues |-> None]
    /\ running = [k \in Queues |-> FALSE]
    /\ conflict = [k \in Queues |-> FALSE]
    /\ call = [k \in Queues |-> NoCall]
    /\ shown = [s \in Screens |-> None]
    /\ error = [s \in Screens |-> FALSE]
    /\ inputs = 0
    /\ asked = [k \in Queues |-> None]
    /\ displayed = [k \in Queues |-> {}]

-----------------------------------------------------------------------------
(* Loading the table.                                                      *)

StartLoad(s, k) ==
    /\ load[k] = "none"
    /\ load' = [load EXCEPT ![k] = "asked"]
    /\ owner' = [owner EXCEPT ![k] = s]
    /\ shown' = [shown EXCEPT ![s] = None]
    /\ error' = [error EXCEPT ![s] = FALSE]
    /\ UNCHANGED <<log, stray, item, states, call, history>>

ReadTable(k) ==
    /\ load[k] = "asked"
    /\ load' = [load EXCEPT ![k] = "answered"]
    /\ item' = [item EXCEPT ![k] = LastRow]
    /\ UNCHANGED <<log, stray, owner, states, call, screen, history>>

Display(k, row) ==
    /\ item' = [item EXCEPT ![k] = row]
    /\ displayed' = [displayed EXCEPT ![k] = @ \cup {row.version}]

(* The answers of overlapping loads are shown in the order they arrive,    *)
(* but not over the error of one of them, which only a new load clears.    *)
ShowTable(k) ==
    /\ load[k] = "answered"
    /\ load' = [load EXCEPT ![k] = "done"]
    /\ shown' = [shown EXCEPT ![owner[k]] = IF error[owner[k]] THEN None ELSE k]
    /\ Display(k, item[k])
    /\ UNCHANGED <<log, stray, owner, states, call, error, inputs, asked>>

(* A failed load hides any table, also one that another load brought.      *)
FailLoad(k) ==
    /\ load[k] \in {"asked", "answered"}
    /\ load' = [load EXCEPT ![k] = "failed"]
    /\ shown' = [shown EXCEPT ![owner[k]] = None]
    /\ error' = [error EXCEPT ![owner[k]] = TRUE]
    /\ UNCHANGED <<log, stray, owner, item, states, call, history>>

AtRest(k) == status[k] = "saved" /\ ~running[k] /\ pending[k] = None

(* An addition of categories brings new item objects for the same queues;  *)
(* its dialog only opens when nothing waits (hasPendingItemSaves).         *)
CategoriesAdded(s) ==
    /\ shown[s] # None
    /\ AtRest(shown[s])
    /\ \E n \in item[shown[s]].version..Len(log) :
        Display(shown[s], [value |-> log[n].value, version |-> n])
    /\ asked' = [asked EXCEPT ![shown[s]] = None]
    /\ UNCHANGED <<log, stray, owner, load, states, call, screen, inputs>>

-----------------------------------------------------------------------------
(* Input: changeQuantity, changeChecked, retryItemSave, queueItemSave.     *)

Send(k, value, version) ==
    call' = [call EXCEPT ![k] = [stage |-> "sent", value |-> value,
                                 version |-> version]]

QueueItemSave(k, value) ==
    /\ item' = [item EXCEPT ![k].value = value]
    /\ \/ /\ running[k]
          /\ pending' = [pending EXCEPT ![k] = value]
          /\ UNCHANGED <<running, call>>
       \/ /\ ~running[k]
          /\ running' = [running EXCEPT ![k] = TRUE]
          /\ Send(k, value, item[k].version)
          /\ UNCHANGED pending

Input(k, value) ==
    /\ inputs < MaxInputs
    /\ inputs' = inputs + 1
    /\ asked' = [asked EXCEPT ![k] = value]
    /\ status' = [status EXCEPT ![k] = "saving"]
    /\ conflict' = [conflict EXCEPT ![k] = FALSE]
    /\ QueueItemSave(k, value)
    /\ UNCHANGED <<log, stray, owner, load, screen, displayed>>

Edit(s) ==
    /\ shown[s] # None
    /\ \E v \in Values \ {item[shown[s]].value} : Input(shown[s], v)

Retry(s) ==
    /\ shown[s] # None
    /\ status[shown[s]] = "failed"
    /\ Input(shown[s], item[shown[s]].value)

(* A quantity out of range: the value stays, the row says failed.          *)
RejectInput(s) ==
    /\ shown[s] # None
    /\ status' = [status EXCEPT ![shown[s]] = "failed"]
    /\ UNCHANGED <<log, stray, owner, load, item, pending, running, conflict,
                   call, screen, history>>

CloseNotice(s) ==
    /\ shown[s] # None
    /\ conflict' = [conflict EXCEPT ![shown[s]] = FALSE]
    /\ UNCHANGED <<log, stray, owner, load, item, status, pending, running,
                   call, screen, history>>

-----------------------------------------------------------------------------
(* The server: UPDATE ... WHERE id AND version, and its answer.            *)

VersionMatches_Ignored(version) == TRUE

VersionMatches(version) == version = Len(log)

Extend(save) ==
    log' = Append(log, [value |-> save.value, by |-> save.by])

SaveOf(k) == [by |-> k, value |-> call[k].value, version |-> call[k].version]

StoreSave(k) ==
    /\ call[k].stage = "sent"
    /\ IF VersionMatches(call[k].version)
       THEN /\ Extend(SaveOf(k))
            /\ call' = [call EXCEPT ![k].stage = "saved", ![k].version = @ + 1]
       ELSE /\ call' = [call EXCEPT ![k] = [stage |-> "refused",
                            value |-> LastRow.value, version |-> Len(log)]]
            /\ UNCHANGED log
    /\ UNCHANGED <<stray, owner, load, item, states, screen, history>>

(* A save nobody waits for any more arrives after all.                     *)
StoreStray(m) ==
    /\ m \in stray
    /\ stray' = stray \ {m}
    /\ IF VersionMatches(m.version) THEN Extend(m) ELSE UNCHANGED log
    /\ UNCHANGED <<owner, load, item, states, call, screen, history>>

-----------------------------------------------------------------------------
(* The drain: drainItemSaveQueue.                                          *)

AnswerOf(k) == [value |-> call[k].value, version |-> call[k].version]

Stop(k, outcome) ==
    /\ running' = [running EXCEPT ![k] = FALSE]
    /\ pending' = [pending EXCEPT ![k] = None]
    /\ status' = [status EXCEPT ![k] = outcome]
    /\ call' = [call EXCEPT ![k] = NoCall]

(* Newer input is kept on display; only the version is taken over.         *)
KeepNewerInput_Overwritten(k) ==
    /\ Display(k, AnswerOf(k))
    /\ Send(k, pending[k], call[k].version)

KeepNewerInput_CountsItself(k) ==
    /\ item' = [item EXCEPT ![k].version = call[k].version + 1]
    /\ Send(k, pending[k], call[k].version + 1)
    /\ UNCHANGED displayed

KeepNewerInput(k) ==
    /\ item' = [item EXCEPT ![k].version = call[k].version]
    /\ Send(k, pending[k], call[k].version)
    /\ UNCHANGED displayed

SaveAnswered(k) ==
    /\ call[k].stage = "saved"
    /\ \/ /\ pending[k] # None
          /\ KeepNewerInput(k)
          /\ pending' = [pending EXCEPT ![k] = None]
          /\ status' = [status EXCEPT ![k] = "saving"]
          /\ UNCHANGED running
       \/ /\ pending[k] = None
          /\ Display(k, AnswerOf(k))
          /\ Stop(k, "saved")
    /\ UNCHANGED <<log, stray, owner, load, conflict, screen, inputs, asked>>

(* 409: the row of the answer replaces what is shown, newer input included. *)
TakeCurrentItem_VersionOnly(k) ==
    /\ item' = [item EXCEPT ![k].version = call[k].version]
    /\ UNCHANGED <<displayed, asked>>

TakeCurrentItem(k) ==
    /\ Display(k, AnswerOf(k))
    /\ asked' = [asked EXCEPT ![k] = None]

ConflictAnswered(k) ==
    /\ call[k].stage = "refused"
    /\ TakeCurrentItem(k)
    /\ Stop(k, "saved")
    /\ conflict' = [conflict EXCEPT ![k] = TRUE]
    /\ UNCHANGED <<log, stray, owner, load, screen, inputs>>

(* Any other error.  The save may never have left, may still arrive, or    *)
(* may have been stored with its answer lost.                              *)
SaveFailed_AsSaved(k) == Stop(k, "saved")

SaveFailed_KeepsRunning(k) ==
    /\ pending' = [pending EXCEPT ![k] = None]
    /\ status' = [status EXCEPT ![k] = "failed"]
    /\ call' = [call EXCEPT ![k] = NoCall]
    /\ UNCHANGED running

SaveFailed(k) == Stop(k, "failed")

LoseAnswer(k) ==
    /\ call[k].stage # "none"
    /\ SaveFailed(k)
    /\ stray' = IF call[k].stage = "sent" THEN stray \cup {SaveOf(k)} ELSE stray
    /\ UNCHANGED <<log, owner, load, item, conflict, screen, history>>

-----------------------------------------------------------------------------
User(s) ==
    \/ \E k \in Queues : StartLoad(s, k)
    \/ CategoriesAdded(s)
    \/ Edit(s) \/ Retry(s) \/ RejectInput(s) \/ CloseNotice(s)

Loading(k) == ReadTable(k) \/ ShowTable(k) \/ FailLoad(k)

Saving(k) == StoreSave(k) \/ SaveAnswered(k) \/ ConflictAnswered(k) \/ LoseAnswer(k)

Next ==
    \/ \E s \in Screens : User(s)
    \/ \E k \in Queues : Loading(k) \/ Saving(k)
    \/ \E m \in stray : StoreStray(m)

Spec == Init /\ [][Next]_vars

(* Every call ends, with an answer or with an error.                       *)
Fairness == \A k \in Queues : WF_vars(Saving(k))

FairSpec == Spec /\ Fairness

-----------------------------------------------------------------------------
(* Safety.                                                                 *)

(* A queue that reports "saved" shows what the server stored under the     *)
(* version it holds, and that is the user's last input unless a conflict   *)
(* notice withdrew it (drainItemSaveQueue, hasNewerInput).                 *)
SavedIsStored == \A k \in Queues : load[k] = "done" /\ AtRest(k) =>
    LET stored == log[item[k].version]
    IN  /\ item[k].version \in 1..Len(log)
        /\ item[k].value = stored.value
        /\ asked[k] # None => stored = [value |-> asked[k], by |-> k]

(* Whatever answers arrive, the row shows the user's last input until a    *)
(* conflict notice replaces it: also after a failure, so that a retry      *)
(* sends the newest value.                                                 *)
InputKept == \A k \in Queues : asked[k] # None => item[k].value = asked[k]

OverwritesKnownValues == log' # log =>
    LET n == Len(log)
        k == log'[n + 1].by
    IN  log[n].by = k \/ n \in displayed[k]

(* No blind overwrite: a save, even one that arrives after its client gave *)
(* up, only replaces a value that its own queue wrote or had on display.   *)
NoBlindOverwrite == [][OverwritesKnownValues]_vars

(* The screen and the server together are an optimistic register: only a   *)
(* queue that knows the newest version extends the history, and what a     *)
(* queue knows never goes back.                                            *)
Register == INSTANCE OptimisticItem
    WITH Writers <- Queues,
         known   <- [k \in Queues |-> item[k].version]

ImplementsRegister == Register!Spec

(* Every save ends: stored, refused or failed.                             *)
Settles == \A k \in Queues : running[k] ~> ~running[k]

-----------------------------------------------------------------------------
(* The inductive invariant behind the theorems of ItemAutosaveProofs.      *)

Stored(row) ==
    row.version \in 1..Len(log) /\ row.value = log[row.version].value

KnownTo(k, n) == n \in displayed[k] \/ log[n].by = k

(* Only a queue that was shown saves; it waits for one call at a time and  *)
(* what is pending is what its row shows.                                  *)
QueuesInOrder ==
    /\ \A s \in Screens : shown[s] # None => load[shown[s]] = "done"
    /\ \A k \in Queues :
        /\ load[k] = "answered" => Stored(item[k])
        /\ load[k] # "done" => asked[k] = None /\ ~running[k]
        /\ load[k] = "done" => item[k].version \in 1..Len(log)
        /\ running[k] <=> call[k].stage # "none"
        /\ running[k] => asked[k] # None
        /\ pending[k] # None => running[k] /\ pending[k] = item[k].value

(* What a call under way, or its answer, says about the row.               *)
CallsInOrder == \A k \in Queues :
    /\ call[k].stage = "sent" => call[k].version = item[k].version
    /\ call[k].stage = "saved" =>
        /\ call[k].version = item[k].version + 1
        /\ call[k].version <= Len(log)
        /\ log[call[k].version] = [value |-> call[k].value, by |-> k]
    /\ call[k].stage = "refused" =>
        /\ item[k].version <= call[k].version
        /\ Stored(AnswerOf(k))
    /\ call[k].stage \in {"sent", "saved"} /\ pending[k] = None =>
        call[k].value = item[k].value

VersionsKnown ==
    /\ \A k \in Queues : load[k] = "done" => KnownTo(k, item[k].version)
    /\ \A m \in stray : /\ load[m.by] = "done"
                         /\ m.version \in 1..item[m.by].version
                         /\ KnownTo(m.by, m.version)

IInv ==
    /\ TypeOK
    /\ QueuesInOrder
    /\ CallsInOrder
    /\ VersionsKnown
    /\ InputKept
    /\ SavedIsStored

-----------------------------------------------------------------------------
(* Statements of the documents.                                            *)

ShowsAllSaved(s) == shown[s] # None /\ AtRest(shown[s]) /\ ~conflict[shown[s]]

(* docs/features/daily-checklists.md, display rules: "all saved" is shown  *)
(* only when no item is pending, running or failed or has a conflict left. *)
AllSavedMeansIdle == \A s \in Screens : ShowsAllSaved(s) =>
    \A k \in Queues : owner[k] = s => ~running[k]
=============================================================================
