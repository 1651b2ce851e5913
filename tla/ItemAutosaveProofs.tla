------------------------- MODULE ItemAutosaveProofs -------------------------
(***************************************************************************)
(* Theorems about ItemAutosave, for all sets of screens, queues and values *)
(* and any number of inputs.                                               *)
(***************************************************************************)
EXTENDS ItemAutosave, TLAPS

(* A step either changes or keeps the two variables of a screen by name.   *)
USE DEF screen

-----------------------------------------------------------------------------
(* The invariant, sorted by queue: no two queues share state but the log.  *)

QueueOK(k) ==
    /\ load[k] = "answered" => Stored(item[k])
    /\ load[k] # "done" => asked[k] = None /\ ~running[k]
    /\ load[k] = "done" => item[k].version \in 1..Len(log)
    /\ running[k] <=> call[k].stage # "none"
    /\ running[k] => asked[k] # None
    /\ pending[k] # None => running[k] /\ pending[k] = item[k].value
    /\ call[k].stage = "sent" => call[k].version = item[k].version
    /\ call[k].stage = "saved" =>
        /\ call[k].version = item[k].version + 1
        /\ call[k].version <= Len(log)
        /\ log[call[k].version] = [value |-> call[k].value, by |-> k]
    /\ call[k].stage = "refused" =>
        /\ item[k].version <= call[k].version
        /\ Stored(AnswerOf(k))
    /\ call[k].stage \in {"sent", "saved"} /\ pending[k] = None =>
        call[k].value = item[k].value
    /\ load[k] = "done" => KnownTo(k, item[k].version)
    /\ asked[k] # None => item[k].value = asked[k]
    /\ load[k] = "done" /\ AtRest(k) =>
        /\ item[k].value = log[item[k].version].value
        /\ asked[k] # None =>
             log[item[k].version] = [value |-> asked[k], by |-> k]

ShownOK == \A s \in Screens : shown[s] # None => load[shown[s]] = "done"

StrayOK == \A m \in stray : /\ load[m.by] = "done"
                            /\ m.version \in 1..item[m.by].version
                            /\ KnownTo(m.by, m.version)

LEMMA InvParts ==
    /\ IInv <=> TypeOK /\ ShownOK /\ StrayOK /\ \A k \in Queues : QueueOK(k)
    /\ IInv' <=> TypeOK' /\ ShownOK' /\ StrayOK' /\ \A k \in Queues : QueueOK(k)'
  BY DEF IInv, QueuesInOrder, CallsInOrder, VersionsKnown, InputKept,
         SavedIsStored, QueueOK, ShownOK, StrayOK

-----------------------------------------------------------------------------
(* Initial states.                                                         *)

LEMMA InitInv == Init => IInv
  <1> SUFFICES ASSUME Init PROVE IInv
    OBVIOUS
  <1>1. AnyValue \in Values
    BY QueuesAssumption DEF AnyValue
  <1>2. PICK v \in Values : log = <<[value |-> v, by |-> None]>>
    BY DEF Init
  <1>3. log \in Seq(Entry) /\ Len(log) = 1
    BY <1>2 DEF Entry
  <1>4. TypeOK
    BY <1>1, <1>3, QueuesAssumption DEF Init, TypeOK, Row, Call, NoCall
  <1>5. QueuesInOrder /\ CallsInOrder /\ VersionsKnown /\ InputKept /\ SavedIsStored
    BY DEF Init, QueuesInOrder, CallsInOrder, VersionsKnown, InputKept,
           SavedIsStored, NoCall
  <1> QED BY <1>4, <1>5 DEF IInv

-----------------------------------------------------------------------------
(* The log, and what a step leaves alone.                                  *)

Grows == /\ Len(log) <= Len(log')
         /\ \A n \in 1..Len(log) : log'[n] = log[n]

LEMMA LogFacts ==
    ASSUME TypeOK
    PROVE  /\ Len(log) \in Nat
           /\ \A n \in 1..Len(log) : log[n] \in Entry
           /\ LastRow \in Row /\ Stored(LastRow)
  <1>1. Len(log) \in Nat \ {0} /\ log \in Seq(Entry)
    BY DEF TypeOK
  <1>2. \A n \in 1..Len(log) : log[n] \in Entry
    BY <1>1
  <1>3. log[Len(log)] \in Entry
    BY <1>1, <1>2
  <1> QED BY <1>1, <1>2, <1>3 DEF Entry, LastRow, Row, Stored

LEMMA SameLog ==
    ASSUME TypeOK, UNCHANGED log PROVE Grows
  BY DEF TypeOK, Grows

LEMMA ExtendGrows ==
    ASSUME TypeOK, NEW m, m.value \in Values, m.by \in Queues, Extend(m)
    PROVE  /\ Grows
           /\ log' \in Seq(Entry)
           /\ Len(log') = Len(log) + 1
           /\ log'[Len(log) + 1] = [value |-> m.value, by |-> m.by]
  BY DEF TypeOK, Extend, Entry, Grows

(* A queue that a step does not touch stays in order while the log grows.  *)
Untouched(k) ==
    /\ load'[k] = load[k]       /\ item'[k] = item[k]
    /\ status'[k] = status[k]   /\ pending'[k] = pending[k]
    /\ running'[k] = running[k] /\ call'[k] = call[k]
    /\ asked'[k] = asked[k]     /\ displayed'[k] = displayed[k]

LEMMA UntouchedOK ==
    ASSUME TypeOK, NEW k \in Queues, QueueOK(k), Untouched(k), Grows,
           Len(log') \in Nat
    PROVE  QueueOK(k)'
  <1>1. Len(log) \in Nat /\ item[k].version \in Nat /\ call[k].version \in Nat
    BY DEF TypeOK, Row, Call
  <1>2. \A n \in Nat : n \in 1..Len(log) => n \in 1..Len(log') /\ log'[n] = log[n]
    BY <1>1 DEF Grows
  <1>3. AnswerOf(k)' = AnswerOf(k) /\ AtRest(k)' = AtRest(k)
    BY DEF Untouched, AnswerOf, AtRest
  <1>4. \A row \in Row : Stored(row) => Stored(row)'
    BY <1>2 DEF Stored, Row
  <1>5. item[k] \in Row /\ AnswerOf(k) \in Row
    BY DEF TypeOK, AnswerOf, Call, Row
  <1>6. Stored(item[k]) => Stored(item[k])'
    BY <1>2, <1>5 DEF Stored, Row, Untouched
  <1>7. Stored(AnswerOf(k)) => Stored(AnswerOf(k))'
    BY <1>2, <1>3, <1>5 DEF Stored, Row
  <1>8. item[k].version \in 1..Len(log) /\ KnownTo(k, item[k].version) =>
          KnownTo(k, item[k].version)'
    BY <1>1, <1>2 DEF KnownTo, Untouched
  <1> QED
    BY <1>1, <1>2, <1>3, <1>6, <1>7, <1>8 DEF QueueOK, Untouched, Grows

(* Steps that touch the queue of at most one item.                         *)
StepOf(k) ==
    /\ \A o \in Queues \ {k} : Untouched(o)
    /\ Grows
    /\ load[k] = "done" => load'[k] = "done"
    /\ item[k].version <= item'[k].version
    /\ displayed[k] \subseteq displayed'[k]

LEMMA StrayStep ==
    ASSUME IInv, TypeOK', NEW k \in Queues, StepOf(k), stray' \subseteq stray
    PROVE  StrayOK'
  <1> SUFFICES ASSUME NEW m \in stray
               PROVE  /\ load'[m.by] = "done"
                      /\ m.version \in 1..item'[m.by].version
                      /\ KnownTo(m.by, m.version)'
    BY DEF StrayOK
  <1>1. m \in Save /\ m.by \in Queues /\ m.version \in Nat
    BY DEF IInv, TypeOK, Save
  <1>2. /\ load[m.by] = "done"
        /\ m.version \in 1..item[m.by].version
        /\ KnownTo(m.by, m.version)
    BY InvParts DEF StrayOK
  <1>3. item[m.by] \in Row /\ item'[m.by] \in Row
    BY <1>1 DEF IInv, TypeOK
  <1>4. /\ load'[m.by] = "done"
        /\ item[m.by].version <= item'[m.by].version
        /\ displayed[m.by] \subseteq displayed'[m.by]
    BY <1>1, <1>2, <1>3 DEF StepOf, Untouched, Row
  <1>5. m.version \in 1..Len(log)
    BY <1>1, <1>2, <1>3, LogFacts DEF IInv, TypeOK, Row
  <1>6. KnownTo(m.by, m.version)'
    BY <1>1, <1>2, <1>4, <1>5 DEF KnownTo, StepOf, Grows
  <1> QED BY <1>1, <1>2, <1>3, <1>4, <1>6 DEF Row

(* The invariant after a step of one queue.                                *)
LEMMA StepInv ==
    ASSUME IInv, TypeOK', NEW k \in Queues, StepOf(k), QueueOK(k)',
           ShownOK', StrayOK'
    PROVE  IInv'
  <1>1. ASSUME NEW o \in Queues PROVE QueueOK(o)'
    <2>1. Len(log') \in Nat
      BY DEF TypeOK
    <2> QED BY <2>1, UntouchedOK, InvParts DEF StepOf, IInv
  <1> QED BY <1>1, InvParts

LEMMA ShownStep ==
    ASSUME IInv, NEW k \in Queues, StepOf(k), UNCHANGED shown
    PROVE  ShownOK'
  BY InvParts DEF ShownOK, StepOf, Untouched, IInv, TypeOK

-----------------------------------------------------------------------------
(* Loading the table preserves the invariant.                              *)

LEMMA StartLoadInv ==
    ASSUME IInv, NEW s \in Screens, NEW k \in Queues, StartLoad(s, k)
    PROVE  IInv'
  <1>1. TypeOK'
    BY DEF IInv, TypeOK, StartLoad, states, history
  <1>2. StepOf(k)
    BY SameLog DEF IInv, TypeOK, Row, StartLoad, states, history, StepOf, Untouched
  <1>3. QueueOK(k)'
    BY InvParts DEF IInv, TypeOK, StartLoad, states, history, QueueOK
  <1>4. ShownOK'
    BY InvParts DEF IInv, TypeOK, StartLoad, ShownOK
  <1> QED BY <1>1, <1>2, <1>3, <1>4, StepInv, StrayStep DEF StartLoad

LEMMA ReadTableInv ==
    ASSUME IInv, NEW k \in Queues, ReadTable(k)
    PROVE  IInv'
  <1>1. TypeOK'
    BY LogFacts DEF IInv, TypeOK, ReadTable, states, history, LastRow, Row
  <1>2. StepOf(k)
    BY SameLog DEF IInv, TypeOK, ReadTable, states, history, StepOf, Untouched,
                   LastRow, Row
  <1>3. QueueOK(k)'
    BY InvParts, LogFacts DEF IInv, TypeOK, ReadTable, states, history, QueueOK,
                              Stored
  <1> QED BY <1>1, <1>2, <1>3, ShownStep, StepInv, StrayStep DEF ReadTable

LEMMA ShowTableInv ==
    ASSUME IInv, NEW k \in Queues, ShowTable(k)
    PROVE  IInv'
  <1>0. item[k] \in Row /\ Stored(item[k])
    BY InvParts DEF IInv, TypeOK, ShowTable, QueueOK
  <1>1. TypeOK'
    BY <1>0 DEF IInv, TypeOK, ShowTable, states, Display, Row
  <1>2. StepOf(k)
    BY <1>0, SameLog DEF IInv, TypeOK, ShowTable, states, StepOf, Untouched,
                         Display, Row
  <1>3. QueueOK(k)'
    BY <1>0, InvParts DEF IInv, TypeOK, ShowTable, states, Display, QueueOK,
                          Stored, KnownTo
  <1>4. ShownOK'
    BY InvParts DEF IInv, TypeOK, ShowTable, ShownOK
  <1> QED BY <1>1, <1>2, <1>3, <1>4, StepInv, StrayStep DEF ShowTable

LEMMA FailLoadInv ==
    ASSUME IInv, NEW k \in Queues, FailLoad(k)
    PROVE  IInv'
  <1>1. TypeOK'
    BY DEF IInv, TypeOK, FailLoad, states, history
  <1>2. StepOf(k)
    BY SameLog DEF IInv, TypeOK, Row, FailLoad, states, history, StepOf, Untouched
  <1>3. QueueOK(k)'
    BY InvParts DEF IInv, TypeOK, FailLoad, states, history, QueueOK
  <1>4. ShownOK'
    BY InvParts DEF IInv, TypeOK, FailLoad, ShownOK
  <1> QED BY <1>1, <1>2, <1>3, <1>4, StepInv, StrayStep DEF FailLoad

LEMMA CategoriesAddedInv ==
    ASSUME IInv, NEW s \in Screens, CategoriesAdded(s)
    PROVE  IInv'
  <1> DEFINE k == shown[s]
  <1>0. k \in Queues /\ load[k] = "done"
    BY InvParts DEF IInv, TypeOK, CategoriesAdded, ShownOK
  <1>1. PICK n \in item[k].version..Len(log) :
               Display(k, [value |-> log[n].value, version |-> n])
    BY DEF CategoriesAdded
  <1>2. /\ item[k].version \in Nat \ {0} /\ item[k].version <= n
        /\ n \in 1..Len(log) /\ log[n].value \in Values
    <2>1. item[k].version \in 1..Len(log)
      BY <1>0, InvParts DEF QueueOK
    <2>2. Len(log) \in Nat /\ \A i \in 1..Len(log) : log[i] \in Entry
      BY LogFacts DEF IInv
    <2>3. n \in 1..Len(log) /\ item[k].version <= n
      BY <1>1, <2>1, <2>2
    <2> QED BY <2>1, <2>2, <2>3 DEF Entry
  <1>3. TypeOK'
    BY <1>0, <1>1, <1>2 DEF IInv, TypeOK, CategoriesAdded, states, Display, Row
  <1>4. StepOf(k)
    BY <1>0, <1>1, <1>2, SameLog
    DEF IInv, TypeOK, CategoriesAdded, states, StepOf, Untouched, Display, Row
  <1>5. QueueOK(k)'
    BY <1>0, <1>1, <1>2, InvParts
    DEF IInv, TypeOK, CategoriesAdded, states, Display, QueueOK, KnownTo, AtRest
  <1> QED BY <1>0, <1>3, <1>4, <1>5, ShownStep, StepInv, StrayStep
          DEF CategoriesAdded

-----------------------------------------------------------------------------
(* So does input.                                                          *)

LEMMA InputInv ==
    ASSUME IInv, NEW k \in Queues, load[k] = "done", NEW v \in Values, Input(k, v)
    PROVE  IInv'
  <1>0. /\ item[k] \in Row /\ v # None
        /\ item' = [item EXCEPT ![k].value = v]
        /\ item'[k] = [value |-> v, version |-> item[k].version]
        /\ status'[k] = "saving" /\ asked'[k] = v
        /\ UNCHANGED <<load, log, displayed>>
    BY QueuesAssumption DEF IInv, TypeOK, Input, QueueItemSave, Row
  <1>1. TypeOK'
    <2>1. item' \in [Queues -> Row] /\ item'[k].version = item[k].version
      BY <1>0 DEF IInv, TypeOK, Row
    <2>2. \A o \in Queues : item'[o].version = item[o].version
      BY <1>0, <2>1 DEF IInv, TypeOK
    <2>3. pending' \in [Queues -> Values \cup {None}] /\ running' \in [Queues -> BOOLEAN]
      BY DEF IInv, TypeOK, Input, QueueItemSave
    <2>4. call' \in [Queues -> Call]
      <3>1. [stage |-> "sent", value |-> v, version |-> item[k].version] \in Call
        BY <1>0 DEF Call, Row
      <3> QED BY <3>1 DEF IInv, TypeOK, Input, QueueItemSave, Send
    <2>5. inputs' \in 0..MaxInputs
      BY QueuesAssumption DEF IInv, TypeOK, Input
    <2> QED BY <1>0, <2>1, <2>2, <2>3, <2>4, <2>5 DEF IInv, TypeOK, Input
  <1>2. StepOf(k)
    BY <1>0, SameLog DEF IInv, TypeOK, Input, QueueItemSave, Send, StepOf,
                         Untouched, Row
  <1>3. QueueOK(k)'
    <2>1. CASE running[k]
      <3>1. running'[k] /\ pending'[k] = v /\ call'[k] = call[k]
        BY <2>1 DEF IInv, TypeOK, Input, QueueItemSave
      <3>2. AnswerOf(k)' = AnswerOf(k) /\ QueueOK(k)
        BY <3>1, InvParts DEF AnswerOf
      <3>3. Stored(AnswerOf(k))' <=> Stored(AnswerOf(k))
        BY <1>0, <3>2 DEF Stored
      <3> QED BY <1>0, <2>1, <3>1, <3>2, <3>3 DEF QueueOK, KnownTo, AtRest
    <2>2. CASE ~running[k]
      <3>1. /\ running'[k] /\ pending'[k] = pending[k]
            /\ call'[k] = [stage |-> "sent", value |-> v,
                           version |-> item[k].version]
        BY <2>2 DEF IInv, TypeOK, Input, QueueItemSave, Send
      <3>2. QueueOK(k)
        BY InvParts
      <3> QED BY <1>0, <2>2, <3>1, <3>2 DEF QueueOK, KnownTo, AtRest
    <2> QED BY <2>1, <2>2
  <1> QED BY <1>1, <1>2, <1>3, ShownStep, StepInv, StrayStep DEF Input

LEMMA RejectInputInv ==
    ASSUME IInv, NEW s \in Screens, RejectInput(s) \/ CloseNotice(s)
    PROVE  IInv'
  <1> DEFINE k == shown[s]
  <1>0. k \in Queues
    BY DEF IInv, TypeOK, RejectInput, CloseNotice
  <1>1. TypeOK'
    BY <1>0 DEF IInv, TypeOK, RejectInput, CloseNotice, history
  <1>2. StepOf(k)
    BY <1>0, SameLog DEF IInv, TypeOK, Row, RejectInput, CloseNotice, history,
                         StepOf, Untouched
  <1>3. QueueOK(k)'
    BY <1>0, InvParts DEF IInv, TypeOK, RejectInput, CloseNotice, history,
                 QueueOK, KnownTo, AtRest, Stored, AnswerOf
  <1> QED BY <1>0, <1>1, <1>2, <1>3, ShownStep, StepInv, StrayStep
          DEF RejectInput, CloseNotice

LEMMA UserInv ==
    ASSUME IInv, NEW s \in Screens, User(s)
    PROVE  IInv'
  <1>1. CASE Edit(s) \/ Retry(s)
    <2>1. shown[s] \in Queues /\ load[shown[s]] = "done"
      BY <1>1, InvParts DEF IInv, TypeOK, Edit, Retry, ShownOK
    <2>2. item[shown[s]].value \in Values
      BY <2>1 DEF IInv, TypeOK, Row
    <2> QED BY <1>1, <2>1, <2>2, InputInv DEF Edit, Retry
  <1> QED BY <1>1, StartLoadInv, CategoriesAddedInv, RejectInputInv DEF User

-----------------------------------------------------------------------------
(* So do the server and the answers.                                       *)

LEMMA StoreSaveInv ==
    ASSUME IInv, NEW k \in Queues, StoreSave(k)
    PROVE  IInv'
  <1>0. /\ call[k] \in Call /\ item[k] \in Row /\ Len(log) \in Nat
        /\ call[k].version = item[k].version
        /\ LastRow \in Row /\ Stored(LastRow)
    BY InvParts, LogFacts DEF IInv, TypeOK, StoreSave, QueueOK
  <1>1. CASE VersionMatches(call[k].version)
    <2>1. Extend(SaveOf(k)) /\ SaveOf(k).value = call[k].value /\ SaveOf(k).by = k
      BY <1>1 DEF StoreSave, SaveOf
    <2>2. /\ Grows /\ log' \in Seq(Entry) /\ Len(log') = Len(log) + 1
          /\ log'[Len(log) + 1] = [value |-> call[k].value, by |-> k]
      BY <1>0, <2>1, ExtendGrows DEF IInv, Call
    <2>3. call' = [call EXCEPT ![k].stage = "saved", ![k].version = @ + 1]
      BY <1>1 DEF StoreSave
    <2>4. call'[k] = [stage |-> "saved", value |-> call[k].value,
                      version |-> call[k].version + 1]
      BY <1>0, <2>3 DEF IInv, TypeOK, Call
    <2>5. TypeOK'
      <3>1. call' \in [Queues -> Call]
        <4>1. call'[k] \in Call
          BY <1>0, <2>4 DEF Call
        <4> QED BY <2>3, <4>1 DEF IInv, TypeOK
      <3>2. \A o \in Queues : item[o].version <= Len(log')
        BY <1>0, <2>2 DEF IInv, TypeOK, Row
      <3>3. Len(log') > 0
        BY <1>0, <2>2
      <3> QED BY <2>2, <3>1, <3>2, <3>3
              DEF IInv, TypeOK, StoreSave, states, history
    <2>6. StepOf(k)
      BY <1>0, <2>2, <2>3 DEF IInv, TypeOK, StoreSave, states, history, StepOf,
                              Untouched, Row
    <2>7. QueueOK(k)'
      <3>1. QueueOK(k) /\ load[k] = "done" /\ running[k]
        BY InvParts DEF QueueOK, StoreSave, IInv, TypeOK
      <3>2. /\ load'[k] = load[k] /\ item'[k] = item[k] /\ asked'[k] = asked[k]
            /\ running'[k] = running[k] /\ pending'[k] = pending[k]
            /\ displayed'[k] = displayed[k]
        BY DEF StoreSave, states, history
      <3>3. /\ item[k].version \in 1..Len(log) /\ item[k].version = Len(log)
            /\ log'[item[k].version] = log[item[k].version]
            /\ item[k].version \in 1..Len(log')
        BY <1>0, <1>1, <2>2, <3>1 DEF QueueOK, VersionMatches, Grows
      <3>4. KnownTo(k, item[k].version)'
        BY <3>1, <3>2, <3>3 DEF QueueOK, KnownTo
      <3> QED
        BY <1>0, <1>1, <2>2, <2>4, <3>1, <3>2, <3>3, <3>4
        DEF QueueOK, AtRest, VersionMatches, StoreSave
    <2> QED BY <2>5, <2>6, <2>7, ShownStep, StepInv, StrayStep DEF StoreSave
  <1>2. CASE ~VersionMatches(call[k].version)
    <2>1. /\ UNCHANGED log
          /\ call' = [call EXCEPT ![k] = [stage |-> "refused",
                          value |-> LastRow.value, version |-> Len(log)]]
      BY <1>2 DEF StoreSave
    <2>2. TypeOK'
      BY <1>0, <2>1 DEF IInv, TypeOK, StoreSave, states, history, Row, Call
    <2>3. StepOf(k)
      BY <1>0, <2>1, SameLog DEF IInv, TypeOK, StoreSave, states, history,
                                 StepOf, Untouched, Row
    <2>4. QueueOK(k)'
      BY <1>0, <2>1, InvParts
      DEF IInv, TypeOK, StoreSave, states, history, QueueOK, KnownTo, AtRest,
          Stored, AnswerOf, LastRow
    <2> QED BY <2>2, <2>3, <2>4, ShownStep, StepInv, StrayStep DEF StoreSave
  <1> QED BY <1>1, <1>2

LEMMA StoreStrayInv ==
    ASSUME IInv, NEW m \in stray, StoreStray(m)
    PROVE  IInv'
  <1>0. m.by \in Queues /\ m.value \in Values /\ m.version \in Nat
    BY DEF IInv, TypeOK, Save
  <1>1. Grows /\ log' \in Seq(Entry) /\ Len(log') >= Len(log)
    <2>1. Len(log) \in Nat /\ TypeOK
      BY LogFacts DEF IInv
    <2>2. CASE Extend(m)
      <3>1. Grows /\ log' \in Seq(Entry) /\ Len(log') = Len(log) + 1
        BY <1>0, <2>1, <2>2, ExtendGrows
      <3> QED BY <2>1, <3>1
    <2>3. CASE UNCHANGED log
      BY <2>1, <2>3, SameLog DEF TypeOK
    <2>4. Extend(m) \/ UNCHANGED log
      BY DEF StoreStray
    <2> QED BY <2>2, <2>3, <2>4
  <1>2. TypeOK'
    BY <1>1, LogFacts DEF IInv, TypeOK, Row, StoreStray, states, history
  <1>3. \A k \in Queues : Untouched(k)
    BY DEF StoreStray, states, history, Untouched
  <1>4. StepOf(m.by) /\ stray' \subseteq stray
    BY <1>0, <1>1, <1>3 DEF StepOf, Untouched, IInv, TypeOK, Row, StoreStray
  <1>5. QueueOK(m.by)'
    BY <1>0, <1>1, <1>2, <1>3, UntouchedOK, InvParts DEF IInv, TypeOK
  <1> QED BY <1>0, <1>2, <1>4, <1>5, ShownStep, StepInv, StrayStep DEF StoreStray

LEMMA SaveAnsweredInv ==
    ASSUME IInv, NEW k \in Queues, SaveAnswered(k)
    PROVE  IInv'
  <1>0. /\ call[k] \in Call /\ item[k] \in Row /\ AnswerOf(k) \in Row
        /\ Len(log) \in Nat /\ QueueOK(k) /\ TypeOK
    BY InvParts, LogFacts DEF IInv, TypeOK, AnswerOf, Call, Row
  <1>1. /\ load[k] = "done" /\ running[k]
        /\ call[k].version = item[k].version + 1
        /\ call[k].version \in 1..Len(log)
        /\ log[call[k].version] = [value |-> call[k].value, by |-> k]
    BY <1>0 DEF QueueOK, SaveAnswered, TypeOK, Row
  <1>2. CASE /\ pending[k] # None
             /\ KeepNewerInput(k)
             /\ pending' = [pending EXCEPT ![k] = None]
             /\ status' = [status EXCEPT ![k] = "saving"]
             /\ UNCHANGED running
    <2>1. /\ pending[k] \in Values /\ pending'[k] = None /\ running'[k]
          /\ item' = [item EXCEPT ![k].version = call[k].version]
          /\ item'[k] = [value |-> item[k].value, version |-> call[k].version]
          /\ call'[k] = [stage |-> "sent", value |-> pending[k],
                         version |-> call[k].version]
          /\ UNCHANGED displayed
      BY <1>0, <1>1, <1>2 DEF KeepNewerInput, Send, TypeOK, Row
    <2>2. TypeOK'
      <3>1. item' \in [Queues -> Row] /\ call' \in [Queues -> Call]
        BY <1>0, <1>2, <2>1 DEF KeepNewerInput, Send, TypeOK, Row, Call
      <3>2. \A o \in Queues : item'[o].version <= Len(log)
        BY <1>0, <1>1, <2>1 DEF TypeOK
      <3> QED BY <1>0, <1>2, <2>1, <3>1, <3>2 DEF SaveAnswered, TypeOK
    <2>3. StepOf(k)
      BY <1>0, <1>1, <1>2, <2>1, SameLog
      DEF SaveAnswered, KeepNewerInput, Send, TypeOK, StepOf, Untouched, Row
    <2>4. QueueOK(k)'
      BY <1>0, <1>1, <1>2, <2>1
      DEF SaveAnswered, TypeOK, QueueOK, KnownTo, AtRest
    <2> QED BY <2>2, <2>3, <2>4, ShownStep, StepInv, StrayStep DEF SaveAnswered
  <1>3. CASE /\ pending[k] = None
             /\ Display(k, AnswerOf(k))
             /\ Stop(k, "saved")
    <2>1. TypeOK'
      BY <1>0, <1>1, <1>3, QueuesAssumption
      DEF SaveAnswered, Display, AnswerOf, Stop, NoCall, AnyValue, TypeOK, Call, Row
    <2>2. StepOf(k)
      BY <1>0, <1>1, <1>3, SameLog
      DEF SaveAnswered, Display, AnswerOf, Stop, TypeOK, StepOf, Untouched, Row
    <2>3. QueueOK(k)'
      BY <1>0, <1>1, <1>3
      DEF SaveAnswered, Display, AnswerOf, Stop, NoCall, TypeOK, QueueOK,
          KnownTo, AtRest
    <2> QED BY <2>1, <2>2, <2>3, ShownStep, StepInv, StrayStep DEF SaveAnswered
  <1> QED BY <1>2, <1>3 DEF SaveAnswered

LEMMA ConflictAnsweredInv ==
    ASSUME IInv, NEW k \in Queues, ConflictAnswered(k)
    PROVE  IInv'
  <1>0. /\ call[k] \in Call /\ item[k] \in Row /\ AnswerOf(k) \in Row
        /\ Len(log) \in Nat /\ QueueOK(k) /\ TypeOK
    BY InvParts, LogFacts DEF IInv, TypeOK, AnswerOf, Call, Row
  <1>1. /\ load[k] = "done" /\ running[k]
        /\ item[k].version <= call[k].version
        /\ Stored(AnswerOf(k))
    BY <1>0 DEF QueueOK, ConflictAnswered, TypeOK, Row
  <1>2. TypeOK'
    BY <1>0, <1>1, QueuesAssumption
    DEF ConflictAnswered, TakeCurrentItem, Display, AnswerOf, Stop, NoCall,
        AnyValue, TypeOK, Call, Row, Stored
  <1>3. StepOf(k)
    BY <1>0, <1>1, SameLog
    DEF ConflictAnswered, TakeCurrentItem, Display, AnswerOf, Stop, TypeOK,
        StepOf, Untouched, Row
  <1>4. QueueOK(k)'
    BY <1>0, <1>1
    DEF ConflictAnswered, TakeCurrentItem, Display, AnswerOf, Stop, NoCall,
        TypeOK, QueueOK, KnownTo, AtRest, Stored
  <1> QED BY <1>2, <1>3, <1>4, ShownStep, StepInv, StrayStep DEF ConflictAnswered

LEMMA LoseAnswerInv ==
    ASSUME IInv, NEW k \in Queues, LoseAnswer(k)
    PROVE  IInv'
  <1>0. /\ call[k] \in Call /\ item[k] \in Row /\ Len(log) \in Nat
        /\ QueueOK(k) /\ TypeOK /\ load[k] = "done"
    BY InvParts, LogFacts DEF IInv, TypeOK, LoseAnswer, QueueOK
  <1>1. SaveOf(k) \in Save
    BY <1>0 DEF SaveOf, Save, Call
  <1>2. TypeOK'
    BY <1>0, <1>1, QueuesAssumption
    DEF LoseAnswer, SaveFailed, Stop, NoCall, AnyValue, TypeOK, Call, history
  <1>3. StepOf(k)
    BY <1>0, SameLog
    DEF LoseAnswer, SaveFailed, Stop, TypeOK, StepOf, Untouched, history, Row
  <1>4. QueueOK(k)'
    BY <1>0
    DEF LoseAnswer, SaveFailed, Stop, NoCall, TypeOK, history, QueueOK,
        KnownTo, AtRest, Stored
  <1>5. StrayOK'
    <2>1. UNCHANGED <<log, load, item, displayed>> /\ StrayOK
      BY InvParts DEF LoseAnswer, history
    <2>2. CASE call[k].stage = "sent"
      <3>1. stray' = stray \cup {SaveOf(k)}
        BY <2>2 DEF LoseAnswer
      <3>2. /\ SaveOf(k).by = k /\ SaveOf(k).version = item[k].version
            /\ item[k].version \in 1..item[k].version
            /\ KnownTo(k, item[k].version)
        BY <1>0, <2>2 DEF SaveOf, QueueOK, Row
      <3> QED BY <1>0, <2>1, <3>1, <3>2 DEF StrayOK, KnownTo
    <2>3. CASE call[k].stage # "sent"
      BY <2>1, <2>3 DEF LoseAnswer, StrayOK, KnownTo
    <2> QED BY <2>2, <2>3
  <1> QED BY <1>2, <1>3, <1>4, <1>5, ShownStep, StepInv DEF LoseAnswer

-----------------------------------------------------------------------------
(* The invariant.                                                          *)

LEMMA StepPreservesInv == IInv /\ [Next]_vars => IInv'
  <1> SUFFICES ASSUME IInv, [Next]_vars PROVE IInv'
    OBVIOUS
  <1>1. ASSUME NEW s \in Screens, User(s) PROVE IInv'
    BY <1>1, UserInv
  <1>2. ASSUME NEW k \in Queues, Loading(k) PROVE IInv'
    BY <1>2, ReadTableInv, ShowTableInv, FailLoadInv DEF Loading
  <1>3. ASSUME NEW k \in Queues, Saving(k) PROVE IInv'
    BY <1>3, StoreSaveInv, SaveAnsweredInv, ConflictAnsweredInv, LoseAnswerInv
       DEF Saving
  <1>4. ASSUME NEW m \in stray, StoreStray(m) PROVE IInv'
    BY <1>4, StoreStrayInv
  <1>5. CASE UNCHANGED vars
    BY <1>5 DEF vars, states, history, IInv, TypeOK, QueuesInOrder, CallsInOrder,
       VersionsKnown, InputKept, SavedIsStored, Stored, KnownTo, AtRest, AnswerOf
  <1> QED BY <1>1, <1>2, <1>3, <1>4, <1>5 DEF Next

(* Calls, answers and late saves of every queue carry only what that queue *)
(* wrote or displayed, and what is pending is on display.                  *)
THEOREM InvAlways == Spec => []IInv
  <1> QED BY InitInv, StepPreservesInv, PTL DEF Spec

(* Whatever the interleaving of loads, inputs, answers and late saves, the *)
(* state of the autosave queues is well typed.                             *)
THEOREM TypeCorrect == Spec => []TypeOK
  <1>1. IInv => TypeOK
    BY DEF IInv
  <1> QED BY <1>1, InvAlways, PTL

(* A row reported as saved shows what the server stored under the version  *)
(* it holds: the user's last input unless a conflict notice withdrew it.   *)
THEOREM SavedIsStoredAlways == Spec => []SavedIsStored
  <1>1. IInv => SavedIsStored
    BY DEF IInv
  <1> QED BY <1>1, InvAlways, PTL

(* No answer, however late, replaces an input on display unless a conflict *)
(* notice says so.                                                         *)
THEOREM InputKeptAlways == Spec => []InputKept
  <1>1. IInv => InputKept
    BY DEF IInv
  <1> QED BY <1>1, InvAlways, PTL

-----------------------------------------------------------------------------
(* No blind overwrite.                                                     *)

(* Who extends the history knows its end.                                  *)
LEMMA WriterKnows ==
    ASSUME IInv, NEW m, m.value \in Values, m.by \in Queues, Extend(m),
           KnownTo(m.by, Len(log))
    PROVE  OverwritesKnownValues
  <1>1. log'[Len(log) + 1] = [value |-> m.value, by |-> m.by]
    BY ExtendGrows DEF IInv
  <1>2. log'[Len(log) + 1].by = m.by
    BY <1>1
  <1> QED BY <1>2 DEF OverwritesKnownValues, KnownTo

LEMMA StoreKnown ==
    ASSUME IInv, NEW k \in Queues, StoreSave(k)
    PROVE  OverwritesKnownValues
  <1>0. call[k] \in Call /\ QueueOK(k) /\ load[k] = "done"
    BY InvParts DEF IInv, TypeOK, StoreSave, QueueOK
  <1>1. CASE VersionMatches(call[k].version)
    <2>1. /\ Extend(SaveOf(k)) /\ SaveOf(k).value \in Values /\ SaveOf(k).by = k
          /\ KnownTo(k, Len(log))
      BY <1>0, <1>1 DEF StoreSave, SaveOf, Call, QueueOK, VersionMatches
    <2> QED BY <2>1, WriterKnows
  <1>2. CASE ~VersionMatches(call[k].version)
    BY <1>2 DEF StoreSave, OverwritesKnownValues
  <1> QED BY <1>1, <1>2

LEMMA StrayKnown ==
    ASSUME IInv, NEW m \in stray, StoreStray(m)
    PROVE  OverwritesKnownValues
  <1>0. m.by \in Queues /\ m.value \in Values /\ KnownTo(m.by, m.version)
    BY InvParts DEF IInv, TypeOK, Save, StrayOK
  <1>1. CASE VersionMatches(m.version)
    <2>1. Extend(m) /\ KnownTo(m.by, Len(log))
      BY <1>0, <1>1 DEF StoreStray, VersionMatches
    <2> QED BY <1>0, <2>1, WriterKnows
  <1>2. CASE ~VersionMatches(m.version)
    BY <1>2 DEF StoreStray, OverwritesKnownValues
  <1> QED BY <1>1, <1>2

(* A step that stores nothing.                                             *)
LEMMA LogKept ==
    ASSUME [Next]_vars,
           \A k \in Queues : ~StoreSave(k), \A m \in stray : ~StoreStray(m)
    PROVE  UNCHANGED log
  BY DEF Next, vars, User, Loading, Saving, StartLoad, CategoriesAdded, Edit,
         Retry, Input, RejectInput, CloseNotice, ReadTable, ShowTable, FailLoad,
         SaveAnswered, ConflictAnswered, LoseAnswer

(* A save, even one that arrives after its client gave up, replaces only a *)
(* value that its own queue wrote or had on display.                       *)
THEOREM NoBlindOverwriteAlways == Spec => NoBlindOverwrite
  <1>1. IInv /\ [Next]_vars => [OverwritesKnownValues]_vars
    <2> SUFFICES ASSUME IInv, [Next]_vars PROVE OverwritesKnownValues
      OBVIOUS
    <2>1. CASE UNCHANGED log
      BY <2>1 DEF OverwritesKnownValues
    <2> QED BY <2>1, LogKept, StoreKnown, StrayKnown
  <1> QED BY <1>1, InvAlways, PTL DEF Spec, NoBlindOverwrite

-----------------------------------------------------------------------------
(* The optimistic register.                                                *)

LEMMA RegisterInit == Init => Register!Init
  BY DEF Init, Register!Init

LEMMA WriteStep ==
    ASSUME IInv, NEW m, m.value \in Values, m.by \in Queues, Extend(m),
           UNCHANGED item, item[m.by].version = Len(log)
    PROVE  Register!Write(m.by)
  BY DEF Register!Write, Extend

LEMMA LearnStep ==
    ASSUME IInv, TypeOK', NEW k \in Queues, UNCHANGED log,
           \A o \in Queues \ {k} : item'[o] = item[o],
           item[k].version <= item'[k].version, item'[k].version > 0
    PROVE  Register!Learn(k)
  <1>1. item'[k].version \in 1..Len(log)
    BY DEF IInv, TypeOK, Row
  <1> QED BY <1>1 DEF Register!Learn

LEMMA SameVersions ==
    ASSUME UNCHANGED log, \A k \in Queues : item'[k].version = item[k].version
    PROVE  UNCHANGED Register!vars
  BY DEF Register!vars

RegisterStep ==
    \/ \E k \in Queues : Register!Learn(k) \/ Register!Write(k)
    \/ UNCHANGED Register!vars

LEMMA UserRegister ==
    ASSUME IInv, TypeOK', NEW s \in Screens, User(s)
    PROVE  RegisterStep
  <1>1. CASE CategoriesAdded(s)
    <2>1. shown[s] \in Queues /\ QueueOK(shown[s]) /\ load[shown[s]] = "done"
      BY <1>1, InvParts DEF IInv, TypeOK, CategoriesAdded, ShownOK
    <2>2. PICK n \in item[shown[s]].version..Len(log) :
                 Display(shown[s], [value |-> log[n].value, version |-> n])
      BY <1>1 DEF CategoriesAdded
    <2>3. /\ item'[shown[s]].version = n /\ item[shown[s]].version <= n /\ n > 0
          /\ \A o \in Queues \ {shown[s]} : item'[o] = item[o]
      BY <2>1, <2>2 DEF Display, IInv, TypeOK, QueueOK, Row
    <2> QED BY <1>1, <2>1, <2>3, LearnStep DEF RegisterStep, CategoriesAdded
  <1>2. CASE Edit(s) \/ Retry(s)
    <2>1. UNCHANGED log /\ \A k \in Queues : item'[k].version = item[k].version
      <3>1. PICK v \in Values : Input(shown[s], v)
        <4>1. shown[s] \in Queues
          BY <1>2 DEF Edit, Retry, IInv, TypeOK
        <4>2. item[shown[s]].value \in Values
          BY <4>1 DEF IInv, TypeOK, Row
        <4> QED BY <1>2, <4>2 DEF Edit, Retry
      <3>2. UNCHANGED log /\ item' = [item EXCEPT ![shown[s]].value = v]
        BY <3>1 DEF Input, QueueItemSave
      <3> QED BY <3>2 DEF IInv, TypeOK, Row
    <2> QED BY <2>1, SameVersions DEF RegisterStep
  <1>3. CASE RejectInput(s) \/ CloseNotice(s) \/ \E k \in Queues : StartLoad(s, k)
    <2>1. UNCHANGED <<log, item>>
      BY <1>3 DEF RejectInput, CloseNotice, StartLoad
    <2> QED BY <2>1, SameVersions DEF RegisterStep
  <1> QED BY <1>1, <1>2, <1>3 DEF User

LEMMA LoadingRegister ==
    ASSUME IInv, TypeOK', NEW k \in Queues, Loading(k)
    PROVE  RegisterStep
  <1>1. CASE ReadTable(k)
    <2>1. /\ UNCHANGED log /\ item'[k].version = Len(log)
          /\ \A o \in Queues \ {k} : item'[o] = item[o]
      BY <1>1 DEF ReadTable, LastRow, IInv, TypeOK
    <2>2. item[k].version <= Len(log) /\ Len(log) > 0
      BY DEF IInv, TypeOK
    <2> QED BY <2>1, <2>2, LearnStep DEF RegisterStep
  <1>2. CASE ShowTable(k) \/ FailLoad(k)
    <2>1. UNCHANGED log /\ \A o \in Queues : item'[o].version = item[o].version
      BY <1>2 DEF ShowTable, Display, FailLoad, IInv, TypeOK
    <2> QED BY <2>1, SameVersions DEF RegisterStep
  <1> QED BY <1>1, <1>2 DEF Loading

LEMMA SavingRegister ==
    ASSUME IInv, TypeOK', NEW k \in Queues, Saving(k)
    PROVE  RegisterStep
  <1>0. call[k] \in Call /\ item[k] \in Row /\ QueueOK(k) /\ TypeOK
    BY InvParts DEF IInv, TypeOK
  <1>1. CASE StoreSave(k)
    <2>1. CASE VersionMatches(call[k].version)
      <3>1. /\ Extend(SaveOf(k)) /\ SaveOf(k).by = k /\ SaveOf(k).value \in Values
            /\ UNCHANGED item /\ item[k].version = Len(log)
        BY <1>0, <1>1, <2>1 DEF StoreSave, SaveOf, Call, QueueOK, VersionMatches
      <3> QED BY <3>1, WriteStep DEF RegisterStep
    <2>2. CASE ~VersionMatches(call[k].version)
      BY <1>1, <2>2, SameVersions DEF StoreSave, RegisterStep
    <2> QED BY <2>1, <2>2
  <1>2. CASE SaveAnswered(k)
    <2>1. call[k].version = item[k].version + 1
      BY <1>0, <1>2 DEF QueueOK, SaveAnswered
    <2>2. /\ UNCHANGED log /\ item'[k].version = call[k].version
          /\ \A o \in Queues \ {k} : item'[o] = item[o]
      BY <1>0, <1>2 DEF SaveAnswered, KeepNewerInput, Display, AnswerOf, TypeOK, Row
    <2>3. item[k].version <= item'[k].version /\ item'[k].version > 0
      BY <1>0, <2>1, <2>2 DEF Row
    <2> QED BY <2>2, <2>3, LearnStep DEF RegisterStep
  <1>3. CASE ConflictAnswered(k)
    <2>1. item[k].version <= call[k].version /\ call[k].version \in 1..Len(log)
      BY <1>0, <1>3 DEF QueueOK, ConflictAnswered, Stored, AnswerOf
    <2>2. /\ UNCHANGED log /\ item'[k].version = call[k].version
          /\ \A o \in Queues \ {k} : item'[o] = item[o]
      BY <1>0, <1>3 DEF ConflictAnswered, TakeCurrentItem, Display, AnswerOf, TypeOK
    <2> QED BY <2>1, <2>2, LearnStep DEF RegisterStep
  <1>4. CASE LoseAnswer(k)
    BY <1>4, SameVersions DEF LoseAnswer, RegisterStep
  <1> QED BY <1>1, <1>2, <1>3, <1>4 DEF Saving

LEMMA StrayRegister ==
    ASSUME IInv, NEW m \in stray, StoreStray(m)
    PROVE  RegisterStep
  <1>1. /\ m.by \in Queues /\ m.value \in Values
        /\ m.version \in 1..item[m.by].version
        /\ item[m.by] \in Row /\ item[m.by].version <= Len(log)
    BY InvParts DEF IInv, TypeOK, Save, StrayOK
  <1>2. CASE VersionMatches(m.version)
    <2>1. Extend(m) /\ UNCHANGED item /\ item[m.by].version = Len(log)
      BY <1>1, <1>2, LogFacts DEF StoreStray, VersionMatches, Row, IInv
    <2> QED BY <1>1, <2>1, WriteStep DEF RegisterStep
  <1>3. CASE ~VersionMatches(m.version)
    BY <1>3, SameVersions DEF StoreStray, RegisterStep
  <1> QED BY <1>2, <1>3

(* The save queues and the server together implement the optimistic        *)
(* register: only a queue that knows the newest version of the row extends *)
(* its history, and no answer takes a queue back to an older version.      *)
THEOREM RegisterImplemented == Spec => ImplementsRegister
  <1>1. IInv /\ TypeOK' /\ [Next]_vars => [Register!Next]_(Register!vars)
    <2> SUFFICES ASSUME IInv, TypeOK', [Next]_vars
                 PROVE  Register!Next \/ UNCHANGED Register!vars
      OBVIOUS
    <2>1. CASE UNCHANGED vars
      BY <2>1 DEF vars, Register!vars
    <2>2. CASE Next
      BY <2>2, UserRegister, LoadingRegister, SavingRegister, StrayRegister
         DEF Next, RegisterStep, Register!Next
    <2> QED BY <2>1, <2>2
  <1> QED BY <1>1, RegisterInit, InvAlways, TypeCorrect, PTL
          DEF Spec, ImplementsRegister, Register!Spec
=============================================================================
