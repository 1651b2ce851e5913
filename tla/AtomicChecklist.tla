--------------------------- MODULE AtomicChecklist ---------------------------
(***************************************************************************)
(* What the daily checklist service promises to the users of a work date   *)
(* (src/backend/src/daily-checklists/daily-checklists.service.ts), without *)
(* transactions and locks: a request that was admitted takes effect at one *)
(* instant between its arrival and its answer, on the table and the        *)
(* catalogue as they are at that instant, or it leaves no trace.           *)
(***************************************************************************)
EXTENDS Naturals

CONSTANTS
    Clients,    \* requests in flight at the same time (one per client)
    Revisions,  \* ids of tables, the current one and those that were replaced
    Tools,
    Common,     \* the category that belongs to every table
    Period,     \* the periods of a work date
    Requests,   \* request bodies
    NoRequest   \* the client waits for nothing

VARIABLES
    category,   \* the catalogue: status of each category
    tool,       \* and category, status and stock of each tool
    header,     \* status, mode and version of each table
    chosen,     \* its categories by period
    items,      \* its items by period and tool; version 0 is no item
    past,       \* the work date is over
    req         \* the request each client waits for

table == <<header, chosen, items>>
vars  == <<category, tool, table, past, req>>

NoItem == [stock |-> 0, qty |-> 0, checked |-> FALSE, version |-> 0]
Empty  == [s \in Period \X Tools |-> NoItem]

Exists(item) == item.version # 0

Init ==
    /\ header = [r \in Revisions |-> [status |-> "ABSENT", mode |-> "FULL_DAY", version |-> 0]]
    /\ chosen = [r \in Revisions |-> [p \in Period |-> {}]]
    /\ items = [r \in Revisions |-> Empty]
    /\ past = FALSE
    /\ req = [q \in Clients |-> NoRequest]
-----------------------------------------------------------------------------
(* The catalogue at this instant.                                          *)
Open(cats) == \A c \in cats : c # Common /\ category[c] = "ACTIVE"

Offered(t, cats) == tool[t].status = "ACTIVE" /\ tool[t].category \in cats

(* An item of a table: what the old table had, if the stock still does.    *)
ItemOf(t, old) ==
    LET carried == Exists(old) /\ old.qty <= tool[t].stock
    IN  [stock |-> tool[t].stock, qty |-> IF carried THEN old.qty ELSE 0,
         checked |-> carried /\ old.checked, version |-> 1]

ItemsOf(sel, old) ==
    [s \in Period \X Tools |->
        IF sel[s[1]] # {} /\ Offered(s[2], sel[s[1]] \cup {Common})
        THEN ItemOf(s[2], old[s])
        ELSE NoItem]

IsCurrent(r) == header[r].status = "ACTIVE"

New(mode) == [status |-> "ACTIVE", mode |-> mode, version |-> 1]
Ended(h)  == [status |-> "CANCELLED", mode |-> h.mode, version |-> h.version + 1]

MakeTable(r, m, old) ==
    /\ header[r].status = "ABSENT"
    /\ category[Common] = "ACTIVE"
    /\ \A p \in Period : Open(m.sel[p])
    /\ chosen' = [chosen EXCEPT ![r] = m.sel]
    /\ items' = [items EXCEPT ![r] = ItemsOf(m.sel, old)]
-----------------------------------------------------------------------------
(* The effects.                                                            *)
Create(m) ==
    /\ m.op = "create"
    /\ \A r \in Revisions : ~IsCurrent(r)
    /\ \E r \in Revisions :
          /\ MakeTable(r, m, Empty)
          /\ header' = [header EXCEPT ![r] = New(m.mode)]

Save(m) ==
    /\ m.op = "item"
    /\ IsCurrent(m.rev)
    /\ LET old == items[m.rev][m.slot] IN
         /\ Exists(old) /\ old.version = m.version
         /\ m.qty <= old.stock
         /\ m.checked => m.qty # 0
         /\ items' = [items EXCEPT ![m.rev][m.slot] =
                [stock |-> old.stock, qty |-> m.qty, checked |-> m.checked,
                 version |-> old.version + 1]]
    /\ UNCHANGED <<header, chosen>>

AddTo(r, p, cats) ==
    /\ chosen[r][p] # {} /\ chosen[r][p] \cap cats = {}
    /\ \A t \in Tools : Offered(t, cats) => ~Exists(items[r][<<p, t>>])
    /\ chosen' = [chosen EXCEPT ![r][p] = @ \cup cats]
    /\ items' = [items EXCEPT ![r] =
          [s \in Period \X Tools |->
              IF s[1] = p /\ Offered(s[2], cats) THEN ItemOf(s[2], NoItem) ELSE items[r][s]]]

Add(m) ==
    /\ m.op = "add"
    /\ Open(m.cats)
    /\ \E r \in Revisions : IsCurrent(r) /\ AddTo(r, m.period, m.cats)
    /\ UNCHANGED header

(* Who ends a table has seen its version, and confirmed the loss of what   *)
(* is entered in it.                                                       *)
MayEnd(m) ==
    /\ IsCurrent(m.rev)
    /\ header[m.rev].version = m.version
    /\ (\E s \in Period \X Tools : items[m.rev][s].qty > 0 \/ items[m.rev][s].checked)
          => m.confirmed

Replace(m) ==
    /\ m.op = "configure"
    /\ MayEnd(m)
    /\ \E r \in Revisions :
          /\ MakeTable(r, m, items[m.rev])
          /\ header' = [header EXCEPT ![r] = New(m.mode), ![m.rev] = Ended(@)]

Delete(m) ==
    /\ m.op = "cancel"
    /\ MayEnd(m)
    /\ header' = [header EXCEPT ![m.rev] = Ended(@)]
    /\ UNCHANGED <<chosen, items>>
-----------------------------------------------------------------------------
(* The requests: admitted before the date is over, served or refused.      *)
WholeDay(m) ==
    m.op \in {"create", "configure"} =>
        {p \in Period : m.sel[p] # {}} =
            IF m.mode = "FULL_DAY" THEN {"FULL_DAY"} ELSE {"MORNING", "AFTERNOON"}

Admit(q) ==
    /\ req[q] = NoRequest /\ ~past
    /\ \E m \in Requests : WholeDay(m) /\ req' = [req EXCEPT ![q] = m]
    /\ UNCHANGED <<category, tool, table, past>>

Serve(q) ==
    /\ req[q] # NoRequest
    /\ \/ Create(req[q]) \/ Save(req[q]) \/ Add(req[q])
       \/ Replace(req[q]) \/ Delete(req[q])
    /\ req' = [req EXCEPT ![q] = NoRequest]
    /\ UNCHANGED <<category, tool, past>>

(* A creation that finds a table is answered with it, so without effect.   *)
Refuse(q) ==
    /\ req[q] # NoRequest
    /\ req' = [req EXCEPT ![q] = NoRequest]
    /\ UNCHANGED <<category, tool, table, past>>

(* Whatever administrators and the clock do, they do not touch a table.    *)
Elsewhere == (past => past') /\ UNCHANGED <<table, req>>

Next == Elsewhere \/ \E q \in Clients : Admit(q) \/ Refuse(q) \/ Serve(q)

Spec == Init /\ [][Next]_vars
=============================================================================
