CONSTANTS
    c0 = c0
    c1 = c1
    c2 = c2
    t1 = t1
    Common = c0
    Clients = {q1, q2, q3}
    Revisions = {r1, r2, r3}
    Categories = {c0, c1, c2}
    Tools = {t1}
    FirstTools <- ToolOfC2
    Selections <- AllBodies
    Additions <- AddC2
    MaxStock = 1
    MaxVersion = 2
    Ops = {"create", "item", "add", "configure", "cancel"}
SPECIFICATION OverlapsSpec
SYMMETRY ClientsAndRevisions
INVARIANTS
    OneActive
PROPERTIES
    CancelledFrozen
    LossIsConfirmed
    VersionedWrites
