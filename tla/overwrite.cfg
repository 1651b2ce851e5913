CONSTANTS
    c0 = c0
    c1 = c1
    c2 = c2
    t1 = t1
    Common = c0
    Clients = {q1, q2}
    Revisions = {r1, r2}
    Categories = {c0, c1, c2}
    Tools = {t1}
    FirstTools <- OneTool
    Selections <- DayBodies
    Additions <- AddC2
    MaxStock = 1
    MaxVersion = 1
    Ops = {"create", "add", "configure"}
SPECIFICATION Spec
SYMMETRY ClientsAndRevisions
PROPERTIES
    NoSilentOverwrite
