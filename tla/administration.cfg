CONSTANTS
    Users = {u1, u2}
    First = u1
    Clients = {c1, c2}
    MaxVersion = 2
    Tools = {t1}
    Categories = {k0, k1}
    Common = k0
    Admins = {a1, a2}
    Editor = a1
    Checklists = {l1}
    MaxToolEdits = 3
    MaxCategoryEdits = 2
    Rows = {r1, r2}
    Own = r1
    Nobody = nobody
    MaxTotal = 2
    MaxLoads = 2
SPECIFICATION AdminSpec
INVARIANTS
    AdminRemains
    ActiveToolsUsable
    SelectionIsWhole
    ScreensInv
PROPERTIES
    EditsSeeCurrent
    MasterEditsSeeCurrent
    MasterAnswered
    AnswersMeetTheirDialog
    SavesEnd
