CONSTANTS
    Items = {i1}
    Categories = {g0, g1, g2}
    CommonCategory = g0
    Names = {n0, n1, n2}
    Stock = 1
SPECIFICATION PrepSpec
INVARIANTS
    HomeCompleteMeansComplete
