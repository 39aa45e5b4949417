SPECIFICATION Spec
CONSTANTS
    c1 = c1
    c2 = c2
    f1 = f1
    f2 = f2
    Calls = {c1, c2}
    Sids = {s1, s2}
    Flows = {f1, f2}
    Bodies = {b1}
    Defs = {fav, d1}
    Favorite = fav
    MaxCalls = 3
    MaxFaults = 0
    None = None
SYMMETRY CallSymmetry
INVARIANT AlwaysWhole
CHECK_DEADLOCK FALSE
