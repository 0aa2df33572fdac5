CONSTANTS
    x = x
    f = f
    A = A
    B = B
    m = m
    n = n
    Names = {x, f}
    Tags = {A}
    Members = {m, n}
    Bases = {"int"}
    Shapes <- MCPlain
    MaxIdents = 3
    MaxStructs = 1
    MaxMembers = 2
    MaxBlocks = 2
    MaxStrings = 0
SPECIFICATION Spec
INVARIANT LocalsKeepTheirRoom
