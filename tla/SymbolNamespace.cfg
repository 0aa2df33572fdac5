CONSTANTS
    x = x
    f = f
    A = A
    B = B
    m = m
    n = n
    Names = {A}
    Tags = {A}
    Members = {m}
    Bases = {"int"}
    Shapes <- MCPlain
    MaxIdents = 4
    MaxStructs = 3
    MaxMembers = 2
    MaxBlocks = 1
    MaxStrings = 0
SPECIFICATION Spec
INVARIANT TagLookupFindsTag
