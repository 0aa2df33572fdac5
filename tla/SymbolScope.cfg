CONSTANTS
    x = x
    f = f
    A = A
    B = B
    m = m
    n = n
    Names = {x, f}
    Tags = {}
    Members = {}
    Bases = {"int"}
    Shapes <- MCPlain
    MaxIdents = 3
    MaxStructs = 0
    MaxMembers = 0
    MaxBlocks = 2
    MaxStrings = 0
SPECIFICATION Spec
PROPERTY UseBindsVisible
