CONSTANTS
    x = x
    f = f
    A = A
    B = B
    m = m
    n = n
    Names = {f}
    Tags = {A, B}
    Members = {m, n}
    Bases = {}
    Shapes <- MCShapes
    MaxIdents = 4
    MaxStructs = 3
    MaxMembers = 2
    MaxBlocks = 1
    MaxStrings = 0
SPECIFICATION Spec
SYMMETRY Spellings
INVARIANTS
    TypeOK
    MembersDisjoint
    TagLookupFindsTag
