CONSTANTS
    x = x
    f = f
    A = A
    B = B
    m = m
    n = n
    Names = {x, f}
    Tags = {A}
    Members = {m}
    Bases = {"int"}
    Shapes <- MCShapes
    MaxIdents = 4
    MaxStructs = 1
    MaxMembers = 1
    MaxBlocks = 2
    MaxStrings = 1
SPECIFICATION Spec
SYMMETRY Spellings
INVARIANTS
    SlotsDisjoint
    DataMatchesGlobals
PROPERTIES
    UseBindsInnermost
    BoundNamesKeepTheirPlace
VIEW Unresolved
