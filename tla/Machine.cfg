CONSTANTS
    Languages <- MachineLanguages
    ScalarSize = 4
    MaxNodes = 2
SPECIFICATION Spec
INVARIANTS
    StatementsStartBalanced
    HeightIsStatic
    CallAligned
    ResultSlotOnTop
    ArgumentsArrive
    TemporariesBelowFrame
    ReturnFindsSavedR12
