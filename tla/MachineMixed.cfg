CONSTANTS
    Languages <- MixedCalls
    ScalarSize = 4
    MaxNodes = 1
SPECIFICATION Spec
INVARIANT ResultSlotOnTop
