CONSTANTS
    Languages <- EarlyReturns
    ScalarSize = 4
    MaxNodes = 1
SPECIFICATION Spec
INVARIANT CallAligned
