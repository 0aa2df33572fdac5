CONSTANTS
    Languages <- StructsFirst
    ScalarSize = 4
    MaxNodes = 1
SPECIFICATION Spec
INVARIANT ArgumentsArrive
