CONSTANTS
    Languages <- CodeGenLanguages
    ScalarSize = 4
    MaxNodes = 2
SPECIFICATION GenSpec
INVARIANTS
    GenTypeOK
    LabelsUnique
    JumpsHaveTargets
    CountAgreesModulo16
