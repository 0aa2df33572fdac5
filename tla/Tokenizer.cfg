CONSTANTS
    Characters <- MCCharacters
    Files <- MCFiles
    Letters = {"i", "f", "n", "N"}
    Digits = {"1"}
    Spaces <- MCSpaces
    Escapes <- MCEscapes
    Keywords <- MCKeywords
    NullWord <- MCNullWord
    LongOps <- MCLongOps
    ShortOps = {"+", "=", "/", "*"}
    PROGRAM_LINE = 4
SPECIFICATION Spec
INVARIANTS
    TypeOK
    TokensInOrder
    SpellingKept
    ReportIsTrue
PROPERTIES
    ReadsAsPromised
    ReadingEnds
