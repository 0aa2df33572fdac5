SPECIFICATION Spec
CONSTANTS
  Texts <- MCTexts
  Endings <- MCEndings
  Idents = {"x", "f"}
  CodeSize = 3
INVARIANTS
  TypeOK
  TreesAreDerivations
  RefusedRightly
  DeclaredOnce
PROPERTY ParsingEnds
