SPECIFICATION Spec
CONSTANTS
  LongIsWide = TRUE
  Texts <- AllTexts
  Capacity = 1
  UINT16_MAX = 2
INVARIANTS
  TypeOK
  KeepsTheContract
  AcceptsTheGrammar
  BuildsTheProgram
  WordsAreWhole
  CommentsAreBlank
  NumbersReadAsWritten
PROPERTIES
  ParsingEnds
