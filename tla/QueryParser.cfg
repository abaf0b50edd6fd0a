SPECIFICATION Spec
CONSTANTS
  Texts <- MCTexts
  Long <- MCLong
  Statements <- MCStatements
INVARIANTS
  ParsesAsMeant
  WordsKept
CHECK_DEADLOCK FALSE
