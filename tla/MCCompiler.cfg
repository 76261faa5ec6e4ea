CONSTANTS
  Letters <- MCLetters
  Words <- MCLetters
  HexDigits <- MCHexDigits
  Digit <- MCDigit
  CodeOf <- MCCodeOf
  Numerals <- MCNumerals
  Inner <- MCInner
  Programs <- MCPrograms
  Trees <- MCTrees
  Texts <- MCTexts
  Answers <- MCAnswers
  Env <- MCEnv
SPECIFICATION CSpec
INVARIANTS
  ReadsLexemes
  ParsesAsMeant
  LabelsResolve
  RunsAsWritten
PROPERTIES
  KeepsUp
