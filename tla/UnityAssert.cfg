SPECIFICATION Spec
CONSTANTS
  ByteBits = 2
  Printable <- MCPrintable
  CR = 13
  LF = 10
  ESC <- MCESC
  LBracket = 1
  LetterM <- MCLetterM
  Beyond <- MCBeyond
  Macros <- MCMacros
CHECK_DEADLOCK FALSE
INVARIANTS
  AssertTypeOK
  VerdictRight
  FirstMismatchReported
  ReadsInBounds
  FailureShowsDifference
PROPERTIES
  Terminates
