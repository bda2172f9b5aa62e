SPECIFICATION FairSpec
CONSTANTS
  Byte = {0, 1}
  ObjectIdLen = 2
  Values = {"small", "large"}
  Size <- MCSize
  Budget = 3
  MaxList = 2
INVARIANT TypeOK
INVARIANT RefsResolve
INVARIANT AnswersRight
PROPERTY ShutdownFinal
PROPERTY CallsReturn
CHECK_DEADLOCK FALSE
