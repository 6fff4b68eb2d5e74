SPECIFICATION Spec
CONSTANTS
  BufSize = 4
  Letters <- MCLetters
  Cls <- MCCls
  Help <- MCHelp
  BatSuffix <- MCBat
CHECK_DEADLOCK FALSE
INVARIANTS TypeOK ReadsStayInBuffer NoPhantomCommand
PROPERTIES ReturnsToPrompt LineIsActedOn ActsOnTheLine
