SPECIFICATION Spec
CONSTANTS
  BufSize = 4
  Letters <- MCLetters
  Cls <- MCCls
  Help <- MCHelp
  BatSuffix <- MCBat
CHECK_DEADLOCK FALSE
INVARIANT LineNotLost
