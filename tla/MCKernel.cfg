SPECIFICATION BootSpec
CONSTANTS
  VGA_WIDTH = 2
  VGA_HEIGHT = 2
  Strings <- MCStrings
  MaxLog = 8
  Numbers <- MCNumbers
  MaxDepth = 2
  MaxLines = 1
  Processors = 1
  Word = 33554432
  BootInis <- MCBootInis
  NoFile = NoFile
  Greetings <- MCGreetings
  MaxCalls = 1
INVARIANTS
  ScreenShowsTail
  ResultIsOwn
  OneUnaskedCall
  TextWaitsForBuffer
  BufferMatchesScreen
PROPERTIES
  KeyIsHandled
  BootLineRuns
CHECK_DEADLOCK FALSE
