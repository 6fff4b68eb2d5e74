SPECIFICATION Spec
CONSTANTS
  CharWidth = 2
  CharHeight = 3
  Word = 64
  Width = 6
  Outputs <- MCOutputs
  Prompt <- MCPrompt
  InputSize = 7
  LastRow = 9
INVARIANT CursorFollowsText
