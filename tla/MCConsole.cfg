SPECIFICATION Spec
CONSTANTS
  CharWidth = 2
  CharHeight = 3
  Word = 64
  Width = 7
  Outputs <- MCOutputs
  Prompt <- MCPrompt
  InputSize = 7
  LastRow = 6
INVARIANTS TypeOK CursorInColumns CursorTracksInput
