\* A peer that waits for its prompt, and one that types at any time.
CONSTANTS
  IntMod = 16
  PinMod = 4
  Pins = 2
  LineLength = 3
  Cols = 1
  CommandNames <- MCCommandNames
  Chars <- MCChars
  StackTails <- MCStackTails
SPECIFICATION Spec
INVARIANTS LineAsTyped
PROPERTIES ObeysTypedLines EveryLineAnswered
