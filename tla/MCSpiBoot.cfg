\* Boot from a flash of FlashWords words, then any sequence of driver calls.
CONSTANTS
  DividerMod = 8
  ByteBits = 3
  FlashBits = 3
  BytesPerWord = 2
  FlashWords = 2
  Contents <- MCContents
  CodeWords = 2
  ClockDivider = 3
  AccessGap = 4
  UpdateGap = 2
SPECIFICATION Spec
INVARIANTS BootCopiesFlash TransfersArrive
PROPERTIES ReadsOwnAnswer CallsReturn
