\* What the comment on the latch program says it stores.
CONSTANTS
  AddrMod = 16
  IterMod = 4
  LifoDepth = 1
  CtrlValues <- MCCtrlValues
  LifoPowerUp <- MCLifoPowerUp
  PixelBits = 2
  AccessGap = 4
  UpdateGap = 2
SPECIFICATION Spec
PROPERTIES LatchesAnnouncedValue
