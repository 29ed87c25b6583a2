\* Any sequence of API calls on a column of PixelBits bits.
CONSTANTS
  AddrMod = 16
  IterMod = 4
  LifoDepth = 1
  CtrlValues <- MCCtrlValues
  LifoPowerUp <- MCLifoPowerUp
  PixelBits = 2
  AccessGap = 4
  UpdateGap = 2
SPECIFICATION Spec
INVARIANTS ExecutesWrittenCode TriggerTaken ConfiguredOnReturn ReadsCounters
PROPERTIES LatchesWholeConfig CountsWhenCalibrating CallsReturn
