\* A computer that stops sending when the chip is reset, and one that does not
\* notice.
CONSTANTS
  CodeWords = 2
  BytesPerWord = 2
  MaxResets = 3
  Bytes <- MCBytes
  Image <- MCImage
  PowerUpWord <- MCPowerUpWord
SPECIFICATION Spec
INVARIANTS CodeRamHoldsImages LoadsStream
PROPERTIES BootEnds
