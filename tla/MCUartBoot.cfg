\* Boot over the UART, then any number of lines.
CONSTANTS
  DividerMod = 2
  ByteBits = 2
  PeerByteBits = 2
  EdgesPerBit = 4
  PeerBit = 8
  ClockDivider = 0
  CodeWords = 2
  BytesPerWord = 2
  LineLength = 2
  SlowestGap = 8
  PeerBytes <- MCPeerBytes
  Newline <- MCNewline
  Prompt <- MCPrompt
  AccessGap = 4
  UpdateGap = 2
SPECIFICATION Spec
INVARIANTS LosesNothing WriteDelivers
PROPERTIES CallsReturn RefinesByteLink
