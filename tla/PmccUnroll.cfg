\* Every well-formed program of up to MaxLength instructions, run once.
CONSTANTS
  AddrMod = 32
  IterMod = 4
  LifoDepth = 2
  CtrlValues <- MCCtrlValues
  LifoPowerUp <- MCLifoPowerUp
  Programs <- MCPrograms
  Sources <- MCSources
  MaxLength = 6
  Counts = {1, 3}
SPECIFICATION UnrollSpec
INVARIANTS WritesUnrolledProgram
PROPERTIES RefinesIsa Completes
