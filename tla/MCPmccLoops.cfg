\* Every program of up to MaxLength instructions, reset and triggered at will.
CONSTANTS
  AddrMod = 16
  IterMod = 4
  LifoDepth = 2
  CtrlValues <- MCCtrlValues
  LifoPowerUp <- MCLifoPowerUp
  Programs <- MCPrograms
  MaxLength = 5
SPECIFICATION Spec
INVARIANTS LifoConsistent FetchCoherent
PROPERTIES ExecutesIsa
CHECK_DEADLOCK TRUE
