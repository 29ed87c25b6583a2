\* One word of .data and one of .bss are enough for the copy to go too far.
CONSTANTS
  RamWords = 9
  MaxSection = 3
  Uninitialised = Uninitialised
  Following = {0, 9}
SPECIFICATION StartUpSpec
INVARIANTS BssCleared
