\* Both halves of the counter wrap within a call; the longest delays of both
\* kinds do not fit a word; one value on the stack is no offset; sections of
\* every size up to three words; every way of printing every word.
\* On the buses loads from everywhere, stores to the code RAM, fetches from both
\* memories.
CONSTANTS
  Peripherals = {"GPIO"}
  Words = {0, 1}
  Mapped = {0}
  Values = {0, 1}
  Loads <- MCLoads
  Stores <- MCStores
  Fetches <- MCFetches
  PowerUp <- MCPowerUp
  MaxAccesses = 2
  Half = 5
  Wrap = 16
  PerMsec = 5
  PerUsec = 2
  SIM = FALSE
  SimMsecs = 4
  SimUsecs = 1
  Pixels = {p1, p2}
  Rounds = 3
  MaxCount = 2
  HalfWords = {0, 1, 2, 77}
  RamWords = 9
  MaxSection = 3
  Uninitialised = Uninitialised
  Following <- MCFollowing
  IntMod = 65536
  NumberSize = 11
  BufferSize = 100
  PrintedWords <- MCWords
  Names <- MCNames
SPECIFICATION PartsSpec
INVARIANTS DataAnswered InstrAnswered ElapsedExact DelaysAsAsked LoadsFirstBest ReadyForMain ReadsBack
PROPERTIES FetchGranted
