\* A pixel that counts in no round is given what was on the stack.
CONSTANTS
  Pixels = {p1, p2}
  Rounds = 3
  MaxCount = 2
  HalfWords = {0, 1, 2, 77}
SPECIFICATION CalibrationSpec
INVARIANTS EveryPixelCalibrated
