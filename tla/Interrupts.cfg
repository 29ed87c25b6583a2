\* One input that moves at will, two outputs, the shortest period that can be served.
CONSTANTS
  Pins = {button, led, lamp}
  Inputs = {button}
  Outputs = {led, lamp}
  CounterMod = 16
  Period = 10
  AccessGap = 1
  UpdateGap = 1
  SlowestGap = 2
SPECIFICATION Spec
INVARIANTS HandlerInstalled MatchesAnswered PinsObserved OutputsAsWanted
PROPERTIES KeepsTicking
