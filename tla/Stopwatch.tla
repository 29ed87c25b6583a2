----------------------------- MODULE Stopwatch -----------------------------
(***************************************************************************)
(* The cycle counter of the core as the command interpreter uses it: read  *)
(* before and after a call, the difference cut to a word and printed.  The *)
(* counter has two halves, read by two instructions, and counts on between *)
(* them; an interrupt may come in between too.                             *)
(*                                                                         *)
(* One step is one cycle.                                                  *)
(***************************************************************************)
EXTENDS Integers

CONSTANT Half   \* values of a half of the counter (2^32)

ASSUME HalfAssumption == Half \in Nat /\ Half > 1

VARIABLES
  mcycle, mcycleh,   \* the halves of the counter
  at,                \* how far the software is
  start, stop,       \* the readings
  time,              \* readout_time or calibration_time, as printed last
  passed             \* history: cycles from the first reading on; no more than Half

stopwatchVars == <<mcycle, mcycleh, at, start, stop, time, passed>>

Word == 0 .. Half - 1

Counter == [lower_half : Word, upper_half : Word]

Cleared == [lower_half |-> 0, upper_half |-> 0]

-----------------------------------------------------------------------------
Successor(word) == IF word + 1 = Half THEN 0 ELSE word + 1

Difference(word, other) == IF other > word THEN word + Half - other ELSE word - other

\* The counter never stops.
Count ==
  /\ mcycle' = Successor(mcycle)
  /\ mcycleh' = IF mcycle' = 0 THEN Successor(mcycleh) ELSE mcycleh

Passes == passed' = IF passed < Half THEN passed + 1 ELSE passed

\* (slip) The halves of the union are the other way round.
ReadLowerSwapped(counter) == [counter EXCEPT !.upper_half = mcycle]

ReadLower(counter) == [counter EXCEPT !.lower_half = mcycle]

ReadUpper(counter) == [counter EXCEPT !.upper_half = mcycleh]

\* stop - start, in 64 bits.
Minus(counter, other) ==
  LET borrow == IF counter.lower_half < other.lower_half THEN 1 ELSE 0
      upper  == Difference(counter.upper_half, other.upper_half)
  IN  [lower_half |-> Difference(counter.lower_half, other.lower_half),
       upper_half |-> Difference(upper, borrow)]

\* static_cast<uint32_t>
Cast(counter) == counter.lower_half

ReadsStart ==
  \/ /\ at = "prompt" /\ at' = "start"
     /\ start' = ReadLower(start)
     /\ passed' = 1
  \/ /\ at = "start" /\ at' = "call"
     /\ start' = ReadUpper(start)
     /\ Passes

ReadsStop ==
  \/ /\ at = "call" /\ at' = "stop"
     /\ stop' = ReadLower(stop)
     /\ UNCHANGED <<time, passed>>
  \/ /\ at = "stop" /\ at' = "prompt"
     /\ stop' = ReadUpper(stop)
     /\ time' = Cast(Minus(stop', start))
     /\ UNCHANGED passed

\* read_counters() or calibrate(), an interrupt, the wait for a command.
RunsOn ==
  /\ IF at \in {"start", "call"} THEN Passes ELSE UNCHANGED passed
  /\ UNCHANGED <<at, start, stop, time>>

StopwatchInit ==
  /\ mcycle \in Word /\ mcycleh \in Word
  /\ at = "prompt"
  /\ start = Cleared /\ stop = Cleared
  /\ time = 0 /\ passed = 0

StopwatchNext ==
  /\ Count
  /\ \/ ReadsStart /\ UNCHANGED <<stop, time>>
     \/ ReadsStop /\ UNCHANGED start
     \/ RunsOn

StopwatchSpec == StopwatchInit /\ [][StopwatchNext]_stopwatchVars

-----------------------------------------------------------------------------
StopwatchTypeOK ==
  /\ mcycle \in Word /\ mcycleh \in Word
  /\ at \in {"prompt", "start", "call", "stop"}
  /\ start \in Counter /\ stop \in Counter
  /\ time \in Word /\ passed \in 0 .. Half

(* A carry between the two instructions puts a reading a whole Half off,   *)
(* and the one after the call may then be the smaller.  The time printed   *)
(* is right all the same, for any call shorter than Half cycles.           *)
ElapsedExact == at = "prompt" /\ passed < Half => time = passed

=============================================================================
