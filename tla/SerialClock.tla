----------------------------- MODULE SerialClock -----------------------------
(***************************************************************************)
(* The two small blocks the serial peripherals are built around.           *)
(*                                                                         *)
(* The serial clock generator divides the system clock: while enabled its  *)
(* level toggles every target + 1 cycles, and rising or falling says so for*)
(* the cycle after the toggle.  The edge detector synchronises a line and  *)
(* reports its edges three cycles late.                                    *)
(***************************************************************************)
EXTENDS Naturals

CONSTANT DividerMod   \* values of a clock divider (2^8 in the code)

ASSUME DividerModAssumption == DividerMod \in Nat \ {0}

Divider == 0 .. DividerMod - 1

Generator == [level : BOOLEAN, rising : BOOLEAN, falling : BOOLEAN,
              target : Divider, counter : Divider]

GeneratorReset ==
  [level |-> FALSE, rising |-> FALSE, falling |-> FALSE, target |-> 0, counter |-> 0]

\* A new divider, in the cycle it is announced, also holds the clock low.  (The
\* code tests target = 0 apart; the counter is then 0 too.)
GeneratorNxt(gen, en, divider_valid, divider) ==
  LET running == en /\ ~divider_valid
      toggles == running /\ gen.counter = gen.target
  IN  [level   |-> running /\ (gen.level # toggles),
       rising  |-> toggles /\ ~gen.level,
       falling |-> toggles /\ gen.level,
       target  |-> IF divider_valid THEN divider ELSE gen.target,
       counter |-> IF running /\ ~toggles THEN (gen.counter + 1) % DividerMod ELSE 0]

-----------------------------------------------------------------------------
\* The last three samples of a line, newest first.
Samples == [1 .. 3 -> {0, 1}]

SamplesReset == <<0, 0, 0>>

SamplesNxt(prv, line) == <<line, prv[1], prv[2]>>

RisingEdge(prv)  == prv[2] = 1 /\ prv[3] = 0
FallingEdge(prv) == prv[2] = 0 /\ prv[3] = 1

=============================================================================
