----------------------------- MODULE PixelMatrix -----------------------------
(***************************************************************************)
(* The pixel matrix (external), as far as the control lines of the         *)
(* controller are documented to work it: one column of it, a chain of      *)
(* PixelBits register bits that is the shift register, the hit counter and *)
(* the source of the pixel configuration at once.                          *)
(***************************************************************************)
EXTENDS Naturals, Sequences

CONSTANT PixelBits   \* bits in a column: rows * bits per pixel (32 * 16)

ASSUME PixelBitsAssumption == PixelBits \in Nat \ {0}

VARIABLES
  pixels,   \* the register chain; din enters at 1, dout leaves at PixelBits
  config    \* the configuration registers of the column

matrixVars == <<pixels, config>>

Word == [1 .. PixelBits -> {0, 1}]

Line(ctrl, weight) == (ctrl \div weight) % 2 = 1

ClkSh(ctrl)    == Line(ctrl, 1)
ShA(ctrl)      == Line(ctrl, 2)
Gate(ctrl)     == Line(ctrl, 8)
Strobe(ctrl)   == Line(ctrl, 16)
WriteCfg(ctrl) == Line(ctrl, 32)

Dout == pixels[PixelBits]

Shifts(ctrl, next)  == ShA(next) /\ ClkSh(next) /\ ~ClkSh(ctrl)
Latches(ctrl, next) == WriteCfg(next) /\ ~WriteCfg(ctrl)
Counts(ctrl, next)  == /\ ~ShA(next)
                       /\ \/ Gate(ctrl) /\ ~Gate(next)
                          \/ Strobe(next) /\ ~Strobe(ctrl)

\* The control lines go from ctrl to next: a rising clkSh shifts din in, a
\* rising write_cfg copies the chain to the configuration, a closing gate (or
\* a strobe) leaves some count in it.
MatrixStep(ctrl, next, din) ==
  /\ pixels' \in IF Shifts(ctrl, next)
                   THEN {[k \in 1 .. PixelBits |-> IF k = 1 THEN din ELSE pixels[k - 1]]}
                 ELSE IF Counts(ctrl, next) THEN Word
                 ELSE {pixels}
  /\ config' = IF Latches(ctrl, next) THEN pixels ELSE config

MatrixInit == pixels \in Word /\ config \in Word

=============================================================================
