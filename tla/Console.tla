------------------------------ MODULE Console ------------------------------
(***************************************************************************)
(* What the command interpreter promises whoever sits at the terminal: the *)
(* software asks for a command or, after set_led, for a pin and a state,   *)
(* and each line it is given is obeyed as an answer to that question.      *)
(* There are no characters here and no UART, only lines.                   *)
(***************************************************************************)
EXTENDS Strings

CONSTANTS
  CommandNames,   \* the name of each command
  Pins,           \* bits of the output register (32)
  PinMod          \* values of a uint8_t, which set_pin() takes (256)

ASSUME ConsoleAssumption == Pins \in Nat \ {0} /\ PinMod \in Nat \ {0}

VARIABLES
  asks,   \* "command", "pin" or "state"
  pin,    \* the pin given
  odr     \* the output register

consoleVars == <<asks, pin, odr>>

Commands == DOMAIN CommandNames

Parse(text) ==
  IF \E c \in Commands : Equal(text, CommandNames[c])
    THEN CHOOSE c \in Commands : Equal(text, CommandNames[c])
    ELSE "unrecognized"

\* A shift by more than the width of a register takes the low bits of the
\* distance, as the RISC-V shifter does.
SetPin(n, value) == odr' = [odr EXCEPT ![n % Pins] = value]

ObeysCommand(text) ==
  /\ asks = "command"
  /\ asks' = IF Parse(text) = "set_led" THEN "pin" ELSE "command"
  /\ UNCHANGED <<pin, odr>>

TakesPin(text) ==
  /\ asks = "pin"
  /\ IF IsNumber(text) THEN asks' = "state" /\ pin' = ToInt(text) % PinMod
     ELSE UNCHANGED <<asks, pin>>
  /\ UNCHANGED odr

TakesState(text) ==
  /\ asks = "state"
  /\ IF IsNumber(text) THEN asks' = "command" /\ SetPin(pin, ToInt(text) # 0)
     ELSE UNCHANGED <<asks, odr>>
  /\ UNCHANGED pin

Obeys(text) == ObeysCommand(text) \/ TakesPin(text) \/ TakesState(text)

ConsoleInit ==
  /\ asks = "command"
  /\ pin = 0
  /\ odr = [n \in 0 .. Pins - 1 |-> FALSE]

=============================================================================
