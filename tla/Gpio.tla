-------------------------------- MODULE Gpio --------------------------------
(***************************************************************************)
(* The GPIO: output and input registers, and the interrupt on the edges of *)
(* the input pins.  A 32-bit register is the set of pins whose bit is set. *)
(* The general purpose registers CR and SR drive nothing and are left out. *)
(* One step is one clock edge.                                             *)
(*                                                                         *)
(* A definition marked "slip" is not the code's: it is a mistake the       *)
(* definition after it could have had, kept to try the properties on.      *)
(***************************************************************************)
EXTENDS DataBus, FiniteSets

CONSTANT Pins   \* bits of the registers (32)

ASSUME PinsAssumption == IsFiniteSet(Pins)

VARIABLES
  odr, idr,                 \* output and input data
  ier, isr, rier, fier,     \* interrupt enable and status, rising, falling
  prv, prv2, prv3           \* last three samples of the pins

gpioVars == <<odr, idr, ier, isr, rier, fier, prv, prv2, prv3>>

GpioIrq == isr # {}

\* Edges are seen three cycles after the pin has moved, two after idr shows it.
InterruptDetected ==
  {p \in ier : \/ p \in prv2 \ prv3 /\ p \in rier
               \/ p \in prv3 \ prv2 /\ p \in fier}

Kept(access, reg, value) == IF Writes(access, reg) THEN access.wdata ELSE value

\* (slip) A bit that is set does not stay.
IsrNxtFleeting(access) == Kept(access, "GPIO_ISR", {}) \cup InterruptDetected

\* A bit that is set in the cycle the register is written stays set.
IsrNxt(access) == Kept(access, "GPIO_ISR", isr) \cup InterruptDetected

GpioClock(access, din) ==
  /\ odr' = Kept(access, "GPIO_ODR", odr)
  /\ ier' = Kept(access, "GPIO_IER", ier)
  /\ rier' = Kept(access, "GPIO_RIER", rier)
  /\ fier' = Kept(access, "GPIO_FIER", fier)
  /\ isr' = IsrNxt(access)
  /\ idr' = din
  /\ prv' = din /\ prv2' = prv /\ prv3' = prv2

GpioInit ==
  /\ odr = {} /\ idr = {}
  /\ ier = {} /\ isr = {} /\ rier = {} /\ fier = {}
  /\ prv = {} /\ prv2 = {} /\ prv3 = {}

GpioTypeOK ==
  {odr, idr, ier, isr, rier, fier, prv, prv2, prv3} \subseteq SUBSET Pins

=============================================================================
