-------------------------------- MODULE Timer --------------------------------
(***************************************************************************)
(* The timer: a counter that, once triggered, matches every cmpr + 1       *)
(* cycles and raises the interrupt line until software clears the match.   *)
(* One step is one clock edge.                                             *)
(*                                                                         *)
(* A definition marked "slip" is not the code's: it is a mistake the       *)
(* definition after it could have had, kept to try the properties on.      *)
(***************************************************************************)
EXTENDS Naturals, DataBus

CONSTANT CounterMod   \* values of the counter (2^32)

ASSUME CounterModAssumption == CounterMod \in Nat \ {0}

VARIABLES
  cr,        \* control register: trigger, halt, single-shot
  sr,        \* status register: a match occurred, the timer is active
  cntr,      \* copy of the counter for software
  cmpr,      \* value to match
  counting, single_shot, counter

timerVars == <<cr, sr, cntr, cmpr, counting, single_shot, counter>>

Count == 0 .. CounterMod - 1

TimerIrq == sr.mtch

Match == counting /\ counter = cmpr

-----------------------------------------------------------------------------
\* trg and hlt last one cycle, also when they are written again in it.
CrNxt(access) ==
  LET written == IF Writes(access, "TIMER_CR") THEN access.wdata ELSE cr
  IN  [written EXCEPT !.trg = @ /\ ~cr.trg, !.hlt = @ /\ ~cr.hlt]

\* (slip) What software writes wins over a match.
SrNxtWritten(access) ==
  [mtch |-> IF Writes(access, "TIMER_SR") THEN access.wdata.mtch ELSE sr.mtch \/ Match,
   act |-> counting]

\* A match in the very cycle software clears the last one stays.
SrNxt(access) ==
  LET written == IF Writes(access, "TIMER_SR") THEN access.wdata ELSE sr
  IN  [mtch |-> written.mtch \/ Match, act |-> counting]

TimerRegisters(access) ==
  /\ cr' = CrNxt(access)
  /\ sr' = SrNxt(access)
  /\ cntr' = IF Writes(access, "TIMER_CNTR") THEN access.wdata ELSE counter
  /\ cmpr' = IF Writes(access, "TIMER_CMPR") THEN access.wdata ELSE cmpr

\* (slip) Triggered while it counts, the timer starts anew.
CoreRestarted ==
  CASE ~counting ->
         /\ counting' = cr.trg
         /\ single_shot' = IF cr.trg THEN cr.sngl ELSE single_shot
         /\ UNCHANGED counter
    [] counting /\ (cr.hlt \/ Match) ->
         /\ counting' = (~cr.hlt /\ ~single_shot)
         /\ counter' = 0
         /\ UNCHANGED single_shot
    [] OTHER ->
         /\ counter' = IF cr.trg THEN 0 ELSE (counter + 1) % CounterMod
         /\ UNCHANGED <<counting, single_shot>>

\* Triggered while it counts, the timer goes on as it was.
Core ==
  CASE ~counting ->
         /\ counting' = cr.trg
         /\ single_shot' = IF cr.trg THEN cr.sngl ELSE single_shot
         /\ UNCHANGED counter
    [] counting /\ (cr.hlt \/ Match) ->
         /\ counting' = (~cr.hlt /\ ~single_shot)
         /\ counter' = 0
         /\ UNCHANGED single_shot
    [] OTHER ->
         /\ counter' = (counter + 1) % CounterMod
         /\ UNCHANGED <<counting, single_shot>>

TimerClock(access) == TimerRegisters(access) /\ Core

TimerInit ==
  /\ cr = [trg |-> FALSE, hlt |-> FALSE, sngl |-> FALSE]
  /\ sr = [mtch |-> FALSE, act |-> FALSE]
  /\ cntr = 0 /\ cmpr = 0
  /\ counting = FALSE /\ single_shot = TRUE /\ counter = 0

TimerTypeOK ==
  /\ cr \in [trg : BOOLEAN, hlt : BOOLEAN, sngl : BOOLEAN]
  /\ sr \in [mtch : BOOLEAN, act : BOOLEAN]
  /\ {cntr, cmpr, counter} \subseteq Count
  /\ {counting, single_shot} \subseteq BOOLEAN

=============================================================================
