------------------------------ MODULE PmcSystem ------------------------------
(***************************************************************************)
(* The pixel matrix controller with the software that drives it (the Pmcc  *)
(* and Pmc drivers and the Pixel_matrix class) and the matrix.             *)
(*                                                                         *)
(* An API call has parts, one after the other: each begins by loading a    *)
(* program into the coprocessor, and some then loop over the bits of the   *)
(* column.  The bus accesses this takes are laid out in todo, a program or *)
(* a round of the loop at a time, and the processor works them off;        *)
(* between two accesses any number of cycles may pass, but no fewer than   *)
(* the instructions between them take.  The coprocessor keeps running all  *)
(* the while, also while the software overwrites its program.              *)
(***************************************************************************)
EXTENDS Pmc, PixelMatrix, Driver

VARIABLES
  part,     \* the part of the call being made
  bit,      \* triggers of that part begun so far
  loaded,   \* the control register as last loaded for an update
  result,   \* bits of the column read so far, first one first
  target,   \* the configuration last asked for
  counted   \* history: the column the readout in progress should deliver

callVars == <<driverVars, part, bit>>
vars == <<pmcVars, matrixVars, callVars, loaded, result, target, counted>>

-----------------------------------------------------------------------------
(* The programs of the coprocessor. *)

\* (slip) The program comes back behind its WAITT.
data_shifter_running == <<0, 192, 3, 0, 192, 2, 0, 32, 1>>

data_shifter == <<0, 192, 3, 0, 192, 2, 0, 32, 0>>

\* (slip) The program waits for a trigger that load_pixels_configs() never gives.
pixels_configs_latcher_waiting == <<0, 192, 32, 0, 192, 0, 0>>

pixels_configs_latcher == <<192, 32, 0, 192, 0, 0, 0>>

hits_generator == <<0, 192, 8, 0, 192, 0, 0>>

-----------------------------------------------------------------------------
(* What each driver call does on the bus.  (A definition marked "slip" is  *)
(* not the code's but a mistake it could have had; the properties below    *)
(* are there to tell the two apart.)                                       *)

Reset   == Update("PMC_CR", "rst", TRUE)
Enable  == Update("PMC_CR", "en", TRUE)
Trigger == Update("PMC_CR", "trg", TRUE)

\* while (!is_waiting_for_trigger()) { } then trigger().
AwaitTrigger == <<PollOf("PMC_SR")>> \o Trigger

\* (slip) Only whole words are loaded.
LoadApplicationWhole(code) ==
  [w \in 1 .. Len(code) \div 4 |->
     StoreTo("PMCC_CODE_RAM",
             [word |-> w - 1, bytes |-> [b \in 1 .. 4 |-> code[4 * (w - 1) + b]]])]
  \o Reset \o Enable

\* (slip) The coprocessor is not enabled.
LoadApplicationDisabled(code) ==
  [w \in 1 .. (Len(code) + 3) \div 4 |->
     StoreTo("PMCC_CODE_RAM",
             [word |-> w - 1,
              bytes |-> [b \in 1 .. 4 |->
                IF 4 * (w - 1) + b \in DOMAIN code THEN code[4 * (w - 1) + b] ELSE 0]])]
  \o Reset

\* Word by word over the running program, the last word padded with zeros.
LoadApplication(code) ==
  [w \in 1 .. (Len(code) + 3) \div 4 |->
     StoreTo("PMCC_CODE_RAM",
             [word |-> w - 1,
              bytes |-> [b \in 1 .. 4 |->
                IF 4 * (w - 1) + b \in DOMAIN code THEN code[4 * (w - 1) + b] ELSE 0]])]
  \o Reset \o Enable

\* What each part begins with.
Begin(p) ==
  CASE p \in {"write", "read"} -> LoadApplication(data_shifter)
    [] p = "latch" -> LoadApplication(pixels_configs_latcher)
    [] p = "hit" -> LoadApplication(hits_generator)

\* Most significant bit of the last row first: it ends up farthest from din.
WriteBit == <<StoreTo("PMC_DIN_0", target[PixelBits - bit])>> \o AwaitTrigger

\* (slip) The chain is shifted before its first bit is read.
ReadBitShifted == AwaitTrigger \o <<LoadFrom("PMC_DOUT_0")>>

ReadBit == <<LoadFrom("PMC_DOUT_0")>> \o AwaitTrigger

\* (slip) The last bit is left out.
RoundsShort ==
  CASE part \in {"write", "read"} -> PixelBits - 1
    [] part = "hit" -> 1
    [] part = "latch" -> 0

\* Triggers it then gives: one for each bit, or one for the hits; none for the
\* latch, whose program does not wait.
Rounds ==
  CASE part \in {"write", "read"} -> PixelBits
    [] part = "hit" -> 1
    [] part = "latch" -> 0

NextRound ==
  /\ todo' = CASE part = "write" -> WriteBit
               [] part = "read" -> ReadBit
               [] part = "hit" -> AwaitTrigger
  /\ bit' = bit + 1
  /\ UNCHANGED <<api, part>>

\* (slip) The hits are generated before the configuration is latched.
FollowingEarly ==
  CASE part = "write" -> IF api = "calibrate" THEN "hit" ELSE "latch"
    [] part = "latch" -> IF api = "calibrate" THEN "read" ELSE "none"
    [] part = "hit" -> "latch"
    [] part = "read" -> "none"

\* load_pixels_configs() writes and latches; a round of the calibration loop
\* then lets the pixels count and reads them; read_counters() only reads.
FollowingPart ==
  CASE part = "write" -> "latch"
    [] part = "latch" -> IF api = "calibrate" THEN "hit" ELSE "none"
    [] part = "hit" -> "read"
    [] part = "read" -> "none"

NextPart ==
  /\ part' = FollowingPart
  /\ bit' = 0
  /\ IF part' = "none" THEN api' = "none" /\ todo' = <<>>
                       ELSE todo' = Begin(part') /\ UNCHANGED api

\* The software goes on behind an access, or makes it again.
GoesOn(again) ==
  IF again THEN UNCHANGED <<api, todo, part, bit>>
  ELSE \/ Len(todo) > 1 /\ todo' = Tail(todo) /\ UNCHANGED <<api, part, bit>>
       \/ Len(todo) = 1 /\ bit < Rounds /\ NextRound
       \/ Len(todo) = 1 /\ bit >= Rounds /\ NextPart

-----------------------------------------------------------------------------
(* The processor and the clock. *)

\* The clock edge, with or without an access in the cycle it ends.
Clock(access) ==
  /\ PmcClock(access, Dout)
  /\ MatrixStep(matrix_ctrl, matrix_ctrl', din_0')
  /\ Pace(access, AccessGap)

\* What a readout is to deliver: what the pixels counted, or, when nothing is
\* counted before it, what the chain holds as its first bit is read.
Observe ==
  counted' = IF Counts(matrix_ctrl, matrix_ctrl') THEN pixels'
             ELSE IF api = "read_counters" /\ result = <<>> THEN pixels'
             ELSE counted

CpuIdle ==
  /\ Clock(NoAccess)
  /\ Observe
  /\ UNCHANGED <<api, todo, part, bit, loaded, result, target>>

\* A poll that finds the waiting bit clear is repeated.
CpuAccess ==
  /\ Due
  /\ GoesOn(Head(todo).op = "poll" /\ ~sr_wtt)
  /\ loaded' = IF Head(todo) = LoadFrom("PMC_CR") THEN cr ELSE loaded
  /\ result' = IF Head(todo) = LoadFrom("PMC_DOUT_0") THEN Append(result, dout_0) ELSE result
  /\ Clock(AccessDue(loaded))
  /\ Observe
  /\ UNCHANGED target

CpuCalls ==
  /\ \/ \E value \in Word : /\ \/ Call("load_pixels_configs", Begin("write"))
                               \/ Call("calibrate", Begin("write"))
                            /\ target' = value
                            /\ part' = "write"
     \/ Call("read_counters", Begin("read")) /\ part' = "read" /\ UNCHANGED target
  /\ bit' = 0
  /\ result' = <<>>
  /\ UNCHANGED loaded
  /\ Clock(NoAccess)
  /\ Observe

Init ==
  /\ PmcInit
  /\ MatrixInit
  /\ DriverInit
  /\ part = "none" /\ bit = 0
  /\ loaded = cr
  /\ result = <<>>
  /\ target = config
  /\ counted = pixels

Next == CpuIdle \/ CpuAccess \/ CpuCalls

\* The clock never stops and the processor gets on with its program.
Spec == Init /\ [][Next]_vars /\ WF_vars(Next) /\ WF_vars(CpuAccess)

-----------------------------------------------------------------------------
TypeOK ==
  /\ PmcTypeOK
  /\ pixels \in Word /\ config \in Word /\ target \in Word /\ counted \in Word
  /\ api \in {"none", "load_pixels_configs", "calibrate", "read_counters"}
  /\ api = "none" <=> todo = <<>>
  /\ part \in {"none", "write", "latch", "hit", "read"}
  /\ bit \in 0 .. PixelBits
  /\ Len(result) <= PixelBits

(* The coprocessor only ever executes bytes the software has written:      *)
(* although its program is overwritten under it, and an instruction may be *)
(* put together from old and new bytes, it never runs past the end of what *)
(* was loaded, where the RAM holds anything.                               *)
ExecutesWrittenCode == ~InReset(cr) => instr.op # "UNKNOWN"

(* No trigger is lost: whenever the trigger bit is up the coprocessor is at*)
(* a WAITT to take it.  The software polls a status bit that lags behind   *)
(* the coprocessor.                                                        *)
TriggerTaken == cr.trg => Waitt(instr) /\ ~InReset(cr)

(* The configuration registers only ever latch the whole of the            *)
(* configuration being loaded: not when bits of it are still to be shifted *)
(* in, nor, being shifted on, after.                                       *)
LatchesWholeConfig ==
  [][Latches(matrix_ctrl, matrix_ctrl') => pixels = target]_vars

(* When the software has nothing in progress, the pixels are configured as *)
(* was last asked.  Nothing tells the software when the latch program has  *)
(* run: load_pixels_configs() returns without waiting for it.              *)
ConfiguredOnReturn == api = "none" => config = target

(* The counters read are the counters of the pixels, every bit in its      *)
(* place: each bit is sampled after the shift before it and before the     *)
(* shift after it.                                                         *)
ReadsCounters ==
  \A k \in DOMAIN result : result[k] = counted[PixelBits + 1 - k]

(* The pixels only count in a calibration round, once it has configured    *)
(* them: no program left half overwritten opens the gate or strobes.       *)
CountsWhenCalibrating ==
  [][Counts(matrix_ctrl, matrix_ctrl') => /\ api = "calibrate"
                                          /\ config = target]_vars

(* The comment on the latch program, at sw/libs/drivers/src/pmcc.cpp:16,   *)
(* has it store 0x0023, with the shift lines kept up, as write_cfg rises.  *)
LatchesAnnouncedValue ==
  [][Latches(matrix_ctrl, matrix_ctrl') => matrix_ctrl' = 35]_vars

(* Every API call returns: the software never polls for a coprocessor that *)
(* does not come back to a WAITT.                                          *)
CallsReturn == api # "none" ~> api = "none"

=============================================================================
