---------------------------- MODULE Calibration ----------------------------
(***************************************************************************)
(* Pixel_matrix::calibrate(): every offset is loaded into all the pixels,  *)
(* test hits are counted, and a pixel is left with the offset it counted   *)
(* most with.  What a pixel counts is up to its analog part: any number    *)
(* may be read in a round.  How a round reaches the pixels is in           *)
(* PmcSystem.                                                              *)
(*                                                                         *)
(* The array of configs lies on the stack.  Its counts are cleared before  *)
(* the rounds, its offsets are not: they hold any half word until a round  *)
(* writes them.                                                            *)
(***************************************************************************)
EXTENDS Naturals

CONSTANTS
  Pixels,      \* the rows and columns of the matrix
  Rounds,      \* how many offsets are tried (128)
  MaxCount,    \* the most a pixel counts
  HalfWords    \* values an offset on the stack may have (0 .. 2^16 - 1)

ASSUME CalibrationAssumption ==
  /\ Rounds \in Nat /\ MaxCount \in Nat
  /\ 0 .. Rounds - 1 \subseteq HalfWords

VARIABLES
  i,         \* the round; Rounds when all are over
  offset,    \* configs[.].offset
  counts,    \* configs[.].counts
  loaded,    \* what the pixels are configured with
  done,      \* found_configs are loaded
  readouts   \* history: what was read in each round of this call

calibrationVars == <<i, offset, counts, loaded, done, readouts>>

Readouts == [Pixels -> 0 .. MaxCount]

-----------------------------------------------------------------------------
\* (slip) Of equal counts the last is kept.
BetterOrEqual(count, best) == count >= best

Better(count, best) == count > best

MoreRounds == i < Rounds

CalibrationRound ==
  /\ MoreRounds
  /\ i' = i + 1
  /\ loaded' = [p \in Pixels |-> i]
  /\ \E readout \in Readouts :
       LET better == {p \in Pixels : Better(readout[p], counts[p])}
       IN  /\ offset' = [p \in Pixels |-> IF p \in better THEN i ELSE offset[p]]
           /\ counts' = [p \in Pixels |-> IF p \in better THEN readout[p] ELSE counts[p]]
           /\ readouts' = [k \in 0 .. i |-> IF k = i THEN readout ELSE readouts[k]]
  /\ UNCHANGED done

LoadFoundConfigs ==
  /\ ~MoreRounds /\ ~done
  /\ loaded' = offset
  /\ done' = TRUE
  /\ UNCHANGED <<i, offset, counts, readouts>>

\* Another call, on whatever the stack has become.
Calibrate ==
  /\ done
  /\ i' = 0 /\ done' = FALSE
  /\ offset' \in [Pixels -> HalfWords]
  /\ counts' = [p \in Pixels |-> 0]
  /\ readouts' = [k \in {} |-> counts]
  /\ UNCHANGED loaded

CalibrationInit ==
  /\ i = 0 /\ done = FALSE
  /\ offset \in [Pixels -> HalfWords]
  /\ counts = [p \in Pixels |-> 0]
  /\ readouts = [k \in {} |-> counts]
  /\ loaded \in [Pixels -> HalfWords]

CalibrationNext == CalibrationRound \/ LoadFoundConfigs \/ Calibrate

CalibrationSpec == CalibrationInit /\ [][CalibrationNext]_calibrationVars

-----------------------------------------------------------------------------
CalibrationTypeOK ==
  /\ i \in 0 .. Rounds
  /\ {offset, loaded} \subseteq [Pixels -> HalfWords]
  /\ counts \in Readouts
  /\ done \in BOOLEAN
  /\ readouts \in [0 .. i - 1 -> Readouts]

\* A pixel that counted in some round so far.
Counted(p) == \E k \in 0 .. i - 1 : readouts[k][p] > 0

\* Round k is the first of those in which the pixel counted most.
FirstBest(p, k) ==
  /\ k \in 0 .. i - 1
  /\ \A j \in 0 .. i - 1 : readouts[j][p] <= readouts[k][p]
  /\ \A j \in 0 .. k - 1 : readouts[j][p] < readouts[k][p]

(* A pixel that counted at all is left with the smallest of the offsets    *)
(* with which it counted most, whatever is on the stack and whatever the   *)
(* calibration before it found.                                            *)
LoadsFirstBest == done => \A p \in Pixels : Counted(p) => FirstBest(p, loaded[p])

(* The command reports that the offset calibration is done: every pixel    *)
(* should have one of the offsets that were tried.                         *)
EveryPixelCalibrated == done => \A p \in Pixels : loaded[p] \in 0 .. Rounds - 1

=============================================================================
