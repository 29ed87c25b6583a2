---------------------------- MODULE MCComponents ----------------------------
(***************************************************************************)
(* The components that share no state with the rest, the buses and parts   *)
(* of the software, one run for all of them: the part a behaviour is about *)
(* is chosen at its start, and the others stand still.                     *)
(***************************************************************************)
EXTENDS Bus, Stopwatch, Delay, Calibration, StartUp, Debugger

VARIABLE part

softwareVars == <<stopwatchVars, delayVars, calibrationVars, startUpVars, debuggerVars>>
partsVars    == <<part, vars, softwareVars>>

\* A part that stands still need not be in each of its initial states.
PartsInit ==
  /\ part \in {"buses", "stopwatch", "delay", "calibration", "start-up", "debugger"}
  /\ Init
  /\ StopwatchInit   /\ (part # "stopwatch" => mcycle = 0 /\ mcycleh = 0)
  /\ DelayInit
  /\ CalibrationInit /\ (part # "calibration" => \A p \in Pixels : offset[p] = 0 /\ loaded[p] = 0)
  /\ StartUpInit     /\ (part # "start-up" => data_size = 0 /\ bss_size = 0 /\ init_array_size = 0
                                              /\ image[0] = 0)
  /\ DebuggerInit

PartsNext ==
  \/ /\ part = "buses" /\ Next
     /\ UNCHANGED <<part, softwareVars>>
  \/ /\ part = "stopwatch" /\ StopwatchNext
     /\ UNCHANGED <<part, vars, delayVars, calibrationVars, startUpVars, debuggerVars>>
  \/ /\ part = "delay" /\ DelayNext
     /\ UNCHANGED <<part, vars, stopwatchVars, calibrationVars, startUpVars, debuggerVars>>
  \/ /\ part = "calibration" /\ CalibrationNext
     /\ UNCHANGED <<part, vars, stopwatchVars, delayVars, startUpVars, debuggerVars>>
  \/ /\ part = "start-up" /\ StartUpNext
     /\ UNCHANGED <<part, vars, stopwatchVars, delayVars, calibrationVars, debuggerVars>>
  \/ /\ part = "debugger" /\ DebuggerNext
     /\ UNCHANGED <<part, vars, stopwatchVars, delayVars, calibrationVars, startUpVars>>

\* The clock of the buses never stops.
PartsSpec == PartsInit /\ [][PartsNext]_partsVars /\ WF_partsVars(PartsNext)

-----------------------------------------------------------------------------
\* Neither the two words of a slave nor the same word of its neighbour are alike.
MCPowerUp ==
  {[mem |-> [s \in Slaves |-> [w \in Words |-> IF s \in {"CODE_RAM", "GPIO"} THEN 1 - w ELSE w]],
    rdata |-> [s \in Slaves |-> 0]]}

MCLoads ==
  {[slave |-> s, word |-> w, we |-> FALSE] : s \in {"BOOT_ROM", "CODE_RAM", "GPIO"}, w \in Words}
  \cup {[slave |-> s, word |-> 0, we |-> FALSE] : s \in {"DATA_RAM", "NONE"}}

MCStores ==
  {[slave |-> "CODE_RAM", word |-> 0, we |-> TRUE, wdata |-> v] : v \in Values}
  \cup {[slave |-> "BOOT_ROM", word |-> 1, we |-> TRUE, wdata |-> 0]}

MCFetches ==
  {[slave |-> s, word |-> w, we |-> FALSE] : s \in Fetchable, w \in Words}

\* The memory after the initial values is cleared, or holds another section.
MCFollowing == {0, 9}

\* Around every power of ten and of sixteen that an integer of TLC can be.
MCWords ==
  {0, 1, 9, 10, 11, 99, 100, 255, 256, 999, 1000, 4096, 10000, 65535, 65536,
   99999, 100000, 1000000, 16777216, 99999999, 100000000, 305419896,
   999999999, 1000000000, 2147483647}

\* A short name, and one as long as the longest printed, calibration_time.
MCNames == {<<"t">>, [k \in 1 .. 16 |-> "n"]}

=============================================================================
