------------------------- MODULE CommandInterpreter -------------------------
(***************************************************************************)
(* The command interpreter over the UART, character by character.  The     *)
(* software either prints, and then nobody reads what is typed, or reads a *)
(* line.  Every string is printed with the NUL that ends it, which takes   *)
(* the time of a character on the line although nobody sees it.            *)
(*                                                                         *)
(* While it reads, the software is faster than the line (UartBoot); the    *)
(* peer may wait for a prompt before it types, or type ahead.              *)
(***************************************************************************)
EXTENDS Console

CONSTANTS
  Chars,        \* characters typed
  LineLength,   \* size of the line buffer (100)
  Cols,         \* columns of the pixel matrix (32)
  StackTails    \* what may follow the line buffer in memory, up to a NUL

ASSUME LineAssumption == LineLength \in Nat \ {0} /\ Cols \in Nat

VARIABLES
  rdr, rxne,   \* the receive registers of the UART
  todo,        \* texts still to be printed, and work to be done between them
  line,        \* the line buffer, as far as it has been filled
  typed,       \* history: what was typed since the prompt was readable
  ahead        \* the peer does not wait for prompts

vars == <<consoleVars, rdr, rxne, todo, line, typed, ahead>>

Nul == "NUL"

Link == INSTANCE ByteLink WITH LinkBytes <- Chars, NoData <- Nul, inflight <- <<>>

-----------------------------------------------------------------------------
Write(text) == <<text, Nul>>

Prompt == Write("prompt")

Ask(parameter) == Write(parameter) \o Write("colon")

Help == Write("help_message")

\* The counters of the columns, each a text of its own.
Counters == [k \in 1 .. 2 * Cols |-> IF k % 2 = 1 THEN "counter" ELSE Nul]

ReadMatrix ==
  <<"set_din", "read_counters">>
  \o Write("readout_finished") \o Write("readout_time") \o Counters

CalibrateMatrix ==
  <<"set_dc", "set_din", "calibrate">>
  \o Write("calibration_done") \o Write("calibration_time")

\* What is done, and asked, for a command.
Run(command) ==
  CASE command = "help"             -> Help \o Prompt
    [] command = "set_led"          -> Ask("pin")
    [] command = "read_matrix"      -> ReadMatrix \o Prompt
    [] command = "calibrate_matrix" -> CalibrateMatrix \o Prompt
    [] OTHER                        -> Write("unrecognized_command") \o Prompt

\* Ui::get_integer() asks again until it gets a number.
GetInteger(parameter, text, then) ==
  IF IsNumber(text) THEN then
  ELSE Write("incorrect_value") \o Ask(parameter)

Answer(text) ==
  /\ Obeys(text)
  /\ todo' = CASE asks = "command" -> Run(Parse(text))
               [] asks = "pin"     -> GetInteger("pin", text, Ask("state"))
               [] asks = "state"   -> GetInteger("state", text, Prompt)

-----------------------------------------------------------------------------
Reading == todo = <<>>

EndsLine(char) == char = "\n"

\* (slip) The newline stays in the buffer.
EndedLate(text, char) == Append(text, char)

\* The NUL takes the place of the newline.
Ended(text, char) == text

\* (slip) The NUL is sent over and over.
PrintsNulForever ==
  /\ todo # <<>>
  /\ todo' = IF Head(todo) = Nul THEN todo ELSE Tail(todo)
  /\ typed' = IF todo' = <<Nul>> /\ todo # <<Nul>> THEN <<>> ELSE typed
  /\ UNCHANGED <<consoleVars, rdr, rxne, line, ahead>>

\* (slip) What has come before the line is read is thrown away.
PrintsFlushing ==
  /\ todo # <<>>
  /\ todo' = Tail(todo)
  /\ typed' = IF todo' = <<Nul>> THEN <<>> ELSE typed
  /\ rxne' = (rxne /\ todo' # <<>>)
  /\ UNCHANGED <<consoleVars, rdr, line, ahead>>

\* The next text is printed, or the next piece of work done.
Prints ==
  /\ todo # <<>>
  /\ todo' = Tail(todo)
  /\ typed' = IF todo' = <<Nul>> THEN <<>> ELSE typed
  /\ UNCHANGED <<consoleVars, rdr, rxne, line, ahead>>

\* One round of Uart::read(dest, len).  A line that fills the buffer has no
\* NUL: whatever is in memory after it belongs to it.
Reads ==
  /\ Reading
  /\ Link!Takes
  /\ \/ EndsLine(rdr) /\ Answer(Ended(line, rdr)) /\ line' = <<>>
     \/ /\ ~EndsLine(rdr) /\ Len(line) < LineLength - 1
        /\ line' = Append(line, rdr)
        /\ UNCHANGED <<consoleVars, todo>>
     \/ /\ ~EndsLine(rdr) /\ Len(line) = LineLength - 1
        /\ \E tail \in StackTails : Answer(Append(line, rdr) \o tail)
        /\ line' = <<>>
  /\ UNCHANGED <<typed, ahead>>

\* The prompt can be read but for its NUL, or the software waits for a line.
Prompted == todo \in {<<>>, <<Nul>>}

\* At most one character arrives in the time of the NUL, and none before the
\* last one is taken while the software reads.
Types(char) ==
  /\ Prompted \/ ahead
  /\ todo = <<Nul>> => typed = <<>>
  /\ Reading => ~rxne
  /\ ~ahead => "\n" \notin ToSet(typed) /\ Len(typed) < LineLength
  /\ Link!Delivers(char)
  /\ typed' = IF Prompted THEN Append(typed, char) ELSE typed
  /\ UNCHANGED <<consoleVars, todo, line, ahead>>

Init ==
  /\ ConsoleInit
  /\ Link!LinkInit
  /\ todo = Prompt
  /\ line = <<>>
  /\ typed = <<>>
  /\ ahead \in BOOLEAN

Next == Prints \/ Reads \/ \E char \in Chars : Types(char)

\* The software gets on; nobody has to type.
Spec ==
  /\ Init /\ [][Next]_vars
  /\ WF_vars(Prints) /\ WF_vars(Reads)

-----------------------------------------------------------------------------
TypeOK ==
  /\ asks \in {"command", "pin", "state"}
  /\ pin \in 0 .. PinMod - 1
  /\ odr \in [0 .. Pins - 1 -> BOOLEAN]
  /\ rdr \in Chars \union {Nul} /\ rxne \in BOOLEAN
  /\ line \in Seq(Chars) /\ Len(line) < LineLength
  /\ ahead \in BOOLEAN

Received == line \o (IF rxne THEN <<rdr>> ELSE <<>>)

(* A peer that waits for the prompt loses nothing, although it may have    *)
(* typed its first character before Uart::read() is called: the NUL of the *)
(* prompt is still being sent then, and only RDR holds the character.  A   *)
(* peer that types ahead loses all of it but the last character, which     *)
(* becomes the first of its next line; from then on nothing is lost or     *)
(* swapped.                                                                *)
LineAsTyped ==
  Reading => \/ Received = typed
             \/ ahead /\ Received # <<>> /\ Tail(Received) = typed

TypedLine == IF EndsLine(Last(typed)) THEN Front(typed) ELSE typed

(* Every line of a peer that waits, whole and as typed, is obeyed as the   *)
(* answer to the question it was asked; nothing else changes the dialogue  *)
(* or the outputs.  Only a line that fills the buffer, and so has no NUL,  *)
(* is read on behind it.                                                   *)
ObeysTypedLines ==
  [][ ahead \/ (UNCHANGED consoleVars /\ (Reading => Reading'))
            \/ \E tail \in StackTails \union {<<>>} :
                 /\ Obeys(TypedLine \o tail)
                 /\ tail # <<>> => Len(TypedLine) = LineLength ]_vars

(* Whatever line is ended is answered with another prompt, whether it was  *)
(* understood or not.                                                      *)
EveryLineAnswered == ~ahead /\ "\n" \in ToSet(typed) ~> typed = <<>> /\ Prompted

=============================================================================
