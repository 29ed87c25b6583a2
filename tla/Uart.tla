-------------------------------- MODULE Uart --------------------------------
(***************************************************************************)
(* The UART: its registers on the data bus, the transmitter and the        *)
(* receiver.  Both count the rising edges of one serial clock, EdgesPerBit *)
(* of them to a bit; neither ever restarts that clock.                     *)
(*                                                                         *)
(* One step is one clock edge.  A byte is the sequence of its bits in the  *)
(* order they are sent, least significant first.                           *)
(*                                                                         *)
(* A definition marked "slip" is not the code's: it is a mistake the       *)
(* definition after it could have had, kept to try the properties on.      *)
(***************************************************************************)
EXTENDS SerialClock, DataBus, Sequences

CONSTANTS
  ByteBits,      \* bits in a byte (8)
  EdgesPerBit    \* serial clock edges in a bit (16)

ASSUME UartAssumption ==
  /\ ByteBits \in Nat \ {0}
  /\ EdgesPerBit \in Nat /\ EdgesPerBit > 1

VARIABLES
  cr, sr, tdr, rdr, cdr,               \* registers
  tx_data_valid, clk_divider_valid,    \* a register was written in the last cycle
  generator,                           \* the serial clock
  tx, tx_buffer, sout,                 \* transmitter: frame position, bits, line
  rx, rx_buffer,                       \* receiver: frame position, bits
  rx_data, rx_data_valid, rx_error

registerVars == <<cr, sr, tdr, rdr, cdr, tx_data_valid, clk_divider_valid>>
txVars == <<tx, tx_buffer, sout>>
rxVars == <<rx, rx_buffer, rx_data, rx_data_valid, rx_error>>
uartVars == <<registerVars, generator, txVars, rxVars>>

Bit == {0, 1}

Bytes == [1 .. ByteBits -> Bit]

Zero == [k \in 1 .. ByteBits |-> 0]

ShiftIn(buffer, bit) == Append(Tail(buffer), bit)

SerialEdge == generator.rising

-----------------------------------------------------------------------------
(* The registers.  Any access to RDR takes the byte; a byte that arrives   *)
(* before the last one is taken replaces it, and rxerr stays up for good.  *)

Registers(access) ==
  LET written == IF Writes(access, "UART_SR") THEN access.wdata ELSE sr
      taken == sr.rxne /\ access.reg = "UART_RDR"
  IN  /\ cr' = IF Writes(access, "UART_CR") THEN access.wdata ELSE cr
      /\ tdr' = IF Writes(access, "UART_TDR") THEN access.wdata ELSE tdr
      /\ cdr' = IF Writes(access, "UART_CDR") THEN access.wdata ELSE cdr
      /\ rdr' = IF rx_data_valid THEN rx_data
                ELSE IF Writes(access, "UART_RDR") THEN access.wdata ELSE rdr
      /\ sr' = [rxne  |-> rx_data_valid \/ (written.rxne /\ ~taken),
                rxerr |-> rx_error \/ written.rxerr,
                txact |-> tx.state # "IDLE"]
      /\ tx_data_valid' = (Writes(access, "UART_TDR") \/ Writes(access, "UART_RDR"))
      /\ clk_divider_valid' = Writes(access, "UART_CDR")

-----------------------------------------------------------------------------
(* The transmitter and the receiver go through a frame alike: a start bit, *)
(* ByteBits bits and a stop bit, each EdgesPerBit edges long.              *)

Frame == [state : {"IDLE", "START", "ACTIVE", "STOP"},
          bits : 0 .. ByteBits - 1, edges : 0 .. EdgesPerBit - 1]

FrameReset == [state |-> "IDLE", bits |-> 0, edges |-> 0]

LastEdge(frame) == SerialEdge /\ frame.edges = EdgesPerBit - 1
\* (slip) A bit is sampled at its last edge.
MidEdgeLate(frame) == SerialEdge /\ frame.edges = EdgesPerBit - 1

MidEdge(frame)  == SerialEdge /\ frame.edges = EdgesPerBit \div 2 - 1
LastBit(frame)  == frame.bits = ByteBits - 1

FrameNxt(frame, begins) ==
  IF frame.state = "IDLE"
    THEN IF begins THEN [frame EXCEPT !.state = "START"] ELSE frame
  ELSE IF ~LastEdge(frame)
    THEN IF SerialEdge THEN [frame EXCEPT !.edges = @ + 1] ELSE frame
  ELSE CASE frame.state = "START" -> [frame EXCEPT !.state = "ACTIVE", !.edges = 0]
         [] frame.state = "STOP" -> [frame EXCEPT !.state = "IDLE", !.edges = 0]
         [] frame.state = "ACTIVE" /\ LastBit(frame) ->
              [state |-> "STOP", bits |-> 0, edges |-> 0]
         [] OTHER -> [frame EXCEPT !.bits = @ + 1, !.edges = 0]

SendsBit == sout' = Head(tx_buffer) /\ tx_buffer' = ShiftIn(tx_buffer, 0)

Transmitter ==
  /\ tx' = FrameNxt(tx, tx_data_valid)
  /\ CASE tx.state = "START" /\ LastEdge(tx) -> SendsBit
       [] tx.state = "START" /\ ~LastEdge(tx) -> sout' = 0 /\ tx_buffer' = tdr
       [] tx.state = "ACTIVE" /\ LastEdge(tx) /\ ~LastBit(tx) -> SendsBit
       [] tx.state = "ACTIVE" /\ LastEdge(tx) /\ LastBit(tx) ->
            sout' = 1 /\ UNCHANGED tx_buffer
       [] OTHER -> UNCHANGED <<sout, tx_buffer>>

\* The stop bit is sampled, but the byte counts whatever it is.
Receiver(sin) ==
  LET finishes == rx.state = "STOP" /\ MidEdge(rx)
  IN  /\ rx' = FrameNxt(rx, sin = 0)
      /\ rx_buffer' = CASE rx.state = "START" -> Zero
                        [] rx.state = "ACTIVE" /\ MidEdge(rx) -> ShiftIn(rx_buffer, sin)
                        [] OTHER -> rx_buffer
      /\ rx_data_valid' = finishes
      /\ rx_data' = IF finishes THEN rx_buffer ELSE rx_data
      /\ rx_error' = IF finishes THEN sin = 0 ELSE rx_error /\ rx.state # "START"

UartClock(access, sin) ==
  /\ Registers(access)
  /\ generator' = GeneratorNxt(generator, cr.en, clk_divider_valid, cdr)
  /\ Transmitter
  /\ Receiver(sin)

UartInit ==
  /\ cr = [en |-> FALSE]
  /\ sr = [rxne |-> FALSE, txact |-> FALSE, rxerr |-> FALSE]
  /\ tdr = Zero /\ rdr = Zero /\ cdr = 0
  /\ tx_data_valid = FALSE /\ clk_divider_valid = FALSE
  /\ generator = GeneratorReset
  /\ tx = FrameReset /\ tx_buffer = Zero /\ sout = 1
  /\ rx = FrameReset /\ rx_buffer = Zero
  /\ rx_data = Zero /\ rx_data_valid = FALSE /\ rx_error = FALSE

UartTypeOK ==
  /\ cr \in [en : BOOLEAN]
  /\ sr \in [rxne : BOOLEAN, txact : BOOLEAN, rxerr : BOOLEAN]
  /\ {tdr, rdr, tx_buffer, rx_buffer, rx_data} \subseteq Bytes
  /\ cdr \in Divider
  /\ {tx_data_valid, clk_divider_valid, rx_data_valid, rx_error} \subseteq BOOLEAN
  /\ generator \in Generator
  /\ {tx, rx} \subseteq Frame
  /\ sout \in Bit

=============================================================================
