--------------------------------- MODULE Spi ---------------------------------
(***************************************************************************)
(* The SPI peripheral: its registers on the data bus and the master that   *)
(* shifts a byte out on mosi while it shifts one in from miso.             *)
(*                                                                         *)
(* One step is one clock edge.  A byte is the sequence of its bits, most   *)
(* significant first.                                                      *)
(***************************************************************************)
EXTENDS SerialClock, DataBus, Sequences

CONSTANT ByteBits   \* bits in a byte (8)

ASSUME ByteBitsAssumption == ByteBits \in Nat \ {0}

VARIABLES
  cr, sr, tdr, rdr, cdr,               \* registers
  tx_data_valid, clk_divider_valid,    \* a register was written in the last cycle
  state, bits_counter,                 \* the master
  sck_polarity, sck_phase,             \* mode of the transfer in progress
  tx_buffer, rx_buffer,
  rx_data, rx_data_valid,
  sck_generator_en, generator,
  ss, sck, mosi                        \* lines; ss selects the slave when 0

registerVars == <<cr, sr, tdr, rdr, cdr, tx_data_valid, clk_divider_valid>>
masterVars == <<state, bits_counter, sck_polarity, sck_phase, tx_buffer, rx_buffer,
                rx_data, rx_data_valid, sck_generator_en, generator, ss, sck, mosi>>
spiVars == <<registerVars, masterVars>>

Bit == {0, 1}

Bytes == [1 .. ByteBits -> Bit]

Zero == [k \in 1 .. ByteBits |-> 0]

ShiftIn(buffer, bit) == Append(Tail(buffer), bit)

-----------------------------------------------------------------------------
(* The registers.  Any access to RDR, read or write, takes the byte: it    *)
(* clears rxne unless the next byte arrives in that very cycle.            *)

Registers(access) ==
  LET written == IF Writes(access, "SPI_SR") THEN access.wdata ELSE sr
      taken == sr.rxne /\ access.reg = "SPI_RDR"
  IN  /\ cr' = IF Writes(access, "SPI_CR") THEN access.wdata ELSE cr
      /\ tdr' = IF Writes(access, "SPI_TDR") THEN access.wdata ELSE tdr
      /\ cdr' = IF Writes(access, "SPI_CDR") THEN access.wdata ELSE cdr
      /\ rdr' = IF rx_data_valid THEN rx_data
                ELSE IF Writes(access, "SPI_RDR") THEN access.wdata ELSE rdr
      /\ sr' = [rxne |-> rx_data_valid \/ (written.rxne /\ ~taken),
                txact |-> state # "IDLE"]
      /\ tx_data_valid' = (Writes(access, "SPI_TDR") \/ Writes(access, "SPI_RDR"))
      /\ clk_divider_valid' = Writes(access, "SPI_CDR")

-----------------------------------------------------------------------------
(* The master.  Its own phase of the serial clock, not the line, makes the *)
(* edges: rising is the leading edge whatever the polarity.                *)

Leading  == generator.rising
Trailing == generator.falling

\* Shift a bit out to mosi, or one in from miso.
ShiftsOut == tx_buffer' = ShiftIn(tx_buffer, 0) /\ mosi' = Head(tx_buffer)
ShiftsIn(miso) == rx_buffer' = ShiftIn(rx_buffer, miso)

Idle ==
  /\ state = "IDLE"
  /\ state' = IF tx_data_valid THEN "START" ELSE "IDLE"
  /\ sck' = cr.cpol
  /\ sck_polarity' = cr.cpol
  /\ sck_phase' = cr.cpha
  /\ rx_data_valid' = FALSE
  /\ UNCHANGED <<bits_counter, tx_buffer, rx_buffer, rx_data, sck_generator_en, ss, mosi>>

Start ==
  /\ state = "START"
  /\ state' = "ACTIVE"
  /\ ss' = 0
  /\ sck_generator_en' = TRUE
  /\ rx_buffer' = Zero
  /\ IF sck_phase THEN tx_buffer' = tdr /\ UNCHANGED mosi
                  ELSE tx_buffer' = ShiftIn(tdr, 0) /\ mosi' = Head(tdr)
  /\ rx_data_valid' = FALSE
  /\ UNCHANGED <<bits_counter, rx_data, sck, sck_polarity, sck_phase>>

\* The leading edge captures when the phase is clear, shifts when it is set.
ActiveLeading(miso) ==
  /\ state = "ACTIVE" /\ Leading
  /\ bits_counter' = bits_counter + 1
  /\ sck' = ~sck_polarity
  /\ IF sck_phase THEN ShiftsOut /\ UNCHANGED rx_buffer
                  ELSE ShiftsIn(miso) /\ UNCHANGED <<tx_buffer, mosi>>
  /\ rx_data_valid' = FALSE
  /\ UNCHANGED <<state, sck_polarity, sck_phase, rx_data, sck_generator_en, ss>>

ActiveTrailing(miso) ==
  /\ state = "ACTIVE" /\ Trailing
  /\ sck' = sck_polarity
  /\ IF sck_phase THEN ShiftsIn(miso) /\ UNCHANGED <<tx_buffer, mosi>>
                  ELSE ShiftsOut /\ UNCHANGED rx_buffer
  /\ IF bits_counter = ByteBits
       THEN /\ state' = "STOP"
            /\ bits_counter' = 0
            /\ rx_data_valid' = TRUE
            /\ rx_data' = rx_buffer'
       ELSE /\ rx_data_valid' = FALSE
            /\ UNCHANGED <<state, bits_counter, rx_data>>
  /\ UNCHANGED <<sck_polarity, sck_phase, sck_generator_en, ss>>

\* The slave stays selected for one more half period.
Stop ==
  /\ state = "STOP" /\ Leading
  /\ state' = "IDLE"
  /\ ss' = 1
  /\ sck_generator_en' = FALSE
  /\ rx_data_valid' = FALSE
  /\ UNCHANGED <<bits_counter, tx_buffer, rx_buffer, rx_data, sck, sck_polarity,
                 sck_phase, mosi>>

BetweenEdges ==
  /\ \/ state = "ACTIVE" /\ ~Leading /\ ~Trailing
     \/ state = "STOP" /\ ~Leading
  /\ rx_data_valid' = FALSE
  /\ UNCHANGED <<state, bits_counter, tx_buffer, rx_buffer, rx_data, sck_generator_en,
                 sck, sck_polarity, sck_phase, ss, mosi>>

Master(miso) ==
  /\ \/ Idle \/ Start \/ ActiveLeading(miso) \/ ActiveTrailing(miso) \/ Stop
     \/ BetweenEdges
  /\ generator' = GeneratorNxt(generator, sck_generator_en, clk_divider_valid, cdr)

SpiClock(access, miso) == Registers(access) /\ Master(miso)

SpiInit ==
  /\ cr = [cpha |-> FALSE, cpol |-> FALSE]
  /\ sr = [rxne |-> FALSE, txact |-> FALSE]
  /\ tdr = Zero /\ rdr = Zero /\ cdr = 0
  /\ tx_data_valid = FALSE /\ clk_divider_valid = FALSE
  /\ state = "IDLE" /\ bits_counter = 0
  /\ sck_polarity = FALSE /\ sck_phase = FALSE
  /\ tx_buffer = Zero /\ rx_buffer = Zero
  /\ rx_data = Zero /\ rx_data_valid = FALSE
  /\ sck_generator_en = FALSE /\ generator = GeneratorReset
  /\ ss = 1 /\ sck = FALSE /\ mosi = 0

SpiTypeOK ==
  /\ cr \in [cpha : BOOLEAN, cpol : BOOLEAN]
  /\ sr \in [rxne : BOOLEAN, txact : BOOLEAN]
  /\ {tdr, rdr, tx_buffer, rx_buffer, rx_data} \subseteq Bytes
  /\ cdr \in Divider
  /\ {tx_data_valid, clk_divider_valid, rx_data_valid} \subseteq BOOLEAN
  /\ state \in {"IDLE", "START", "ACTIVE", "STOP"}
  /\ bits_counter \in 0 .. ByteBits
  /\ {sck_polarity, sck_phase, sck_generator_en, sck} \subseteq BOOLEAN
  /\ generator \in Generator
  /\ {ss, mosi} \subseteq Bit

=============================================================================
