------------------------------ MODULE SpiFlash ------------------------------
(***************************************************************************)
(* The SPI flash memory the bootloader loads the software from: a slave    *)
(* that, whatever it is sent, answers every transfer with the next byte of *)
(* the memory, lowest byte of a word first.                                *)
(*                                                                         *)
(* The slave and the memory around it each have a state register; the two  *)
(* always agree and are one here.  The slave works off the synchronised    *)
(* clock line, so it is late by three cycles.                              *)
(***************************************************************************)
EXTENDS SerialClock, Sequences

CONSTANTS
  FlashBits,      \* bits in a byte (8)
  BytesPerWord,   \* bytes in a word (4)
  FlashWords,     \* words before the address wraps (2^30)
  Contents        \* what the memory may hold: word and byte to bits

ASSUME FlashAssumption ==
  /\ {FlashBits, BytesPerWord, FlashWords} \subseteq Nat \ {0}
  /\ Contents \subseteq [0 .. FlashWords - 1 ->
                          [0 .. BytesPerWord - 1 -> [1 .. FlashBits -> {0, 1}]]]

VARIABLES
  spi_mem,                   \* the memory, one of Contents
  sck_prv,                   \* samples of the clock line
  transmission,              \* selected
  slave_bits,                \* rising edges seen in the transfer
  slave_tx, slave_rx,        \* shift buffers
  slave_rx_data,             \* last byte received
  flash_tx_data,             \* byte to answer with
  flash_addr, bytes_counter, \* word and byte it is read from
  miso

flashVars == <<spi_mem, sck_prv, transmission, slave_bits, slave_tx, slave_rx,
               slave_rx_data, flash_tx_data, flash_addr, bytes_counter, miso>>

FlashRising  == RisingEdge(sck_prv)
FlashFalling == FallingEdge(sck_prv)

Unselected(ss) ==
  /\ ~transmission
  /\ transmission' = (ss = 0)
  /\ slave_bits' = 0
  /\ miso' = 0
  /\ flash_tx_data' = spi_mem[flash_addr][bytes_counter]
  /\ UNCHANGED <<slave_tx, slave_rx, slave_rx_data, flash_addr, bytes_counter>>

\* On a rising edge the slave answers; the first answer bypasses the buffer.
Shift(mosi) ==
  CASE FlashRising ->
         LET out == IF slave_bits = 0 THEN flash_tx_data ELSE slave_tx
         IN  /\ miso' = Head(out)
             /\ slave_tx' = Append(Tail(out), 0)
             /\ UNCHANGED <<slave_rx, slave_rx_data>>
    [] FlashFalling ->
         /\ slave_rx' = Append(Tail(slave_rx), mosi)
         /\ slave_rx_data' = IF slave_bits = FlashBits THEN slave_rx' ELSE slave_rx_data
         /\ UNCHANGED <<miso, slave_tx>>
    [] OTHER -> UNCHANGED <<miso, slave_tx, slave_rx, slave_rx_data>>

\* Selected, still or no longer; the end of a transfer moves to the next byte.
Selected(ss, mosi) ==
  /\ transmission
  /\ transmission' = (ss = 0)
  /\ slave_bits' = IF ss = 1 THEN 0
                   ELSE IF FlashRising THEN (slave_bits + 1) % 16 ELSE slave_bits
  /\ Shift(mosi)
  /\ IF ss = 1 /\ bytes_counter = BytesPerWord - 1
       THEN bytes_counter' = 0 /\ flash_addr' = (flash_addr + 1) % FlashWords
       ELSE /\ bytes_counter' = IF ss = 1 THEN bytes_counter + 1 ELSE bytes_counter
            /\ UNCHANGED flash_addr
  /\ UNCHANGED flash_tx_data

FlashClock(ss, sck, mosi) ==
  /\ Unselected(ss) \/ Selected(ss, mosi)
  /\ sck_prv' = SamplesNxt(sck_prv, IF sck THEN 1 ELSE 0)
  /\ UNCHANGED spi_mem

FlashInit ==
  LET zero == [k \in 1 .. FlashBits |-> 0]
  IN  /\ spi_mem \in Contents
      /\ sck_prv = SamplesReset
      /\ transmission = FALSE
      /\ slave_bits = 0
      /\ slave_tx = zero /\ slave_rx = zero /\ slave_rx_data = zero
      /\ flash_tx_data = zero
      /\ flash_addr = 0 /\ bytes_counter = 0
      /\ miso = 0

FlashTypeOK ==
  /\ spi_mem \in Contents
  /\ sck_prv \in Samples
  /\ transmission \in BOOLEAN
  /\ slave_bits \in 0 .. FlashBits
  /\ {slave_tx, slave_rx, slave_rx_data, flash_tx_data} \subseteq [1 .. FlashBits -> {0, 1}]
  /\ flash_addr \in 0 .. FlashWords - 1
  /\ bytes_counter \in 0 .. BytesPerWord - 1
  /\ miso \in {0, 1}

=============================================================================
