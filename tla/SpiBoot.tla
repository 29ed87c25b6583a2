------------------------------- MODULE SpiBoot -------------------------------
(***************************************************************************)
(* Booting from the SPI flash, and the SPI driver after it.  The           *)
(* bootloader sets the mode and the divider and copies the flash to the    *)
(* code RAM, byte by byte through Spi::read(); from then on the software   *)
(* may call Spi::read() and Spi::write() as it likes.                      *)
(***************************************************************************)
EXTENDS Spi, SpiFlash, Driver

CONSTANTS
  CodeWords,   \* words the bootloader copies: the size of the code RAM (4096)
  ClockDivider \* the divider it sets (3)

ASSUME SpiBootAssumption ==
  /\ CodeWords \in Nat \ {0}
  /\ ClockDivider \in Divider
  /\ FlashBits = ByteBits

VARIABLES
  loaded,      \* the register as last loaded for an update
  bytes,       \* bytes of the word being put together
  code_ram,    \* words stored so far, in order
  transfers    \* history: bytes asked of the flash so far, modulo its size

vars == <<spiVars, flashVars, driverVars, loaded, bytes, code_ram, transfers>>

-----------------------------------------------------------------------------
(* The driver.  (A definition marked "slip" is not the code's but a        *)
(* mistake it could have had; the properties tell the two apart.)          *)

\* (slip) The phase is taken the wrong way round.
SetPhaseInverted(phase) == Update("SPI_CR", "cpha", ~phase)

SetPhase(phase)        == Update("SPI_CR", "cpha", phase)
SetClockDivider(value) == <<StoreTo("SPI_CDR", value)>>

\* (slip) The byte is taken without waiting for it.
ReadUnpolled == <<StoreTo("SPI_TDR", Zero), LoadFrom("SPI_RDR")>>

\* (slip) The answer is left in RDR; the end of the transfer is not awaited.
WriteLeavingAnswer(byte) == <<StoreTo("SPI_TDR", byte), PollOf("txact")>>
WriteUnpolled(byte) == <<StoreTo("SPI_TDR", byte), LoadFrom("SPI_RDR")>>

\* Poll until rxne is set, or until txact is clear.
Read       == <<StoreTo("SPI_TDR", Zero), PollOf("rxne"), LoadFrom("SPI_RDR")>>
Write(byte) == <<StoreTo("SPI_TDR", byte), PollOf("txact"), LoadFrom("SPI_RDR")>>

\* (slip) The end of a write is taken for its beginning.
NotYetActive(a) == \/ a = PollOf("rxne") /\ ~sr.rxne
                   \/ a = PollOf("txact") /\ ~sr.txact

NotYet(a) == \/ a = PollOf("rxne") /\ ~sr.rxne
             \/ a = PollOf("txact") /\ sr.txact

LoadCodeThroughSpi == SetPhase(TRUE) \o SetClockDivider(ClockDivider) \o Read

\* The loops of the bootloader go round: over the bytes of a word, and over the
\* words.
ReadsOn(a) ==
  \/ a = LoadFrom("SPI_RDR") /\ api = "load_code" /\ Len(bytes) + 1 < BytesPerWord
  \/ a.reg = "CODE_RAM" /\ Len(code_ram) + 1 < CodeWords

StoresWord(a) ==
  a = LoadFrom("SPI_RDR") /\ api = "load_code" /\ Len(bytes) + 1 = BytesPerWord

-----------------------------------------------------------------------------
Clock(access) ==
  /\ SpiClock(access, miso)
  /\ FlashClock(ss, sck, mosi)
  /\ Pace(access, AccessGap)

CpuIdle ==
  /\ Clock(NoAccess)
  /\ UNCHANGED <<api, todo, loaded, bytes, code_ram, transfers>>

CpuAccess ==
  LET a == Head(todo)
      access == AccessDue(loaded)
  IN  /\ Due
      /\ \/ ReadsOn(a) /\ todo' = Read /\ UNCHANGED api
         \/ /\ StoresWord(a)
            /\ todo' = <<StoreTo("CODE_RAM", Len(code_ram))>> /\ UNCHANGED api
         \/ ~ReadsOn(a) /\ ~StoresWord(a) /\ Retire(NotYet(a))
      /\ loaded' = IF a = LoadFrom("SPI_CR") THEN cr ELSE loaded
      /\ bytes' = CASE a = LoadFrom("SPI_RDR") -> Append(bytes, rdr)
                    [] a.reg = "CODE_RAM" -> <<>>
                    [] OTHER -> bytes
      /\ code_ram' = IF a.reg = "CODE_RAM" THEN Append(code_ram, bytes) ELSE code_ram
      /\ transfers' = IF Writes(access, "SPI_TDR")
                        THEN (transfers + 1) % (FlashWords * BytesPerWord) ELSE transfers
      /\ Clock(access)

CpuCalls ==
  /\ \/ code_ram = <<>> /\ Call("load_code", LoadCodeThroughSpi)
     \/ /\ code_ram # <<>>
        /\ \/ Call("read", Read)
           \/ \E byte \in Bytes : Call("write", Write(byte))
  /\ bytes' = <<>>
  /\ Clock(NoAccess)
  /\ UNCHANGED <<loaded, code_ram, transfers>>

Init ==
  /\ SpiInit /\ FlashInit /\ DriverInit
  /\ loaded = cr
  /\ bytes = <<>>
  /\ code_ram = <<>>
  /\ transfers = 0

Next == CpuIdle \/ CpuAccess \/ CpuCalls

\* The clock never stops and the processor gets on with its program.
Spec == Init /\ [][Next]_vars /\ WF_vars(Next) /\ WF_vars(CpuAccess)

-----------------------------------------------------------------------------
\* Byte n of the flash, from the lowest one of word 0.
FlashByte(n) == spi_mem[(n \div BytesPerWord) % FlashWords][n % BytesPerWord]

TypeOK ==
  /\ SpiTypeOK /\ FlashTypeOK
  /\ bytes \in Seq(Bytes) /\ Len(bytes) <= BytesPerWord
  /\ Len(code_ram) <= CodeWords
  /\ transfers \in 0 .. FlashWords * BytesPerWord - 1

(* The code RAM holds the flash, word for word, in order: no byte is       *)
(* skipped, read twice or shifted, whatever the pace of the processor.     *)
BootCopiesFlash ==
  \A w \in DOMAIN code_ram :
    code_ram[w] = [b \in 1 .. BytesPerWord |-> FlashByte(BytesPerWord * (w - 1) + b - 1)]

(* A byte is read from RDR only when it is the answer to the transfer the  *)
(* call started: rxne is never left over from an earlier one, and write()  *)
(* does not mistake the cycles before txact rises for the end of its own.  *)
ReadsOwnAnswer ==
  [][api # "none" /\ Head(todo) = LoadFrom("SPI_RDR") /\ todo' # todo
       => rdr = FlashByte(transfers + FlashWords * BytesPerWord - 1)]_vars

\* A store to TDR finds the master idle.
NoTransferLost == tx_data_valid => state = "IDLE"

\* When a call has returned the slave has the byte it sent.
SlaveReceives == api = "none" /\ code_ram # <<>> => slave_rx_data = tdr

(* Every byte stored in TDR reaches the slave before the call returns.     *)
(* rxne is set half a serial period before the master is idle, and a byte  *)
(* stored in between would never be sent.                                  *)
TransfersArrive == NoTransferLost /\ SlaveReceives

(* The boot ends, and every later call returns.                            *)
CallsReturn == api # "none" ~> api = "none"

=============================================================================
