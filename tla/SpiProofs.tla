------------------------------ MODULE SpiProofs ------------------------------
(***************************************************************************)
(* The SPI, its flash, the driver and the bootloader together, for any     *)
(* divider, any bits to a byte, any memory and any pace of the software    *)
(* that the assumptions below allow:                                       *)
(*   SpiCarries     every byte sent arrives before the call returns;       *)
(*   SpiAnswers     every byte read is the answer to the call's transfer;  *)
(*   SpiBoots       the code RAM holds the flash;                          *)
(*   SpiTakesItsTime  every transfer ends, and with it the poll for it.    *)
(***************************************************************************)
EXTENDS SpiBoot, SequenceTheorems, TLAPS

HalfPeriod == ClockDivider + 1

(* The slave answers three cycles after an edge of the clock line, so half *)
(* a period is longer than that.                                           *)
SlaveInTime == ClockDivider >= 3 /\ ByteBits < 16

(* A poll of txact comes after it has risen; and the two accesses from the *)
(* poll that finds rxne to the next store to TDR outlast the half period   *)
(* in which the master still holds the slave selected.                     *)
SoftwarePaced == AccessGap >= 3 /\ HalfPeriod <= 2 * AccessGap + 2

-----------------------------------------------------------------------------
(* Where a transfer stands. *)

Shifting == state \in {"ACTIVE", "STOP"}

Line == IF sck THEN 1 ELSE 0

Led     == IF state = "STOP" THEN ByteBits ELSE bits_counter   \* leading edges made
Trailed == Led - Line                                          \* trailing edges made
Fallen  == slave_bits - sck_prv[3]                             \* falling edges the slave saw

\* The cycles since the last edge of the line, and to the end of the transfer.
Since     == IF generator.counter = 0 THEN HalfPeriod ELSE generator.counter
Remaining == IF state = "STOP" THEN HalfPeriod + 1 - Since ELSE 0

Resting == ~generator.level /\ ~generator.rising /\ ~generator.falling /\ generator.counter = 0

Configured == /\ cr.cpha /\ cdr = ClockDivider
              /\ generator.target = ClockDivider /\ ~clk_divider_valid

\* What the slave answers with.
Answer == spi_mem[flash_addr][bytes_counter]

FlashBytes == FlashWords * BytesPerWord
Place      == flash_addr * BytesPerWord + bytes_counter
Succ(p)    == (p + 1) % FlashBytes

\* What it answers to the last transfer that was asked for.
Asked == FlashByte(transfers + FlashBytes - 1)

-----------------------------------------------------------------------------
(* The lines and the counters of the master and the slave. *)

LineTypes ==
  /\ SpiTypeOK /\ FlashTypeOK
  /\ generator.counter <= generator.target
  /\ ~cr.cpol /\ ~sck_polarity

Types ==
  /\ LineTypes
  /\ gap \in Nat
  /\ loaded \in [cpha : BOOLEAN, cpol : BOOLEAN] /\ ~loaded.cpol
  /\ transfers \in 0 .. FlashBytes - 1

Still ==
  /\ ss = 1 /\ ~sck_generator_en /\ ~sck /\ bits_counter = 0 /\ ~rx_data_valid
  /\ sck_prv[1] = 0 /\ sck_prv[2] = 0 /\ sck_prv[3] = 0

Idles ==
  /\ Still
  /\ sr.txact <=> transmission
  /\ tx_data_valid => Configured

Starts ==
  /\ Still
  /\ ~transmission /\ ~tx_data_valid /\ ~sr.txact /\ Configured /\ sck_phase

\* The clock line follows the generator, a cycle late.
Selects ==
  /\ ss = 0 /\ sck_generator_en /\ sck_phase /\ ~tx_data_valid /\ sr.txact
  /\ Configured
  /\ sck <=> (generator.level /\ ~generator.rising) \/ generator.falling
  /\ generator.rising => generator.level /\ generator.counter = 0
  /\ generator.falling => ~generator.level /\ generator.counter = 0
  /\ transmission /\ generator.counter = 0 => generator.rising \/ generator.falling

\* The samples of the line pass on its last edge.
Samples3 ==
  /\ Led = 0 => sck_prv[1] = 0 /\ sck_prv[2] = 0 /\ sck_prv[3] = 0
  /\ Led > 0 => /\ sck_prv[1] = IF Since > 1 THEN Line ELSE 1 - Line
                /\ sck_prv[2] = IF Since > 2 THEN Line ELSE 1 - Line
                /\ sck_prv[3] = IF Since > 3 THEN Line ELSE 1 - Line
  /\ slave_bits = IF sck /\ sck_prv[3] = 0 THEN Led - 1 ELSE Led

Actives ==
  /\ ~rx_data_valid
  /\ Line <= bits_counter /\ bits_counter - Line < ByteBits
  /\ ~transmission => bits_counter = 0

Stops ==
  /\ transmission /\ bits_counter = 0
  /\ ~sck /\ ~generator.falling
  /\ rx_data_valid <=> ~generator.level /\ generator.counter = 1

Wave ==
  /\ state = "IDLE"   => Idles
  /\ state = "START"  => Starts
  /\ state = "ACTIVE" => Selects /\ Samples3 /\ Actives
  /\ state = "STOP"   => Selects /\ Samples3 /\ Stops
  /\ ~transmission => Resting /\ slave_bits = 0
  /\ transmission => flash_tx_data = Answer
  /\ clk_divider_valid => ~transmission /\ state = "IDLE"

-----------------------------------------------------------------------------
(* The bits on their way, in both directions. *)

\* From TDR to the line, and from the line to the slave.
SendsOut ==
  /\ \A k \in 1 .. ByteBits : k + Led <= ByteBits => tx_buffer[k] = tdr[k + Led]
  /\ Led >= 1 => mosi = tdr[Led]

Hears ==
  \A k \in 1 .. ByteBits : k + Fallen > ByteBits => slave_rx[k] = tdr[k + Fallen - ByteBits]

\* From the memory to the line, and from the line to RDR.
Answers ==
  slave_bits >= 1 =>
    /\ miso = Answer[slave_bits]
    /\ \A k \in 1 .. ByteBits : k + slave_bits <= ByteBits => slave_tx[k] = Answer[k + slave_bits]

TakesIn ==
  \A k \in 1 .. ByteBits : k + Trailed > ByteBits => rx_buffer[k] = Answer[k + Trailed - ByteBits]

Bits ==
  /\ Shifting => SendsOut /\ Hears /\ Answers /\ TakesIn
  /\ rx_data_valid => rx_data = Answer
  /\ state = "STOP" /\ sck_prv[3] = 0 => slave_rx_data = tdr
  /\ state = "IDLE" /\ ~tx_data_valid => slave_rx_data = tdr

-----------------------------------------------------------------------------
(* The software. *)

PollOn == IF api = "write" THEN "txact" ELSE "rxne"

Configuring ==
  /\ api = "load_code" /\ code_ram = <<>>
  /\ \/ todo = LoadCodeThroughSpi
     \/ todo = Tail(LoadCodeThroughSpi)
     \/ todo = Tail(Tail(LoadCodeThroughSpi)) /\ cr.cpha

Asking  == api # "none" /\ \E byte \in Bytes :
             todo = <<StoreTo("SPI_TDR", byte), PollOf(PollOn), LoadFrom("SPI_RDR")>>
Waiting == api # "none" /\ todo = <<PollOf(PollOn), LoadFrom("SPI_RDR")>>
Taking  == api # "none" /\ todo = <<LoadFrom("SPI_RDR")>>
Keeping == api = "load_code" /\ todo = <<StoreTo("CODE_RAM", Len(code_ram))>>
Done    == api = "none" /\ todo = <<>>

Dormant ==
  state = "IDLE" /\ ~tx_data_valid /\ ~transmission /\ ~sr.rxne /\ ~clk_divider_valid

\* The last transfer is over, but for the slave being still selected.
Over(limit) ==
  /\ ~tx_data_valid /\ state \in {"IDLE", "STOP"} /\ ~rx_data_valid
  /\ Remaining = 0 \/ Remaining + gap <= limit

HasDivider ==
  /\ cr.cpha /\ cdr = ClockDivider
  /\ clk_divider_valid => gap = 1
  /\ clk_divider_valid \/ generator.target = ClockDivider

\* Bytes asked for: those of the words stored, of this word, and extra ones.
Index == BytesPerWord * Len(code_ram) + Len(bytes)
Counted(extra) ==
  api = "load_code" =>
    Len(bytes) < BytesPerWord /\ transfers = (Index + extra) % FlashBytes

NotBooted ==
  /\ Configuring \/ (Done /\ code_ram = <<>>)
  /\ Dormant /\ transfers = 0 /\ bytes = <<>>

Settles ==
  /\ ~sr.rxne /\ Over(HalfPeriod - 1 - AccessGap)
  /\ \/ Done /\ code_ram # <<>>
     \/ Asking /\ Counted(0)
     \/ Keeping /\ Len(bytes) = BytesPerWord /\ transfers = Index % FlashBytes

Waits ==
  /\ Waiting /\ Counted(1)
  /\ sr.rxne <=> ~tx_data_valid /\ state \in {"IDLE", "STOP"} /\ ~rx_data_valid
  /\ sr.rxne => rdr = Asked
  /\ tx_data_valid => gap = 1
  /\ state = "START" => gap = 2

Takes ==
  /\ Taking /\ Counted(1)
  /\ sr.rxne /\ rdr = Asked /\ Over(HalfPeriod - 1)

Stage == NotBooted \/ (HasDivider /\ (Settles \/ Waits \/ Takes))

\* The flash is at the place of the transfer under way, or of the next one.
Places ==
  transfers = IF tx_data_valid /\ transmission THEN Succ(Succ(Place))
              ELSE IF tx_data_valid \/ transmission \/ state # "IDLE" THEN Succ(Place)
              ELSE Place

Loading ==
  /\ api \in {"none", "load_code", "read", "write"}
  /\ bytes \in Seq(Bytes) /\ Len(bytes) <= BytesPerWord
  /\ code_ram \in Seq(Seq(Bytes)) /\ Len(code_ram) <= CodeWords
  /\ api = "load_code" =>
       /\ Len(code_ram) < CodeWords
       /\ \A b \in 1 .. Len(bytes) : bytes[b] = FlashByte(BytesPerWord * Len(code_ram) + b - 1)
  /\ api \in {"read", "write"} => bytes = <<>> /\ code_ram # <<>>

Inv == Types /\ Wave /\ Bits /\ Stage /\ Places /\ Loading /\ BootCopiesFlash

-----------------------------------------------------------------------------
(* Numbers, and bytes as sequences of bits. *)

LEMMA Rates ==
  ASSUME SlaveInTime
  PROVE  /\ {ByteBits, ClockDivider, HalfPeriod, BytesPerWord, FlashWords, CodeWords,
             AccessGap, DividerMod} \subseteq Nat
         /\ ByteBits >= 1 /\ ByteBits < 16 /\ BytesPerWord >= 1 /\ FlashWords >= 1
         /\ CodeWords >= 1 /\ DividerMod >= 1
         /\ HalfPeriod = ClockDivider + 1 /\ HalfPeriod >= 4
         /\ FlashBits = ByteBits
<1>1. ClockDivider \in Nat /\ DividerMod \in Nat \ {0}
  BY SpiBootAssumption, DividerModAssumption DEF Divider
<1>2. QED
  BY <1>1, SpiBootAssumption, ByteBitsAssumption, FlashAssumption, GapAssumption
     DEF SlaveInTime, HalfPeriod

LEMMA ByteIsSequence ==
  ASSUME NEW b \in Bytes
  PROVE  b \in Seq(Bit) /\ Len(b) = ByteBits /\ DOMAIN b = 1 .. ByteBits
         /\ \A k \in 1 .. ByteBits : b[k] \in Bit
<1>1. ByteBits \in Nat /\ b \in [1 .. ByteBits -> Bit]
  BY ByteBitsAssumption DEF Bytes
<1>2. b \in Seq(Bit)
  BY <1>1, SeqDef
<1>3. QED
  BY <1>1, <1>2, LenProperties

LEMMA SequenceIsByte ==
  ASSUME NEW s \in Seq(Bit), Len(s) = ByteBits
  PROVE  s \in Bytes
  BY LenProperties DEF Bytes

LEMMA Shifted ==
  ASSUME NEW buffer \in Bytes, NEW bit \in Bit
  PROVE  /\ ShiftIn(buffer, bit) \in Bytes
         /\ \A k \in 1 .. ByteBits - 1 : ShiftIn(buffer, bit)[k] = buffer[k + 1]
         /\ ShiftIn(buffer, bit)[ByteBits] = bit
         /\ Head(buffer) = buffer[1] /\ buffer[1] \in Bit
<1>1. buffer \in Seq(Bit) /\ Len(buffer) = ByteBits /\ ByteBits \in Nat /\ ByteBits >= 1
      /\ \A k \in 1 .. ByteBits : buffer[k] \in Bit
  BY ByteIsSequence, ByteBitsAssumption
<1>2. buffer # <<>>
  BY <1>1, EmptySeq
<1>3. /\ Tail(buffer) \in Seq(Bit) /\ Len(Tail(buffer)) = ByteBits - 1
      /\ \A k \in 1 .. ByteBits - 1 : Tail(buffer)[k] = buffer[k + 1]
      /\ Head(buffer) = buffer[1]
  BY <1>1, <1>2, HeadTailProperties
<1>4. /\ Append(Tail(buffer), bit) \in Seq(Bit) /\ Len(Append(Tail(buffer), bit)) = ByteBits
      /\ \A k \in 1 .. ByteBits - 1 : Append(Tail(buffer), bit)[k] = Tail(buffer)[k]
      /\ Append(Tail(buffer), bit)[ByteBits] = bit
  BY <1>1, <1>3, AppendProperties
<1>5. Append(Tail(buffer), bit) \in Bytes
  BY <1>4, SequenceIsByte
<1>6. buffer[1] \in Bit
  BY <1>1
<1>7. QED
  BY <1>1, <1>3, <1>4, <1>5, <1>6 DEF ShiftIn

\* Two bytes alike bit for bit are the same.
LEMMA SameByte ==
  ASSUME NEW b \in Bytes, NEW c \in Bytes, \A k \in 1 .. ByteBits : b[k] = c[k]
  PROVE  b = c
<1>1. b = [k \in 1 .. ByteBits |-> b[k]] /\ c = [k \in 1 .. ByteBits |-> c[k]]
  BY DEF Bytes
<1>2. QED
  BY <1>1

LEMMA Unwrapped ==
  ASSUME NEW n \in Nat, NEW m \in Nat, n < m
  PROVE  n % m = n
  OBVIOUS

\* What the generator does in a cycle.
LEMMA GeneratorTurns ==
  ASSUME NEW gen \in Generator, gen.counter <= gen.target, NEW en \in BOOLEAN,
         NEW valid \in BOOLEAN, NEW divider \in Divider,
         NEW g, g = GeneratorNxt(gen, en, valid, divider)
  PROVE  /\ g \in Generator /\ g.counter <= g.target
         /\ g.target = IF valid THEN divider ELSE gen.target
         /\ ~en \/ valid => ~g.level /\ ~g.rising /\ ~g.falling /\ g.counter = 0
         /\ en /\ ~valid /\ gen.counter = gen.target =>
              /\ g.counter = 0 /\ (g.level <=> ~gen.level)
              /\ (g.rising <=> ~gen.level) /\ (g.falling <=> gen.level)
         /\ en /\ ~valid /\ gen.counter # gen.target =>
              /\ g.counter = gen.counter + 1 /\ (g.level <=> gen.level)
              /\ ~g.rising /\ ~g.falling
<1> DEFINE running == en /\ ~valid
           toggles == running /\ gen.counter = gen.target
<1>1. /\ gen.counter \in Divider /\ gen.target \in Divider
      /\ gen.level \in BOOLEAN
  BY DEF Generator
<1>2. DividerMod \in Nat /\ DividerMod >= 1 /\ 0 \in Divider
      /\ gen.counter \in Nat /\ gen.target \in Nat /\ gen.target < DividerMod
  BY <1>1, DividerModAssumption DEF Divider
<1>3. gen.counter # gen.target =>
        /\ gen.counter + 1 <= gen.target
        /\ (gen.counter + 1) % DividerMod = gen.counter + 1
        /\ gen.counter + 1 \in Divider
  <2> SUFFICES ASSUME gen.counter # gen.target
               PROVE  /\ gen.counter + 1 <= gen.target
                      /\ (gen.counter + 1) % DividerMod = gen.counter + 1
                      /\ gen.counter + 1 \in Divider
    OBVIOUS
  <2>1. gen.counter + 1 <= gen.target
    BY <1>1, <1>2
  <2>2. gen.counter + 1 \in Nat /\ gen.counter + 1 < DividerMod
    BY <1>2, <2>1
  <2>3. QED
    BY <1>2, <2>1, <2>2, Unwrapped DEF Divider
<1>4. /\ g.level = (running /\ (gen.level # toggles))
      /\ g.rising = (toggles /\ ~gen.level)
      /\ g.falling = (toggles /\ gen.level)
      /\ g.target = IF valid THEN divider ELSE gen.target
      /\ g.counter = IF running /\ ~toggles THEN (gen.counter + 1) % DividerMod ELSE 0
  BY DEF GeneratorNxt
<1>5. g = [level |-> g.level, rising |-> g.rising, falling |-> g.falling,
           target |-> g.target, counter |-> g.counter]
  BY DEF GeneratorNxt
<1>6. g.target \in Divider /\ g.counter \in Divider /\ g.counter <= g.target
  BY <1>1, <1>2, <1>3, <1>4 DEF Divider
<1>7. g.level \in BOOLEAN /\ g.rising \in BOOLEAN /\ g.falling \in BOOLEAN
  BY <1>4
<1>8. g \in Generator
  BY <1>5, <1>6, <1>7 DEF Generator
<1>9. en /\ ~valid /\ gen.counter = gen.target =>
              /\ g.counter = 0 /\ (g.level <=> ~gen.level)
              /\ (g.rising <=> ~gen.level) /\ (g.falling <=> gen.level)
  BY <1>1, <1>4
<1>10. en /\ ~valid /\ gen.counter # gen.target =>
              /\ g.counter = gen.counter + 1 /\ (g.level <=> gen.level)
              /\ ~g.rising /\ ~g.falling
  BY <1>1, <1>3, <1>4
<1>11. ~en \/ valid => ~g.level /\ ~g.rising /\ ~g.falling /\ g.counter = 0
  BY <1>4
<1>12. QED
  BY <1>4, <1>6, <1>8, <1>9, <1>10, <1>11

-----------------------------------------------------------------------------
(* A cycle of the master and the slave. *)

\* A byte may be handed to the master.
Sendable ==
  /\ ~tx_data_valid /\ Configured
  /\ state = "IDLE" \/ (state = "STOP" /\ Leading)

\* What an access may do to the registers: the mode and the divider are only
\* set while there is nothing to do.
Effect ==
  /\ \/ cr' = cr /\ cdr' = cdr /\ clk_divider_valid' = FALSE
     \/ state = "IDLE" /\ ~transmission /\ ~tx_data_valid /\ ~tx_data_valid'
  /\ cr' \in [cpha : BOOLEAN, cpol : BOOLEAN] /\ ~cr'.cpol /\ cdr' \in Divider
  /\ clk_divider_valid' \in BOOLEAN
  /\ sr' \in [rxne : BOOLEAN, txact : BOOLEAN] /\ rdr' \in Bytes
  /\ sr'.txact = (state # "IDLE")
  /\ tx_data_valid' \in BOOLEAN
  /\ tx_data_valid' => Sendable
  /\ IF tx_data_valid' THEN tdr' \in Bytes ELSE tdr' = tdr

Beat == Effect /\ Master(miso) /\ FlashClock(ss, sck, mosi)

LEMMA LineFacts ==
  ASSUME LineTypes, SlaveInTime
  PROVE  /\ ss \in {0, 1} /\ mosi \in {0, 1} /\ miso \in {0, 1}
         /\ sck \in BOOLEAN /\ transmission \in BOOLEAN /\ sck_generator_en \in BOOLEAN
         /\ tx_data_valid \in BOOLEAN /\ clk_divider_valid \in BOOLEAN
         /\ rx_data_valid \in BOOLEAN /\ sck_phase \in BOOLEAN
         /\ sck_polarity = FALSE /\ cr.cpol = FALSE /\ cr.cpha \in BOOLEAN
         /\ sr.rxne \in BOOLEAN /\ sr.txact \in BOOLEAN
         /\ bits_counter \in Nat /\ slave_bits \in Nat
         /\ bits_counter <= ByteBits /\ slave_bits <= ByteBits
         /\ sck_prv[1] \in {0, 1} /\ sck_prv[2] \in {0, 1} /\ sck_prv[3] \in {0, 1}
         /\ generator \in Generator /\ generator.counter \in Nat /\ generator.target \in Nat
         /\ generator.level \in BOOLEAN /\ generator.rising \in BOOLEAN
         /\ generator.falling \in BOOLEAN /\ generator.counter <= generator.target
         /\ state \in {"IDLE", "START", "ACTIVE", "STOP"}
         /\ flash_addr \in Nat /\ flash_addr < FlashWords
         /\ bytes_counter \in Nat /\ bytes_counter < BytesPerWord
         /\ tdr \in Bytes /\ rdr \in Bytes /\ tx_buffer \in Bytes /\ rx_buffer \in Bytes
         /\ rx_data \in Bytes /\ slave_tx \in Bytes /\ slave_rx \in Bytes
         /\ slave_rx_data \in Bytes /\ flash_tx_data \in Bytes /\ Answer \in Bytes
         /\ cdr \in Divider
<1>1. SpiTypeOK /\ FlashTypeOK /\ generator.counter <= generator.target
      /\ ~cr.cpol /\ ~sck_polarity
  BY DEF LineTypes
<1>2. {ByteBits, BytesPerWord, FlashWords, DividerMod} \subseteq Nat /\ FlashBits = ByteBits
      /\ BytesPerWord >= 1 /\ FlashWords >= 1
  BY Rates
<1>3. /\ ss \in {0, 1} /\ mosi \in {0, 1}
      /\ sck \in BOOLEAN /\ sck_generator_en \in BOOLEAN
      /\ tx_data_valid \in BOOLEAN /\ clk_divider_valid \in BOOLEAN
      /\ rx_data_valid \in BOOLEAN /\ sck_phase \in BOOLEAN
      /\ sck_polarity = FALSE /\ cr.cpol = FALSE /\ cr.cpha \in BOOLEAN
      /\ sr.rxne \in BOOLEAN /\ sr.txact \in BOOLEAN
      /\ state \in {"IDLE", "START", "ACTIVE", "STOP"} /\ cdr \in Divider
  BY <1>1 DEF SpiTypeOK, Bit
<1>4. /\ generator \in Generator /\ generator.counter \in Nat /\ generator.target \in Nat
      /\ generator.level \in BOOLEAN /\ generator.rising \in BOOLEAN
      /\ generator.falling \in BOOLEAN /\ generator.counter <= generator.target
  BY <1>1, <1>2 DEF SpiTypeOK, Generator, Divider
<1>5. bits_counter \in Nat /\ bits_counter <= ByteBits
  BY <1>1, <1>2 DEF SpiTypeOK
<1>6. slave_bits \in Nat /\ slave_bits <= ByteBits /\ miso \in {0, 1} /\ transmission \in BOOLEAN
  BY <1>1, <1>2 DEF FlashTypeOK
<1>7. sck_prv[1] \in {0, 1} /\ sck_prv[2] \in {0, 1} /\ sck_prv[3] \in {0, 1}
  BY <1>1 DEF FlashTypeOK, Samples
<1>8. /\ flash_addr \in 0 .. FlashWords - 1 /\ bytes_counter \in 0 .. BytesPerWord - 1
  BY <1>1 DEF FlashTypeOK
<1>9. /\ tdr \in Bytes /\ rdr \in Bytes /\ tx_buffer \in Bytes /\ rx_buffer \in Bytes
      /\ rx_data \in Bytes
  BY <1>1 DEF SpiTypeOK
<1>10. Bytes = [1 .. FlashBits -> {0, 1}]
  BY <1>2 DEF Bytes, Bit
<1>11. /\ slave_tx \in Bytes /\ slave_rx \in Bytes
       /\ slave_rx_data \in Bytes /\ flash_tx_data \in Bytes
  BY <1>1, <1>10 DEF FlashTypeOK
<1>12. Answer \in Bytes
  <2>1. spi_mem \in [0 .. FlashWords - 1 -> [0 .. BytesPerWord - 1 -> [1 .. FlashBits -> {0, 1}]]]
    BY <1>1, FlashAssumption DEF FlashTypeOK
  <2>2. QED
    BY <1>8, <1>10, <2>1 DEF Answer
<1>13. flash_addr \in Nat /\ flash_addr < FlashWords
       /\ bytes_counter \in Nat /\ bytes_counter < BytesPerWord
  BY <1>2, <1>8
<1>14. QED
  BY <1>3, <1>4, <1>5, <1>6, <1>7, <1>9, <1>11, <1>12, <1>13

\* The generator and the samples of the clock line.
LEMMA ClockTurns ==
  ASSUME LineTypes, SlaveInTime, Master(miso), FlashClock(ss, sck, mosi)
  PROVE  /\ generator' \in Generator /\ generator'.counter <= generator'.target
         /\ generator'.counter \in Nat
         /\ generator'.target = IF clk_divider_valid THEN cdr ELSE generator.target
         /\ ~sck_generator_en \/ clk_divider_valid =>
              /\ ~generator'.level /\ ~generator'.rising /\ ~generator'.falling
              /\ generator'.counter = 0
         /\ sck_generator_en /\ ~clk_divider_valid /\ generator.counter = generator.target =>
              /\ generator'.counter = 0 /\ (generator'.level <=> ~generator.level)
              /\ (generator'.rising <=> ~generator.level)
              /\ (generator'.falling <=> generator.level)
         /\ sck_generator_en /\ ~clk_divider_valid /\ generator.counter # generator.target =>
              /\ generator'.counter = generator.counter + 1
              /\ (generator'.level <=> generator.level)
              /\ ~generator'.rising /\ ~generator'.falling
         /\ sck_prv' \in Samples
         /\ sck_prv'[1] = Line /\ sck_prv'[2] = sck_prv[1] /\ sck_prv'[3] = sck_prv[2]
         /\ Line \in {0, 1} /\ spi_mem' = spi_mem
<1>1. generator \in Generator /\ generator.counter <= generator.target
      /\ sck_generator_en \in BOOLEAN /\ clk_divider_valid \in BOOLEAN /\ cdr \in Divider
      /\ sck_prv[1] \in {0, 1} /\ sck_prv[2] \in {0, 1}
  BY LineFacts
<1>2. generator' = GeneratorNxt(generator, sck_generator_en, clk_divider_valid, cdr)
  BY DEF Master
<1>3. /\ generator' \in Generator /\ generator'.counter <= generator'.target
      /\ generator'.target = IF clk_divider_valid THEN cdr ELSE generator.target
      /\ ~sck_generator_en \/ clk_divider_valid =>
           /\ ~generator'.level /\ ~generator'.rising /\ ~generator'.falling
           /\ generator'.counter = 0
      /\ sck_generator_en /\ ~clk_divider_valid /\ generator.counter = generator.target =>
           /\ generator'.counter = 0 /\ (generator'.level <=> ~generator.level)
           /\ (generator'.rising <=> ~generator.level)
           /\ (generator'.falling <=> generator.level)
      /\ sck_generator_en /\ ~clk_divider_valid /\ generator.counter # generator.target =>
           /\ generator'.counter = generator.counter + 1
           /\ (generator'.level <=> generator.level)
           /\ ~generator'.rising /\ ~generator'.falling
  BY <1>1, <1>2, GeneratorTurns
<1>4. generator'.counter \in Nat
  BY <1>3, DividerModAssumption DEF Generator, Divider
<1>5. sck_prv' = <<Line, sck_prv[1], sck_prv[2]>> /\ spi_mem' = spi_mem /\ Line \in {0, 1}
  BY DEF FlashClock, SamplesNxt, Line
<1>6. sck_prv' \in Samples
  BY <1>1, <1>5 DEF Samples
<1>7. sck_prv'[1] = Line /\ sck_prv'[2] = sck_prv[1] /\ sck_prv'[3] = sck_prv[2]
  BY <1>5
<1>8. QED
  BY <1>3, <1>4, <1>5, <1>6, <1>7

\* Cases in which no transfer goes on.
LEMMA WaveIdles ==
  ASSUME LineTypes, SlaveInTime, Wave, Beat, state = "IDLE"
  PROVE  Wave' /\ state' \in {"IDLE", "START"} /\ bits_counter' = 0 /\ slave_bits' = 0
         /\ state' = (IF tx_data_valid THEN "START" ELSE "IDLE")
         /\ sck' = FALSE /\ sck_polarity' = FALSE
<1>1. Idle /\ Idles /\ Still
  BY DEF Beat, Master, Start, ActiveLeading, ActiveTrailing, Stop, BetweenEdges, Wave, Idles
<1>2. ss = 1 /\ ~sck /\ ~sck_generator_en /\ Line = 0 /\ ~FlashRising /\ ~FlashFalling
  BY <1>1 DEF Still, Line, FlashRising, FlashFalling, RisingEdge, FallingEdge
<1>3. Effect /\ (Unselected(ss) \/ Selected(ss, mosi))
  BY DEF Beat, FlashClock
<1>4. transmission' = FALSE /\ slave_bits' = 0
  <2>1. transmission' = (ss = 0)
    BY <1>3 DEF Unselected, Selected
  <2>2. (ss = 0) = FALSE
    BY <1>2
  <2>3. slave_bits' = 0
    BY <1>2, <1>3 DEF Unselected, Selected
  <2>4. QED
    BY <2>1, <2>2, <2>3
<1>5. /\ ~generator'.level /\ ~generator'.rising /\ ~generator'.falling
      /\ generator'.counter = 0
      /\ sck_prv'[1] = 0 /\ sck_prv'[2] = 0 /\ sck_prv'[3] = 0
      /\ generator'.target = IF clk_divider_valid THEN cdr ELSE generator.target
  BY <1>1, <1>2, ClockTurns DEF Beat, Still
<1>6. /\ ss' = 1 /\ ~sck_generator_en' /\ ~sck' /\ bits_counter' = 0 /\ ~rx_data_valid'
      /\ state' = (IF tx_data_valid THEN "START" ELSE "IDLE")
      /\ sck_phase' = cr.cpha /\ sck_polarity' = FALSE /\ sck' = FALSE
  BY <1>1, <1>2, LineFacts DEF Idle, Still
<1>7. sr'.txact = FALSE /\ tx_data_valid' \in BOOLEAN
      /\ (tx_data_valid' => ~tx_data_valid /\ Configured)
      /\ \/ cr' = cr /\ cdr' = cdr /\ clk_divider_valid' = FALSE
         \/ ~tx_data_valid /\ ~tx_data_valid'
  BY DEF Beat, Effect, Sendable
<1>8. Still' /\ Resting'
  BY <1>5, <1>6 DEF Still, Resting
<1>9. Configured /\ (tx_data_valid \/ tx_data_valid') => Configured'
  BY <1>5, <1>7 DEF Configured
<1>10. tx_data_valid => Configured
  BY <1>1 DEF Idles
<1>11. state' = "IDLE" => Idles'
  BY <1>4, <1>7, <1>8, <1>9 DEF Idles
<1>12. state' = "START" => Starts'
  BY <1>4, <1>6, <1>7, <1>8, <1>9, <1>10 DEF Starts, Configured
<1>13. QED
  BY <1>4, <1>6, <1>7, <1>8, <1>11, <1>12 DEF Wave

LEMMA WaveStarts ==
  ASSUME LineTypes, SlaveInTime, Wave, Beat, state = "START"
  PROVE  Wave' /\ state' = "ACTIVE" /\ bits_counter' = 0 /\ slave_bits' = 0
         /\ sck' = FALSE /\ sck_polarity' = FALSE /\ ~transmission'
         /\ sck_prv'[3] = 0
<1>1. Start /\ Starts /\ Still
  BY DEF Beat, Master, Idle, ActiveLeading, ActiveTrailing, Stop, BetweenEdges, Wave, Starts
<1>2. ss = 1 /\ ~sck /\ ~sck_generator_en /\ Line = 0 /\ ~transmission
  BY <1>1 DEF Still, Line, Starts
<1>3. Effect /\ Unselected(ss)
  BY <1>2 DEF Beat, FlashClock, Selected
<1>4. transmission' = FALSE /\ slave_bits' = 0
  <2>1. transmission' = (ss = 0)
    BY <1>3 DEF Unselected
  <2>2. (ss = 0) = FALSE
    BY <1>2
  <2>3. slave_bits' = 0
    BY <1>2, <1>3 DEF Unselected
  <2>4. QED
    BY <2>1, <2>2, <2>3
<1>5. /\ ~generator'.level /\ ~generator'.rising /\ ~generator'.falling
      /\ generator'.counter = 0
      /\ sck_prv'[1] = 0 /\ sck_prv'[2] = 0 /\ sck_prv'[3] = 0
      /\ generator'.target = IF clk_divider_valid THEN cdr ELSE generator.target
  BY <1>1, <1>2, ClockTurns DEF Beat, Still
<1>6. /\ ss' = 0 /\ sck_generator_en' /\ sck' = FALSE /\ bits_counter' = 0 /\ ~rx_data_valid'
      /\ state' = "ACTIVE" /\ sck_phase' /\ sck_polarity' = FALSE
  BY <1>1, <1>2, LineFacts DEF Start, Still, Starts
<1>7. sr'.txact = TRUE /\ clk_divider_valid' = FALSE /\ ~tx_data_valid'
      /\ cr' = cr /\ cdr' = cdr
  BY <1>3 DEF Effect, Sendable
<1>8. Configured'
  BY <1>1, <1>5, <1>7 DEF Configured, Starts
<1>9. Resting'
  BY <1>5 DEF Resting
<1>10. Led' = 0 /\ Line' = 0
  BY <1>6 DEF Led, Line
<1>11. Selects'
  BY <1>4, <1>5, <1>6, <1>7, <1>8 DEF Selects
<1>12. Samples3'
  BY <1>4, <1>5, <1>6, <1>10 DEF Samples3
<1>13. Actives'
  BY <1>6, <1>10, Rates DEF Actives
<1>14. QED
  BY <1>4, <1>5, <1>6, <1>7, <1>9, <1>11, <1>12, <1>13 DEF Wave

\* The slave while it is selected.
LEMMA SlaveShifts ==
  ASSUME LineTypes, SlaveInTime, Wave, Beat, Shifting
  PROVE  /\ transmission' = TRUE
         /\ flash_tx_data' = Answer /\ Answer' = Answer
         /\ flash_addr' = flash_addr /\ bytes_counter' = bytes_counter
         /\ ~transmission => slave_bits' = 0 /\ slave_bits = 0
         /\ transmission => Selected(ss, mosi) /\ Shift(mosi)
         /\ transmission /\ FlashRising => slave_bits' = (slave_bits + 1) % 16
         /\ transmission /\ ~FlashRising => slave_bits' = slave_bits
<1>1. ss = 0 /\ spi_mem' = spi_mem /\ (Unselected(ss) \/ Selected(ss, mosi))
  BY DEF Beat, FlashClock, Wave, Selects, Shifting
<1>2. transmission' = TRUE
  <2>1. transmission' = (ss = 0)
    BY <1>1 DEF Unselected, Selected
  <2>2. (ss = 0) = TRUE
    BY <1>1
  <2>3. QED
    BY <2>1, <2>2
<1>3. CASE ~transmission
  <2>1. Unselected(ss) /\ slave_bits = 0
    BY <1>1, <1>3 DEF Selected, Wave
  <2>2. /\ flash_addr' = flash_addr /\ bytes_counter' = bytes_counter
        /\ flash_tx_data' = Answer /\ slave_bits' = 0
    BY <2>1 DEF Unselected, Answer
  <2>3. QED
    BY <1>1, <1>2, <1>3, <2>1, <2>2 DEF Answer
<1>4. CASE transmission
  <2>1. Selected(ss, mosi) /\ Shift(mosi) /\ flash_tx_data = Answer
    BY <1>1, <1>4 DEF Unselected, Selected, Wave
  <2>2. /\ flash_addr' = flash_addr /\ bytes_counter' = bytes_counter
        /\ flash_tx_data' = Answer
        /\ slave_bits' = IF FlashRising THEN (slave_bits + 1) % 16 ELSE slave_bits
    BY <1>1, <2>1 DEF Selected
  <2>3. QED
    BY <1>1, <1>2, <1>4, <2>1, <2>2 DEF Answer
<1>5. QED
  BY <1>3, <1>4

\* The samples move on, on the same side of the clock line.
LEMMA SamplesPass ==
  ASSUME LineTypes, SlaveInTime, Wave, Beat, Shifting,
         state' = state, bits_counter' = bits_counter, sck' = sck,
         Led > 0 => Since' = Since + 1 /\ transmission
  PROVE  Samples3'
<1>1. Samples3 /\ Led' = Led /\ Line' = Line /\ (Line = 1 <=> sck) /\ Line \in {0, 1}
  BY DEF Wave, Shifting, Led, Line
<1>2. sck_prv'[1] = Line /\ sck_prv'[2] = sck_prv[1] /\ sck_prv'[3] = sck_prv[2]
  BY ClockTurns DEF Beat
<1>3. Led \in Nat /\ Led <= ByteBits /\ ByteBits < 16 /\ Since \in Nat /\ slave_bits \in Nat
      /\ Since >= 1 /\ slave_bits <= ByteBits /\ ByteBits \in Nat
  BY LineFacts, Rates DEF Led, Since
<1>4. sck => Led > 0
  BY <1>1, LineFacts, Rates DEF Wave, Actives, Stops, Shifting, Led
<1>5. CASE Led = 0
  <2>1. ~sck /\ Line = 0 /\ slave_bits = 0 /\ ~FlashRising
    BY <1>1, <1>3, <1>4, <1>5 DEF Samples3, Line, FlashRising, RisingEdge
  <2>2. slave_bits' = 0
    BY <2>1, SlaveShifts, LineFacts
  <2>3. QED
    BY <1>1, <1>2, <1>5, <2>1, <2>2 DEF Samples3
<1>6. CASE Led > 0
  <2>1. /\ sck_prv[1] = IF Since > 1 THEN Line ELSE 1 - Line
        /\ sck_prv[2] = IF Since > 2 THEN Line ELSE 1 - Line
        /\ sck_prv[3] = IF Since > 3 THEN Line ELSE 1 - Line
        /\ slave_bits = IF sck /\ sck_prv[3] = 0 THEN Led - 1 ELSE Led
    BY <1>1, <1>6 DEF Samples3
  <2>2. Since' = Since + 1 /\ transmission
    BY <1>6
  <2>3. FlashRising <=> sck_prv[2] = 1 /\ sck_prv[3] = 0
    BY DEF FlashRising, RisingEdge
  <2>4. FlashRising <=> Line = 1 /\ Since = 3
    BY <1>1, <1>3, <2>1, <2>3
  <2>5. FlashRising => slave_bits = Led - 1 /\ slave_bits' = Led
    <3>1. FlashRising => slave_bits = Led - 1 /\ slave_bits' = (slave_bits + 1) % 16
      BY <1>1, <2>1, <2>2, <2>3, <2>4, SlaveShifts
    <3>2. Led % 16 = Led /\ (Led - 1) + 1 = Led
      BY <1>3, Unwrapped
    <3>3. QED
      BY <3>1, <3>2
  <2>6. ~FlashRising => slave_bits' = slave_bits
    BY <2>2, SlaveShifts
  <2>7. slave_bits' = IF sck /\ sck_prv[2] = 0 THEN Led - 1 ELSE Led
    BY <1>1, <1>3, <2>1, <2>3, <2>4, <2>5, <2>6
  <2>8. QED
    BY <1>1, <1>2, <1>3, <1>6, <2>1, <2>2, <2>7 DEF Samples3
<1>7. QED
  BY <1>3, <1>5, <1>6

\* An edge, when the samples have settled.
LEMMA SamplesTurn ==
  ASSUME LineTypes, SlaveInTime, Wave, Beat, Shifting, transmission,
         generator.counter = 0,
         sck' <=> ~sck, sck' \in BOOLEAN, Since' = 1,
         Led' = IF sck THEN Led ELSE Led + 1
  PROVE  /\ Samples3' /\ ~FlashRising /\ ~FlashFalling /\ slave_bits' = slave_bits
         /\ slave_bits = Led /\ sck_prv[3] = Line /\ sck_prv'[3] = Line
         /\ Led' > 0
<1>1. Samples3 /\ Line' = 1 - Line /\ (Line = 1 <=> sck) /\ Line \in {0, 1}
  BY DEF Wave, Shifting, Line
<1>2. sck_prv'[1] = Line /\ sck_prv'[2] = sck_prv[1] /\ sck_prv'[3] = sck_prv[2]
  BY ClockTurns DEF Beat
<1>3. Led \in Nat /\ Since >= 4 /\ Since \in Nat
  BY LineFacts, Rates DEF Led, Since
<1>4. sck => Led > 0
  BY <1>1, LineFacts, Rates DEF Wave, Actives, Stops, Shifting, Led
<1>5. sck_prv[1] = Line /\ sck_prv[2] = Line /\ sck_prv[3] = Line
  <2>1. CASE Led = 0
    BY <1>1, <1>4, <2>1 DEF Samples3
  <2>2. CASE Led > 0
    BY <1>1, <1>3, <2>2 DEF Samples3
  <2>3. QED
    BY <1>3, <2>1, <2>2
<1>6. slave_bits = Led
  BY <1>1, <1>5 DEF Samples3
<1>7. ~FlashRising /\ ~FlashFalling
  BY <1>1, <1>5 DEF FlashRising, FlashFalling, RisingEdge, FallingEdge
<1>8. slave_bits' = slave_bits
  BY <1>7, SlaveShifts
<1>9. Led' > 0
  BY <1>3, <1>4
<1>10. slave_bits' = IF sck' /\ sck_prv'[3] = 0 THEN Led' - 1 ELSE Led'
  BY <1>1, <1>2, <1>3, <1>5, <1>6, <1>8
<1>11. Samples3'
  BY <1>1, <1>2, <1>5, <1>9, <1>10 DEF Samples3
<1>12. QED
  BY <1>2, <1>5, <1>6, <1>7, <1>8, <1>9, <1>11

\* Between two edges.
LEMMA WaveStays ==
  ASSUME LineTypes, SlaveInTime, Wave, Beat, Shifting, BetweenEdges
  PROVE  Wave' /\ state' = state /\ bits_counter' = bits_counter /\ sck' = sck
         /\ sck_polarity' = FALSE /\ slave_bits' <= ByteBits /\ slave_bits' \in Nat
         /\ (transmission => Since' = Since + 1 /\ Since < HalfPeriod)
<1>1. /\ state' = state /\ rx_data_valid' = FALSE /\ bits_counter' = bits_counter
      /\ sck_generator_en' = sck_generator_en /\ sck' = sck
      /\ sck_polarity' = FALSE /\ sck_phase' = sck_phase /\ ss' = ss
      /\ ~generator.rising /\ ~generator.falling
  <2>1. state = "STOP" => ~generator.falling
    BY DEF Wave, Stops
  <2>2. QED
    BY <2>1, LineFacts DEF BetweenEdges, Leading, Trailing
<1>2. Selects /\ Samples3
  BY DEF Wave, Shifting
<1>3. sr'.txact = TRUE /\ clk_divider_valid' = FALSE /\ cr' = cr /\ cdr' = cdr
      /\ ~tx_data_valid'
  BY <1>1 DEF Beat, Effect, Sendable, Shifting, Leading
<1>4. transmission' = TRUE
  BY SlaveShifts
<1>5. sck_generator_en /\ ~clk_divider_valid /\ generator.target = ClockDivider
      /\ generator'.target = ClockDivider
  BY <1>2, ClockTurns DEF Beat, Selects, Configured
<1>6. transmission => generator.counter # 0
  BY <1>1, <1>2, LineFacts DEF Selects
<1>7. sck <=> generator.level
  BY <1>1, <1>2 DEF Selects
<1>8. /\ generator.counter = ClockDivider =>
           /\ generator'.counter = 0 /\ (generator'.level <=> ~generator.level)
           /\ (generator'.rising <=> ~generator.level)
           /\ (generator'.falling <=> generator.level)
      /\ generator.counter # ClockDivider =>
           /\ generator'.counter = generator.counter + 1
           /\ (generator'.level <=> generator.level)
           /\ ~generator'.rising /\ ~generator'.falling
  BY <1>5, ClockTurns DEF Beat
<1>9. generator.counter \in Nat /\ generator.counter <= ClockDivider
      /\ HalfPeriod = ClockDivider + 1 /\ ClockDivider \in Nat /\ ClockDivider >= 3
  BY <1>5, LineFacts, Rates
<1>10. transmission => Since' = Since + 1 /\ Since < HalfPeriod
  BY <1>6, <1>8, <1>9 DEF Since
<1>11. Led > 0 => transmission
  BY LineFacts, Rates DEF Wave, Actives, Stops, Shifting, Led
<1>12. Samples3'
  BY <1>1, <1>10, <1>11, SamplesPass
<1>13. Configured'
  BY <1>2, <1>3, <1>5 DEF Selects, Configured
<1>14. /\ sck <=> (generator'.level /\ ~generator'.rising) \/ generator'.falling
       /\ generator'.rising => generator'.level /\ generator'.counter = 0
       /\ generator'.falling => ~generator'.level /\ generator'.counter = 0
       /\ generator'.counter = 0 => generator'.rising \/ generator'.falling
  BY <1>7, <1>8, <1>9, LineFacts
<1>15. Selects'
  BY <1>1, <1>2, <1>3, <1>13, <1>14 DEF Selects
<1>16. state = "ACTIVE" => Actives'
  BY <1>1, <1>4 DEF Wave, Actives, Line
<1>17. state = "STOP" => Stops'
  <2> SUFFICES ASSUME state = "STOP" PROVE Stops'
    OBVIOUS
  <2>1. transmission /\ bits_counter = 0 /\ ~sck
    BY DEF Wave, Stops
  <2>2. ~generator.level /\ ~generator'.falling
    BY <1>7, <1>8, <2>1
  <2>3. ~(~generator'.level /\ generator'.counter = 1)
    BY <1>6, <1>8, <1>9, <2>1, <2>2
  <2>4. QED
    BY <1>1, <1>4, <2>1, <2>2, <2>3 DEF Stops
<1>18. flash_tx_data' = Answer'
  BY SlaveShifts
<1>19. Wave'
  BY <1>1, <1>3, <1>4, <1>12, <1>15, <1>16, <1>17, <1>18 DEF Wave, Shifting
<1>20. slave_bits' <= ByteBits /\ slave_bits' \in Nat
  <2>1. Led' = Led /\ Led \in Nat /\ Led <= ByteBits /\ ByteBits \in Nat
    BY <1>1, LineFacts, Rates DEF Led
  <2>2. slave_bits' = IF sck' /\ sck_prv'[3] = 0 THEN Led' - 1 ELSE Led'
    BY <1>12 DEF Samples3
  <2>3. sck => Led > 0
    BY <1>1, LineFacts, Rates DEF Wave, Actives, Stops, Shifting, Led, Line
  <2>4. QED
    BY <1>1, <2>1, <2>2, <2>3
<1>21. QED
  BY <1>1, <1>10, <1>19, <1>20

\* A leading edge: the next bit goes out.
LEMMA WaveLeads ==
  ASSUME LineTypes, SlaveInTime, Wave, Beat, ActiveLeading(miso)
  PROVE  /\ Wave' /\ state' = "ACTIVE" /\ ~sck /\ sck' = TRUE /\ sck_phase
         /\ bits_counter' = bits_counter + 1 /\ bits_counter < ByteBits
         /\ sck_polarity' = FALSE /\ transmission
         /\ slave_bits' = slave_bits /\ slave_bits = bits_counter
         /\ sck_prv[3] = 0 /\ sck_prv'[3] = 0 /\ ~FlashRising /\ ~FlashFalling
<1>1. /\ state = "ACTIVE" /\ generator.rising
      /\ state' = state /\ rx_data_valid' = FALSE /\ bits_counter' = bits_counter + 1
      /\ sck_generator_en' = sck_generator_en /\ sck' = TRUE
      /\ sck_polarity' = FALSE /\ sck_phase' = sck_phase /\ ss' = ss
  BY LineFacts DEF ActiveLeading, Leading
<1>2. Shifting /\ Selects /\ Samples3 /\ Actives
  BY <1>1 DEF Wave, Shifting
<1>3. sr'.txact = TRUE /\ clk_divider_valid' = FALSE /\ cr' = cr /\ cdr' = cdr
      /\ ~tx_data_valid'
  BY <1>1 DEF Beat, Effect, Sendable
<1>4. transmission' = TRUE
  BY <1>2, SlaveShifts
<1>5. sck_generator_en /\ ~clk_divider_valid /\ generator.target = ClockDivider
      /\ generator'.target = ClockDivider
  BY <1>2, ClockTurns DEF Beat, Selects, Configured
<1>6. generator.level /\ generator.counter = 0 /\ ~generator.falling
  BY <1>1, <1>2 DEF Selects
<1>7. ~sck /\ transmission
  <2>1. ~sck
    BY <1>1, <1>2, <1>6 DEF Selects
  <2>2. transmission
    BY <1>1 DEF Wave, Resting
  <2>3. QED
    BY <2>1, <2>2
<1>8. ClockDivider \in Nat /\ ClockDivider >= 3
  BY Rates
<1>9. /\ generator'.counter = 1 /\ generator'.level
      /\ ~generator'.rising /\ ~generator'.falling
  BY <1>5, <1>6, <1>8, ClockTurns DEF Beat
<1>10. Since' = 1 /\ Led' = Led + 1 /\ Led = bits_counter /\ Line = 0 /\ Line' = 1
  BY <1>1, <1>7, <1>9 DEF Since, Led, Line
<1>11. /\ Samples3' /\ ~FlashRising /\ ~FlashFalling /\ slave_bits' = slave_bits
       /\ slave_bits = Led /\ sck_prv[3] = 0 /\ sck_prv'[3] = 0
  BY <1>1, <1>2, <1>6, <1>7, <1>10, SamplesTurn
<1>12. Configured'
  BY <1>2, <1>3, <1>5 DEF Selects, Configured
<1>13. Selects'
  BY <1>1, <1>2, <1>3, <1>9, <1>12 DEF Selects
<1>14. bits_counter < ByteBits /\ bits_counter \in Nat /\ ByteBits \in Nat
  BY <1>2, <1>10, LineFacts, Rates DEF Actives
<1>15. Actives'
  BY <1>1, <1>4, <1>10, <1>14 DEF Actives
<1>16. flash_tx_data' = Answer'
  BY <1>2, SlaveShifts
<1>17. Wave'
  BY <1>1, <1>3, <1>4, <1>11, <1>13, <1>15, <1>16 DEF Wave
<1>18. QED
  BY <1>1, <1>2, <1>7, <1>10, <1>11, <1>14, <1>17 DEF Selects

\* A trailing edge: a bit comes in.
LEMMA WaveTrails ==
  ASSUME LineTypes, SlaveInTime, Wave, Beat, ActiveTrailing(miso)
  PROVE  /\ Wave' /\ sck /\ sck' = FALSE /\ sck_phase
         /\ sck_polarity' = FALSE /\ transmission
         /\ slave_bits' = slave_bits /\ slave_bits = bits_counter /\ bits_counter >= 1
         /\ sck_prv[3] = 1 /\ sck_prv'[3] = 1 /\ ~FlashRising /\ ~FlashFalling
         /\ bits_counter = ByteBits => state' = "STOP" /\ bits_counter' = 0 /\ Since' = 1
         /\ bits_counter # ByteBits => state' = "ACTIVE" /\ bits_counter' = bits_counter
<1>1. /\ state = "ACTIVE" /\ generator.falling
      /\ sck_generator_en' = sck_generator_en /\ sck' = FALSE
      /\ sck_polarity' = FALSE /\ sck_phase' = sck_phase /\ ss' = ss
  BY LineFacts DEF ActiveTrailing, Trailing
<1>2. Shifting /\ Selects /\ Samples3 /\ Actives
  BY <1>1 DEF Wave, Shifting
<1>3. sr'.txact = TRUE /\ clk_divider_valid' = FALSE /\ cr' = cr /\ cdr' = cdr
      /\ ~tx_data_valid'
  BY <1>1 DEF Beat, Effect, Sendable
<1>4. transmission' = TRUE
  BY <1>2, SlaveShifts
<1>5. sck_generator_en /\ ~clk_divider_valid /\ generator.target = ClockDivider
      /\ generator'.target = ClockDivider
  BY <1>2, ClockTurns DEF Beat, Selects, Configured
<1>6. ~generator.level /\ generator.counter = 0
  BY <1>1, <1>2 DEF Selects
<1>7. sck /\ transmission
  <2>1. sck
    BY <1>1, <1>2, <1>6 DEF Selects
  <2>2. transmission
    BY <1>1 DEF Wave, Resting
  <2>3. QED
    BY <2>1, <2>2
<1>8. ClockDivider \in Nat /\ ClockDivider >= 3
  BY Rates
<1>9. /\ generator'.counter = 1 /\ ~generator'.level
      /\ ~generator'.rising /\ ~generator'.falling
  BY <1>5, <1>6, <1>8, ClockTurns DEF Beat
<1>10. Line = 1 /\ Line' = 0 /\ bits_counter >= 1 /\ bits_counter \in Nat
       /\ bits_counter <= ByteBits /\ ByteBits \in Nat /\ ByteBits >= 1
  BY <1>1, <1>2, <1>7, LineFacts, Rates DEF Line, Actives
<1>11. /\ bits_counter = ByteBits => state' = "STOP" /\ bits_counter' = 0 /\ rx_data_valid' = TRUE
       /\ bits_counter # ByteBits => state' = "ACTIVE" /\ bits_counter' = bits_counter
                                     /\ rx_data_valid' = FALSE
  BY <1>1 DEF ActiveTrailing
<1>12. Led = bits_counter /\ Led' = Led /\ Since' = 1
  BY <1>1, <1>9, <1>10, <1>11 DEF Led, Since
<1>13. /\ Samples3' /\ ~FlashRising /\ ~FlashFalling /\ slave_bits' = slave_bits
       /\ slave_bits = Led /\ sck_prv[3] = 1 /\ sck_prv'[3] = 1
  BY <1>1, <1>2, <1>6, <1>7, <1>10, <1>12, SamplesTurn
<1>14. Configured'
  BY <1>2, <1>3, <1>5 DEF Selects, Configured
<1>15. Selects'
  BY <1>1, <1>2, <1>3, <1>9, <1>14 DEF Selects
<1>16. flash_tx_data' = Answer'
  BY <1>2, SlaveShifts
<1>17. CASE bits_counter = ByteBits
  <2>1. Stops'
    BY <1>1, <1>4, <1>9, <1>11, <1>17 DEF Stops
  <2>2. Wave'
    BY <1>3, <1>4, <1>11, <1>13, <1>15, <1>16, <1>17, <2>1 DEF Wave
  <2>3. QED
    BY <1>1, <1>2, <1>7, <1>10, <1>11, <1>12, <1>13, <1>17, <2>2 DEF Selects
<1>18. CASE bits_counter # ByteBits
  <2>1. Actives'
    BY <1>4, <1>10, <1>11, <1>18 DEF Actives
  <2>2. Wave'
    BY <1>3, <1>4, <1>11, <1>13, <1>15, <1>16, <1>18, <2>1 DEF Wave
  <2>3. QED
    BY <1>1, <1>2, <1>7, <1>10, <1>11, <1>12, <1>13, <1>18, <2>2 DEF Selects
<1>19. QED
  BY <1>17, <1>18

\* The end: the slave is let go.
LEMMA WaveStops ==
  ASSUME LineTypes, SlaveInTime, Wave, Beat, Stop
  PROVE  /\ Wave' /\ state' = "IDLE" /\ sck' = FALSE /\ bits_counter' = 0
         /\ sck_polarity' = FALSE /\ transmission /\ transmission'
         /\ slave_bits' = slave_bits /\ ~FlashRising /\ ~FlashFalling
         /\ sck_prv[3] = 0 /\ Since = HalfPeriod
<1>1. /\ state = "STOP" /\ generator.rising
      /\ state' = "IDLE" /\ rx_data_valid' = FALSE /\ bits_counter' = bits_counter
      /\ sck_generator_en' = FALSE /\ sck' = sck
      /\ sck_polarity' = FALSE /\ sck_phase' = sck_phase /\ ss' = 1
  BY LineFacts DEF Stop, Leading
<1>2. Shifting /\ Selects /\ Samples3 /\ Stops
  BY <1>1 DEF Wave, Shifting
<1>3. /\ sr'.txact = TRUE /\ clk_divider_valid' = FALSE /\ cr' = cr /\ cdr' = cdr
      /\ tx_data_valid' \in BOOLEAN
  BY <1>1 DEF Beat, Effect
<1>4. transmission' = TRUE /\ transmission = TRUE
  BY <1>2, SlaveShifts, LineFacts DEF Stops
<1>5. sck_generator_en /\ ~clk_divider_valid /\ generator.target = ClockDivider
      /\ generator'.target = ClockDivider
  BY <1>2, ClockTurns DEF Beat, Selects, Configured
<1>6. generator.level /\ generator.counter = 0 /\ ~sck /\ bits_counter = 0
  BY <1>1, <1>2 DEF Selects, Stops
<1>7. Led = ByteBits /\ Since = HalfPeriod /\ Line = 0
      /\ HalfPeriod \in Nat /\ HalfPeriod >= 4 /\ ByteBits \in Nat /\ ByteBits >= 1
  BY <1>1, <1>6, Rates DEF Led, Since, Line
<1>8. sck_prv[1] = 0 /\ sck_prv[2] = 0 /\ sck_prv[3] = 0
  BY <1>2, <1>7 DEF Samples3
<1>9. ~FlashRising /\ ~FlashFalling
  BY <1>8 DEF FlashRising, FlashFalling, RisingEdge, FallingEdge
<1>10. sck_prv'[1] = 0 /\ sck_prv'[2] = 0 /\ sck_prv'[3] = 0
  BY <1>7, <1>8, ClockTurns DEF Beat
<1>11. slave_bits' = slave_bits /\ flash_tx_data' = Answer'
  BY <1>2, <1>4, <1>9, SlaveShifts
<1>12. Configured'
  BY <1>2, <1>3, <1>5 DEF Selects, Configured
<1>13. Idles'
  BY <1>1, <1>3, <1>4, <1>6, <1>10, <1>12 DEF Idles, Still
<1>14. Wave'
  BY <1>1, <1>3, <1>4, <1>11, <1>13 DEF Wave
<1>15. QED
  BY <1>1, <1>4, <1>6, <1>7, <1>8, <1>9, <1>11, <1>14

-----------------------------------------------------------------------------
(* A cycle of the bits on their way. *)

SlaveTypes ==
  /\ slave_tx \in Bytes /\ slave_rx \in Bytes /\ slave_rx_data \in Bytes
  /\ flash_tx_data \in Bytes /\ miso \in Bit

\* How many bits the slave has answered with and heard, at an edge it sees.
LEMMA SlaveCounts ==
  ASSUME LineTypes, SlaveInTime, Wave, Beat, Shifting
  PROVE  /\ {slave_bits, Led, Fallen, ByteBits} \subseteq Nat
         /\ Led <= ByteBits /\ slave_bits <= Led /\ ByteBits >= 1
         /\ transmission /\ FlashRising =>
              slave_bits + 1 = Led /\ slave_bits' = slave_bits + 1 /\ Fallen' = Fallen
         /\ transmission /\ FlashFalling =>
              /\ slave_bits = Led /\ slave_bits' = slave_bits /\ Led >= 1
              /\ Fallen' = Fallen + 1 /\ Fallen' = Led /\ sck_prv[3] = 1
         /\ transmission /\ ~FlashRising /\ ~FlashFalling =>
              slave_bits' = slave_bits /\ Fallen' = Fallen
         /\ ~transmission => slave_bits = 0 /\ slave_bits' = 0 /\ Fallen' = 0 /\ Fallen = 0
<1>1. Samples3 /\ Line \in {0, 1} /\ (Line = 1 <=> sck)
      /\ sck_prv[1] \in {0, 1} /\ sck_prv[2] \in {0, 1} /\ sck_prv[3] \in {0, 1}
  BY LineFacts DEF Wave, Shifting, Line
<1>2. sck_prv'[3] = sck_prv[2]
  BY ClockTurns DEF Beat
<1>3. Led \in Nat /\ Led <= ByteBits /\ ByteBits < 16 /\ Since \in Nat /\ slave_bits \in Nat
      /\ Since >= 1 /\ slave_bits <= ByteBits /\ ByteBits \in Nat /\ ByteBits >= 1
  BY LineFacts, Rates DEF Led, Since
<1>4. sck => Led > 0
  BY <1>1, LineFacts, Rates DEF Wave, Actives, Stops, Shifting, Led
<1>5. FlashRising <=> sck_prv[2] = 1 /\ sck_prv[3] = 0
  BY DEF FlashRising, RisingEdge
<1>6. FlashFalling <=> sck_prv[2] = 0 /\ sck_prv[3] = 1
  BY DEF FlashFalling, FallingEdge
<1>7. /\ Led = 0 => sck_prv[2] = 0 /\ sck_prv[3] = 0
      /\ Led > 0 => /\ sck_prv[2] = IF Since > 2 THEN Line ELSE 1 - Line
                    /\ sck_prv[3] = IF Since > 3 THEN Line ELSE 1 - Line
      /\ slave_bits = IF sck /\ sck_prv[3] = 0 THEN Led - 1 ELSE Led
  BY <1>1 DEF Samples3
<1>8. slave_bits <= Led /\ slave_bits >= sck_prv[3]
  BY <1>1, <1>3, <1>4, <1>7
<1>9. Fallen = slave_bits - sck_prv[3] /\ Fallen' = slave_bits' - sck_prv[2] /\ Fallen \in Nat
  BY <1>1, <1>2, <1>3, <1>8 DEF Fallen
<1>10. FlashRising => Line = 1 /\ slave_bits + 1 = Led
  BY <1>1, <1>3, <1>4, <1>5, <1>7
<1>11. FlashFalling => slave_bits = Led /\ Led >= 1
  BY <1>1, <1>3, <1>4, <1>6, <1>7
<1>12. FlashRising => (slave_bits + 1) % 16 = slave_bits + 1
  BY <1>3, <1>10, Unwrapped
<1>13. transmission /\ FlashRising => slave_bits' = slave_bits + 1
  BY <1>12, SlaveShifts
<1>14. transmission /\ ~FlashRising => slave_bits' = slave_bits
  BY SlaveShifts
<1>15. FlashFalling => ~FlashRising
  BY <1>5, <1>6
<1>16. ~transmission => slave_bits = 0 /\ slave_bits' = 0 /\ Led = 0
  BY SlaveShifts DEF Wave, Stops, Actives, Led, Shifting
<1>17. CASE transmission /\ FlashRising
  BY <1>3, <1>5, <1>8, <1>9, <1>10, <1>13, <1>15, <1>17
<1>18. CASE transmission /\ FlashFalling
  BY <1>3, <1>6, <1>8, <1>9, <1>11, <1>14, <1>15, <1>18
<1>19. CASE transmission /\ ~FlashRising /\ ~FlashFalling
  BY <1>1, <1>3, <1>5, <1>6, <1>8, <1>9, <1>14, <1>19
<1>20. CASE ~transmission
  BY <1>3, <1>7, <1>8, <1>9, <1>16, <1>20
<1>21. QED
  BY <1>17, <1>18, <1>19, <1>20

LEMMA SlaveBitsStep ==
  ASSUME LineTypes, SlaveInTime, Wave, Beat, Shifting, SendsOut, Hears, Answers, tdr' = tdr
  PROVE  /\ Hears' /\ Answers' /\ SlaveTypes'
         /\ sck_prv[3] = 0 => slave_rx_data' = slave_rx_data
         /\ FlashFalling /\ transmission /\ slave_bits = ByteBits => slave_rx_data' = tdr
<1>1. /\ {slave_bits, Led, Fallen, ByteBits} \subseteq Nat
      /\ Led <= ByteBits /\ slave_bits <= Led /\ ByteBits >= 1
      /\ transmission /\ FlashRising =>
           slave_bits + 1 = Led /\ slave_bits' = slave_bits + 1 /\ Fallen' = Fallen
      /\ transmission /\ FlashFalling =>
           /\ slave_bits = Led /\ slave_bits' = slave_bits /\ Led >= 1
           /\ Fallen' = Fallen + 1 /\ Fallen' = Led /\ sck_prv[3] = 1
      /\ transmission /\ ~FlashRising /\ ~FlashFalling =>
           slave_bits' = slave_bits /\ Fallen' = Fallen
      /\ ~transmission => slave_bits = 0 /\ slave_bits' = 0 /\ Fallen' = 0 /\ Fallen = 0
  BY SlaveCounts
<1>2. /\ SlaveTypes /\ tdr \in Bytes /\ Answer \in Bytes /\ mosi \in Bit
  BY LineFacts DEF SlaveTypes, Bit
<1>3. Answer' = Answer /\ flash_tx_data' = Answer
  BY SlaveShifts
<1>4. ~(FlashRising /\ FlashFalling)
  BY DEF FlashRising, FlashFalling, RisingEdge, FallingEdge
<1>5. CASE ~transmission
  <2>1. UNCHANGED <<slave_tx, slave_rx, slave_rx_data>> /\ miso' = 0
    BY <1>5 DEF Beat, FlashClock, Selected, Unselected
  <2>2. SlaveTypes'
    BY <1>2, <1>3, <2>1 DEF SlaveTypes, Bit
  <2>3. Answers'
    BY <1>1, <1>5 DEF Answers
  <2>4. Hears'
    BY <1>1, <1>5 DEF Hears
  <2>5. QED
    BY <1>5, <2>1, <2>2, <2>3, <2>4
<1>6. CASE transmission /\ FlashRising
  <2> DEFINE out == IF slave_bits = 0 THEN flash_tx_data ELSE slave_tx
  <2>1. /\ miso' = Head(out) /\ slave_tx' = ShiftIn(out, 0)
        /\ UNCHANGED <<slave_rx, slave_rx_data>>
    BY <1>4, <1>6, SlaveShifts DEF Shift, ShiftIn
  <2>2. out \in Bytes
    BY <1>2 DEF SlaveTypes
  <2>3. flash_tx_data = Answer
    BY <1>6 DEF Wave
  <2>4. \A k \in 1 .. ByteBits : k + slave_bits <= ByteBits => out[k] = Answer[k + slave_bits]
    <3>1. CASE slave_bits = 0
      BY <2>3, <3>1
    <3>2. CASE slave_bits # 0
      BY <1>1, <3>2 DEF Answers
    <3>3. QED
      BY <3>1, <3>2
  <2> HIDE DEF out
  <2>5. /\ slave_tx' \in Bytes /\ miso' = out[1] /\ miso' \in Bit
        /\ \A k \in 1 .. ByteBits - 1 : slave_tx'[k] = out[k + 1]
    <3>1. 0 \in Bit
      BY DEF Bit
    <3>2. QED
      BY <2>1, <2>2, <3>1, Shifted
  <2>6. slave_bits' = slave_bits + 1 /\ slave_bits + 1 <= ByteBits /\ Fallen' = Fallen
    BY <1>1, <1>6
  <2>7. Answers'
    <3>1. miso' = Answer[slave_bits + 1]
      BY <1>1, <2>4, <2>5, <2>6
    <3>2. ASSUME NEW k \in 1 .. ByteBits, k + (slave_bits + 1) <= ByteBits
          PROVE  slave_tx'[k] = Answer[k + (slave_bits + 1)]
      <4>1. k \in 1 .. ByteBits - 1 /\ k + 1 \in 1 .. ByteBits
            /\ (k + 1) + slave_bits <= ByteBits /\ (k + 1) + slave_bits = k + (slave_bits + 1)
        BY <1>1, <3>2
      <4>2. QED
        BY <2>4, <2>5, <4>1
    <3>3. QED
      BY <1>3, <2>6, <3>1, <3>2 DEF Answers
  <2>8. Hears'
    BY <2>1, <2>6 DEF Hears
  <2>9. SlaveTypes'
    BY <1>2, <1>3, <2>1, <2>5 DEF SlaveTypes
  <2>10. QED
    BY <1>4, <1>6, <2>1, <2>7, <2>8, <2>9
<1>7. CASE transmission /\ FlashFalling
  <2>1. /\ slave_rx' = ShiftIn(slave_rx, mosi)
        /\ slave_rx_data' = IF slave_bits = FlashBits THEN slave_rx' ELSE slave_rx_data
        /\ UNCHANGED <<miso, slave_tx>>
    BY <1>4, <1>7, SlaveShifts DEF Shift, ShiftIn
  <2>2. /\ slave_rx' \in Bytes /\ slave_rx'[ByteBits] = mosi
        /\ \A k \in 1 .. ByteBits - 1 : slave_rx'[k] = slave_rx[k + 1]
    BY <1>2, <2>1, Shifted DEF SlaveTypes
  <2>3. /\ slave_bits = Led /\ slave_bits' = slave_bits /\ Led >= 1
        /\ Fallen' = Fallen + 1 /\ Fallen' = Led /\ sck_prv[3] = 1
    BY <1>1, <1>7
  <2>4. \A k \in 1 .. ByteBits :
          k + (Fallen + 1) > ByteBits => slave_rx'[k] = tdr[k + (Fallen + 1) - ByteBits]
    <3> SUFFICES ASSUME NEW k \in 1 .. ByteBits, k + (Fallen + 1) > ByteBits
                 PROVE  slave_rx'[k] = tdr[k + (Fallen + 1) - ByteBits]
      OBVIOUS
    <3>1. CASE k = ByteBits
      <4>1. k + (Fallen + 1) - ByteBits = Led
        BY <1>1, <2>3, <3>1
      <4>2. mosi = tdr[Led]
        BY <2>3 DEF SendsOut
      <4>3. QED
        BY <2>2, <3>1, <4>1, <4>2
    <3>2. CASE k # ByteBits
      <4>1. k \in 1 .. ByteBits - 1 /\ k + 1 \in 1 .. ByteBits
            /\ (k + 1) + Fallen > ByteBits
            /\ (k + 1) + Fallen - ByteBits = k + (Fallen + 1) - ByteBits
        BY <1>1, <3>2
      <4>2. slave_rx[k + 1] = tdr[(k + 1) + Fallen - ByteBits]
        BY <4>1 DEF Hears
      <4>3. QED
        BY <2>2, <4>1, <4>2
    <3>3. QED
      BY <3>1, <3>2
  <2>5. Hears'
    BY <2>3, <2>4 DEF Hears
  <2>6. Answers'
    BY <1>3, <2>1, <2>3 DEF Answers
  <2>7. slave_bits = ByteBits => slave_rx_data' = tdr
    <3> SUFFICES ASSUME slave_bits = ByteBits PROVE slave_rx_data' = tdr
      OBVIOUS
    <3>1. slave_rx_data' = slave_rx' /\ Fallen + 1 = ByteBits
      BY <2>1, <2>3, Rates
    <3>2. \A k \in 1 .. ByteBits : slave_rx'[k] = tdr[k]
      BY <1>1, <2>4, <3>1
    <3>3. slave_rx' = tdr
      BY <1>2, <2>2, <3>2, SameByte
    <3>4. QED
      BY <3>1, <3>3
  <2>8. slave_rx_data' \in Bytes
    BY <1>2, <2>1, <2>2 DEF SlaveTypes
  <2>9. SlaveTypes'
    BY <1>2, <1>3, <2>1, <2>2, <2>8 DEF SlaveTypes
  <2>10. QED
    BY <2>3, <2>5, <2>6, <2>7, <2>9
<1>8. CASE transmission /\ ~FlashRising /\ ~FlashFalling
  <2>1. UNCHANGED <<miso, slave_tx, slave_rx, slave_rx_data>>
    BY <1>8, SlaveShifts DEF Shift
  <2>2. slave_bits' = slave_bits /\ Fallen' = Fallen
    BY <1>1, <1>8
  <2>3. Hears' /\ Answers'
    BY <1>3, <2>1, <2>2 DEF Hears, Answers
  <2>4. SlaveTypes'
    BY <1>2, <1>3, <2>1 DEF SlaveTypes
  <2>5. QED
    BY <1>8, <2>1, <2>3, <2>4
<1>9. QED
  BY <1>5, <1>6, <1>7, <1>8

ByteTypes ==
  /\ SlaveTypes
  /\ tdr \in Bytes /\ tx_buffer \in Bytes /\ rx_buffer \in Bytes /\ rx_data \in Bytes
  /\ mosi \in Bit

LEMMA ByteFacts ==
  ASSUME LineTypes, SlaveInTime
  PROVE  ByteTypes /\ Zero \in Bytes
<1>1. Zero \in Bytes
  BY DEF Zero, Bytes, Bit
<1>2. QED
  BY <1>1, LineFacts DEF ByteTypes, SlaveTypes, Bit

LEMMA BitsIdles ==
  ASSUME LineTypes, SlaveInTime, Wave, Beat, Bits, state = "IDLE"
  PROVE  Bits' /\ ByteTypes'
<1>1. Idle /\ Idles /\ Still
  BY DEF Beat, Master, Start, ActiveLeading, ActiveTrailing, Stop, BetweenEdges, Wave, Idles
<1>2. ~FlashRising /\ ~FlashFalling /\ ss = 1
  BY <1>1 DEF Still, FlashRising, FlashFalling, RisingEdge, FallingEdge
<1>3. UNCHANGED <<tx_buffer, rx_buffer, rx_data, mosi>> /\ rx_data_valid' = FALSE
      /\ state' = IF tx_data_valid THEN "START" ELSE "IDLE"
  BY <1>1 DEF Idle
<1>4. /\ UNCHANGED <<slave_tx, slave_rx, slave_rx_data>>
      /\ miso' \in Bit /\ flash_tx_data' \in Bytes
  <2>1. CASE ~transmission
    <3>1. Unselected(ss)
      BY <2>1 DEF Beat, FlashClock, Selected
    <3>2. UNCHANGED <<slave_tx, slave_rx, slave_rx_data>> /\ miso' = 0 /\ flash_tx_data' = Answer
      BY <3>1 DEF Unselected, Answer
    <3>3. QED
      BY <3>2, LineFacts DEF Bit
  <2>2. CASE transmission
    <3>1. Selected(ss, mosi)
      BY <2>2 DEF Beat, FlashClock, Unselected
    <3>2. UNCHANGED <<slave_tx, slave_rx, slave_rx_data, miso, flash_tx_data>>
      BY <1>2, <3>1 DEF Selected, Shift
    <3>3. QED
      BY <3>2, ByteFacts DEF ByteTypes, SlaveTypes
  <2>3. QED
    BY <2>1, <2>2
<1>5. (tx_data_valid' => tdr' \in Bytes) /\ (~tx_data_valid' => tdr' = tdr)
  BY DEF Beat, Effect
<1>6. ByteTypes'
  BY <1>3, <1>4, <1>5, ByteFacts DEF ByteTypes, SlaveTypes
<1>7. state' = "IDLE" /\ ~tx_data_valid' => slave_rx_data' = tdr'
  BY <1>3, <1>4, <1>5 DEF Bits
<1>8. QED
  BY <1>3, <1>6, <1>7 DEF Bits, Shifting

LEMMA BitsStarts ==
  ASSUME LineTypes, SlaveInTime, Wave, Beat, Bits, state = "START"
  PROVE  Bits' /\ ByteTypes'
<1>1. Start /\ Starts /\ Still
  BY DEF Beat, Master, Idle, ActiveLeading, ActiveTrailing, Stop, BetweenEdges, Wave, Starts
<1>2. ~transmission /\ sck_phase /\ ~tx_data_valid
  BY <1>1 DEF Starts
<1>3. UNCHANGED <<rx_data, mosi>> /\ rx_data_valid' = FALSE /\ tx_buffer' = tdr /\ rx_buffer' = Zero
  BY <1>1, <1>2 DEF Start
<1>4. /\ UNCHANGED <<slave_tx, slave_rx, slave_rx_data>>
      /\ miso' \in Bit /\ flash_tx_data' \in Bytes
  <2>1. Unselected(ss)
    BY <1>2 DEF Beat, FlashClock, Selected
  <2>2. UNCHANGED <<slave_tx, slave_rx, slave_rx_data>> /\ miso' = 0 /\ flash_tx_data' = Answer
    BY <2>1 DEF Unselected, Answer
  <2>3. QED
    BY <2>2, LineFacts DEF Bit
<1>5. tdr' = tdr
  BY DEF Beat, Effect, Sendable
<1>6. ByteTypes'
  BY <1>3, <1>4, <1>5, ByteFacts DEF ByteTypes, SlaveTypes
<1>7. state' = "ACTIVE" /\ bits_counter' = 0 /\ slave_bits' = 0 /\ sck' = FALSE /\ sck_prv'[3] = 0
  BY WaveStarts
<1>8. Led' = 0 /\ Trailed' = 0 /\ Fallen' = 0
  <2>1. Led' = 0 /\ Line' = 0
    BY <1>7 DEF Led, Line
  <2>2. QED
    BY <1>7, <2>1 DEF Trailed, Fallen
<1>9. ByteBits \in Nat
  BY Rates
<1>10. SendsOut'
  BY <1>3, <1>5, <1>8 DEF SendsOut
<1>11. Hears' /\ Answers' /\ TakesIn'
  BY <1>7, <1>8, <1>9 DEF Hears, Answers, TakesIn
<1>12. QED
  BY <1>3, <1>6, <1>7, <1>10, <1>11 DEF Bits

\* What the slave got is the byte in TDR, once the last edge has passed.
LEMMA SlaveHasByte ==
  ASSUME LineTypes, SlaveInTime, Wave, Beat, Bits, state = "STOP", tdr' = tdr, sck_prv'[3] = 0
  PROVE  slave_rx_data' = tdr'
<1>1. Shifting /\ transmission /\ Led = ByteBits
  BY DEF Shifting, Wave, Stops, Led
<1>2. SendsOut /\ Hears /\ Answers
  BY <1>1 DEF Bits
<1>3. CASE sck_prv[3] = 0
  BY <1>1, <1>2, <1>3, SlaveBitsStep DEF Bits
<1>4. CASE sck_prv[3] # 0
  <2>1. FlashFalling
    BY <1>4, LineFacts, ClockTurns DEF Beat, FlashFalling, FallingEdge
  <2>2. slave_bits = ByteBits
    BY <1>1, <2>1, SlaveCounts
  <2>3. QED
    BY <1>1, <1>2, <2>1, <2>2, SlaveBitsStep
<1>5. QED
  BY <1>3, <1>4

LEMMA BitsStays ==
  ASSUME LineTypes, SlaveInTime, Wave, Beat, Bits, Shifting, BetweenEdges
  PROVE  Bits' /\ ByteTypes'
<1>1. SendsOut /\ Hears /\ Answers /\ TakesIn
  BY DEF Bits
<1>2. state' = state /\ bits_counter' = bits_counter /\ sck' = sck
  BY WaveStays
<1>3. Led' = Led /\ Trailed' = Trailed
  BY <1>2 DEF Led, Line, Trailed
<1>4. UNCHANGED <<tx_buffer, rx_buffer, rx_data, mosi>> /\ rx_data_valid' = FALSE
  BY DEF BetweenEdges
<1>5. tdr' = tdr
  BY DEF Beat, Effect, Sendable, BetweenEdges, Leading, Shifting
<1>6. Hears' /\ Answers' /\ SlaveTypes' /\ Answer' = Answer
  BY <1>1, <1>5, SlaveBitsStep, SlaveShifts
<1>7. SendsOut' /\ TakesIn'
  BY <1>1, <1>3, <1>4, <1>5, <1>6 DEF SendsOut, TakesIn
<1>8. ByteTypes'
  BY <1>4, <1>5, <1>6, ByteFacts DEF ByteTypes
<1>9. state' = "STOP" /\ sck_prv'[3] = 0 => slave_rx_data' = tdr'
  BY <1>2, <1>5, SlaveHasByte
<1>10. QED
  BY <1>2, <1>4, <1>6, <1>7, <1>8, <1>9 DEF Bits, Shifting

LEMMA BitsLeads ==
  ASSUME LineTypes, SlaveInTime, Wave, Beat, Bits, ActiveLeading(miso)
  PROVE  Bits' /\ ByteTypes'
<1>1. /\ state = "ACTIVE" /\ Shifting
      /\ SendsOut /\ Hears /\ Answers /\ TakesIn
  BY DEF Bits, ActiveLeading, Shifting
<1>2. /\ state' = "ACTIVE" /\ ~sck /\ sck' = TRUE /\ sck_phase
      /\ bits_counter' = bits_counter + 1 /\ bits_counter < ByteBits
      /\ bits_counter \in Nat /\ ByteBits \in Nat
  BY WaveLeads, LineFacts, Rates
<1>3. Led = bits_counter /\ Led' = bits_counter + 1 /\ Trailed = bits_counter
      /\ Trailed' = bits_counter
  BY <1>1, <1>2 DEF Led, Line, Trailed
<1>4. /\ tx_buffer' = ShiftIn(tx_buffer, 0) /\ mosi' = Head(tx_buffer)
      /\ rx_buffer' = rx_buffer /\ rx_data_valid' = FALSE /\ rx_data' = rx_data
  BY <1>2 DEF ActiveLeading, ShiftsOut
<1>5. tdr' = tdr
  BY <1>1 DEF Beat, Effect, Sendable
<1>6. Hears' /\ Answers' /\ SlaveTypes' /\ Answer' = Answer
  BY <1>1, <1>5, SlaveBitsStep, SlaveShifts
<1>7. /\ tx_buffer' \in Bytes /\ mosi' = tx_buffer[1] /\ mosi' \in Bit
      /\ \A k \in 1 .. ByteBits - 1 : tx_buffer'[k] = tx_buffer[k + 1]
  <2>1. 0 \in Bit /\ tx_buffer \in Bytes
    BY ByteFacts DEF Bit, ByteTypes
  <2>2. QED
    BY <1>4, <2>1, Shifted
<1>8. SendsOut'
  <2>1. mosi' = tdr[bits_counter + 1]
    BY <1>1, <1>2, <1>3, <1>7 DEF SendsOut
  <2>2. ASSUME NEW k \in 1 .. ByteBits, k + (bits_counter + 1) <= ByteBits
        PROVE  tx_buffer'[k] = tdr[k + (bits_counter + 1)]
    <3>1. k \in 1 .. ByteBits - 1 /\ k + 1 \in 1 .. ByteBits
          /\ (k + 1) + bits_counter <= ByteBits
          /\ (k + 1) + bits_counter = k + (bits_counter + 1)
      BY <1>2, <2>2
    <3>2. QED
      BY <1>1, <1>3, <1>7, <3>1 DEF SendsOut
  <2>3. QED
    BY <1>3, <1>5, <2>1, <2>2 DEF SendsOut
<1>9. TakesIn'
  BY <1>1, <1>3, <1>4, <1>6 DEF TakesIn
<1>10. ByteTypes'
  BY <1>4, <1>5, <1>6, <1>7, ByteFacts DEF ByteTypes
<1>11. QED
  BY <1>2, <1>4, <1>6, <1>8, <1>9, <1>10 DEF Bits

LEMMA BitsTrails ==
  ASSUME LineTypes, SlaveInTime, Wave, Beat, Bits, ActiveTrailing(miso)
  PROVE  Bits' /\ ByteTypes'
<1>1. /\ state = "ACTIVE" /\ Shifting
      /\ SendsOut /\ Hears /\ Answers /\ TakesIn
  BY DEF Bits, ActiveTrailing, Shifting
<1>2. /\ sck /\ sck' = FALSE /\ sck_phase
      /\ slave_bits = bits_counter /\ bits_counter >= 1 /\ bits_counter <= ByteBits
      /\ bits_counter \in Nat /\ ByteBits \in Nat
      /\ bits_counter = ByteBits => state' = "STOP" /\ bits_counter' = 0
      /\ bits_counter # ByteBits => state' = "ACTIVE" /\ bits_counter' = bits_counter
      /\ sck_prv'[3] = 1
  BY WaveTrails, LineFacts, Rates
<1>3. Led = bits_counter /\ Led' = bits_counter /\ Trailed = bits_counter - 1
      /\ Trailed' = bits_counter
  BY <1>1, <1>2 DEF Led, Line, Trailed
<1>4. /\ rx_buffer' = ShiftIn(rx_buffer, miso) /\ tx_buffer' = tx_buffer /\ mosi' = mosi
      /\ bits_counter = ByteBits => rx_data' = rx_buffer'
      /\ bits_counter # ByteBits => rx_data_valid' = FALSE /\ rx_data' = rx_data
  BY <1>2 DEF ActiveTrailing, ShiftsIn
<1>5. tdr' = tdr
  BY <1>1 DEF Beat, Effect, Sendable
<1>6. Hears' /\ Answers' /\ SlaveTypes' /\ Answer' = Answer
  BY <1>1, <1>5, SlaveBitsStep, SlaveShifts
<1>7. /\ rx_buffer' \in Bytes /\ rx_buffer'[ByteBits] = miso
      /\ \A k \in 1 .. ByteBits - 1 : rx_buffer'[k] = rx_buffer[k + 1]
  <2>1. miso \in Bit /\ rx_buffer \in Bytes
    BY ByteFacts DEF ByteTypes, SlaveTypes
  <2>2. QED
    BY <1>4, <2>1, Shifted
<1>8. \A k \in 1 .. ByteBits :
        k + bits_counter > ByteBits => rx_buffer'[k] = Answer[k + bits_counter - ByteBits]
  <2> SUFFICES ASSUME NEW k \in 1 .. ByteBits, k + bits_counter > ByteBits
               PROVE  rx_buffer'[k] = Answer[k + bits_counter - ByteBits]
    OBVIOUS
  <2>1. CASE k = ByteBits
    <3>1. k + bits_counter - ByteBits = slave_bits
      BY <1>2, <2>1
    <3>2. miso = Answer[slave_bits]
      BY <1>1, <1>2 DEF Answers
    <3>3. QED
      BY <1>7, <2>1, <3>1, <3>2
  <2>2. CASE k # ByteBits
    <3>1. k \in 1 .. ByteBits - 1 /\ k + 1 \in 1 .. ByteBits
          /\ (k + 1) + (bits_counter - 1) > ByteBits
          /\ (k + 1) + (bits_counter - 1) - ByteBits = k + bits_counter - ByteBits
      BY <1>2, <2>2
    <3>2. rx_buffer[k + 1] = Answer[(k + 1) + (bits_counter - 1) - ByteBits]
      BY <1>1, <1>3, <3>1 DEF TakesIn
    <3>3. QED
      BY <1>7, <3>1, <3>2
  <2>3. QED
    BY <2>1, <2>2
<1>9. TakesIn'
  BY <1>3, <1>6, <1>8 DEF TakesIn
<1>10. SendsOut'
  BY <1>1, <1>3, <1>4, <1>5 DEF SendsOut
<1>11. bits_counter = ByteBits => rx_data' = Answer
  <2> SUFFICES ASSUME bits_counter = ByteBits PROVE rx_data' = Answer
    OBVIOUS
  <2>1. \A k \in 1 .. ByteBits : rx_buffer'[k] = Answer[k]
    BY <1>2, <1>8
  <2>2. Answer \in Bytes
    BY LineFacts
  <2>3. QED
    BY <1>4, <1>7, <2>1, <2>2, SameByte
<1>12. rx_data' \in Bytes
  BY <1>4, <1>7, ByteFacts DEF ByteTypes
<1>13. ByteTypes'
  BY <1>4, <1>5, <1>6, <1>7, <1>12, ByteFacts DEF ByteTypes
<1>14. rx_data_valid' => rx_data' = Answer'
  BY <1>4, <1>6, <1>11
<1>15. QED
  BY <1>2, <1>6, <1>9, <1>10, <1>13, <1>14 DEF Bits

LEMMA BitsStops ==
  ASSUME LineTypes, SlaveInTime, Wave, Beat, Bits, Stop
  PROVE  Bits' /\ ByteTypes'
<1>1. /\ state = "STOP" /\ Shifting /\ state' = "IDLE"
      /\ SendsOut /\ Hears /\ Answers
      /\ UNCHANGED <<tx_buffer, rx_buffer, rx_data, mosi>> /\ rx_data_valid' = FALSE
  BY DEF Bits, Stop, Shifting
<1>2. sck_prv[3] = 0 /\ transmission /\ ~FlashRising /\ ~FlashFalling
  BY WaveStops
<1>3. /\ UNCHANGED <<slave_tx, slave_rx, slave_rx_data, miso>> /\ flash_tx_data' = Answer
  BY <1>1, <1>2, SlaveShifts DEF Shift
<1>4. (tx_data_valid' => tdr' \in Bytes) /\ (~tx_data_valid' => tdr' = tdr)
  BY DEF Beat, Effect
<1>5. slave_rx_data = tdr
  BY <1>1, <1>2 DEF Bits
<1>6. ByteTypes'
  BY <1>1, <1>3, <1>4, ByteFacts, LineFacts DEF ByteTypes, SlaveTypes
<1>7. QED
  BY <1>1, <1>3, <1>4, <1>5, <1>6 DEF Bits, Shifting

-----------------------------------------------------------------------------
(* The place in the memory. *)

LEMMA Distributes ==
  ASSUME NEW a \in Int, NEW b \in Int, NEW c \in Int
  PROVE  (a + b) * c = a * c + b * c
  OBVIOUS

LEMMA Rows ==
  ASSUME NEW a \in Nat, NEW c \in Nat
  PROVE  (a + 1) * c = a * c + c /\ a * c \in Nat
<1>1. a \in Int /\ 1 \in Int /\ c \in Int
  OBVIOUS
<1>2. (a + 1) * c = a * c + 1 * c
  BY <1>1, Distributes, ZenonT(40)
<1>3. 1 * c = c /\ a * c \in Nat
  OBVIOUS
<1>4. QED
  BY <1>2, <1>3

\* Rows of c places, b of them: a place in the first a rows, a < b, is one of all.
LEMMA Within ==
  ASSUME NEW a \in Nat, NEW b \in Nat, NEW c \in Nat, a < b
  PROVE  a * c + c <= b * c /\ b * c \in Nat
<1> DEFINE d == b - a - 1
<1>1. d \in Int /\ a + 1 \in Int /\ c \in Int /\ d + (a + 1) = b /\ d \in Nat
  OBVIOUS
<1> HIDE DEF d
<1>2. (d + (a + 1)) * c = d * c + (a + 1) * c
  BY <1>1, Distributes, ZenonT(40)
<1>3. d * c \in Nat /\ b * c \in Nat
  BY <1>1
<1>4. (a + 1) * c = a * c + c /\ a * c \in Nat
  BY Rows
<1>5. QED
  BY <1>1, <1>2, <1>3, <1>4

LEMMA PlaceFacts ==
  ASSUME LineTypes, SlaveInTime
  PROVE  /\ FlashBytes \in Nat /\ FlashBytes >= 1
         /\ Place \in 0 .. FlashBytes - 1
<1>1. /\ flash_addr \in Nat /\ flash_addr < FlashWords /\ FlashWords \in Nat
      /\ bytes_counter \in Nat /\ bytes_counter < BytesPerWord /\ BytesPerWord \in Nat
  BY LineFacts, Rates
<1>2. flash_addr * BytesPerWord + BytesPerWord <= FlashWords * BytesPerWord
      /\ FlashWords * BytesPerWord \in Nat
  BY <1>1, Within
<1>3. flash_addr * BytesPerWord \in Nat
  BY <1>1
<1>4. QED
  BY <1>1, <1>2, <1>3 DEF FlashBytes, Place

\* The end of a transfer moves on to the next place, nothing else does.
LEMMA PlaceMoves ==
  ASSUME LineTypes, SlaveInTime, Wave, Beat
  PROVE  /\ flash_addr' \in 0 .. FlashWords - 1 /\ bytes_counter' \in 0 .. BytesPerWord - 1
         /\ state = "IDLE" /\ transmission => Place' = Succ(Place)
         /\ ~(state = "IDLE" /\ transmission) => Place' = Place
<1>1. /\ flash_addr \in Nat /\ flash_addr < FlashWords /\ FlashWords \in Nat
      /\ bytes_counter \in Nat /\ bytes_counter < BytesPerWord /\ BytesPerWord \in Nat
      /\ flash_addr * BytesPerWord \in Nat
  BY LineFacts, Rates
<1>2. state = "IDLE" => ss = 1
  BY DEF Wave, Idles, Still
<1>3. state # "IDLE" /\ transmission => ss = 0
  BY LineFacts DEF Wave, Starts, Selects
<1>4. CASE ~(state = "IDLE" /\ transmission)
  <2>1. flash_addr' = flash_addr /\ bytes_counter' = bytes_counter
    BY <1>3, <1>4 DEF Beat, FlashClock, Unselected, Selected
  <2>2. QED
    BY <1>1, <1>4, <2>1 DEF Place
<1>5. CASE state = "IDLE" /\ transmission
  <2>1. IF bytes_counter = BytesPerWord - 1
          THEN bytes_counter' = 0 /\ flash_addr' = (flash_addr + 1) % FlashWords
          ELSE bytes_counter' = bytes_counter + 1 /\ flash_addr' = flash_addr
    BY <1>2, <1>5 DEF Beat, FlashClock, Unselected, Selected
  <2>2. FlashBytes \in Nat /\ FlashBytes >= 1 /\ Place \in 0 .. FlashBytes - 1
    BY PlaceFacts
  <2>3. CASE bytes_counter # BytesPerWord - 1
    <3>1. bytes_counter' \in 0 .. BytesPerWord - 1 /\ flash_addr' \in 0 .. FlashWords - 1
      BY <1>1, <2>1, <2>3
    <3>2. Place' = Place + 1 /\ Place = flash_addr * BytesPerWord + bytes_counter
      BY <1>1, <2>1, <2>3 DEF Place
    <3>3. flash_addr * BytesPerWord + BytesPerWord <= FlashBytes
      BY <1>1, Within DEF FlashBytes
    <3>4. Place + 1 < FlashBytes
      BY <1>1, <2>2, <2>3, <3>2, <3>3
    <3>5. (Place + 1) % FlashBytes = Place + 1
      BY <2>2, <3>4, Unwrapped
    <3>6. QED
      BY <1>5, <3>1, <3>2, <3>5 DEF Succ
  <2>4. CASE bytes_counter = BytesPerWord - 1
    <3>1. bytes_counter' = 0 /\ flash_addr' = (flash_addr + 1) % FlashWords
          /\ Place + 1 = (flash_addr + 1) * BytesPerWord
      <4>1. (flash_addr + 1) * BytesPerWord = flash_addr * BytesPerWord + BytesPerWord
        BY <1>1, Rows
      <4>2. QED
        BY <1>1, <2>1, <2>4, <4>1 DEF Place
    <3>2. CASE flash_addr + 1 < FlashWords
      <4>1. flash_addr' = flash_addr + 1
        BY <1>1, <3>1, <3>2, Unwrapped
      <4>2. Place' = Place + 1
        BY <1>1, <3>1, <4>1 DEF Place
      <4>3. (flash_addr + 1) * BytesPerWord + BytesPerWord <= FlashBytes
        BY <1>1, <3>2, Within DEF FlashBytes
      <4>4. Place + 1 < FlashBytes
        BY <1>1, <2>2, <3>1, <4>3
      <4>5. (Place + 1) % FlashBytes = Place + 1
        BY <2>2, <4>4, Unwrapped
      <4>6. QED
        BY <1>1, <1>5, <3>1, <3>2, <4>1, <4>2, <4>5 DEF Succ
    <3>3. CASE flash_addr + 1 = FlashWords
      <4>1. flash_addr' = 0
        BY <1>1, <3>1, <3>3
      <4>2. Place' = 0
        BY <1>1, <3>1, <4>1 DEF Place
      <4>3. Place + 1 = FlashBytes
        BY <3>1, <3>3 DEF FlashBytes
      <4>4. (Place + 1) % FlashBytes = 0
        BY <2>2, <4>3
      <4>5. QED
        BY <1>1, <1>5, <3>1, <4>1, <4>2, <4>4 DEF Succ
    <3>4. QED
      BY <1>1, <3>2, <3>3
  <2>5. QED
    BY <2>3, <2>4
<1>6. QED
  BY <1>4, <1>5

-----------------------------------------------------------------------------
(* The bytes of the flash, one after the other and round again. *)

LEMMA Divided ==
  ASSUME NEW n \in Nat, NEW b \in Nat \ {0}
  PROVE  /\ n \div b \in Nat /\ n % b \in 0 .. b - 1
         /\ n = (n \div b) * b + (n % b)
  OBVIOUS
LEMMA Multiples ==
  ASSUME NEW q \in Nat, NEW b \in Nat \ {0}, NEW r \in 0 .. b - 1
  PROVE  (q * b + r) % b = r /\ (q * b + r) \div b = q
  OBVIOUS
LEMMA ModSucc ==
  ASSUME NEW n \in Nat, NEW b \in Nat \ {0}
  PROVE  (n + 1) % b = ((n % b) + 1) % b
<1> DEFINE q == n \div b
           r == n % b
<1>1. q \in Nat /\ r \in 0 .. b - 1 /\ n = q * b + r
  BY Divided
<1> HIDE DEF q, r
<1>2. CASE r + 1 < b
  <2>1. r + 1 \in 0 .. b - 1 /\ n + 1 = q * b + (r + 1)
    BY <1>1, <1>2
  <2>2. (q * b + (r + 1)) % b = r + 1
    BY <1>1, <2>1, Multiples
  <2>3. (r + 1) % b = r + 1
    BY <2>1
  <2>4. QED
    BY <2>1, <2>2, <2>3 DEF r
<1>3. CASE r + 1 = b
  <2>1. (q + 1) * b = q * b + b
    <3>1. q \in Int /\ 1 \in Int /\ b \in Int
      BY <1>1
    <3>2. (q + 1) * b = q * b + 1 * b
      BY <3>1, Distributes, ZenonT(40)
    <3>3. QED
      BY <3>2
  <2>2. n + 1 = (q + 1) * b + 0
    BY <1>1, <1>3, <2>1
  <2>3. ((q + 1) * b + 0) % b = 0
    <3>1. q + 1 \in Nat /\ 0 \in 0 .. b - 1
      BY <1>1
    <3>2. QED
      BY <3>1, Multiples
  <2>4. (r + 1) % b = 0
    BY <1>3
  <2>5. QED
    BY <2>2, <2>3, <2>4 DEF r
<1>4. QED
  BY <1>1, <1>2, <1>3

LEMMA Regrouped ==
  ASSUME NEW k \in Nat, NEW q \in Nat, NEW f \in Nat, NEW b \in Nat, NEW s \in Nat
  PROVE  k * (f * b) + (q * b + s) = (k * f + q) * b + s
<1>1. k * f \in Int /\ q \in Int /\ b \in Int
  OBVIOUS
<1>2. (k * f + q) * b = (k * f) * b + q * b
  BY <1>1, Distributes, ZenonT(40)
<1>3. (k * f) * b = k * (f * b)
  OBVIOUS
<1>4. {(k * f) * b, q * b, s} \subseteq Nat
  OBVIOUS
<1>5. QED
  BY <1>2, <1>3, <1>4
LEMMA ByteAgain ==
  ASSUME SlaveInTime, NEW n \in Nat
  PROVE  FlashByte(n % FlashBytes) = FlashByte(n)
<1> DEFINE p == FlashWords * BytesPerWord
           k == n \div p
           m == n % p
           q == m \div BytesPerWord
           s == m % BytesPerWord
<1>1. BytesPerWord \in Nat \ {0} /\ FlashWords \in Nat \ {0} /\ p \in Nat \ {0} /\ p = FlashWords * BytesPerWord
  BY Rates DEF FlashBytes
<1> HIDE DEF p
<1>2. k \in Nat /\ m \in Nat /\ m < p /\ n = k * p + m
  <2>1. n \div p \in Nat /\ n % p \in 0 .. p - 1 /\ n = (n \div p) * p + (n % p)
    BY <1>1, Divided
  <2>2. QED
    BY <1>1, <2>1
<1> HIDE DEF k, m
<1>3. q \in Nat /\ s \in 0 .. BytesPerWord - 1 /\ m = q * BytesPerWord + s
  BY <1>1, <1>2, Divided
<1> HIDE DEF q, s
<1>4. q < FlashWords
  <2>1. p <= q * BytesPerWord => m >= p
    BY <1>1, <1>3
  <2>2. FlashWords <= q => p <= q * BytesPerWord
    BY <1>1, <1>3
  <2>3. QED
    BY <1>1, <1>2, <1>3, <2>1, <2>2
<1>5. n = (k * FlashWords + q) * BytesPerWord + s
  <2>1. n = k * (FlashWords * BytesPerWord) + (q * BytesPerWord + s)
    BY <1>1, <1>2, <1>3
  <2>2. k \in Nat /\ q \in Nat /\ FlashWords \in Nat /\ BytesPerWord \in Nat /\ s \in Nat
    BY <1>1, <1>2, <1>3
  <2>3. QED
    BY <2>1, <2>2, Regrouped
<1>6. k * FlashWords + q \in Nat
  BY <1>1, <1>2, <1>3
<1>7. n % BytesPerWord = s /\ n \div BytesPerWord = k * FlashWords + q
  BY <1>1, <1>3, <1>5, <1>6, Multiples
<1>8. (k * FlashWords + q) % FlashWords = q
  <2>1. q \in 0 .. FlashWords - 1
    BY <1>1, <1>3, <1>4
  <2>2. QED
    BY <1>1, <1>2, <2>1, Multiples
<1>9. q % FlashWords = q
  BY <1>1, <1>3, <1>4
<1>10. m % BytesPerWord = s /\ m \div BytesPerWord = q
  BY DEF q, s
<1>11. FlashByte(m) = spi_mem[q][s] /\ FlashByte(n) = spi_mem[q][s]
  BY <1>7, <1>8, <1>9, <1>10 DEF FlashByte
<1>12. QED
  BY <1>11 DEF m, p, FlashBytes

LEMMA PlaceByte ==
  ASSUME LineTypes, SlaveInTime
  PROVE  FlashByte(Place) = Answer
<1>1. /\ flash_addr \in Nat /\ flash_addr < FlashWords /\ FlashWords \in Nat
      /\ bytes_counter \in Nat /\ bytes_counter < BytesPerWord /\ BytesPerWord \in Nat
  BY LineFacts, Rates
<1>2. Place % BytesPerWord = bytes_counter /\ Place \div BytesPerWord = flash_addr
  <2>1. BytesPerWord \in Nat \ {0} /\ bytes_counter \in 0 .. BytesPerWord - 1
    BY <1>1
  <2>2. QED
    BY <1>1, <2>1, Multiples DEF Place
<1>3. flash_addr % FlashWords = flash_addr
  BY <1>1, Unwrapped
<1>4. QED
  BY <1>2, <1>3 DEF FlashByte, Answer

\* The byte before the next one.
LEMMA ByteBefore ==
  ASSUME SlaveInTime, FlashBytes \in Nat, FlashBytes >= 1, NEW n \in Nat
  PROVE  FlashByte(((n + 1) % FlashBytes) + FlashBytes - 1) = FlashByte(n)
<1> DEFINE r == n % FlashBytes
           m == ((n + 1) % FlashBytes) + FlashBytes - 1
<1>1. r \in 0 .. FlashBytes - 1
  BY Divided
<1>2. (n + 1) % FlashBytes = (r + 1) % FlashBytes
  <2>1. FlashBytes \in Nat \ {0}
    OBVIOUS
  <2>2. (n + 1) % FlashBytes = ((n % FlashBytes) + 1) % FlashBytes
    BY <2>1, ModSucc
  <2>3. QED
    BY <2>2
<1>3. FlashByte(n) = FlashByte(r)
  BY ByteAgain
<1> HIDE DEF r
<1>4. m \in Nat /\ m % FlashBytes = r
  <2>1. CASE r + 1 < FlashBytes
    <3>1. (r + 1) % FlashBytes = r + 1
      BY <1>1, <2>1, Unwrapped
    <3>2. m = 1 * FlashBytes + r
      BY <1>1, <1>2, <3>1
    <3>3. (1 * FlashBytes + r) % FlashBytes = r
      BY <1>1, Multiples
    <3>4. QED
      BY <1>1, <3>2, <3>3
  <2>2. CASE r + 1 = FlashBytes
    <3>1. (r + 1) % FlashBytes = 0
      BY <2>2
    <3>2. m = r
      BY <1>1, <1>2, <2>2, <3>1
    <3>3. QED
      BY <1>1, <2>2, <3>2, Unwrapped
  <2>3. QED
    BY <1>1, <2>1, <2>2
<1> HIDE DEF m
<1>5. FlashByte(m) = FlashByte(r)
  BY <1>4, ByteAgain
<1>6. QED
  BY <1>3, <1>5 DEF m

-----------------------------------------------------------------------------
(* A cycle of the whole line. *)

LEMMA BeatStep ==
  ASSUME LineTypes, SlaveInTime, Wave, Bits, Beat
  PROVE  /\ LineTypes' /\ Wave' /\ Bits'
         /\ tx_data_valid' => ~tx_data_valid
         /\ state \in {"IDLE", "START"} => ~transmission'
         /\ state \in {"ACTIVE", "STOP"} => transmission'
         /\ state = "IDLE" /\ ~tx_data_valid => state' = "IDLE"
         /\ state = "IDLE" /\ tx_data_valid => state' = "START"
         /\ state = "START" => state' = "ACTIVE"
         /\ state = "ACTIVE" => state' = "ACTIVE" \/ (state' = "STOP" /\ Since' = 1)
         /\ state = "STOP" => \/ state' = "STOP" /\ Since' = Since + 1 /\ Since < HalfPeriod
                              \/ state' = "IDLE" /\ Since = HalfPeriod
<1> DEFINE Rest == /\ bits_counter' \in 0 .. ByteBits /\ slave_bits' \in 0 .. ByteBits
                   /\ sck' \in BOOLEAN /\ sck_polarity' = FALSE
                   /\ state' \in {"IDLE", "START", "ACTIVE", "STOP"}
<1>1. /\ Rest /\ Wave' /\ Bits' /\ ByteTypes'
      /\ state \in {"IDLE", "START"} => ~transmission'
      /\ state \in {"ACTIVE", "STOP"} => transmission'
      /\ state = "IDLE" /\ ~tx_data_valid => state' = "IDLE"
      /\ state = "IDLE" /\ tx_data_valid => state' = "START"
      /\ state = "START" => state' = "ACTIVE"
      /\ state = "ACTIVE" => state' = "ACTIVE" \/ (state' = "STOP" /\ Since' = 1)
      /\ state = "STOP" => \/ state' = "STOP" /\ Since' = Since + 1 /\ Since < HalfPeriod
                           \/ state' = "IDLE" /\ Since = HalfPeriod
  <2>1. /\ ByteBits \in Nat /\ bits_counter \in Nat /\ bits_counter <= ByteBits
        /\ slave_bits \in Nat /\ slave_bits <= ByteBits /\ sck \in BOOLEAN
    BY LineFacts, Rates
  <2>2. CASE state = "IDLE"
    <3>1. Wave' /\ Bits' /\ ByteTypes'
      BY <2>2, WaveIdles, BitsIdles
    <3>2. /\ bits_counter' = 0 /\ slave_bits' = 0
          /\ state' = (IF tx_data_valid THEN "START" ELSE "IDLE")
          /\ sck' = FALSE /\ sck_polarity' = FALSE
      BY <2>2, WaveIdles
    <3>3. ~transmission'
      <4>1. (Unselected(ss) \/ Selected(ss, mosi)) /\ ss = 1
        BY <2>2 DEF Beat, FlashClock, Wave, Idles, Still
      <4>2. transmission' = (ss = 0)
        BY <4>1 DEF Unselected, Selected
      <4>3. (ss = 0) = FALSE
        BY <4>1
      <4>4. QED
        BY <4>2, <4>3
    <3>4. Rest
      <4>1. bits_counter' \in 0 .. ByteBits /\ slave_bits' \in 0 .. ByteBits
        BY <2>1, <3>2
      <4>2. sck' \in BOOLEAN /\ sck_polarity' = FALSE
        BY <2>1, <3>2
      <4>3. state' \in {"IDLE", "START", "ACTIVE", "STOP"}
        BY <2>1, <3>2
      <4>4. QED
        BY <4>1, <4>2, <4>3
    <3>5. QED
      BY <2>2, <3>1, <3>2, <3>3, <3>4
  <2>3. CASE state = "START"
    <3>1. Wave' /\ Bits' /\ ByteTypes'
      BY <2>3, WaveStarts, BitsStarts
    <3>2. /\ state' = "ACTIVE" /\ bits_counter' = 0 /\ slave_bits' = 0
          /\ sck' = FALSE /\ sck_polarity' = FALSE /\ ~transmission'
      BY <2>3, WaveStarts
    <3>3. Rest
      <4>1. bits_counter' \in 0 .. ByteBits /\ slave_bits' \in 0 .. ByteBits
        BY <2>1, <3>2
      <4>2. sck' \in BOOLEAN /\ sck_polarity' = FALSE
        BY <2>1, <3>2
      <4>3. state' \in {"IDLE", "START", "ACTIVE", "STOP"}
        BY <2>1, <3>2
      <4>4. QED
        BY <4>1, <4>2, <4>3
    <3>4. QED
      BY <2>3, <3>1, <3>2, <3>3
  <2>4. CASE Shifting /\ BetweenEdges
    <3>1. Wave' /\ Bits' /\ ByteTypes' /\ transmission'
      BY <2>4, WaveStays, BitsStays, SlaveShifts
    <3>2. /\ state' = state /\ bits_counter' = bits_counter /\ sck' = sck
          /\ sck_polarity' = FALSE /\ slave_bits' <= ByteBits /\ slave_bits' \in Nat
          /\ (transmission => Since' = Since + 1 /\ Since < HalfPeriod)
      BY <2>4, WaveStays
    <3>3. state = "STOP" => transmission
      BY DEF Wave, Stops
    <3>4. QED
      BY <2>1, <2>4, <3>1, <3>2, <3>3 DEF Shifting
  <2>5. CASE ActiveLeading(miso)
    <3>1. state = "ACTIVE" /\ Shifting
      BY <2>5 DEF ActiveLeading, Shifting
    <3>2. Wave' /\ Bits' /\ ByteTypes' /\ transmission'
      BY <2>5, <3>1, WaveLeads, BitsLeads, SlaveShifts
    <3>3. /\ state' = "ACTIVE" /\ bits_counter' = bits_counter + 1 /\ bits_counter < ByteBits
          /\ sck' = TRUE /\ sck_polarity' = FALSE /\ slave_bits' = slave_bits
      BY <2>5, WaveLeads
    <3>4. Rest
      <4>1. bits_counter' \in 0 .. ByteBits /\ slave_bits' \in 0 .. ByteBits
        BY <2>1, <3>3
      <4>2. sck' \in BOOLEAN /\ sck_polarity' = FALSE
        BY <2>1, <3>3
      <4>3. state' \in {"IDLE", "START", "ACTIVE", "STOP"}
        BY <2>1, <3>3
      <4>4. QED
        BY <4>1, <4>2, <4>3
    <3>5. QED
      BY <3>1, <3>2, <3>3, <3>4
  <2>6. CASE ActiveTrailing(miso)
    <3>1. state = "ACTIVE" /\ Shifting
      BY <2>6 DEF ActiveTrailing, Shifting
    <3>2. Wave' /\ Bits' /\ ByteTypes' /\ transmission'
      BY <2>6, <3>1, WaveTrails, BitsTrails, SlaveShifts
    <3>3. /\ sck' = FALSE /\ sck_polarity' = FALSE /\ slave_bits' = slave_bits
          /\ bits_counter = ByteBits => state' = "STOP" /\ bits_counter' = 0 /\ Since' = 1
          /\ bits_counter # ByteBits => state' = "ACTIVE" /\ bits_counter' = bits_counter
      BY <2>6, WaveTrails
    <3>4. Rest
      <4>1. bits_counter' \in 0 .. ByteBits /\ slave_bits' \in 0 .. ByteBits
        BY <2>1, <3>1, <3>3
      <4>2. sck' \in BOOLEAN /\ sck_polarity' = FALSE
        BY <2>1, <3>1, <3>3
      <4>3. state' \in {"IDLE", "START", "ACTIVE", "STOP"}
        BY <2>1, <3>1, <3>3
      <4>4. QED
        BY <4>1, <4>2, <4>3
    <3>5. QED
      BY <3>1, <3>2, <3>3, <3>4
  <2>7. CASE Stop
    <3>1. state = "STOP" /\ Shifting
      BY <2>7 DEF Stop, Shifting
    <3>2. Wave' /\ Bits' /\ ByteTypes' /\ transmission'
      BY <2>7, <3>1, WaveStops, BitsStops, SlaveShifts
    <3>3. /\ state' = "IDLE" /\ bits_counter' = 0 /\ sck' = FALSE /\ sck_polarity' = FALSE
          /\ slave_bits' = slave_bits /\ Since = HalfPeriod
      BY <2>7, WaveStops
    <3>4. Rest
      <4>1. bits_counter' \in 0 .. ByteBits /\ slave_bits' \in 0 .. ByteBits
        BY <2>1, <3>3
      <4>2. sck' \in BOOLEAN /\ sck_polarity' = FALSE
        BY <2>1, <3>3
      <4>3. state' \in {"IDLE", "START", "ACTIVE", "STOP"}
        BY <2>1, <3>3
      <4>4. QED
        BY <4>1, <4>2, <4>3
    <3>5. QED
      BY <3>1, <3>2, <3>3, <3>4
  <2>8. QED
    BY <2>2, <2>3, <2>4, <2>5, <2>6, <2>7 DEF Beat, Master, Idle, Start, BetweenEdges, Shifting
<1>2. /\ ss' \in Bit /\ sck_phase' \in BOOLEAN /\ sck_generator_en' \in BOOLEAN
      /\ rx_data_valid' \in BOOLEAN
  <2>1. ss \in {0, 1} /\ sck_phase \in BOOLEAN /\ sck_generator_en \in BOOLEAN /\ cr.cpha \in BOOLEAN
    BY LineFacts
  <2>2. Idle \/ Start \/ ActiveLeading(miso) \/ ActiveTrailing(miso) \/ Stop \/ BetweenEdges
    BY DEF Beat, Master
  <2>3. QED
    BY <2>1, <2>2 DEF Idle, Start, ActiveLeading, ActiveTrailing, Stop, BetweenEdges, Bit
<1>3. /\ cr' \in [cpha : BOOLEAN, cpol : BOOLEAN] /\ ~cr'.cpol /\ cdr' \in Divider
      /\ clk_divider_valid' \in BOOLEAN /\ tx_data_valid' \in BOOLEAN
      /\ sr' \in [rxne : BOOLEAN, txact : BOOLEAN] /\ rdr' \in Bytes
      /\ tx_data_valid' => ~tx_data_valid
  BY DEF Beat, Effect, Sendable
<1>4. generator' \in Generator /\ generator'.counter <= generator'.target
      /\ sck_prv' \in Samples /\ spi_mem' = spi_mem
  BY ClockTurns DEF Beat
<1>5. flash_addr' \in 0 .. FlashWords - 1 /\ bytes_counter' \in 0 .. BytesPerWord - 1
  BY PlaceMoves
<1>6. SpiTypeOK'
  BY <1>1, <1>2, <1>3, <1>4 DEF SpiTypeOK, ByteTypes
<1>7. FlashTypeOK'
  <2>1. spi_mem \in Contents /\ FlashBits = ByteBits
    BY Rates DEF LineTypes, FlashTypeOK
  <2>2. Bytes = [1 .. FlashBits -> {0, 1}] /\ Bit = {0, 1}
    BY <2>1 DEF Bytes, Bit
  <2>3. transmission' \in BOOLEAN
    <3>1. Unselected(ss) \/ Selected(ss, mosi)
      BY DEF Beat, FlashClock
    <3>2. QED
      BY <3>1 DEF Unselected, Selected
  <2>4. {slave_tx', slave_rx', slave_rx_data', flash_tx_data'} \subseteq Bytes /\ miso' \in Bit
    BY <1>1 DEF ByteTypes, SlaveTypes
  <2>5. QED
    BY <1>1, <1>4, <1>5, <2>1, <2>2, <2>3, <2>4 DEF FlashTypeOK
<1>8. LineTypes'
  BY <1>1, <1>3, <1>4, <1>6, <1>7 DEF LineTypes
<1>9. QED
  BY <1>1, <1>3, <1>8

-----------------------------------------------------------------------------
(* The cycles to the end of a transfer. *)

StageFacts ==
  /\ Remaining \in Nat
  /\ state # "STOP" => Remaining = 0 /\ ~rx_data_valid
  /\ state = "STOP" => /\ Since \in 1 .. HalfPeriod /\ Remaining = HalfPeriod + 1 - Since
                       /\ rx_data_valid <=> Since = 1
                       /\ Since = HalfPeriod => Leading
                       /\ Since >= 4 => sck_prv[3] = 0

LEMMA StagesStand == LineTypes /\ Wave /\ SlaveInTime => StageFacts
<1> SUFFICES ASSUME LineTypes, Wave, SlaveInTime PROVE StageFacts
  OBVIOUS
<1>1. /\ HalfPeriod \in Nat /\ HalfPeriod >= 4 /\ HalfPeriod = ClockDivider + 1 /\ ClockDivider \in Nat
      /\ ByteBits \in Nat /\ ByteBits >= 1
      /\ generator.counter \in Nat /\ generator.counter <= generator.target
      /\ state \in {"IDLE", "START", "ACTIVE", "STOP"}
  BY LineFacts, Rates
<1>2. CASE state # "STOP"
  BY <1>1, <1>2 DEF StageFacts, Remaining, Wave, Idles, Starts, Still, Actives
<1>3. CASE state = "STOP"
  <2>1. Selects /\ Samples3 /\ Stops
    BY <1>3 DEF Wave
  <2>2. generator.target = ClockDivider
    BY <2>1 DEF Selects, Configured
  <2>3. Since \in 1 .. HalfPeriod /\ Remaining = HalfPeriod + 1 - Since
    BY <1>1, <1>3, <2>2 DEF Since, Remaining
  <2>4. ~generator.falling /\ ~sck /\ transmission
        /\ (rx_data_valid <=> ~generator.level /\ generator.counter = 1)
    BY <2>1 DEF Stops
  <2>5. generator.level => generator.rising /\ generator.counter = 0
    BY <2>1, <2>4 DEF Selects
  <2>6. rx_data_valid <=> Since = 1
    BY <1>1, <2>4, <2>5 DEF Since
  <2>7. Since = HalfPeriod => Leading
    <3>1. generator.counter = 0 => generator.rising
      BY <2>1, <2>4 DEF Selects
    <3>2. Since = HalfPeriod => generator.counter = 0
      BY <1>1, <2>2 DEF Since
    <3>3. QED
      BY <3>1, <3>2 DEF Leading
  <2>8. Since >= 4 => sck_prv[3] = 0
    <3>1. Led = ByteBits /\ Line = 0 /\ Led > 0
      BY <1>1, <1>3, <2>4 DEF Led, Line
    <3>2. Since > 3 => sck_prv[3] = 0
      BY <2>1, <3>1 DEF Samples3
    <3>3. QED
      BY <2>3, <1>1, <3>2
  <2>9. Remaining \in Nat
    BY <1>1, <2>3
  <2>10. QED
    BY <1>3, <2>3, <2>6, <2>7, <2>8, <2>9 DEF StageFacts
<1>4. QED
  BY <1>2, <1>3

LEMMA StagesNext == (LineTypes /\ Wave /\ SlaveInTime)' => StageFacts'
  BY StagesStand, PTL

LineInv == LineTypes /\ Wave /\ Bits /\ Places

LEMMA PlacesStep ==
  ASSUME LineInv, SlaveInTime, Beat,
         transfers' = IF tx_data_valid' THEN Succ(transfers) ELSE transfers
  PROVE  Places'
<1>1. /\ state = "IDLE" /\ transmission => Place' = Succ(Place)
      /\ ~(state = "IDLE" /\ transmission) => Place' = Place
  BY PlaceMoves DEF LineInv
<1>2. Succ(Place)' = Succ(Place') /\ Succ(Succ(Place))' = Succ(Succ(Place'))
  BY DEF Succ
<1>3. /\ tx_data_valid' => ~tx_data_valid /\ state \in {"IDLE", "STOP"}
      /\ state \in {"IDLE", "START"} => ~transmission'
      /\ state \in {"ACTIVE", "STOP"} => transmission'
      /\ state = "IDLE" /\ ~tx_data_valid => state' = "IDLE"
      /\ state = "IDLE" /\ tx_data_valid => state' = "START"
      /\ state = "START" => state' = "ACTIVE"
      /\ state = "ACTIVE" => state' \in {"ACTIVE", "STOP"}
      /\ state = "STOP" => state' \in {"STOP", "IDLE"}
  <2>1. tx_data_valid' => state \in {"IDLE", "STOP"}
    BY DEF Beat, Effect, Sendable
  <2>2. QED
    BY <2>1, BeatStep DEF LineInv
<1>4. /\ tx_data_valid \in BOOLEAN /\ transmission \in BOOLEAN
      /\ state \in {"IDLE", "START", "ACTIVE", "STOP"}
      /\ tx_data_valid => state = "IDLE"
  BY LineFacts DEF LineInv, Wave, Starts, Selects
<1>5. transfers = IF tx_data_valid /\ transmission THEN Succ(Succ(Place))
                  ELSE IF tx_data_valid \/ transmission \/ state # "IDLE" THEN Succ(Place)
                  ELSE Place
  BY DEF LineInv, Places
<1> DEFINE Goal == transfers' = IF tx_data_valid' /\ transmission' THEN Succ(Succ(Place'))
                      ELSE IF tx_data_valid' \/ transmission' \/ state' # "IDLE" THEN Succ(Place')
                      ELSE Place'
<1>6. Goal
  <2>1. CASE state = "IDLE" /\ tx_data_valid
    BY <1>1, <1>3, <1>4, <1>5, <2>1
  <2>2. CASE state = "IDLE" /\ ~tx_data_valid
    BY <1>1, <1>3, <1>4, <1>5, <2>2
  <2>3. CASE state \in {"START", "ACTIVE"}
    BY <1>1, <1>3, <1>4, <1>5, <2>3
  <2>4. CASE state = "STOP"
    <3>1. state' = "STOP" => ~tx_data_valid'
      <4>1. tx_data_valid' => Leading
        BY <2>4 DEF Beat, Effect, Sendable
      <4>2. state' = "STOP" => ~Leading
        <5>1. state' = "STOP" => Since < HalfPeriod
          BY <2>4, BeatStep DEF LineInv
        <5>2. Leading => Since = HalfPeriod
          BY <2>4 DEF LineInv, Wave, Selects, Leading, Since
        <5>3. HalfPeriod \in Nat
          BY Rates
        <5>4. QED
          BY <5>1, <5>2, <5>3
      <4>3. QED
        BY <4>1, <4>2
    <3>2. transfers = Succ(Place) /\ Place' = Place
      BY <1>1, <1>4, <1>5, <2>4
    <3>3. QED
      BY <1>3, <1>4, <2>4, <3>1, <3>2
  <2>5. QED
    BY <1>4, <2>1, <2>2, <2>3, <2>4
<1>7. QED
  BY <1>2, <1>6 DEF Places

-----------------------------------------------------------------------------
(* What an access does to the registers. *)

Harmless(access) ==
  \A reg \in {"SPI_CR", "SPI_SR", "SPI_TDR", "SPI_RDR", "SPI_CDR"} : ~Writes(access, reg)

LEMMA HarmlessAccesses ==
  /\ Harmless(NoAccess) /\ NoAccess.reg # "SPI_RDR"
  /\ \A reg : Harmless(ReadOf(reg)) /\ ReadOf(reg).reg = reg
  /\ \A data : Harmless(WriteOf("CODE_RAM", data)) /\ WriteOf("CODE_RAM", data).reg # "SPI_RDR"
<1>1. Harmless(NoAccess) /\ NoAccess.reg # "SPI_RDR"
  BY DEF Harmless, NoAccess, Writes
<1>2. ASSUME NEW reg PROVE Harmless(ReadOf(reg)) /\ ReadOf(reg).reg = reg
  BY DEF Harmless, ReadOf, Writes
<1>3. ASSUME NEW data
      PROVE  Harmless(WriteOf("CODE_RAM", data)) /\ WriteOf("CODE_RAM", data).reg # "SPI_RDR"
  BY DEF Harmless, WriteOf, Writes
<1>4. QED
  BY <1>1, <1>2, <1>3

LEMMA HarmlessRegisters ==
  ASSUME LineTypes, SlaveInTime, NEW access, Harmless(access), Registers(access)
  PROVE  /\ Effect /\ ~tx_data_valid' /\ cr' = cr /\ cdr' = cdr /\ tdr' = tdr
         /\ ~clk_divider_valid' /\ rdr' = IF rx_data_valid THEN rx_data ELSE rdr
         /\ sr'.rxne <=> rx_data_valid \/ (sr.rxne /\ access.reg # "SPI_RDR")
<1>1. /\ ~Writes(access, "SPI_CR") /\ ~Writes(access, "SPI_SR") /\ ~Writes(access, "SPI_TDR")
      /\ ~Writes(access, "SPI_RDR") /\ ~Writes(access, "SPI_CDR")
  BY DEF Harmless
<1>2. /\ rx_data_valid \in BOOLEAN /\ sr.rxne \in BOOLEAN /\ rdr \in Bytes /\ rx_data \in Bytes
      /\ cr \in [cpha : BOOLEAN, cpol : BOOLEAN] /\ ~cr.cpol /\ cdr \in Divider
  BY LineFacts DEF LineTypes, SpiTypeOK
<1>3. /\ cr' = cr /\ cdr' = cdr /\ tdr' = tdr /\ clk_divider_valid' = FALSE
      /\ tx_data_valid' = FALSE /\ rdr' = IF rx_data_valid THEN rx_data ELSE rdr
      /\ sr' = [rxne |-> rx_data_valid \/ (sr.rxne /\ ~(sr.rxne /\ access.reg = "SPI_RDR")),
                txact |-> state # "IDLE"]
  <2>1. cr' = cr /\ cdr' = cdr /\ tdr' = tdr
        /\ rdr' = IF rx_data_valid THEN rx_data ELSE rdr
    BY <1>1 DEF Registers
  <2>2. clk_divider_valid' = FALSE /\ tx_data_valid' = FALSE
    <3>1. clk_divider_valid' = Writes(access, "SPI_CDR")
          /\ tx_data_valid' = (Writes(access, "SPI_TDR") \/ Writes(access, "SPI_RDR"))
      BY DEF Registers
    <3>2. Writes(access, "SPI_CDR") = FALSE
      BY <1>1, Zenon DEF Writes
    <3>3. (Writes(access, "SPI_TDR") \/ Writes(access, "SPI_RDR")) = FALSE
      BY <1>1, Zenon DEF Writes
    <3>4. QED
      BY <3>1, <3>2, <3>3
  <2>3. sr' = [rxne |-> rx_data_valid \/ (sr.rxne /\ ~(sr.rxne /\ access.reg = "SPI_RDR")),
               txact |-> state # "IDLE"]
    BY <1>1, ZenonT(30) DEF Registers
  <2>4. QED
    BY <2>1, <2>2, <2>3
<1>4. /\ sr'.txact = (state # "IDLE") /\ sr' \in [rxne : BOOLEAN, txact : BOOLEAN]
      /\ sr'.rxne <=> rx_data_valid \/ (sr.rxne /\ access.reg # "SPI_RDR")
  BY <1>3
<1>5. rdr' \in Bytes
  BY <1>2, <1>3
<1>6. QED
  BY <1>2, <1>3, <1>4, <1>5 DEF Effect

LEMMA SendingRegisters ==
  ASSUME LineTypes, SlaveInTime, NEW byte \in Bytes, Sendable, Registers(WriteOf("SPI_TDR", byte))
  PROVE  /\ Effect /\ tx_data_valid' /\ cr' = cr /\ cdr' = cdr /\ ~clk_divider_valid'
         /\ sr'.rxne <=> rx_data_valid \/ sr.rxne
<1> DEFINE access == WriteOf("SPI_TDR", byte)
<1>1. /\ ~Writes(access, "SPI_CR") /\ ~Writes(access, "SPI_SR") /\ Writes(access, "SPI_TDR")
      /\ ~Writes(access, "SPI_RDR") /\ ~Writes(access, "SPI_CDR")
      /\ access.reg = "SPI_TDR" /\ access.wdata = byte
  BY DEF WriteOf, Writes
<1>2. Registers(access)
  OBVIOUS
<1> HIDE DEF access
<1>3. /\ rx_data_valid \in BOOLEAN /\ sr.rxne \in BOOLEAN /\ rdr \in Bytes /\ rx_data \in Bytes
      /\ cr \in [cpha : BOOLEAN, cpol : BOOLEAN] /\ ~cr.cpol /\ cdr \in Divider
  BY LineFacts DEF LineTypes, SpiTypeOK
<1>4. /\ cr' = cr /\ cdr' = cdr /\ tdr' = byte /\ clk_divider_valid' = FALSE
      /\ tx_data_valid' = TRUE /\ rdr' = IF rx_data_valid THEN rx_data ELSE rdr
      /\ sr' = [rxne |-> rx_data_valid \/ (sr.rxne /\ ~(sr.rxne /\ access.reg = "SPI_RDR")),
                txact |-> state # "IDLE"]
  <2>1. cr' = cr /\ cdr' = cdr /\ tdr' = byte
        /\ rdr' = IF rx_data_valid THEN rx_data ELSE rdr
    BY <1>1, <1>2 DEF Registers
  <2>2. clk_divider_valid' = FALSE /\ tx_data_valid' = TRUE
    <3>1. clk_divider_valid' = Writes(access, "SPI_CDR")
          /\ tx_data_valid' = (Writes(access, "SPI_TDR") \/ Writes(access, "SPI_RDR"))
      BY <1>2 DEF Registers
    <3>2. Writes(access, "SPI_CDR") = FALSE
      BY <1>1, Zenon DEF Writes
    <3>3. (Writes(access, "SPI_TDR") \/ Writes(access, "SPI_RDR")) = TRUE
      BY <1>1, Zenon DEF Writes
    <3>4. QED
      BY <3>1, <3>2, <3>3
  <2>3. sr' = [rxne |-> rx_data_valid \/ (sr.rxne /\ ~(sr.rxne /\ access.reg = "SPI_RDR")),
               txact |-> state # "IDLE"]
    BY <1>1, <1>2, ZenonT(30) DEF Registers
  <2>4. QED
    BY <2>1, <2>2, <2>3
<1>5. /\ sr'.txact = (state # "IDLE") /\ sr' \in [rxne : BOOLEAN, txact : BOOLEAN]
      /\ sr'.rxne <=> rx_data_valid \/ sr.rxne
  BY <1>1, <1>4
<1>6. rdr' \in Bytes
  BY <1>3, <1>4
<1>7. QED
  BY <1>3, <1>4, <1>5, <1>6 DEF Effect

LEMMA ModeRegisters ==
  ASSUME LineTypes, SlaveInTime, Dormant, NEW mode \in [cpha : BOOLEAN, cpol : BOOLEAN],
         ~mode.cpol, Registers(WriteOf("SPI_CR", mode))
  PROVE  /\ Effect /\ ~tx_data_valid' /\ cr' = mode /\ ~clk_divider_valid'
         /\ (~rx_data_valid => ~sr'.rxne)
<1> DEFINE access == WriteOf("SPI_CR", mode)
<1>1. /\ Writes(access, "SPI_CR") /\ ~Writes(access, "SPI_SR") /\ ~Writes(access, "SPI_TDR")
      /\ ~Writes(access, "SPI_RDR") /\ ~Writes(access, "SPI_CDR")
      /\ access.wdata = mode
  BY DEF WriteOf, Writes
<1>2. Registers(access)
  OBVIOUS
<1> HIDE DEF access
<1>3. /\ rx_data_valid \in BOOLEAN /\ sr.rxne \in BOOLEAN /\ rdr \in Bytes /\ rx_data \in Bytes
      /\ cdr \in Divider
  BY LineFacts
<1>4. /\ cr' = mode /\ cdr' = cdr /\ tdr' = tdr /\ clk_divider_valid' = FALSE
      /\ tx_data_valid' = FALSE /\ rdr' = IF rx_data_valid THEN rx_data ELSE rdr
      /\ sr' = [rxne |-> rx_data_valid \/ (sr.rxne /\ ~(sr.rxne /\ access.reg = "SPI_RDR")),
                txact |-> state # "IDLE"]
  BY <1>1, <1>2 DEF Registers
<1>5. /\ sr'.txact = (state # "IDLE") /\ sr' \in [rxne : BOOLEAN, txact : BOOLEAN]
      /\ sr'.rxne <=> rx_data_valid \/ (sr.rxne /\ ~(sr.rxne /\ access.reg = "SPI_RDR"))
  BY <1>4
<1>6. rdr' \in Bytes
  BY <1>3, <1>4
<1>7. /\ state = "IDLE" /\ ~transmission /\ ~tx_data_valid /\ ~sr.rxne
  BY DEF Dormant
<1>8. QED
  BY <1>3, <1>4, <1>5, <1>6, <1>7 DEF Effect

LEMMA DividerRegisters ==
  ASSUME LineTypes, SlaveInTime, Dormant, NEW divider \in Divider,
         Registers(WriteOf("SPI_CDR", divider))
  PROVE  /\ Effect /\ ~tx_data_valid' /\ cr' = cr /\ cdr' = divider /\ clk_divider_valid'
         /\ (~rx_data_valid => ~sr'.rxne)
<1> DEFINE access == WriteOf("SPI_CDR", divider)
<1>1. /\ ~Writes(access, "SPI_CR") /\ ~Writes(access, "SPI_SR") /\ ~Writes(access, "SPI_TDR")
      /\ ~Writes(access, "SPI_RDR") /\ Writes(access, "SPI_CDR")
      /\ access.wdata = divider
  BY DEF WriteOf, Writes
<1>2. Registers(access)
  OBVIOUS
<1> HIDE DEF access
<1>3. /\ rx_data_valid \in BOOLEAN /\ sr.rxne \in BOOLEAN /\ rdr \in Bytes /\ rx_data \in Bytes
      /\ cr \in [cpha : BOOLEAN, cpol : BOOLEAN] /\ ~cr.cpol
  BY LineFacts DEF LineTypes, SpiTypeOK
<1>4. /\ cr' = cr /\ cdr' = divider /\ tdr' = tdr /\ clk_divider_valid' = TRUE
      /\ tx_data_valid' = FALSE /\ rdr' = IF rx_data_valid THEN rx_data ELSE rdr
      /\ sr' = [rxne |-> rx_data_valid \/ (sr.rxne /\ ~(sr.rxne /\ access.reg = "SPI_RDR")),
                txact |-> state # "IDLE"]
  BY <1>1, <1>2 DEF Registers
<1>5. /\ sr'.txact = (state # "IDLE") /\ sr' \in [rxne : BOOLEAN, txact : BOOLEAN]
      /\ sr'.rxne <=> rx_data_valid \/ (sr.rxne /\ ~(sr.rxne /\ access.reg = "SPI_RDR"))
  BY <1>4
<1>6. rdr' \in Bytes
  BY <1>3, <1>4
<1>7. /\ state = "IDLE" /\ ~transmission /\ ~tx_data_valid /\ ~sr.rxne
  BY DEF Dormant
<1>8. QED
  BY <1>3, <1>4, <1>5, <1>6, <1>7 DEF Effect

-----------------------------------------------------------------------------
(* What an access of a call does on the bus. *)

LEMMA TheAccesses ==
  ASSUME NEW a, NEW access, a = Head(todo), access = AccessDue(loaded)
  PROVE  /\ \A reg : a = LoadFrom(reg) =>
              a.op = "load" /\ a.reg = reg /\ access = ReadOf(reg) /\ ~NotYet(a)
         /\ \A reg : a = PollOf(reg) => a.op = "poll" /\ a.reg = reg /\ access = ReadOf(reg)
         /\ \A reg, data : a = StoreTo(reg, data) =>
              a.op = "store" /\ a.reg = reg /\ access = WriteOf(reg, data) /\ ~NotYet(a)
<1>1. access = CASE a.op \in {"load", "poll"} -> ReadOf(a.reg)
                 [] a.op = "store" -> WriteOf(a.reg, a.data)
                 [] a.op = "store_back" -> WriteOf(a.reg, [loaded EXCEPT ![a.field] = a.data])
  BY DEF AccessDue
<1>2. ASSUME NEW reg, a = LoadFrom(reg)
      PROVE  a.op = "load" /\ a.reg = reg /\ access = ReadOf(reg) /\ ~NotYet(a)
  <2>1. a.op = "load" /\ a.reg = reg
    BY <1>2 DEF LoadFrom
  <2>2. access = ReadOf(reg)
    BY <1>1, <2>1
  <2>3. a # PollOf("rxne") /\ a # PollOf("txact")
    BY <2>1 DEF PollOf
  <2>4. QED
    BY <2>1, <2>2, <2>3 DEF NotYet
<1>3. ASSUME NEW reg, a = PollOf(reg)
      PROVE  a.op = "poll" /\ a.reg = reg /\ access = ReadOf(reg)
  <2>1. a.op = "poll" /\ a.reg = reg
    BY <1>3 DEF PollOf
  <2>2. QED
    BY <1>1, <2>1
<1>4. ASSUME NEW reg, NEW data, a = StoreTo(reg, data)
      PROVE  a.op = "store" /\ a.reg = reg /\ access = WriteOf(reg, data) /\ ~NotYet(a)
  <2>1. a.op = "store" /\ a.reg = reg /\ a.data = data
    BY <1>4 DEF StoreTo
  <2>2. access = WriteOf(reg, data)
    BY <1>1, <2>1
  <2>3. a # PollOf("rxne") /\ a # PollOf("txact")
    BY <2>1 DEF PollOf
  <2>4. QED
    BY <2>1, <2>2, <2>3 DEF NotYet
<1>5. QED
  BY <1>2, <1>3, <1>4

\* The second access of the script.
SetsPhase == [op |-> "store_back", reg |-> "SPI_CR", field |-> "cpha", data |-> TRUE]

LEMMA ThePhase ==
  ASSUME NEW a, NEW access, a = Head(todo), access = AccessDue(loaded), a = SetsPhase
  PROVE  /\ a.op = "store_back" /\ a.reg = "SPI_CR" /\ ~NotYet(a)
         /\ access = WriteOf("SPI_CR", [loaded EXCEPT !.cpha = TRUE])
<1>1. access = CASE a.op \in {"load", "poll"} -> ReadOf(a.reg)
                 [] a.op = "store" -> WriteOf(a.reg, a.data)
                 [] a.op = "store_back" -> WriteOf(a.reg, [loaded EXCEPT ![a.field] = a.data])
  BY DEF AccessDue
<1>2. a.op = "store_back" /\ a.reg = "SPI_CR" /\ a.field = "cpha" /\ a.data = TRUE
  BY DEF SetsPhase
<1>3. access = WriteOf("SPI_CR", [loaded EXCEPT !["cpha"] = TRUE])
  BY <1>1, <1>2, ZenonT(40)
<1>4. a # PollOf("rxne") /\ a # PollOf("txact")
  BY <1>2 DEF PollOf
<1>5. QED
  BY <1>2, <1>3, <1>4 DEF NotYet

\* The parts of the script, joined.
LEMMA JoinsOne ==
  ASSUME NEW a, NEW b, NEW c
  PROVE  <<a, b>> \o <<c>> = <<a, b, c>>
<1> DEFINE S == {a, b, c}
           s == <<a, b>>
           t == <<c>>
           u == s \o t
           v == <<a, b, c>>
<1>1. s \in Seq(S) /\ t \in Seq(S) /\ v \in Seq(S) /\ Len(s) = 2 /\ Len(t) = 1 /\ Len(v) = 3
      /\ s[1] = a /\ s[2] = b /\ t[1] = c /\ v[1] = a /\ v[2] = b /\ v[3] = c
  OBVIOUS
<1> HIDE DEF S, s, t, v
<1>2. u \in Seq(S) /\ Len(u) = 3
      /\ \A i \in 1 .. 3 : u[i] = IF i <= 2 THEN s[i] ELSE t[i - 2]
  <2>1. s \o t \in Seq(S) /\ Len(s \o t) = Len(s) + Len(t)
        /\ \A i \in 1 .. Len(s) + Len(t) :
             (s \o t)[i] = IF i <= Len(s) THEN s[i] ELSE t[i - Len(s)]
    BY <1>1, ConcatProperties
  <2> DEFINE l == Len(s)
             k == Len(s) + Len(t)
  <2>2. l = 2 /\ k = 3
    BY <1>1
  <2>3. u \in Seq(S) /\ Len(u) = k /\ \A i \in 1 .. k : u[i] = IF i <= l THEN s[i] ELSE t[i - l]
    BY <2>1
  <2> HIDE DEF u, l, k
  <2>4. QED
    BY <2>2, <2>3
<1> HIDE DEF u
<1>3. u[1] = a /\ u[2] = b /\ u[3] = c
  BY <1>1, <1>2
<1>4. \A i \in 1 .. 3 : u[i] = v[i]
  <2> SUFFICES ASSUME NEW i \in 1 .. 3 PROVE u[i] = v[i]
    OBVIOUS
  <2>1. i = 1 \/ i = 2 \/ i = 3
    OBVIOUS
  <2>2. QED
    BY <1>1, <1>3, <2>1
<1>5. u = v
  BY <1>1, <1>2, <1>4, SeqEqual
<1>6. QED
  BY <1>5 DEF u, v, s, t

LEMMA JoinsThree ==
  ASSUME NEW a, NEW b, NEW c, NEW d, NEW e, NEW f
  PROVE  <<a, b, c>> \o <<d, e, f>> = <<a, b, c, d, e, f>>
<1> DEFINE S == {a, b, c, d, e, f}
           s == <<a, b, c>>
           t == <<d, e, f>>
           u == s \o t
           v == <<a, b, c, d, e, f>>
<1>1. s \in Seq(S) /\ t \in Seq(S) /\ v \in Seq(S) /\ Len(s) = 3 /\ Len(t) = 3 /\ Len(v) = 6
      /\ s[1] = a /\ s[2] = b /\ s[3] = c /\ t[1] = d /\ t[2] = e /\ t[3] = f
      /\ v[1] = a /\ v[2] = b /\ v[3] = c /\ v[4] = d /\ v[5] = e /\ v[6] = f
  OBVIOUS
<1> HIDE DEF S, s, t, v
<1>2. u \in Seq(S) /\ Len(u) = 6
      /\ \A i \in 1 .. 6 : u[i] = IF i <= 3 THEN s[i] ELSE t[i - 3]
  <2>1. s \o t \in Seq(S) /\ Len(s \o t) = Len(s) + Len(t)
        /\ \A i \in 1 .. Len(s) + Len(t) :
             (s \o t)[i] = IF i <= Len(s) THEN s[i] ELSE t[i - Len(s)]
    BY <1>1, ConcatProperties
  <2> DEFINE l == Len(s)
             k == Len(s) + Len(t)
  <2>2. l = 3 /\ k = 6
    BY <1>1
  <2>3. u \in Seq(S) /\ Len(u) = k /\ \A i \in 1 .. k : u[i] = IF i <= l THEN s[i] ELSE t[i - l]
    BY <2>1
  <2> HIDE DEF u, l, k
  <2>4. QED
    BY <2>2, <2>3
<1> HIDE DEF u
<1>3. u[1] = a /\ u[2] = b /\ u[3] = c /\ u[4] = d /\ u[5] = e /\ u[6] = f
  BY <1>1, <1>2
<1>4. \A i \in 1 .. 6 : u[i] = v[i]
  <2> SUFFICES ASSUME NEW i \in 1 .. 6 PROVE u[i] = v[i]
    OBVIOUS
  <2>1. i = 1 \/ i = 2 \/ i = 3 \/ i = 4 \/ i = 5 \/ i = 6
    OBVIOUS
  <2>2. QED
    BY <1>1, <1>3, <2>1
<1>5. u = v
  BY <1>1, <1>2, <1>4, SeqEqual
<1>6. QED
  BY <1>5 DEF u, v, s, t

LEMMA TheScript ==
  /\ LoadCodeThroughSpi = <<LoadFrom("SPI_CR"), SetsPhase, StoreTo("SPI_CDR", ClockDivider),
                            StoreTo("SPI_TDR", Zero), PollOf("rxne"), LoadFrom("SPI_RDR")>>
  /\ Read = <<StoreTo("SPI_TDR", Zero), PollOf("rxne"), LoadFrom("SPI_RDR")>>
<1>1. SetPhase(TRUE) = <<LoadFrom("SPI_CR"), SetsPhase>>
  BY DEF SetPhase, Update, SetsPhase
<1>2. SetClockDivider(ClockDivider) = <<StoreTo("SPI_CDR", ClockDivider)>>
  BY DEF SetClockDivider
<1>3. SetPhase(TRUE) \o SetClockDivider(ClockDivider)
        = <<LoadFrom("SPI_CR"), SetsPhase, StoreTo("SPI_CDR", ClockDivider)>>
  BY <1>1, <1>2, JoinsOne
<1>4. Read = <<StoreTo("SPI_TDR", Zero), PollOf("rxne"), LoadFrom("SPI_RDR")>>
  BY DEF Read
<1>5. <<LoadFrom("SPI_CR"), SetsPhase, StoreTo("SPI_CDR", ClockDivider)>> \o
      <<StoreTo("SPI_TDR", Zero), PollOf("rxne"), LoadFrom("SPI_RDR")>>
        = <<LoadFrom("SPI_CR"), SetsPhase, StoreTo("SPI_CDR", ClockDivider),
            StoreTo("SPI_TDR", Zero), PollOf("rxne"), LoadFrom("SPI_RDR")>>
  BY JoinsThree
<1>6. LoadCodeThroughSpi = (SetPhase(TRUE) \o SetClockDivider(ClockDivider)) \o Read
  BY DEF LoadCodeThroughSpi
<1>7. QED
  BY <1>3, <1>4, <1>5, <1>6, Zenon

LEMMA FirstOf ==
  ASSUME NEW a, NEW b, NEW c, NEW d, NEW e, NEW f
  PROVE  /\ Head(<<a>>) = a /\ Tail(<<a>>) = <<>> /\ <<a>> # <<>>
         /\ Head(<<a, b>>) = a /\ Tail(<<a, b>>) = <<b>> /\ <<a, b>> # <<>>
         /\ Head(<<a, b, c>>) = a /\ Tail(<<a, b, c>>) = <<b, c>> /\ <<a, b, c>> # <<>>
         /\ Head(<<a, b, c, d>>) = a /\ Tail(<<a, b, c, d>>) = <<b, c, d>>
         /\ <<a, b, c, d>> # <<>>
         /\ Head(<<a, b, c, d, e>>) = a /\ Tail(<<a, b, c, d, e>>) = <<b, c, d, e>>
         /\ <<a, b, c, d, e>> # <<>>
         /\ Head(<<a, b, c, d, e, f>>) = a /\ Tail(<<a, b, c, d, e, f>>) = <<b, c, d, e, f>>
         /\ <<a, b, c, d, e, f>> # <<>>
  OBVIOUS

-----------------------------------------------------------------------------
(* A cycle of the line, as the software sees it. *)

\* The master has the last byte whole and no other to send.
Quiet == ~tx_data_valid /\ state \in {"IDLE", "STOP"} /\ ~rx_data_valid

LEMMA OverIsQuiet ==
  ASSUME NEW limit
  PROVE  Over(limit) <=> Quiet /\ (Remaining = 0 \/ Remaining + gap <= limit)
BY DEF Over, Quiet

Ready == LineInv /\ SlaveInTime

LEMMA ReadyStands == Ready => StageFacts
BY StagesStand DEF Ready, LineInv

LEMMA ReadyNext == Ready' => StageFacts'
BY ReadyStands, PTL

LEMMA LineTurns ==
  ASSUME Ready, Effect, NEW access, Clock(access),
         transfers' = IF tx_data_valid' THEN Succ(transfers) ELSE transfers
  PROVE  /\ LineInv' /\ StageFacts /\ StageFacts'
         /\ spi_mem' = spi_mem /\ Pace(access, AccessGap)
         /\ generator'.target = IF clk_divider_valid THEN cdr ELSE generator.target
         /\ tx_data_valid' => ~tx_data_valid
         /\ state \in {"IDLE", "START"} => ~transmission'
         /\ state = "IDLE" /\ ~tx_data_valid => state' = "IDLE"
         /\ state = "IDLE" /\ tx_data_valid => state' = "START"
         /\ state = "START" => state' = "ACTIVE"
         /\ state = "ACTIVE" => state' \in {"ACTIVE", "STOP"}
         /\ state = "STOP" => state' \in {"STOP", "IDLE"}
         /\ state' = "STOP" => (rx_data_valid' <=> state = "ACTIVE")
         /\ state # "ACTIVE" => Remaining' = IF Remaining = 0 THEN 0 ELSE Remaining - 1
         /\ Quiet /\ ~tx_data_valid' => Quiet'
<1>1. Beat /\ Pace(access, AccessGap)
  BY DEF Clock, SpiClock, Beat
<1>2. LineTypes /\ Wave /\ Bits /\ SlaveInTime
  BY DEF Ready, LineInv
<1>3. LineTypes' /\ Wave' /\ Bits'
  BY <1>1, <1>2, BeatStep
<1>4. Places'
  BY <1>1, PlacesStep DEF Ready
<1>5. LineInv'
  BY <1>3, <1>4 DEF LineInv
<1>6. StageFacts
  BY ReadyStands
<1>7. StageFacts'
  <2>1. SlaveInTime'
    BY DEF Ready, SlaveInTime
  <2>2. QED
    BY <1>3, <2>1, StagesNext
<1>8. spi_mem' = spi_mem
  BY <1>1 DEF Beat, FlashClock
<1>9. generator'.target = IF clk_divider_valid THEN cdr ELSE generator.target
  <2>1. generator' = GeneratorNxt(generator, sck_generator_en, clk_divider_valid, cdr)
    BY <1>1 DEF Beat, Master
  <2>2. QED
    BY <2>1 DEF GeneratorNxt
<1>10. /\ tx_data_valid' => ~tx_data_valid
       /\ state \in {"IDLE", "START"} => ~transmission'
       /\ state = "IDLE" /\ ~tx_data_valid => state' = "IDLE"
       /\ state = "IDLE" /\ tx_data_valid => state' = "START"
       /\ state = "START" => state' = "ACTIVE"
       /\ state = "ACTIVE" => state' = "ACTIVE" \/ (state' = "STOP" /\ Since' = 1)
       /\ state = "STOP" => \/ state' = "STOP" /\ Since' = Since + 1 /\ Since < HalfPeriod
                            \/ state' = "IDLE" /\ Since = HalfPeriod
  BY <1>1, <1>2, BeatStep
<1>11. /\ HalfPeriod \in Nat /\ state \in {"IDLE", "START", "ACTIVE", "STOP"}
       /\ tx_data_valid \in BOOLEAN
  BY <1>2, LineFacts, Rates
<1>12. state' = "STOP" => (rx_data_valid' <=> state = "ACTIVE")
  <2>1. state' = "STOP" => (rx_data_valid' <=> Since' = 1)
    BY <1>7 DEF StageFacts
  <2>2. state' = "STOP" => state \in {"ACTIVE", "STOP"}
    BY <1>10, <1>11
  <2>3. state = "STOP" => Since \in 1 .. HalfPeriod
    BY <1>6 DEF StageFacts
  <2>4. state' = "STOP" /\ state = "STOP" => Since' # 1
    BY <1>10, <1>11, <2>3
  <2>5. state' = "STOP" /\ state = "ACTIVE" => Since' = 1
    BY <1>10
  <2>6. QED
    BY <2>1, <2>2, <2>4, <2>5
<1>13. state # "ACTIVE" => Remaining' = IF Remaining = 0 THEN 0 ELSE Remaining - 1
  <2>1. /\ state = "STOP" => Remaining = HalfPeriod + 1 - Since /\ Since \in 1 .. HalfPeriod
        /\ state # "STOP" => Remaining = 0
    BY <1>6 DEF StageFacts
  <2>2. /\ state' = "STOP" => Remaining' = HalfPeriod + 1 - Since' /\ Since' \in 1 .. HalfPeriod
        /\ state' # "STOP" => Remaining' = 0
    BY <1>7 DEF StageFacts, HalfPeriod
  <2>3. CASE state = "STOP"
    BY <1>10, <1>11, <2>1, <2>2, <2>3
  <2>4. CASE state \in {"IDLE", "START"}
    BY <1>10, <1>11, <2>1, <2>2, <2>4
  <2>5. QED
    BY <1>11, <2>3, <2>4
<1>14. Quiet /\ ~tx_data_valid' => Quiet'
  <2>1. state' # "STOP" => ~rx_data_valid'
    BY <1>7 DEF StageFacts
  <2>2. QED
    BY <1>10, <1>12, <2>1 DEF Quiet
<1>15. QED
  BY <1>1, <1>5, <1>6, <1>7, <1>8, <1>9, <1>10, <1>12, <1>13, <1>14

LEMMA Nearer ==
  ASSUME NEW m \in Nat, NEW n, n = IF m = 0 THEN 0 ELSE m - 1,
         NEW g \in Nat, NEW h \in Nat, h <= g + 1, NEW limit \in Int, m = 0 \/ m + g <= limit
  PROVE  n = 0 \/ n + h <= limit
<1>1. CASE m = 0
  BY <1>1
<1>2. CASE m # 0
  BY <1>2
<1>3. QED
  BY <1>1, <1>2

\* The end of a transfer comes nearer, whatever the software does.
LEMMA OverGoes ==
  ASSUME NEW limit \in Int, Over(limit), gap \in Nat, gap' \in Nat, gap' <= gap + 1,
         StageFacts, Quiet', Remaining' = IF Remaining = 0 THEN 0 ELSE Remaining - 1
  PROVE  Quiet' /\ (Remaining' = 0 \/ Remaining' + gap' <= limit)
<1>1. Remaining \in Nat
  BY DEF StageFacts
<1>2. Remaining = 0 \/ Remaining + gap <= limit
  BY DEF Over
<1>3. Remaining' = 0 \/ Remaining' + gap' <= limit
  BY <1>1, <1>2, Nearer, Zenon
<1>4. QED
  BY <1>3

-----------------------------------------------------------------------------
(* A cycle in which the software waits: nothing is on the bus, or a poll    *)
(* that will be made again.                                                 *)

LEMMA Paces ==
  ASSUME NEW access, Pace(access, AccessGap), gap \in Nat
  PROVE  /\ gap' \in Nat /\ gap' <= gap + 1
         /\ access # NoAccess => gap' = 1
         /\ access = NoAccess => gap' = IF gap < AccessGap THEN gap + 1 ELSE gap
<1>1. gap' = IF access # NoAccess THEN 1 ELSE IF gap < AccessGap THEN gap + 1 ELSE gap
  BY DEF Pace
<1>2. CASE access # NoAccess
  BY <1>1, <1>2
<1>3. CASE access = NoAccess
  BY <1>1, <1>3
<1>4. QED
  BY <1>2, <1>3

LEMMA DataStays ==
  ASSUME Loading, BootCopiesFlash, spi_mem' = spi_mem, UNCHANGED <<api, bytes, code_ram>>
  PROVE  Loading' /\ BootCopiesFlash'
<1>1. Loading'
  BY DEF Loading, FlashByte
<1>2. BootCopiesFlash'
  BY DEF BootCopiesFlash, FlashByte
<1>3. QED
  BY <1>1, <1>2

Sits == UNCHANGED <<api, todo, loaded, bytes, code_ram, transfers>>

LEMMA InvFacts ==
  ASSUME Inv, SlaveInTime
  PROVE  /\ Ready /\ gap \in Nat /\ transfers \in 0 .. FlashBytes - 1
         /\ loaded \in [cpha : BOOLEAN, cpol : BOOLEAN] /\ ~loaded.cpol
         /\ Stage /\ Loading /\ BootCopiesFlash /\ LineTypes
         /\ FlashBytes \in Nat /\ FlashBytes >= 1
  BY PlaceFacts DEF Inv, Types, Ready, LineInv

LEMMA InvParts ==
  ASSUME LineInv', gap' \in Nat, transfers' \in 0 .. FlashBytes - 1,
         loaded' \in [cpha : BOOLEAN, cpol : BOOLEAN], ~loaded'.cpol,
         Stage', Loading', BootCopiesFlash'
  PROVE  Inv'
  BY DEF Inv, Types, LineInv, FlashBytes

LEMMA HarmlessTurns ==
  ASSUME Inv, SlaveInTime, NEW access, Harmless(access), Clock(access), transfers' = transfers
  PROVE  /\ Effect /\ ~tx_data_valid' /\ cr' = cr /\ cdr' = cdr
         /\ ~clk_divider_valid' /\ rdr' = IF rx_data_valid THEN rx_data ELSE rdr
         /\ sr'.rxne <=> rx_data_valid \/ (sr.rxne /\ access.reg # "SPI_RDR")
         /\ LineInv' /\ StageFacts /\ StageFacts'
         /\ spi_mem' = spi_mem
         /\ state \in {"IDLE", "START"} => ~transmission'
         /\ state = "IDLE" /\ ~tx_data_valid => state' = "IDLE"
         /\ state = "IDLE" /\ tx_data_valid => state' = "START"
         /\ state = "START" => state' = "ACTIVE"
         /\ state = "ACTIVE" => state' \in {"ACTIVE", "STOP"}
         /\ state = "STOP" => state' \in {"STOP", "IDLE"}
         /\ state' = "STOP" => (rx_data_valid' <=> state = "ACTIVE")
         /\ state # "ACTIVE" => Remaining' = IF Remaining = 0 THEN 0 ELSE Remaining - 1
         /\ Quiet => Quiet'
         /\ gap' \in Nat /\ gap' <= gap + 1 /\ (access # NoAccess => gap' = 1)
         /\ access = NoAccess => gap' = IF gap < AccessGap THEN gap + 1 ELSE gap
         /\ HasDivider => HasDivider'
<1>1. /\ Ready /\ gap \in Nat /\ LineTypes
  BY InvFacts
<1>2. Registers(access) /\ Pace(access, AccessGap)
  BY DEF Clock, SpiClock
<1>3. /\ Effect /\ ~tx_data_valid' /\ cr' = cr /\ cdr' = cdr
      /\ ~clk_divider_valid' /\ rdr' = IF rx_data_valid THEN rx_data ELSE rdr
      /\ sr'.rxne <=> rx_data_valid \/ (sr.rxne /\ access.reg # "SPI_RDR")
  BY <1>1, <1>2, HarmlessRegisters
<1>4. transfers' = IF tx_data_valid' THEN Succ(transfers) ELSE transfers
  BY <1>3
<1>5. /\ LineInv' /\ StageFacts /\ StageFacts'
      /\ spi_mem' = spi_mem
      /\ generator'.target = IF clk_divider_valid THEN cdr ELSE generator.target
      /\ state \in {"IDLE", "START"} => ~transmission'
      /\ state = "IDLE" /\ ~tx_data_valid => state' = "IDLE"
      /\ state = "IDLE" /\ tx_data_valid => state' = "START"
      /\ state = "START" => state' = "ACTIVE"
      /\ state = "ACTIVE" => state' \in {"ACTIVE", "STOP"}
      /\ state = "STOP" => state' \in {"STOP", "IDLE"}
      /\ state' = "STOP" => (rx_data_valid' <=> state = "ACTIVE")
      /\ state # "ACTIVE" => Remaining' = IF Remaining = 0 THEN 0 ELSE Remaining - 1
      /\ Quiet /\ ~tx_data_valid' => Quiet'
  BY <1>1, <1>3, <1>4, LineTurns
<1>6. /\ gap' \in Nat /\ gap' <= gap + 1 /\ (access # NoAccess => gap' = 1)
      /\ access = NoAccess => gap' = IF gap < AccessGap THEN gap + 1 ELSE gap
  BY <1>1, <1>2, Paces
<1>7. HasDivider => HasDivider'
  <2>1. HasDivider /\ clk_divider_valid => generator'.target = ClockDivider
    BY <1>5 DEF HasDivider
  <2>2. HasDivider /\ ~clk_divider_valid => generator'.target = ClockDivider
    BY <1>5 DEF HasDivider
  <2>3. QED
    BY <1>3, <2>1, <2>2 DEF HasDivider
<1>8. QED
  BY <1>3, <1>5, <1>6, <1>7

\* The byte the master has just taken in is the one asked for.
LEMMA TakesAsked ==
  ASSUME Ready, rx_data_valid
  PROVE  rx_data = Asked
<1>1. StageFacts
  BY ReadyStands
<1>2. state = "STOP" /\ ~tx_data_valid
  <2>1. state = "STOP"
    BY <1>1 DEF StageFacts
  <2>2. QED
    BY <2>1 DEF Ready, LineInv, Wave, Selects
<1>3. rx_data = Answer
  BY DEF Ready, LineInv, Bits
<1>4. transfers = Succ(Place)
  BY <1>2 DEF Ready, LineInv, Places
<1>5. Place \in Nat /\ FlashBytes \in Nat /\ FlashBytes >= 1
  BY PlaceFacts DEF Ready, LineInv
<1>6. FlashByte(((Place + 1) % FlashBytes) + FlashBytes - 1) = FlashByte(Place)
  BY <1>5, ByteBefore DEF Ready
<1>7. FlashByte(Place) = Answer
  BY PlaceByte DEF Ready, LineInv
<1>8. QED
  BY <1>3, <1>4, <1>6, <1>7 DEF Asked, Succ

LEMMA WaitingStage ==
  ASSUME Inv, SlaveInTime, SoftwarePaced, NEW access, Harmless(access), access.reg # "SPI_RDR",
         Clock(access), Sits, access = NoAccess \/ gap >= AccessGap
  PROVE  Inv'
<1>1. /\ Ready /\ gap \in Nat /\ transfers \in 0 .. FlashBytes - 1
      /\ loaded \in [cpha : BOOLEAN, cpol : BOOLEAN] /\ ~loaded.cpol
      /\ Stage /\ Loading /\ BootCopiesFlash /\ LineTypes
      /\ FlashBytes \in Nat /\ FlashBytes >= 1
  BY InvFacts
<1>2. /\ ~tx_data_valid' /\ cr' = cr /\ cdr' = cdr
      /\ ~clk_divider_valid' /\ rdr' = IF rx_data_valid THEN rx_data ELSE rdr
      /\ sr'.rxne <=> rx_data_valid \/ sr.rxne
  BY HarmlessTurns DEF Sits
<1>3. /\ LineInv' /\ StageFacts /\ StageFacts'
      /\ spi_mem' = spi_mem
      /\ state \in {"IDLE", "START"} => ~transmission'
      /\ state = "IDLE" /\ ~tx_data_valid => state' = "IDLE"
      /\ state = "IDLE" /\ tx_data_valid => state' = "START"
      /\ state = "START" => state' = "ACTIVE"
      /\ state = "ACTIVE" => state' \in {"ACTIVE", "STOP"}
      /\ state = "STOP" => state' \in {"STOP", "IDLE"}
      /\ state' = "STOP" => (rx_data_valid' <=> state = "ACTIVE")
      /\ state # "ACTIVE" => Remaining' = IF Remaining = 0 THEN 0 ELSE Remaining - 1
      /\ Quiet => Quiet'
  BY HarmlessTurns DEF Sits
<1>4. /\ gap' \in Nat /\ gap' <= gap + 1 /\ (access # NoAccess => gap' = 1)
      /\ access = NoAccess => gap' = IF gap < AccessGap THEN gap + 1 ELSE gap
      /\ HasDivider => HasDivider'
  BY HarmlessTurns DEF Sits
<1>5. Loading' /\ BootCopiesFlash'
  BY <1>1, <1>3, DataStays DEF Sits
<1>6. ASSUME NEW limit \in Int, Over(limit)
      PROVE  Quiet' /\ (Remaining' = 0 \/ Remaining' + gap' <= limit)
  <2>1. Quiet /\ state # "ACTIVE"
    BY <1>6 DEF Quiet, Over
  <2>2. Quiet' /\ Remaining' = IF Remaining = 0 THEN 0 ELSE Remaining - 1
    BY <1>3, <2>1
  <2>3. QED
    BY <1>1, <1>3, <1>4, <1>6, <2>2, OverGoes
<1>7. HalfPeriod \in Nat /\ AccessGap \in Nat /\ AccessGap >= 3
  BY Rates, <1>1 DEF Ready, SoftwarePaced
<1>8. /\ UNCHANGED <<api, todo, bytes, code_ram, transfers>>
       /\ HalfPeriod' = HalfPeriod /\ Index' = Index
       /\ Asked' = Asked /\ (Asking' <=> Asking) /\ (Waiting' <=> Waiting) /\ (Taking' <=> Taking)
       /\ (Keeping' <=> Keeping) /\ (Done' <=> Done)
  BY <1>3 DEF Sits, HalfPeriod, Index, Asked, FlashByte, FlashBytes, Asking, Waiting, Taking,
              Keeping, Done, PollOn
<1>9. ASSUME NotBooted PROVE NotBooted'
  <2>1. Dormant'
    <3>1. state = "IDLE" /\ ~tx_data_valid /\ ~sr.rxne
      BY <1>9 DEF NotBooted, Dormant
    <3>2. state' = "IDLE" /\ ~transmission' /\ ~rx_data_valid
      BY <1>3, <3>1 DEF StageFacts
    <3>3. QED
      BY <1>2, <3>1, <3>2 DEF Dormant
  <2>2. Configuring => Configuring'
    BY <1>2, <1>8 DEF Configuring
  <2>3. QED
    BY <1>8, <1>9, <2>1, <2>2 DEF NotBooted
<1>10. ASSUME Settles PROVE Settles'
  <2>1. ~sr.rxne /\ Over(HalfPeriod - 1 - AccessGap)
    BY <1>10 DEF Settles
  <2>2. HalfPeriod - 1 - AccessGap \in Int
    BY <1>7
  <2>3. Quiet' /\ (Remaining' = 0 \/ Remaining' + gap' <= HalfPeriod - 1 - AccessGap)
    BY <1>6, <2>1, <2>2
  <2>4. Over(HalfPeriod - 1 - AccessGap)'
    BY <1>8, <2>3 DEF Over, Quiet
  <2>5. ~sr'.rxne
    BY <1>2, <2>1 DEF Over
  <2>6. \/ Done' /\ code_ram' # <<>>
        \/ Asking' /\ Counted(0)'
        \/ Keeping' /\ Len(bytes') = BytesPerWord /\ transfers' = Index' % FlashBytes
    BY <1>8, <1>10 DEF Settles, Counted
  <2>7. QED
    BY <2>4, <2>5, <2>6 DEF Settles, FlashBytes
<1>11. ASSUME Waits PROVE Waits'
  <2>1. /\ Waiting /\ Counted(1)
        /\ sr.rxne <=> ~tx_data_valid /\ state \in {"IDLE", "STOP"} /\ ~rx_data_valid
        /\ sr.rxne => rdr = Asked
        /\ tx_data_valid => gap = 1
        /\ state = "START" => gap = 2
    BY <1>11 DEF Waits
  <2>2. /\ state \in {"IDLE", "START", "ACTIVE", "STOP"}
        /\ tx_data_valid => state = "IDLE"
        /\ rx_data_valid => state = "STOP"
        /\ rx_data_valid => rx_data = Asked
    <3>1. state \in {"IDLE", "START", "ACTIVE", "STOP"}
      BY <1>1, LineFacts DEF Ready
    <3>2. tx_data_valid => state = "IDLE"
      BY <1>1, <3>1 DEF Ready, LineInv, Wave, Starts, Selects
    <3>3. rx_data_valid => state = "STOP"
      BY <1>3 DEF StageFacts
    <3>4. rx_data_valid => rx_data = Asked
      BY <1>1, TakesAsked
    <3>5. QED
      BY <3>1, <3>2, <3>3, <3>4
  <2>3. sr'.rxne <=> ~tx_data_valid' /\ state' \in {"IDLE", "STOP"} /\ ~rx_data_valid'
    <3>1. state' # "STOP" => ~rx_data_valid'
      BY <1>3 DEF StageFacts
    <3>2. CASE state = "IDLE" /\ tx_data_valid
      BY <1>2, <1>3, <2>1, <2>2, <3>1, <3>2
    <3>3. CASE state = "IDLE" /\ ~tx_data_valid
      BY <1>2, <1>3, <2>1, <2>2, <3>1, <3>3
    <3>4. CASE state \in {"START", "ACTIVE"}
      BY <1>2, <1>3, <2>1, <2>2, <3>1, <3>4
    <3>5. CASE state = "STOP"
      BY <1>2, <1>3, <2>1, <2>2, <3>1, <3>5
    <3>6. QED
      BY <2>2, <3>2, <3>3, <3>4, <3>5
  <2>4. sr'.rxne => rdr' = Asked'
    BY <1>2, <1>8, <2>1, <2>2
  <2>5. state' = "START" => gap' = 2
    <3>1. state' = "START" => tx_data_valid
      BY <1>3, <2>2
    <3>2. tx_data_valid => gap = 1
      BY <2>1
    <3>3. tx_data_valid => access = NoAccess
      BY <1>7, <3>2
    <3>4. QED
      BY <1>4, <1>7, <3>1, <3>2, <3>3
  <2>6. Waiting' /\ Counted(1)'
    BY <1>8, <2>1 DEF Counted, FlashBytes
  <2>7. QED
    BY <1>2, <2>3, <2>4, <2>5, <2>6 DEF Waits
<1>12. ASSUME Takes PROVE Takes'
  <2>1. Taking /\ Counted(1) /\ sr.rxne /\ rdr = Asked /\ Over(HalfPeriod - 1)
    BY <1>12 DEF Takes
  <2>2. Quiet' /\ (Remaining' = 0 \/ Remaining' + gap' <= HalfPeriod - 1)
    <3>1. HalfPeriod - 1 \in Int
      BY <1>7
    <3>2. QED
      BY <1>6, <2>1, <3>1
  <2>3. Over(HalfPeriod - 1)'
    BY <1>8, <2>2 DEF Over, Quiet
  <2>4. sr'.rxne /\ rdr' = Asked'
    BY <1>2, <1>8, <2>1 DEF Over
  <2>5. Taking' /\ Counted(1)'
    BY <1>8, <2>1 DEF Counted, FlashBytes
  <2>6. QED
    BY <2>3, <2>4, <2>5 DEF Takes
<1>13. Stage'
  BY <1>1, <1>4, <1>9, <1>10, <1>11, <1>12 DEF Stage
<1>14. QED
  BY <1>1, <1>3, <1>4, <1>5, <1>13, InvParts DEF Sits

-----------------------------------------------------------------------------
(* A poll is answered. *)

LEMMA WaitingGoes ==
  ASSUME CpuAccess, Waiting
  PROVE  /\ Clock(ReadOf(PollOn)) /\ PollOn \in {"rxne", "txact"} /\ gap >= AccessGap
         /\ UNCHANGED <<api, loaded, bytes, code_ram, transfers>>
         /\ IF (IF api = "write" THEN sr.txact ELSE ~sr.rxne) THEN todo' = todo
            ELSE todo' = <<LoadFrom("SPI_RDR")>>
<1> DEFINE a == Head(todo)
           access == AccessDue(loaded)
<1>1. a = PollOf(PollOn) /\ Tail(todo) = <<LoadFrom("SPI_RDR")>> /\ todo # <<>> /\ api # "none"
  BY FirstOf DEF Waiting
<1>2. PollOn \in {"rxne", "txact"} /\ (PollOn = "txact" <=> api = "write")
  BY DEF PollOn
<1>3. a.op = "poll" /\ a.reg = PollOn /\ access = ReadOf(PollOn)
  BY <1>1, TheAccesses
<1> HIDE DEF a, access
<1>4. a = Head(todo) /\ access = AccessDue(loaded)
  BY DEF a, access
<1>5. a # LoadFrom("SPI_RDR") /\ a # LoadFrom("SPI_CR") /\ a.reg # "CODE_RAM"
  BY <1>2, <1>3 DEF LoadFrom
<1>6. ~ReadsOn(a) /\ ~StoresWord(a)
  BY <1>5 DEF ReadsOn, StoresWord
<1>7. Retire(NotYet(a)) /\ gap >= AccessGap
  BY <1>3, <1>4, <1>6 DEF CpuAccess, Due
<1>8. NotYet(a) <=> IF api = "write" THEN sr.txact ELSE ~sr.rxne
  <2>1. (a = PollOf("rxne") <=> PollOn = "rxne") /\ (a = PollOf("txact") <=> PollOn = "txact")
    <3>1. a = PollOf(PollOn) /\ a.reg = PollOn
      BY <1>1, <1>3, <1>4
    <3>2. PollOf("rxne").reg = "rxne" /\ PollOf("txact").reg = "txact"
      BY DEF PollOf
    <3>3. QED
      BY <3>1, <3>2
  <2>2. QED
    BY <1>2, <2>1 DEF NotYet
<1>9. /\ todo' = IF NotYet(a) THEN todo ELSE Tail(todo)
      /\ api' = IF todo' = <<>> THEN "none" ELSE api
  BY <1>7 DEF Retire
<1>10. <<LoadFrom("SPI_RDR")>> # <<>>
  OBVIOUS
<1>11. todo' # <<>> /\ api' = api
  BY <1>1, <1>9, <1>10
<1>12. loaded' = loaded /\ bytes' = bytes /\ code_ram' = code_ram
  BY <1>4, <1>5 DEF CpuAccess
<1>13. ~Writes(access, "SPI_TDR")
  BY <1>3 DEF ReadOf, Writes
<1>14. transfers' = transfers /\ Clock(access)
  BY <1>4, <1>13 DEF CpuAccess
<1>15. QED
  BY <1>1, <1>2, <1>3, <1>7, <1>8, <1>9, <1>11, <1>12, <1>14

\* The stage decides which of its forms Stage has.
LEMMA AtWaits ==
  ASSUME Stage, Waiting
  PROVE  HasDivider /\ Waits
<1>1. api # "none" /\ todo = <<PollOf(PollOn), LoadFrom("SPI_RDR")>>
  BY DEF Waiting
<1>2. Head(todo) = PollOf(PollOn) /\ Head(todo).op = "poll" /\ Tail(todo) # <<>>
  BY <1>1 DEF PollOf
<1>3. ~Done /\ ~Taking
  BY <1>1, <1>2 DEF Done, Taking
<1>4. ~Asking
  <2>1. ASSUME NEW byte, todo = <<StoreTo("SPI_TDR", byte), PollOf(PollOn), LoadFrom("SPI_RDR")>>
        PROVE  FALSE
    <3>1. Head(todo) = StoreTo("SPI_TDR", byte)
      BY <2>1
    <3>2. QED
      BY <1>2, <3>1 DEF StoreTo
  <2>2. QED
    BY <2>1 DEF Asking
<1>5. ~Keeping
  <2>1. todo # <<StoreTo("CODE_RAM", Len(code_ram))>>
    BY <1>2 DEF StoreTo
  <2>2. QED
    BY <2>1 DEF Keeping
<1>6. ~Configuring
  <2>1. LoadFrom("SPI_CR").op # "poll" /\ SetsPhase.op # "poll"
        /\ StoreTo("SPI_CDR", ClockDivider).op # "poll"
    BY DEF LoadFrom, SetsPhase, StoreTo
  <2>2. /\ Head(LoadCodeThroughSpi) = LoadFrom("SPI_CR")
        /\ Head(Tail(LoadCodeThroughSpi)) = SetsPhase
        /\ Head(Tail(Tail(LoadCodeThroughSpi))) = StoreTo("SPI_CDR", ClockDivider)
    BY TheScript, FirstOf
  <2>3. QED
    BY <1>2, <2>1, <2>2 DEF Configuring
<1>7. QED
  BY <1>3, <1>4, <1>5, <1>6 DEF Stage, NotBooted, Settles, Takes

LEMMA PollStep ==
  ASSUME Inv, SlaveInTime, SoftwarePaced, CpuAccess, Waiting
  PROVE  Inv'
<1> DEFINE access == ReadOf(PollOn)
<1>1. /\ Clock(access) /\ gap >= AccessGap /\ PollOn \in {"rxne", "txact"}
      /\ UNCHANGED <<api, loaded, bytes, code_ram, transfers>>
      /\ IF (IF api = "write" THEN sr.txact ELSE ~sr.rxne) THEN todo' = todo
         ELSE todo' = <<LoadFrom("SPI_RDR")>>
  BY WaitingGoes
<1>2. Harmless(access) /\ access.reg = PollOn
  BY HarmlessAccesses
<1>3. access.reg # "SPI_RDR"
  BY <1>1, <1>2
<1> HIDE DEF access
<1>4. CASE IF api = "write" THEN sr.txact ELSE ~sr.rxne
  BY <1>1, <1>2, <1>3, <1>4, WaitingStage DEF Sits
<1>5. CASE IF api = "write" THEN ~sr.txact ELSE sr.rxne
  <2>1. todo' = <<LoadFrom("SPI_RDR")>>
    BY <1>1, <1>5
  <2>2. /\ Ready /\ gap \in Nat /\ transfers \in 0 .. FlashBytes - 1
        /\ loaded \in [cpha : BOOLEAN, cpol : BOOLEAN] /\ ~loaded.cpol
        /\ Stage /\ Loading /\ BootCopiesFlash /\ LineTypes
    BY InvFacts
  <2>3. HasDivider /\ Waits
    BY <2>2, AtWaits
  <2>4. HalfPeriod \in Nat /\ AccessGap \in Nat /\ AccessGap >= 3
    BY Rates, <2>2 DEF Ready, SoftwarePaced
  <2>5. /\ sr.rxne <=> ~tx_data_valid /\ state \in {"IDLE", "STOP"} /\ ~rx_data_valid
        /\ sr.rxne => rdr = Asked
        /\ tx_data_valid => gap = 1
        /\ state = "START" => gap = 2
        /\ Counted(1)
    BY <2>3 DEF Waits
  <2>6. sr.rxne
    <3>1. CASE api # "write"
      BY <1>5, <3>1
    <3>2. CASE api = "write"
      <4>1. ~tx_data_valid /\ state # "START"
        BY <1>1, <2>4, <2>5
      <4>2. ~sr.txact
        BY <1>5, <3>2
      <4>3. state \notin {"ACTIVE", "STOP"}
        BY <2>2, <4>2 DEF Ready, LineInv, Wave, Selects
      <4>4. state = "IDLE"
        BY <2>2, <4>1, <4>3, LineFacts DEF Ready
      <4>5. ~rx_data_valid
        BY <2>2, <4>4 DEF Ready, LineInv, Wave, Idles, Still
      <4>6. QED
        BY <2>5, <4>1, <4>4, <4>5
    <3>3. QED
      BY <3>1, <3>2
  <2>7. Quiet
    BY <2>5, <2>6 DEF Quiet
  <2>8. /\ ~clk_divider_valid' /\ rdr' = IF rx_data_valid THEN rx_data ELSE rdr
        /\ sr'.rxne <=> rx_data_valid \/ (sr.rxne /\ access.reg # "SPI_RDR")
        /\ LineInv' /\ StageFacts
        /\ spi_mem' = spi_mem
        /\ state # "ACTIVE" => Remaining' = IF Remaining = 0 THEN 0 ELSE Remaining - 1
        /\ Quiet => Quiet'
        /\ gap' \in Nat /\ (access # NoAccess => gap' = 1)
        /\ HasDivider => HasDivider'
    BY <1>1, <1>2, HarmlessTurns
  <2>9. gap' = 1
    <3>1. access # NoAccess
      BY <1>1, <1>2 DEF NoAccess
    <3>2. QED
      BY <2>8, <3>1
  <2>10. Quiet' /\ (Remaining' = 0 \/ Remaining' + gap' <= HalfPeriod - 1)
    <3>1. Remaining \in Nat /\ Remaining <= HalfPeriod - 1
      <4>1. /\ Remaining \in Nat
            /\ state # "STOP" => Remaining = 0
            /\ state = "STOP" => /\ Since \in 1 .. HalfPeriod
                                 /\ Remaining = HalfPeriod + 1 - Since
                                 /\ rx_data_valid <=> Since = 1
        BY <2>8 DEF StageFacts
      <4>2. HalfPeriod >= 1
        BY Rates
      <4>3. state = "STOP" => Since >= 2
        BY <2>4, <2>7, <4>1 DEF Quiet
      <4>4. QED
        BY <2>4, <4>1, <4>2, <4>3
    <3>2. Remaining' = IF Remaining = 0 THEN 0 ELSE Remaining - 1
      BY <2>7, <2>8 DEF Quiet
    <3>3. Remaining' = 0 \/ Remaining' + 1 <= HalfPeriod - 1
      BY <2>4, <3>1, <3>2
    <3>4. QED
      BY <2>7, <2>8, <2>9, <3>3
  <2>11. Over(HalfPeriod - 1)'
    BY <2>10 DEF Over, Quiet, HalfPeriod
  <2>12. sr'.rxne /\ rdr' = Asked'
    <3>1. sr'.rxne
      BY <1>3, <2>6, <2>8
    <3>2. rdr' = Asked
      BY <2>5, <2>6, <2>7, <2>8 DEF Quiet
    <3>3. Asked' = Asked
      BY <1>1, <2>8 DEF Asked, FlashByte, FlashBytes
    <3>4. QED
      BY <3>1, <3>2, <3>3
  <2>13. Taking' /\ Counted(1)'
    BY <1>1, <2>1, <2>5 DEF Taking, Waiting, Counted, Index, FlashBytes
  <2>14. Stage'
    BY <2>3, <2>8, <2>11, <2>12, <2>13 DEF Stage, Takes
  <2>15. Loading' /\ BootCopiesFlash'
    BY <1>1, <2>2, <2>8, DataStays
  <2>16. QED
    BY <1>1, <2>2, <2>8, <2>14, <2>15, InvParts DEF FlashBytes
<1>6. QED
  BY <1>4, <1>5

-----------------------------------------------------------------------------
(* The register at the head of the script tells the stage. *)

LEMMA Heads ==
  /\ Configuring => todo # <<>> /\ Head(todo).reg \in {"SPI_CR", "SPI_CDR"}
  /\ Asking => todo # <<>> /\ Head(todo).reg = "SPI_TDR"
  /\ Waiting => todo # <<>> /\ Head(todo).reg \in {"rxne", "txact"}
  /\ Taking => todo # <<>> /\ Head(todo).reg = "SPI_RDR"
  /\ Keeping => todo # <<>> /\ Head(todo).reg = "CODE_RAM"
<1>1. ASSUME Configuring PROVE todo # <<>> /\ Head(todo).reg \in {"SPI_CR", "SPI_CDR"}
  <2>1. LoadFrom("SPI_CR").reg = "SPI_CR" /\ SetsPhase.reg = "SPI_CR"
        /\ StoreTo("SPI_CDR", ClockDivider).reg = "SPI_CDR"
    BY DEF LoadFrom, SetsPhase, StoreTo
  <2>2. /\ LoadCodeThroughSpi # <<>> /\ Head(LoadCodeThroughSpi) = LoadFrom("SPI_CR")
        /\ Tail(LoadCodeThroughSpi) # <<>> /\ Head(Tail(LoadCodeThroughSpi)) = SetsPhase
        /\ Tail(Tail(LoadCodeThroughSpi)) # <<>>
        /\ Head(Tail(Tail(LoadCodeThroughSpi))) = StoreTo("SPI_CDR", ClockDivider)
    BY TheScript, FirstOf
  <2>3. QED
    BY <1>1, <2>1, <2>2 DEF Configuring
<1>2. ASSUME Asking PROVE todo # <<>> /\ Head(todo).reg = "SPI_TDR"
  <2>1. PICK byte \in Bytes :
          todo = <<StoreTo("SPI_TDR", byte), PollOf(PollOn), LoadFrom("SPI_RDR")>>
    BY <1>2 DEF Asking
  <2>2. Head(todo) = StoreTo("SPI_TDR", byte) /\ todo # <<>>
    BY <2>1, FirstOf
  <2>3. QED
    BY <2>2 DEF StoreTo
<1>3. ASSUME Waiting PROVE todo # <<>> /\ Head(todo).reg \in {"rxne", "txact"}
  <2>1. Head(todo) = PollOf(PollOn) /\ todo # <<>>
    BY <1>3, FirstOf DEF Waiting
  <2>2. PollOf(PollOn).reg = PollOn /\ PollOn \in {"rxne", "txact"}
    BY DEF PollOf, PollOn
  <2>3. QED
    BY <2>1, <2>2
<1>4. ASSUME Taking PROVE todo # <<>> /\ Head(todo).reg = "SPI_RDR"
  <2>1. Head(todo) = LoadFrom("SPI_RDR") /\ todo # <<>>
    BY <1>4, FirstOf DEF Taking
  <2>2. QED
    BY <2>1 DEF LoadFrom
<1>5. ASSUME Keeping PROVE todo # <<>> /\ Head(todo).reg = "CODE_RAM"
  <2>1. Head(todo) = StoreTo("CODE_RAM", Len(code_ram)) /\ todo # <<>>
    BY <1>5, FirstOf DEF Keeping
  <2>2. QED
    BY <2>1 DEF StoreTo
<1>6. QED
  BY <1>1, <1>2, <1>3, <1>4, <1>5

LEMMA Stages ==
  ASSUME Stage, todo # <<>>
  PROVE  /\ Configuring \/ Asking \/ Waiting \/ Taking \/ Keeping
         /\ Configuring => NotBooted
         /\ Asking \/ Keeping => HasDivider /\ Settles
         /\ Waiting => HasDivider /\ Waits
         /\ Taking => HasDivider /\ Takes
<1>1. ~Done
  BY DEF Done
<1>2. \/ NotBooted /\ Configuring
      \/ HasDivider /\ Settles /\ (Asking \/ Keeping)
      \/ HasDivider /\ Waits /\ Waiting
      \/ HasDivider /\ Takes /\ Taking
  BY <1>1 DEF Stage, NotBooted, Settles, Waits, Takes
<1>3. CASE NotBooted /\ Configuring
  BY <1>3, Heads
<1>4. CASE HasDivider /\ Settles /\ (Asking \/ Keeping)
  BY <1>4, Heads
<1>5. CASE HasDivider /\ Waits /\ Waiting
  BY <1>5, Heads
<1>6. CASE HasDivider /\ Takes /\ Taking
  BY <1>6, Heads
<1>7. QED
  BY <1>2, <1>3, <1>4, <1>5, <1>6

-----------------------------------------------------------------------------
(* A byte is read. *)

LEMMA TakingGoes ==
  ASSUME CpuAccess, Taking
  PROVE  /\ Clock(ReadOf("SPI_RDR")) /\ gap >= AccessGap
         /\ UNCHANGED <<loaded, code_ram, transfers>>
         /\ bytes' = Append(bytes, rdr)
         /\ \/ /\ api = "load_code" /\ Len(bytes) + 1 < BytesPerWord
               /\ todo' = Read /\ api' = api
            \/ /\ api = "load_code" /\ Len(bytes) + 1 = BytesPerWord
               /\ todo' = <<StoreTo("CODE_RAM", Len(code_ram))>> /\ api' = api
            \/ /\ ~(api = "load_code" /\ Len(bytes) + 1 < BytesPerWord)
               /\ ~(api = "load_code" /\ Len(bytes) + 1 = BytesPerWord)
               /\ todo' = <<>> /\ api' = "none"
<1> DEFINE a == Head(todo)
           access == AccessDue(loaded)
<1>1. a = LoadFrom("SPI_RDR") /\ Tail(todo) = <<>> /\ todo # <<>> /\ api # "none"
  BY FirstOf DEF Taking
<1>2. a.op = "load" /\ a.reg = "SPI_RDR" /\ access = ReadOf("SPI_RDR") /\ ~NotYet(a)
  BY <1>1, TheAccesses
<1> HIDE DEF a, access
<1>3. a = Head(todo) /\ access = AccessDue(loaded)
  BY DEF a, access
<1>4. a # LoadFrom("SPI_CR") /\ a.reg # "CODE_RAM"
  BY <1>2 DEF LoadFrom
<1>5. /\ \/ ReadsOn(a) /\ todo' = Read /\ api' = api
         \/ StoresWord(a) /\ todo' = <<StoreTo("CODE_RAM", Len(code_ram))>> /\ api' = api
         \/ ~ReadsOn(a) /\ ~StoresWord(a) /\ Retire(NotYet(a))
      /\ gap >= AccessGap
  BY <1>2, <1>3 DEF CpuAccess, Due
<1>6. /\ ReadsOn(a) <=> api = "load_code" /\ Len(bytes) + 1 < BytesPerWord
      /\ StoresWord(a) <=> api = "load_code" /\ Len(bytes) + 1 = BytesPerWord
  BY <1>1, <1>3, <1>4 DEF ReadsOn, StoresWord
<1>7. Retire(NotYet(a)) => todo' = <<>> /\ api' = "none"
  BY <1>1, <1>2 DEF Retire
<1>8. bytes' = Append(bytes, rdr) /\ loaded' = loaded /\ code_ram' = code_ram
  BY <1>1, <1>3, <1>4 DEF CpuAccess
<1>9. ~Writes(access, "SPI_TDR")
  BY <1>2 DEF ReadOf, Writes
<1>10. transfers' = transfers /\ Clock(access)
  BY <1>3, <1>9 DEF CpuAccess
<1>11. QED
  BY <1>2, <1>5, <1>6, <1>7, <1>8, <1>10

LEMMA Appended ==
  ASSUME NEW S, NEW s \in Seq(S), NEW e \in S
  PROVE  /\ Append(s, e) \in Seq(S) /\ Len(Append(s, e)) = Len(s) + 1 /\ Append(s, e) # <<>>
         /\ \A i \in 1 .. Len(s) : Append(s, e)[i] = s[i]
         /\ Append(s, e)[Len(s) + 1] = e
<1>1. /\ Append(s, e) \in Seq(S) /\ Len(Append(s, e)) = Len(s) + 1
      /\ \A i \in 1 .. Len(s) : Append(s, e)[i] = s[i]
      /\ Append(s, e)[Len(s) + 1] = e
  BY AppendProperties
<1>2. Len(s) \in Nat
  BY LenProperties
<1>3. Append(s, e) # <<>>
  BY <1>1, <1>2, EmptySeq
<1>4. QED
  BY <1>1, <1>3

\* The byte read is the one of its place in the flash.
LEMMA ReadInPlace ==
  ASSUME SlaveInTime, Taking, Takes, Loading, FlashBytes \in Nat, FlashBytes >= 1,
         api = "load_code"
  PROVE  /\ rdr = FlashByte(Index) /\ Index \in Nat /\ Len(bytes) \in Nat
         /\ Len(code_ram) \in Nat /\ Len(bytes) < BytesPerWord
         /\ transfers = (Index + 1) % FlashBytes
<1>1. rdr = Asked /\ Len(bytes) < BytesPerWord /\ transfers = (Index + 1) % FlashBytes
  BY DEF Takes, Counted
<1>2. Len(bytes) \in Nat /\ Len(code_ram) \in Nat /\ BytesPerWord \in Nat
  BY Rates, LenProperties DEF Loading
<1>3. Index \in Nat
  <2>1. BytesPerWord * Len(code_ram) \in Nat
    BY <1>2
  <2>2. QED
    BY <1>2, <2>1 DEF Index
<1>4. FlashByte(((Index + 1) % FlashBytes) + FlashBytes - 1) = FlashByte(Index)
  BY <1>3, ByteBefore
<1>5. QED
  BY <1>1, <1>2, <1>3, <1>4 DEF Asked

LEMMA TakeStep ==
  ASSUME Inv, SlaveInTime, SoftwarePaced, CpuAccess, Taking
  PROVE  Inv'
<1> DEFINE access == ReadOf("SPI_RDR")
           limit == HalfPeriod - 1
<1>1. /\ Clock(access) /\ gap >= AccessGap /\ UNCHANGED <<loaded, code_ram, transfers>>
      /\ bytes' = Append(bytes, rdr) /\ todo # <<>>
  BY TakingGoes, Heads
<1>2. Harmless(access) /\ access.reg = "SPI_RDR"
  BY HarmlessAccesses
<1> HIDE DEF access
<1>3. /\ Ready /\ gap \in Nat /\ transfers \in 0 .. FlashBytes - 1
      /\ loaded \in [cpha : BOOLEAN, cpol : BOOLEAN] /\ ~loaded.cpol
      /\ Stage /\ Loading /\ BootCopiesFlash /\ LineTypes
      /\ FlashBytes \in Nat /\ FlashBytes >= 1
  BY InvFacts
<1>4. HasDivider /\ Takes
  BY <1>1, <1>3, Stages
<1>5. HalfPeriod \in Nat /\ AccessGap \in Nat /\ AccessGap >= 3 /\ BytesPerWord \in Nat
      /\ BytesPerWord >= 1
  BY Rates, <1>3 DEF Ready, SoftwarePaced
<1>6. /\ sr.rxne /\ rdr = Asked /\ Quiet /\ (Remaining = 0 \/ Remaining + gap <= limit)
      /\ Counted(1)
  BY <1>4 DEF Takes, Over, Quiet
<1>7. /\ sr'.rxne <=> rx_data_valid \/ (sr.rxne /\ access.reg # "SPI_RDR")
      /\ LineInv' /\ StageFacts
      /\ spi_mem' = spi_mem
      /\ state # "ACTIVE" => Remaining' = IF Remaining = 0 THEN 0 ELSE Remaining - 1
      /\ Quiet => Quiet'
      /\ gap' \in Nat /\ (access # NoAccess => gap' = 1)
      /\ HasDivider => HasDivider'
  BY <1>1, <1>2, HarmlessTurns
<1>8. gap' = 1
  BY <1>2, <1>7 DEF NoAccess
<1>9. Over(HalfPeriod - 1 - AccessGap)'
  <2>1. Remaining \in Nat /\ limit \in Int /\ limit = HalfPeriod - 1
    BY <1>5, <1>7 DEF StageFacts
  <2>2. Remaining' = IF Remaining = 0 THEN 0 ELSE Remaining - 1
    BY <1>6, <1>7 DEF Quiet
  <2> HIDE DEF limit
  <2>3. Remaining' = 0 \/ Remaining' + 1 <= limit - AccessGap
    BY <1>1, <1>3, <1>5, <1>6, <2>1, <2>2
  <2>4. Quiet'
    BY <1>6, <1>7
  <2>5. Remaining' = 0 \/ Remaining' + gap' <= HalfPeriod - 1 - AccessGap
    BY <1>8, <2>1, <2>3
  <2>6. QED
    BY <2>4, <2>5 DEF Over, Quiet, HalfPeriod
<1>10. ~sr'.rxne
  BY <1>2, <1>6, <1>7 DEF Quiet
<1>11. /\ rdr \in Bytes /\ bytes \in Seq(Bytes) /\ code_ram \in Seq(Seq(Bytes))
       /\ Len(bytes) \in Nat /\ Len(code_ram) \in Nat
  <2>1. rdr \in Bytes
    BY <1>3, LineFacts DEF Ready
  <2>2. bytes \in Seq(Bytes) /\ code_ram \in Seq(Seq(Bytes))
    BY <1>3 DEF Loading
  <2>3. QED
    BY <2>1, <2>2, LenProperties
<1>12. /\ bytes' \in Seq(Bytes) /\ Len(bytes') = Len(bytes) + 1
       /\ \A i \in 1 .. Len(bytes) : bytes'[i] = bytes[i]
       /\ bytes'[Len(bytes) + 1] = rdr
  BY <1>1, <1>11, Appended
<1>13. \/ /\ api = "load_code" /\ Len(bytes) + 1 < BytesPerWord
          /\ todo' = Read /\ api' = api
       \/ /\ api = "load_code" /\ Len(bytes) + 1 = BytesPerWord
          /\ todo' = <<StoreTo("CODE_RAM", Len(code_ram))>> /\ api' = api
       \/ /\ ~(api = "load_code" /\ Len(bytes) + 1 < BytesPerWord)
          /\ ~(api = "load_code" /\ Len(bytes) + 1 = BytesPerWord)
          /\ todo' = <<>> /\ api' = "none"
  BY TakingGoes
<1>14. api = "load_code" => /\ rdr = FlashByte(Index) /\ Index \in Nat
                            /\ Len(bytes) < BytesPerWord
                            /\ transfers = (Index + 1) % FlashBytes
  BY <1>3, <1>4, ReadInPlace
<1>15. api = "load_code" => Index' = Index + 1
  BY <1>1, <1>5, <1>11, <1>12 DEF Index
<1>16. \/ Done' /\ code_ram' # <<>>
       \/ Asking' /\ Counted(0)'
       \/ Keeping' /\ Len(bytes') = BytesPerWord /\ transfers' = Index' % FlashBytes
  <2>1. CASE api = "load_code" /\ Len(bytes) + 1 < BytesPerWord /\ todo' = Read /\ api' = api
    <3>1. Asking'
      <4>1. Zero \in Bytes /\ PollOn' = "rxne"
        BY <2>1 DEF Zero, Bytes, Bit, PollOn
      <4>2. todo' = <<StoreTo("SPI_TDR", Zero), PollOf("rxne"), LoadFrom("SPI_RDR")>>
        BY <2>1, TheScript
      <4>3. api' # "none"
        BY <2>1
      <4>4. QED
        BY <4>1, <4>2, <4>3 DEF Asking
    <3>2. Counted(0)'
      <4>1. transfers' = Index' % FlashBytes /\ Len(bytes') < BytesPerWord
        BY <1>1, <1>12, <1>14, <1>15, <2>1
      <4>2. Index' + 0 = Index'
        BY <1>14, <1>15, <2>1
      <4>3. QED
        BY <4>1, <4>2 DEF Counted, FlashBytes
    <3>3. QED
      BY <3>1, <3>2
  <2>2. CASE api = "load_code" /\ Len(bytes) + 1 = BytesPerWord
             /\ todo' = <<StoreTo("CODE_RAM", Len(code_ram))>> /\ api' = api
    <3>1. Keeping'
      BY <1>1, <2>2 DEF Keeping
    <3>2. Len(bytes') = BytesPerWord /\ transfers' = Index' % FlashBytes
      BY <1>1, <1>12, <1>14, <1>15, <2>2
    <3>3. QED
      BY <3>1, <3>2
  <2>3. CASE /\ ~(api = "load_code" /\ Len(bytes) + 1 < BytesPerWord)
             /\ ~(api = "load_code" /\ Len(bytes) + 1 = BytesPerWord)
             /\ todo' = <<>> /\ api' = "none"
    <3>1. api # "load_code"
      BY <1>5, <1>11, <1>14, <2>3
    <3>2. code_ram # <<>>
      BY <1>3, <3>1 DEF Loading, Taking
    <3>3. QED
      BY <1>1, <2>3, <3>2 DEF Done
  <2>4. QED
    BY <1>13, <2>1, <2>2, <2>3
<1>17. Stage'
  BY <1>4, <1>7, <1>9, <1>10, <1>16 DEF Stage, Settles, FlashBytes
<1>18. Loading'
  <2>1. api' = api \/ api' = "none"
    BY <1>13
  <2>2. api' \in {"none", "load_code", "read", "write"}
        /\ (api' = "load_code" => api = "load_code")
        /\ ~(api' \in {"read", "write"})
    <3>1. api \in {"none", "load_code", "read", "write"}
      BY <1>3 DEF Loading
    <3>2. QED
      BY <1>13, <3>1
  <2>3. Len(bytes') <= BytesPerWord
    <3>1. CASE api = "load_code"
      BY <1>5, <1>11, <1>12, <1>14, <3>1
    <3>2. CASE api # "load_code"
      <4>1. bytes = <<>>
        BY <1>3, <3>2 DEF Loading, Taking
      <4>2. Len(bytes) = 0
        BY <4>1
      <4>3. QED
        BY <1>5, <1>12, <4>2
    <3>3. QED
      BY <3>1, <3>2
  <2>4. ASSUME api' = "load_code"
        PROVE  /\ Len(code_ram') < CodeWords
               /\ (\A b \in 1 .. Len(bytes) :
                     bytes[b] = FlashByte(BytesPerWord * Len(code_ram) + b - 1))'
    <3>1. api = "load_code"
      BY <2>2, <2>4
    <3>2. /\ Len(code_ram) < CodeWords
          /\ \A b \in 1 .. Len(bytes) :
               bytes[b] = FlashByte(BytesPerWord * Len(code_ram) + b - 1)
      BY <1>3, <3>1 DEF Loading
    <3>3. ASSUME NEW b \in 1 .. Len(bytes')
          PROVE  bytes'[b] = FlashByte(BytesPerWord * Len(code_ram) + b - 1)
      <4>1. CASE b \in 1 .. Len(bytes)
        BY <1>12, <3>2, <4>1
      <4>2. CASE b = Len(bytes) + 1
        <5> DEFINE base == BytesPerWord * Len(code_ram)
        <5>1. base \in Nat
          BY <1>5, <1>11
        <5>2. Index = base + Len(bytes)
          BY DEF Index
        <5> HIDE DEF base
        <5>3. base + b - 1 = Index
          BY <1>11, <4>2, <5>1, <5>2
        <5>4. bytes'[b] = FlashByte(Index)
          BY <1>12, <1>14, <3>1, <4>2
        <5>5. QED
          BY <5>3, <5>4 DEF base
      <4>3. b \in 1 .. Len(bytes) \/ b = Len(bytes) + 1
        BY <1>11, <1>12
      <4>4. QED
        BY <4>1, <4>2, <4>3
    <3>4. (\A b \in 1 .. Len(bytes) :
             bytes[b] = FlashByte(BytesPerWord * Len(code_ram) + b - 1))'
      BY <1>1, <1>7, <3>3 DEF FlashByte
    <3>5. QED
      BY <1>1, <3>2, <3>4
  <2>5. code_ram' \in Seq(Seq(Bytes)) /\ Len(code_ram') <= CodeWords
    BY <1>1, <1>3 DEF Loading
  <2>6. QED
    BY <1>12, <2>2, <2>3, <2>4, <2>5 DEF Loading
<1>19. BootCopiesFlash'
  BY <1>1, <1>3, <1>7 DEF BootCopiesFlash, FlashByte
<1>20. QED
  BY <1>1, <1>3, <1>7, <1>17, <1>18, <1>19, InvParts DEF FlashBytes

-----------------------------------------------------------------------------
(* A word is stored. *)

LEMMA KeepingGoes ==
  ASSUME CpuAccess, Keeping
  PROVE  /\ Clock(WriteOf("CODE_RAM", Len(code_ram))) /\ gap >= AccessGap
         /\ UNCHANGED <<loaded, transfers>>
         /\ code_ram' = Append(code_ram, bytes) /\ bytes' = <<>>
         /\ IF Len(code_ram) + 1 < CodeWords THEN todo' = Read /\ api' = api
            ELSE todo' = <<>> /\ api' = "none"
<1> DEFINE a == Head(todo)
           access == AccessDue(loaded)
           n == Len(code_ram)
<1>1. a = StoreTo("CODE_RAM", n) /\ Tail(todo) = <<>> /\ todo # <<>>
  BY FirstOf DEF Keeping
<1> HIDE DEF n
<1>2. a.op = "store" /\ a.reg = "CODE_RAM" /\ access = WriteOf("CODE_RAM", n) /\ ~NotYet(a)
  BY <1>1, TheAccesses
<1> HIDE DEF a, access
<1>3. a = Head(todo) /\ access = AccessDue(loaded)
  BY DEF a, access
<1>4. a # LoadFrom("SPI_CR") /\ a # LoadFrom("SPI_RDR")
  BY <1>2 DEF LoadFrom
<1>5. /\ \/ ReadsOn(a) /\ todo' = Read /\ api' = api
         \/ StoresWord(a)
         \/ ~ReadsOn(a) /\ ~StoresWord(a) /\ Retire(NotYet(a))
      /\ gap >= AccessGap
  BY <1>2, <1>3 DEF CpuAccess, Due
<1>6. (ReadsOn(a) <=> Len(code_ram) + 1 < CodeWords) /\ ~StoresWord(a)
  BY <1>2, <1>4 DEF ReadsOn, StoresWord
<1>7. Retire(NotYet(a)) => todo' = <<>> /\ api' = "none"
  BY <1>1, <1>2 DEF Retire
<1>8. bytes' = <<>> /\ loaded' = loaded /\ code_ram' = Append(code_ram, bytes)
  BY <1>2, <1>3, <1>4 DEF CpuAccess
<1>9. ~Writes(access, "SPI_TDR")
  BY <1>2 DEF WriteOf, Writes
<1>10. transfers' = transfers /\ Clock(access)
  BY <1>3, <1>9 DEF CpuAccess
<1>11. QED
  BY <1>2, <1>5, <1>6, <1>7, <1>8, <1>10 DEF n

\* A whole word that was read in place is the word of the flash.
LEMMA WordInPlace ==
  ASSUME SlaveInTime, BootCopiesFlash, code_ram \in Seq(Seq(Bytes)), bytes \in Seq(Bytes),
         Len(bytes) = BytesPerWord,
         \A b \in 1 .. Len(bytes) : bytes[b] = FlashByte(BytesPerWord * Len(code_ram) + b - 1),
         NEW ram, ram = Append(code_ram, bytes), NEW w \in DOMAIN ram
  PROVE  ram[w] = [b \in 1 .. BytesPerWord |-> FlashByte(BytesPerWord * (w - 1) + b - 1)]
<1>1. /\ ram \in Seq(Seq(Bytes)) /\ Len(ram) = Len(code_ram) + 1
      /\ \A i \in 1 .. Len(code_ram) : ram[i] = code_ram[i]
      /\ ram[Len(code_ram) + 1] = bytes
  BY Appended
<1>2. Len(code_ram) \in Nat /\ DOMAIN code_ram = 1 .. Len(code_ram) /\ DOMAIN ram = 1 .. Len(ram)
  BY <1>1, LenProperties
<1>3. CASE w \in 1 .. Len(code_ram)
  BY <1>1, <1>2, <1>3 DEF BootCopiesFlash
<1>4. CASE w = Len(code_ram) + 1
  <2>1. ram[w] = bytes /\ w - 1 = Len(code_ram)
    BY <1>1, <1>2, <1>4
  <2>2. DOMAIN bytes = 1 .. BytesPerWord
    BY LenProperties
  <2>3. bytes = [b \in 1 .. BytesPerWord |-> bytes[b]]
    <3>1. bytes \in [1 .. BytesPerWord -> Bytes]
      BY <2>2, LenProperties
    <3>2. QED
      BY <3>1
  <2>4. [b \in 1 .. BytesPerWord |-> bytes[b]]
          = [b \in 1 .. BytesPerWord |-> FlashByte(BytesPerWord * Len(code_ram) + b - 1)]
    OBVIOUS
  <2> DEFINE n == Len(code_ram)
  <2>5. ram[w] = [b \in 1 .. BytesPerWord |-> FlashByte(BytesPerWord * n + b - 1)]
    BY <2>1, <2>3, <2>4
  <2>6. n = w - 1
    BY <2>1
  <2> HIDE DEF n
  <2>7. QED
    BY <2>5, <2>6
<1>5. w \in 1 .. Len(code_ram) \/ w = Len(code_ram) + 1
  BY <1>1, <1>2
<1>6. QED
  BY <1>3, <1>4, <1>5

LEMMA KeepStep ==
  ASSUME Inv, SlaveInTime, SoftwarePaced, CpuAccess, Keeping
  PROVE  Inv'
<1> DEFINE access == WriteOf("CODE_RAM", Len(code_ram))
           limit == HalfPeriod - 1 - AccessGap
<1>1. /\ Clock(access) /\ gap >= AccessGap /\ UNCHANGED <<loaded, transfers>>
      /\ code_ram' = Append(code_ram, bytes) /\ bytes' = <<>> /\ todo # <<>>
  BY KeepingGoes, Heads
<1>2. Harmless(access) /\ access.reg = "CODE_RAM"
  BY HarmlessAccesses DEF WriteOf
<1> HIDE DEF access
<1>3. /\ Ready /\ gap \in Nat /\ transfers \in 0 .. FlashBytes - 1
      /\ loaded \in [cpha : BOOLEAN, cpol : BOOLEAN] /\ ~loaded.cpol
      /\ Stage /\ Loading /\ BootCopiesFlash /\ LineTypes
      /\ FlashBytes \in Nat /\ FlashBytes >= 1
  BY InvFacts
<1>4. HasDivider /\ Settles
  BY <1>1, <1>3, Stages
<1>5. /\ HalfPeriod \in Nat /\ AccessGap \in Nat /\ AccessGap >= 3 /\ BytesPerWord \in Nat
      /\ BytesPerWord >= 1 /\ CodeWords \in Nat
  BY Rates, <1>3 DEF Ready, SoftwarePaced
<1>6. /\ ~sr.rxne /\ Over(limit) /\ Quiet /\ Len(bytes) = BytesPerWord
      /\ transfers = Index % FlashBytes /\ api = "load_code"
  <2>1. ~sr.rxne /\ Over(limit)
    BY <1>4 DEF Settles
  <2>2. ~Done /\ ~Asking
    BY <1>1, Heads DEF Done
  <2>3. Len(bytes) = BytesPerWord /\ transfers = Index % FlashBytes
    BY <1>4, <2>2 DEF Settles
  <2>4. Quiet /\ api = "load_code"
    BY <2>1 DEF Over, Quiet, Keeping
  <2>5. QED
    BY <2>1, <2>3, <2>4
<1>7. /\ sr'.rxne <=> rx_data_valid \/ (sr.rxne /\ access.reg # "SPI_RDR")
      /\ LineInv' /\ StageFacts
      /\ spi_mem' = spi_mem
      /\ state # "ACTIVE" => Remaining' = IF Remaining = 0 THEN 0 ELSE Remaining - 1
      /\ Quiet => Quiet'
      /\ gap' \in Nat /\ gap' <= gap + 1
      /\ HasDivider => HasDivider'
  BY <1>1, <1>2, HarmlessTurns
<1>8. Over(HalfPeriod - 1 - AccessGap)'
  <2>1. limit \in Int
    BY <1>5
  <2>2. Quiet' /\ Remaining' = IF Remaining = 0 THEN 0 ELSE Remaining - 1
    BY <1>6, <1>7 DEF Quiet
  <2>3. Remaining' = 0 \/ Remaining' + gap' <= limit
    BY <1>3, <1>6, <1>7, <2>1, <2>2, OverGoes
  <2>4. QED
    BY <2>2, <2>3 DEF Over, Quiet, HalfPeriod
<1>9. ~sr'.rxne
  BY <1>6, <1>7 DEF Quiet
<1>10. /\ bytes \in Seq(Bytes) /\ code_ram \in Seq(Seq(Bytes)) /\ Len(code_ram) < CodeWords
       /\ \A b \in 1 .. Len(bytes) : bytes[b] = FlashByte(BytesPerWord * Len(code_ram) + b - 1)
  BY <1>3, <1>6 DEF Loading
<1>11. /\ Len(code_ram) \in Nat /\ code_ram' \in Seq(Seq(Bytes))
       /\ Len(code_ram') = Len(code_ram) + 1 /\ code_ram' # <<>>
  BY <1>1, <1>10, Appended, LenProperties
<1>12. bytes' \in Seq(Bytes) /\ Len(bytes') = 0
  BY <1>1
<1>13. Index' = Index
  <2> DEFINE n == Len(code_ram)
  <2>1. BytesPerWord * (n + 1) = BytesPerWord * n + BytesPerWord /\ BytesPerWord * n \in Nat
    <3>1. (n + 1) * BytesPerWord = n * BytesPerWord + BytesPerWord /\ n * BytesPerWord \in Nat
      BY <1>5, <1>11, Rows
    <3>2. (n + 1) * BytesPerWord = BytesPerWord * (n + 1) /\ n * BytesPerWord = BytesPerWord * n
      BY <1>5, <1>11
    <3>3. QED
      BY <3>1, <3>2
  <2>2. Index' = BytesPerWord * (n + 1) + 0
    BY <1>11, <1>12 DEF Index
  <2>3. Index = BytesPerWord * n + BytesPerWord
    BY <1>6 DEF Index
  <2>4. QED
    BY <1>5, <2>1, <2>2, <2>3
<1>14. IF Len(code_ram) + 1 < CodeWords THEN todo' = Read /\ api' = api
       ELSE todo' = <<>> /\ api' = "none"
  BY KeepingGoes
<1>15. (Done' /\ code_ram' # <<>>) \/ (Asking' /\ Counted(0)')
  <2>1. CASE Len(code_ram) + 1 < CodeWords
    <3>1. Asking'
      <4>1. Zero \in Bytes /\ PollOn' = "rxne"
        BY <1>6, <1>14, <2>1 DEF Zero, Bytes, Bit, PollOn
      <4>2. todo' = <<StoreTo("SPI_TDR", Zero), PollOf("rxne"), LoadFrom("SPI_RDR")>>
        BY <1>14, <2>1, TheScript
      <4>3. api' # "none"
        BY <1>6, <1>14, <2>1
      <4>4. QED
        BY <4>1, <4>2, <4>3 DEF Asking
    <3>2. Counted(0)'
      <4>1. transfers' = Index' % FlashBytes /\ Len(bytes') < BytesPerWord
        BY <1>1, <1>5, <1>6, <1>12, <1>13
      <4>2. Index' + 0 = Index'
        <5>1. Index \in Int
          <6>1. BytesPerWord * Len(code_ram) \in Nat
            BY <1>5, <1>11
          <6>2. QED
            BY <1>5, <1>6, <6>1 DEF Index
        <5>2. QED
          BY <1>13, <5>1
      <4>3. QED
        BY <4>1, <4>2 DEF Counted, FlashBytes
    <3>3. QED
      BY <3>1, <3>2
  <2>2. CASE ~(Len(code_ram) + 1 < CodeWords)
    BY <1>11, <1>14, <2>2 DEF Done
  <2>3. QED
    BY <2>1, <2>2
<1>16. Stage'
  BY <1>4, <1>7, <1>8, <1>9, <1>15 DEF Stage, Settles, FlashBytes
<1>17. Loading'
  <2>1. api' \in {"none", "load_code", "read", "write"} /\ ~(api' \in {"read", "write"})
        /\ (api' = "load_code" => Len(code_ram) + 1 < CodeWords)
    BY <1>6, <1>14
  <2>2. (\A b \in 1 .. Len(bytes) :
           bytes[b] = FlashByte(BytesPerWord * Len(code_ram) + b - 1))'
    BY <1>12
  <2>3. Len(bytes') <= BytesPerWord /\ Len(code_ram') <= CodeWords
        /\ (api' = "load_code" => Len(code_ram') < CodeWords)
    BY <1>5, <1>10, <1>11, <1>12, <2>1
  <2>4. QED
    BY <1>11, <1>12, <2>1, <2>2, <2>3 DEF Loading
<1>18. BootCopiesFlash'
  <2>1. \A w \in DOMAIN code_ram' :
          code_ram'[w] = [b \in 1 .. BytesPerWord |-> FlashByte(BytesPerWord * (w - 1) + b - 1)]
    BY <1>1, <1>3, <1>6, <1>10, WordInPlace
  <2>2. QED
    BY <1>7, <2>1 DEF BootCopiesFlash, FlashByte
<1>19. QED
  BY <1>1, <1>3, <1>7, <1>16, <1>17, <1>18, InvParts DEF FlashBytes

-----------------------------------------------------------------------------
(* A byte is sent. *)

LEMMA AskingGoes ==
  ASSUME CpuAccess, Asking
  PROVE  /\ \E byte \in Bytes : Clock(WriteOf("SPI_TDR", byte))
         /\ gap >= AccessGap /\ UNCHANGED <<api, loaded, bytes, code_ram>>
         /\ todo' = <<PollOf(PollOn), LoadFrom("SPI_RDR")>>
         /\ transfers' = Succ(transfers)
<1> DEFINE a == Head(todo)
           access == AccessDue(loaded)
<1>1. PICK byte \in Bytes : todo = <<StoreTo("SPI_TDR", byte), PollOf(PollOn), LoadFrom("SPI_RDR")>>
  BY DEF Asking
<1>2. /\ a = StoreTo("SPI_TDR", byte) /\ Tail(todo) = <<PollOf(PollOn), LoadFrom("SPI_RDR")>>
      /\ todo # <<>> /\ <<PollOf(PollOn), LoadFrom("SPI_RDR")>> # <<>>
  BY <1>1, FirstOf
<1>3. a.op = "store" /\ a.reg = "SPI_TDR" /\ access = WriteOf("SPI_TDR", byte) /\ ~NotYet(a)
  BY <1>2, TheAccesses
<1> HIDE DEF a, access
<1>4. a = Head(todo) /\ access = AccessDue(loaded)
  BY DEF a, access
<1>5. a # LoadFrom("SPI_RDR") /\ a # LoadFrom("SPI_CR") /\ a.reg # "CODE_RAM"
  BY <1>3 DEF LoadFrom
<1>6. ~ReadsOn(a) /\ ~StoresWord(a)
  BY <1>5 DEF ReadsOn, StoresWord
<1>7. Retire(NotYet(a)) /\ gap >= AccessGap
  BY <1>3, <1>4, <1>6 DEF CpuAccess, Due
<1>8. todo' = Tail(todo) /\ api' = api
  BY <1>2, <1>3, <1>7 DEF Retire
<1>9. loaded' = loaded /\ bytes' = bytes /\ code_ram' = code_ram
  BY <1>4, <1>5 DEF CpuAccess
<1>10. Writes(access, "SPI_TDR")
  BY <1>3 DEF WriteOf, Writes
<1>11. transfers' = Succ(transfers) /\ Clock(access)
  BY <1>4, <1>10 DEF CpuAccess, Succ, FlashBytes
<1>12. QED
  BY <1>2, <1>3, <1>7, <1>8, <1>9, <1>11

\* By then the master has nothing to do, or is about to.
LEMMA CanSend ==
  ASSUME Ready, SoftwarePaced, HasDivider, Settles, gap >= AccessGap, gap \in Nat
  PROVE  Sendable
<1>1. /\ HalfPeriod \in Nat /\ AccessGap \in Nat /\ AccessGap >= 3
      /\ HalfPeriod <= 2 * AccessGap + 2 /\ HalfPeriod >= 4
  BY Rates DEF Ready, SoftwarePaced
<1>2. /\ StageFacts /\ LineTypes /\ Wave
      /\ ~tx_data_valid /\ state \in {"IDLE", "STOP"}
      /\ Remaining = 0 \/ Remaining + gap <= HalfPeriod - 1 - AccessGap
  BY ReadyStands DEF Ready, LineInv, Settles, Over
<1>3. Configured
  <2>1. gap # 1
    BY <1>1
  <2>2. QED
    BY <2>1 DEF HasDivider, Configured
<1>4. state = "STOP" => Leading
  <2>1. ASSUME state = "STOP" PROVE Leading
    <3>1. /\ Remaining \in Nat /\ Since \in 1 .. HalfPeriod /\ Remaining = HalfPeriod + 1 - Since
          /\ Since = HalfPeriod => Leading
      BY <1>2, <2>1 DEF StageFacts
    <3>2. Remaining <= 1
      BY <1>1, <1>2, <3>1
    <3>3. Since = HalfPeriod
      BY <1>1, <3>1, <3>2
    <3>4. QED
      BY <3>1, <3>3
  <2>2. QED
    BY <2>1
<1>5. QED
  BY <1>2, <1>3, <1>4 DEF Sendable

LEMMA SendStep ==
  ASSUME Inv, SlaveInTime, SoftwarePaced, CpuAccess, Asking
  PROVE  Inv'
<1>1. PICK byte \in Bytes : Clock(WriteOf("SPI_TDR", byte))
  BY AskingGoes
<1>2. /\ gap >= AccessGap /\ UNCHANGED <<api, loaded, bytes, code_ram>>
      /\ todo' = <<PollOf(PollOn), LoadFrom("SPI_RDR")>>
      /\ transfers' = Succ(transfers) /\ todo # <<>>
  BY AskingGoes, Heads
<1>3. /\ Ready /\ gap \in Nat /\ transfers \in 0 .. FlashBytes - 1
      /\ loaded \in [cpha : BOOLEAN, cpol : BOOLEAN] /\ ~loaded.cpol
      /\ Stage /\ Loading /\ BootCopiesFlash /\ LineTypes
      /\ FlashBytes \in Nat /\ FlashBytes >= 1
  BY InvFacts
<1>4. HasDivider /\ Settles
  BY <1>2, <1>3, Stages
<1>5. Sendable
  BY <1>2, <1>3, <1>4, CanSend
<1> DEFINE access == WriteOf("SPI_TDR", byte)
<1>6. access # NoAccess
  BY DEF WriteOf, NoAccess
<1>7. Registers(access) /\ Clock(access)
  BY <1>1 DEF Clock, SpiClock
<1>8. /\ Effect /\ tx_data_valid' /\ cr' = cr /\ cdr' = cdr /\ ~clk_divider_valid'
      /\ sr'.rxne <=> rx_data_valid \/ sr.rxne
  BY <1>3, <1>5, <1>7, SendingRegisters
<1> HIDE DEF access
<1>9. transfers' = IF tx_data_valid' THEN Succ(transfers) ELSE transfers
  BY <1>2, <1>8
<1>10. /\ LineInv' /\ StageFacts /\ StageFacts'
       /\ spi_mem' = spi_mem /\ Pace(access, AccessGap)
       /\ generator'.target = IF clk_divider_valid THEN cdr ELSE generator.target
       /\ state = "IDLE" /\ ~tx_data_valid => state' = "IDLE"
       /\ state = "STOP" => state' \in {"STOP", "IDLE"}
  BY <1>3, <1>7, <1>8, <1>9, LineTurns
<1>11. gap' = 1
  BY <1>3, <1>6, <1>10, Paces
<1>12. ~tx_data_valid /\ state \in {"IDLE", "STOP"} /\ ~rx_data_valid /\ ~sr.rxne /\ Counted(0)
  <2>1. ~Done /\ ~Keeping
    BY <1>2, Heads DEF Done
  <2>2. QED
    BY <1>4, <2>1 DEF Settles, Over
<1>13. HasDivider'
  BY <1>4, <1>8, <1>10 DEF HasDivider
<1>14. transfers' \in 0 .. FlashBytes - 1
  BY <1>2, <1>3 DEF Succ
<1>15. Counted(1)'
  <2>1. CASE api = "load_code"
    <3>1. Len(bytes) < BytesPerWord /\ transfers = (Index + 0) % FlashBytes
      BY <1>12, <2>1 DEF Counted
    <3>2. Index \in Nat
      <4>1. Len(bytes) \in Nat /\ Len(code_ram) \in Nat /\ BytesPerWord \in Nat
        BY <1>3, Rates, LenProperties DEF Loading, Ready
      <4>2. BytesPerWord * Len(code_ram) \in Nat
        BY <4>1
      <4>3. QED
        BY <4>1, <4>2 DEF Index
    <3>3. (Index + 1) % FlashBytes = ((Index % FlashBytes) + 1) % FlashBytes
      <4>1. FlashBytes \in Nat \ {0}
        BY <1>3
      <4>2. QED
        BY <3>2, <4>1, ModSucc
    <3>4. Index + 0 = Index
      BY <3>2
    <3>5. transfers' = (Index + 1) % FlashBytes
      BY <1>2, <3>1, <3>3, <3>4 DEF Succ
    <3>6. Index' = Index
      BY <1>2 DEF Index
    <3>7. QED
      BY <1>2, <3>1, <3>5, <3>6 DEF Counted, FlashBytes
  <2>2. CASE api # "load_code"
    BY <1>2, <2>2 DEF Counted
  <2>3. QED
    BY <2>1, <2>2
<1>16. Waits'
  <2>1. Waiting'
    BY <1>2 DEF Waiting, Asking, PollOn
  <2>2. ~sr'.rxne
    BY <1>8, <1>12
  <2>3. state' # "START"
    BY <1>10, <1>12
  <2>4. QED
    BY <1>8, <1>11, <1>15, <2>1, <2>2, <2>3 DEF Waits
<1>17. Stage'
  BY <1>13, <1>16 DEF Stage
<1>18. Loading' /\ BootCopiesFlash'
  BY <1>2, <1>3, <1>10, DataStays
<1>19. QED
  BY <1>2, <1>3, <1>10, <1>11, <1>14, <1>17, <1>18, InvParts DEF FlashBytes

-----------------------------------------------------------------------------
(* The bootloader sets the mode and the divider. *)

\* The registers' part of a cycle before the first byte.
LEMMA DormantStays ==
  ASSUME Ready, Dormant, Effect, NEW access, Clock(access), gap \in Nat,
         ~tx_data_valid', ~rx_data_valid => ~sr'.rxne, transfers' = transfers
  PROVE  /\ LineInv' /\ spi_mem' = spi_mem /\ state' = "IDLE" /\ ~transmission' /\ ~sr'.rxne
         /\ ~rx_data_valid'
         /\ Remaining' = 0 /\ gap' \in Nat /\ (access # NoAccess => gap' = 1)
<1>1. transfers' = IF tx_data_valid' THEN Succ(transfers) ELSE transfers
  OBVIOUS
<1>2. /\ LineInv' /\ StageFacts /\ StageFacts' /\ spi_mem' = spi_mem
      /\ Pace(access, AccessGap)
      /\ state \in {"IDLE", "START"} => ~transmission'
      /\ state = "IDLE" /\ ~tx_data_valid => state' = "IDLE"
  BY <1>1, LineTurns
<1>3. state' = "IDLE" /\ ~transmission'
  BY <1>2 DEF Dormant
<1>4. ~rx_data_valid
  BY <1>2 DEF StageFacts, Dormant
<1>5. Remaining' = 0 /\ ~rx_data_valid'
  BY <1>2, <1>3 DEF StageFacts
<1>6. gap' \in Nat /\ (access # NoAccess => gap' = 1)
  BY <1>2, Paces
<1>7. QED
  BY <1>2, <1>3, <1>4, <1>5, <1>6

LEMMA ConfiguringGoes ==
  ASSUME CpuAccess, Configuring, NEW access, access = AccessDue(loaded)
  PROVE  /\ Clock(access) /\ UNCHANGED <<api, bytes, code_ram, transfers>>
         /\ todo' = Tail(todo) /\ todo' # <<>>
         /\ todo = LoadCodeThroughSpi => access = ReadOf("SPI_CR") /\ loaded' = cr
         /\ todo = Tail(LoadCodeThroughSpi) =>
              access = WriteOf("SPI_CR", [loaded EXCEPT !.cpha = TRUE]) /\ loaded' = loaded
         /\ todo = Tail(Tail(LoadCodeThroughSpi)) =>
              access = WriteOf("SPI_CDR", ClockDivider) /\ loaded' = loaded
<1> DEFINE a == Head(todo)
<1>1. /\ Head(LoadCodeThroughSpi) = LoadFrom("SPI_CR") /\ Tail(LoadCodeThroughSpi) # <<>>
      /\ Head(Tail(LoadCodeThroughSpi)) = SetsPhase
      /\ Tail(Tail(LoadCodeThroughSpi)) # <<>>
      /\ Head(Tail(Tail(LoadCodeThroughSpi))) = StoreTo("SPI_CDR", ClockDivider)
      /\ Tail(Tail(Tail(LoadCodeThroughSpi))) # <<>>
  BY TheScript, FirstOf
<1>2. \/ todo = LoadCodeThroughSpi /\ a = LoadFrom("SPI_CR")
      \/ todo = Tail(LoadCodeThroughSpi) /\ a = SetsPhase
      \/ todo = Tail(Tail(LoadCodeThroughSpi)) /\ a = StoreTo("SPI_CDR", ClockDivider)
  BY <1>1 DEF Configuring
<1>3. Tail(todo) # <<>>
  BY <1>1 DEF Configuring
<1>4. a = Head(todo) /\ access = AccessDue(loaded)
  OBVIOUS
<1> HIDE DEF a
<1>5. a = LoadFrom("SPI_CR") => access = ReadOf("SPI_CR") /\ ~NotYet(a) /\ a.reg = "SPI_CR"
  BY <1>4, TheAccesses
<1>6. a = SetsPhase => /\ access = WriteOf("SPI_CR", [loaded EXCEPT !.cpha = TRUE])
                       /\ ~NotYet(a) /\ a.reg = "SPI_CR" /\ a.op = "store_back"
  BY <1>4, ThePhase
<1>7. a = StoreTo("SPI_CDR", ClockDivider) =>
        access = WriteOf("SPI_CDR", ClockDivider) /\ ~NotYet(a) /\ a.reg = "SPI_CDR"
  BY <1>4, TheAccesses
<1>8. a.reg \in {"SPI_CR", "SPI_CDR"} /\ ~NotYet(a)
  BY <1>2, <1>5, <1>6, <1>7
<1>9. a # LoadFrom("SPI_RDR") /\ a.reg # "CODE_RAM"
  BY <1>8 DEF LoadFrom
<1>10. ~ReadsOn(a) /\ ~StoresWord(a)
  BY <1>9 DEF ReadsOn, StoresWord
<1>11. Retire(NotYet(a))
  BY <1>4, <1>10 DEF CpuAccess
<1>12. todo' = Tail(todo) /\ api' = api /\ todo' # <<>>
  BY <1>3, <1>8, <1>11 DEF Retire
<1>13. /\ loaded' = IF a = LoadFrom("SPI_CR") THEN cr ELSE loaded
       /\ bytes' = bytes /\ code_ram' = code_ram
  BY <1>4, <1>9 DEF CpuAccess
<1>14. ~Writes(access, "SPI_TDR")
  BY <1>2, <1>5, <1>6, <1>7 DEF ReadOf, WriteOf, Writes
<1>15. transfers' = transfers /\ Clock(access)
  BY <1>4, <1>14 DEF CpuAccess
<1>16. a = SetsPhase \/ a = StoreTo("SPI_CDR", ClockDivider) => a # LoadFrom("SPI_CR")
  BY <1>6, <1>7 DEF LoadFrom, SetsPhase
<1>17. /\ todo = LoadCodeThroughSpi => a = LoadFrom("SPI_CR")
       /\ todo = Tail(LoadCodeThroughSpi) => a = SetsPhase
       /\ todo = Tail(Tail(LoadCodeThroughSpi)) => a = StoreTo("SPI_CDR", ClockDivider)
  BY <1>1, <1>4
<1>18. QED
  BY <1>5, <1>6, <1>7, <1>12, <1>13, <1>15, <1>16, <1>17

LEMMA ConfigureStep ==
  ASSUME Inv, SlaveInTime, SoftwarePaced, CpuAccess, Configuring
  PROVE  Inv'
<1> DEFINE access == AccessDue(loaded)
<1>1. /\ Clock(access) /\ UNCHANGED <<api, bytes, code_ram, transfers>>
      /\ todo' = Tail(todo) /\ todo' # <<>>
      /\ todo = LoadCodeThroughSpi => access = ReadOf("SPI_CR") /\ loaded' = cr
      /\ todo = Tail(LoadCodeThroughSpi) =>
           access = WriteOf("SPI_CR", [loaded EXCEPT !.cpha = TRUE]) /\ loaded' = loaded
      /\ todo = Tail(Tail(LoadCodeThroughSpi)) =>
           access = WriteOf("SPI_CDR", ClockDivider) /\ loaded' = loaded
  BY ConfiguringGoes
<1> HIDE DEF access
<1>2. /\ Ready /\ gap \in Nat /\ transfers \in 0 .. FlashBytes - 1
      /\ loaded \in [cpha : BOOLEAN, cpol : BOOLEAN] /\ ~loaded.cpol
      /\ Stage /\ Loading /\ BootCopiesFlash /\ LineTypes
      /\ FlashBytes \in Nat /\ FlashBytes >= 1
  BY InvFacts
<1>3. NotBooted /\ Dormant /\ transfers = 0 /\ bytes = <<>> /\ api = "load_code" /\ code_ram = <<>>
  <2>1. todo # <<>>
    BY Heads
  <2>2. NotBooted
    BY <1>2, <2>1, Stages
  <2>3. QED
    BY <2>2 DEF NotBooted, Configuring
<1>4. Registers(access)
  BY <1>1 DEF Clock, SpiClock
<1>5. cr \in [cpha : BOOLEAN, cpol : BOOLEAN] /\ ~cr.cpol
  BY <1>2 DEF LineTypes, SpiTypeOK
<1>6. ASSUME Effect, ~tx_data_valid', ~rx_data_valid => ~sr'.rxne
      PROVE  /\ LineInv' /\ spi_mem' = spi_mem /\ state' = "IDLE" /\ ~transmission'
             /\ ~sr'.rxne /\ ~rx_data_valid'
             /\ Remaining' = 0 /\ gap' \in Nat /\ (access # NoAccess => gap' = 1)
  BY <1>1, <1>2, <1>3, <1>6, DormantStays
<1>7. ASSUME spi_mem' = spi_mem PROVE Loading' /\ BootCopiesFlash'
  BY <1>1, <1>2, <1>7, DataStays
<1>8. CASE todo = LoadCodeThroughSpi
  <2>1. access = ReadOf("SPI_CR") /\ loaded' = cr
    BY <1>1, <1>8
  <2>2. Harmless(access) /\ access.reg = "SPI_CR"
    BY <2>1, HarmlessAccesses
  <2>3. /\ Effect /\ ~tx_data_valid' /\ ~clk_divider_valid'
        /\ sr'.rxne <=> rx_data_valid \/ (sr.rxne /\ access.reg # "SPI_RDR")
    BY <1>2, <1>4, <2>2, HarmlessRegisters
  <2>4. ~rx_data_valid => ~sr'.rxne
    BY <1>3, <2>3 DEF Dormant
  <2>5. /\ LineInv' /\ spi_mem' = spi_mem /\ state' = "IDLE" /\ ~transmission'
        /\ ~sr'.rxne /\ gap' \in Nat
    BY <1>6, <2>3, <2>4
  <2>6. Configuring'
    <3>1. todo' = Tail(LoadCodeThroughSpi)
      BY <1>1, <1>8
    <3>2. LoadCodeThroughSpi' = LoadCodeThroughSpi
      BY DEF LoadCodeThroughSpi, SetPhase, Update, SetClockDivider, Read, LoadFrom, StoreTo,
             PollOf, Zero
    <3>3. QED
      BY <1>1, <1>3, <3>1, <3>2 DEF Configuring
  <2>7. NotBooted'
    BY <1>1, <1>3, <2>3, <2>5, <2>6 DEF NotBooted, Dormant
  <2>8. QED
    BY <1>1, <1>2, <1>5, <1>7, <2>1, <2>5, <2>7, InvParts DEF Stage, FlashBytes
<1>9. CASE todo = Tail(LoadCodeThroughSpi)
  <2> DEFINE mode == [loaded EXCEPT !.cpha = TRUE]
  <2>1. access = WriteOf("SPI_CR", mode) /\ loaded' = loaded
    BY <1>1, <1>9
  <2>2. mode \in [cpha : BOOLEAN, cpol : BOOLEAN] /\ ~mode.cpol /\ mode.cpha
    BY <1>2
  <2> HIDE DEF mode
  <2>3. Effect /\ ~tx_data_valid' /\ cr' = mode /\ ~clk_divider_valid'
        /\ (~rx_data_valid => ~sr'.rxne)
    BY <1>2, <1>3, <1>4, <2>1, <2>2, ModeRegisters DEF Ready
  <2>4. /\ LineInv' /\ spi_mem' = spi_mem /\ state' = "IDLE" /\ ~transmission'
        /\ ~sr'.rxne /\ gap' \in Nat
    BY <1>6, <2>3
  <2>5. Configuring'
    <3>1. todo' = Tail(Tail(LoadCodeThroughSpi)) /\ cr'.cpha
      BY <1>1, <1>9, <2>2, <2>3
    <3>2. LoadCodeThroughSpi' = LoadCodeThroughSpi
      BY DEF LoadCodeThroughSpi, SetPhase, Update, SetClockDivider, Read, LoadFrom, StoreTo,
             PollOf, Zero
    <3>3. QED
      BY <1>1, <1>3, <3>1, <3>2 DEF Configuring
  <2>6. NotBooted'
    BY <1>1, <1>3, <2>3, <2>4, <2>5 DEF NotBooted, Dormant
  <2>7. QED
    BY <1>1, <1>2, <1>7, <2>1, <2>4, <2>6, InvParts DEF Stage, FlashBytes
<1>10. CASE todo = Tail(Tail(LoadCodeThroughSpi)) /\ cr.cpha
  <2>1. access = WriteOf("SPI_CDR", ClockDivider) /\ loaded' = loaded
    BY <1>1, <1>10
  <2>2. ClockDivider \in Divider
    BY SpiBootAssumption
  <2>3. /\ Effect /\ ~tx_data_valid' /\ cr' = cr /\ cdr' = ClockDivider /\ clk_divider_valid'
        /\ (~rx_data_valid => ~sr'.rxne)
    BY <1>2, <1>3, <1>4, <2>1, <2>2, DividerRegisters DEF Ready
  <2>4. /\ LineInv' /\ spi_mem' = spi_mem /\ state' = "IDLE"
        /\ ~sr'.rxne /\ ~rx_data_valid' /\ Remaining' = 0 /\ gap' \in Nat
        /\ (access # NoAccess => gap' = 1)
    BY <1>6, <2>3
  <2>5. gap' = 1
    <3>1. access # NoAccess
      BY <2>1 DEF WriteOf, NoAccess
    <3>2. QED
      BY <2>4, <3>1
  <2>6. HasDivider'
    BY <1>10, <2>3, <2>5 DEF HasDivider
  <2>7. Asking'
    <3>1. todo' = <<StoreTo("SPI_TDR", Zero), PollOf("rxne"), LoadFrom("SPI_RDR")>>
      BY <1>1, <1>10, TheScript, FirstOf
    <3>2. Zero \in Bytes /\ PollOn' = "rxne"
      BY <1>1, <1>3 DEF Zero, Bytes, Bit, PollOn
    <3>3. api' # "none"
      BY <1>1, <1>3
    <3>4. QED
      BY <3>1, <3>2, <3>3 DEF Asking
  <2>8. Counted(0)'
    <3>1. Len(bytes') = 0 /\ Len(code_ram') = 0 /\ BytesPerWord \in Nat /\ BytesPerWord >= 1
      BY <1>1, <1>2, <1>3, Rates DEF Ready
    <3>2. Index' + 0 = 0
      BY <3>1 DEF Index
    <3>3. transfers' = (Index' + 0) % FlashBytes
      BY <1>1, <1>2, <1>3, <3>2
    <3>4. QED
      BY <3>1, <3>3 DEF Counted, FlashBytes
  <2>9. Settles'
    BY <2>3, <2>4, <2>7, <2>8 DEF Settles, Over
  <2>10. QED
    BY <1>1, <1>2, <1>7, <2>1, <2>4, <2>6, <2>9, InvParts DEF Stage, FlashBytes
<1>11. QED
  BY <1>8, <1>9, <1>10 DEF Configuring

-----------------------------------------------------------------------------
(* The whole system. *)

LEMMA InvStarts ==
  ASSUME SlaveInTime, Init
  PROVE  Inv
<1>1. SpiInit /\ FlashInit /\ DriverInit /\ loaded = cr /\ bytes = <<>> /\ code_ram = <<>>
      /\ transfers = 0
  BY DEF Init
<1>2. /\ ByteBits \in Nat /\ ByteBits >= 1 /\ FlashBits = ByteBits
      /\ BytesPerWord \in Nat /\ BytesPerWord >= 1 /\ FlashWords \in Nat /\ FlashWords >= 1
      /\ CodeWords \in Nat /\ CodeWords >= 1
      /\ DividerMod \in Nat /\ DividerMod >= 1 /\ AccessGap \in Nat
  BY Rates
<1>3. /\ cr = [cpha |-> FALSE, cpol |-> FALSE] /\ sr = [rxne |-> FALSE, txact |-> FALSE]
      /\ tdr = Zero /\ rdr = Zero /\ tx_buffer = Zero /\ rx_buffer = Zero /\ rx_data = Zero
      /\ cdr = 0 /\ tx_data_valid = FALSE /\ clk_divider_valid = FALSE /\ rx_data_valid = FALSE
      /\ state = "IDLE" /\ bits_counter = 0 /\ sck_polarity = FALSE /\ sck_phase = FALSE
      /\ sck_generator_en = FALSE /\ ss = 1 /\ sck = FALSE /\ mosi = 0
  BY <1>1 DEF SpiInit
<1>4. /\ generator = GeneratorReset /\ generator.counter = 0 /\ generator.target = 0
      /\ generator.level = FALSE /\ generator.rising = FALSE /\ generator.falling = FALSE
  BY <1>1 DEF SpiInit, GeneratorReset
<1>5. /\ sck_prv = SamplesReset /\ sck_prv[1] = 0 /\ sck_prv[2] = 0 /\ sck_prv[3] = 0
      /\ sck_prv \in Samples
  BY <1>1 DEF FlashInit, SamplesReset, Samples
<1>6. /\ slave_tx = Zero /\ slave_rx = Zero /\ slave_rx_data = Zero /\ flash_tx_data = Zero
      /\ spi_mem \in Contents /\ transmission = FALSE /\ slave_bits = 0
      /\ flash_addr = 0 /\ bytes_counter = 0 /\ miso = 0
  BY <1>1, <1>2 DEF FlashInit, Zero
<1>7. Zero \in Bytes
  BY DEF Zero, Bytes, Bit
<1>8. SpiTypeOK
  <2>1. 0 \in Divider /\ 0 \in 0 .. ByteBits /\ 1 \in Bit /\ 0 \in Bit
    BY <1>2 DEF Divider, Bit
  <2>2. GeneratorReset \in Generator
    BY <2>1 DEF GeneratorReset, Generator
  <2>3. cr \in [cpha : BOOLEAN, cpol : BOOLEAN] /\ sr \in [rxne : BOOLEAN, txact : BOOLEAN]
    BY <1>3
  <2>4. {tdr, rdr, tx_buffer, rx_buffer, rx_data} \subseteq Bytes
    BY <1>3, <1>7
  <2>5. QED
    BY <1>3, <1>4, <2>1, <2>2, <2>3, <2>4 DEF SpiTypeOK
<1>9. FlashTypeOK
  <2>1. Bytes = [1 .. FlashBits -> {0, 1}]
    BY <1>2 DEF Bytes, Bit
  <2>2. {slave_tx, slave_rx, slave_rx_data, flash_tx_data} \subseteq [1 .. FlashBits -> {0, 1}]
    BY <1>6, <1>7, <2>1
  <2>3. slave_bits \in 0 .. FlashBits /\ flash_addr \in 0 .. FlashWords - 1
        /\ bytes_counter \in 0 .. BytesPerWord - 1
    BY <1>2, <1>6
  <2>4. QED
    BY <1>5, <1>6, <2>2, <2>3 DEF FlashTypeOK
<1>10. LineTypes
  BY <1>3, <1>4, <1>8, <1>9 DEF LineTypes
<1>11. FlashBytes \in Nat /\ FlashBytes >= 1
  BY <1>10, PlaceFacts
<1>12. Types
  BY <1>1, <1>2, <1>3, <1>8, <1>10, <1>11 DEF Types, DriverInit
<1>13. Wave
  BY <1>3, <1>4, <1>5, <1>6 DEF Wave, Idles, Still, Resting
<1>14. Bits
  BY <1>3, <1>6 DEF Bits, Shifting
<1>15. Places
  <2>1. Place = 0
    BY <1>2, <1>6 DEF Place
  <2>2. QED
    BY <1>1, <1>3, <1>6, <2>1 DEF Places
<1>16. Stage
  BY <1>1, <1>3, <1>6 DEF Stage, NotBooted, Done, Dormant, DriverInit
<1>17. Loading
  <2>1. Len(bytes) = 0 /\ Len(code_ram) = 0 /\ bytes \in Seq(Bytes) /\ code_ram \in Seq(Seq(Bytes))
    BY <1>1
  <2>2. api = "none"
    BY <1>1 DEF DriverInit
  <2>3. QED
    BY <1>2, <2>1, <2>2 DEF Loading
<1>18. BootCopiesFlash
  BY <1>1 DEF BootCopiesFlash
<1>19. QED
  BY <1>12, <1>13, <1>14, <1>15, <1>16, <1>17, <1>18 DEF Inv

LEMMA IdleStep ==
  ASSUME Inv, SlaveInTime, SoftwarePaced, CpuIdle
  PROVE  Inv'
<1>1. Clock(NoAccess) /\ Sits
  BY DEF CpuIdle, Sits
<1>2. Harmless(NoAccess) /\ NoAccess.reg # "SPI_RDR"
  BY HarmlessAccesses
<1>3. QED
  BY <1>1, <1>2, WaitingStage

LEMMA AccessStep ==
  ASSUME Inv, SlaveInTime, SoftwarePaced, CpuAccess
  PROVE  Inv'
<1>1. Stage /\ todo # <<>>
  BY InvFacts DEF CpuAccess, Due
<1>2. Configuring \/ Asking \/ Waiting \/ Taking \/ Keeping
  BY <1>1, Stages
<1>3. QED
  BY <1>2, ConfigureStep, SendStep, PollStep, TakeStep, KeepStep

LEMMA CallStep ==
  ASSUME Inv, SlaveInTime, SoftwarePaced, CpuCalls
  PROVE  Inv'
<1>1. /\ Clock(NoAccess) /\ bytes' = <<>> /\ UNCHANGED <<loaded, code_ram, transfers>>
      /\ api = "none"
  BY DEF CpuCalls, Call
<1>2. Harmless(NoAccess)
  BY HarmlessAccesses
<1>3. /\ Ready /\ gap \in Nat /\ transfers \in 0 .. FlashBytes - 1
      /\ loaded \in [cpha : BOOLEAN, cpol : BOOLEAN] /\ ~loaded.cpol
      /\ Stage /\ Loading /\ BootCopiesFlash /\ LineTypes
      /\ FlashBytes \in Nat /\ FlashBytes >= 1
  BY InvFacts
<1>4. /\ ~tx_data_valid' /\ ~clk_divider_valid'
      /\ sr'.rxne <=> rx_data_valid \/ (sr.rxne /\ NoAccess.reg # "SPI_RDR")
      /\ LineInv' /\ StageFacts /\ StageFacts' /\ spi_mem' = spi_mem
      /\ state \in {"IDLE", "START"} => ~transmission'
      /\ state = "IDLE" /\ ~tx_data_valid => state' = "IDLE"
      /\ state # "ACTIVE" => Remaining' = IF Remaining = 0 THEN 0 ELSE Remaining - 1
      /\ Quiet => Quiet'
      /\ gap' \in Nat /\ gap' <= gap + 1
      /\ HasDivider => HasDivider'
  BY <1>1, <1>2, HarmlessTurns
<1>5. BootCopiesFlash'
  BY <1>1, <1>3, <1>4 DEF BootCopiesFlash, FlashByte
<1>6. /\ HalfPeriod \in Nat /\ AccessGap \in Nat /\ CodeWords \in Nat /\ CodeWords >= 1
      /\ BytesPerWord \in Nat
  BY Rates, <1>3 DEF Ready
<1>7. code_ram \in Seq(Seq(Bytes)) /\ Len(code_ram) <= CodeWords
  BY <1>3 DEF Loading
<1>8. /\ bytes' \in Seq(Bytes) /\ Len(bytes') = 0
      /\ (\A b \in 1 .. Len(bytes) : bytes[b] = FlashByte(BytesPerWord * Len(code_ram) + b - 1))'
  BY <1>1
<1>9. \/ NotBooted /\ Done /\ code_ram = <<>>
      \/ HasDivider /\ Settles /\ Done /\ code_ram # <<>>
  BY <1>1, <1>3 DEF Stage, NotBooted, Settles, Waits, Takes, Configuring, Asking, Waiting, Taking,
                    Keeping
<1>10. CASE code_ram = <<>>
  <2>1. api' = "load_code" /\ todo' = LoadCodeThroughSpi
    BY <1>10 DEF CpuCalls, Call
  <2>2. Dormant /\ transfers = 0
    BY <1>9, <1>10 DEF NotBooted
  <2>3. Dormant'
    <3>1. state' = "IDLE" /\ ~transmission' /\ ~rx_data_valid
      BY <1>4, <2>2 DEF Dormant, StageFacts
    <3>2. QED
      BY <1>4, <2>2, <3>1 DEF Dormant
  <2>4. LoadCodeThroughSpi' = LoadCodeThroughSpi
    BY DEF LoadCodeThroughSpi, SetPhase, Update, SetClockDivider, Read, LoadFrom, StoreTo,
           PollOf, Zero
  <2>5. NotBooted'
    BY <1>1, <1>10, <2>1, <2>2, <2>3, <2>4 DEF NotBooted, Configuring
  <2>6. Loading'
    <3>1. code_ram' = code_ram /\ Len(code_ram) = 0 /\ Len(bytes') <= BytesPerWord
      BY <1>1, <1>6, <1>8, <1>10
    <3>2. QED
      BY <1>6, <1>7, <1>8, <2>1, <3>1 DEF Loading
  <2>7. QED
    BY <1>1, <1>3, <1>4, <1>5, <2>5, <2>6, InvParts DEF Stage, FlashBytes
<1>11. CASE code_ram # <<>>
  <2>1. /\ api' \in {"read", "write"} /\ Asking'
    <3>1. CASE Call("read", Read)
      <4>1. api' = "read" /\ todo' = <<StoreTo("SPI_TDR", Zero), PollOf("rxne"), LoadFrom("SPI_RDR")>>
        BY <3>1, TheScript DEF Call
      <4>2. Zero \in Bytes /\ PollOn' = "rxne"
        BY <4>1 DEF Zero, Bytes, Bit, PollOn
      <4>3. QED
        BY <4>1, <4>2 DEF Asking
    <3>2. CASE \E byte \in Bytes : Call("write", Write(byte))
      <4>1. PICK byte \in Bytes : Call("write", Write(byte))
        BY <3>2
      <4>2. api' = "write" /\ todo' = <<StoreTo("SPI_TDR", byte), PollOf("txact"), LoadFrom("SPI_RDR")>>
        BY <4>1 DEF Call, Write
      <4>3. PollOn' = "txact"
        BY <4>2 DEF PollOn
      <4>4. QED
        BY <4>2, <4>3 DEF Asking
    <3>3. QED
      BY <1>11, <3>1, <3>2 DEF CpuCalls
  <2>2. HasDivider' /\ ~sr.rxne /\ Over(HalfPeriod - 1 - AccessGap)
    BY <1>4, <1>9, <1>11 DEF Settles
  <2>3. Over(HalfPeriod - 1 - AccessGap)'
    <3>1. Quiet /\ state # "ACTIVE"
      BY <2>2 DEF Over, Quiet
    <3>2. Quiet' /\ Remaining' = IF Remaining = 0 THEN 0 ELSE Remaining - 1
      BY <1>4, <3>1
    <3>3. HalfPeriod - 1 - AccessGap \in Int
      BY <1>6
    <3>4. Quiet' /\ (Remaining' = 0 \/ Remaining' + gap' <= HalfPeriod - 1 - AccessGap)
      BY <1>3, <1>4, <2>2, <3>2, <3>3, OverGoes
    <3>5. QED
      BY <3>4 DEF Over, Quiet, HalfPeriod
  <2>4. ~sr'.rxne
    BY <1>4, <2>2 DEF Over
  <2>5. Counted(0)'
    BY <2>1 DEF Counted
  <2>6. Stage'
    BY <2>1, <2>2, <2>3, <2>4, <2>5 DEF Stage, Settles
  <2>7. Loading'
    <3>1. code_ram' = code_ram /\ Len(bytes') <= BytesPerWord
      BY <1>1, <1>6, <1>8
    <3>2. api' # "load_code"
      BY <2>1
    <3>3. QED
      BY <1>1, <1>7, <1>8, <1>11, <2>1, <3>1, <3>2 DEF Loading
  <2>8. QED
    BY <1>1, <1>3, <1>4, <1>5, <2>6, <2>7, InvParts DEF FlashBytes
<1>12. QED
  BY <1>10, <1>11

LEMMA InvStands ==
  ASSUME Inv, UNCHANGED vars
  PROVE  Inv'
<1>1. /\ UNCHANGED <<cr, sr, tdr, rdr, cdr, tx_data_valid, clk_divider_valid>>
      /\ UNCHANGED <<state, bits_counter, sck_polarity, sck_phase, tx_buffer, rx_buffer>>
      /\ UNCHANGED <<rx_data, rx_data_valid, sck_generator_en, generator, ss, sck, mosi>>
      /\ UNCHANGED <<spi_mem, sck_prv, transmission, slave_bits, slave_tx, slave_rx>>
      /\ UNCHANGED <<slave_rx_data, flash_tx_data, flash_addr, bytes_counter, miso>>
      /\ UNCHANGED <<api, todo, gap, loaded, bytes, code_ram, transfers>>
  BY DEF vars, spiVars, registerVars, masterVars, flashVars, driverVars
<1>2. Led' = Led /\ Line' = Line /\ Since' = Since /\ Answer' = Answer
      /\ Remaining' = Remaining /\ Place' = Place /\ Asked' = Asked /\ Index' = Index
  BY <1>1 DEF Led, Line, Since, Answer, Remaining, Place, Asked, Index, HalfPeriod, FlashByte,
              FlashBytes
<1>3. Types' = Types
  BY <1>1 DEF Types, LineTypes, SpiTypeOK, FlashTypeOK, FlashBytes
<1>4. Wave' = Wave
  BY <1>1, <1>2 DEF Wave, Idles, Starts, Still, Selects, Samples3, Actives, Stops, Resting,
                    Configured
<1>5. Bits' = Bits
  BY <1>1, <1>2 DEF Bits, Shifting, SendsOut, Hears, Answers, TakesIn, Fallen, Trailed
<1>6. Stage' = Stage
  <2>1. Configuring' = Configuring /\ Asking' = Asking /\ Waiting' = Waiting /\ Taking' = Taking
        /\ Keeping' = Keeping /\ Done' = Done
    BY <1>1 DEF Configuring, Asking, Waiting, Taking, Keeping, Done, PollOn, LoadCodeThroughSpi,
                SetPhase, Update, SetClockDivider, Read, LoadFrom, StoreTo, PollOf, Zero
  <2>2. NotBooted' = NotBooted /\ HasDivider' = HasDivider
    BY <1>1, <2>1 DEF NotBooted, HasDivider, Dormant
  <2>3. Settles' = Settles /\ Waits' = Waits /\ Takes' = Takes
    BY <1>1, <1>2, <2>1 DEF Settles, Waits, Takes, Over, Counted, HalfPeriod, FlashBytes
  <2>4. QED
    BY <2>2, <2>3 DEF Stage
<1>7. Places' = Places
  BY <1>1, <1>2 DEF Places, Succ, FlashBytes
<1>8. Loading' = Loading /\ BootCopiesFlash' = BootCopiesFlash
  BY <1>1 DEF Loading, BootCopiesFlash, FlashByte
<1>9. QED
  BY <1>3, <1>4, <1>5, <1>6, <1>7, <1>8 DEF Inv

LEMMA InvNext ==
  ASSUME SlaveInTime, SoftwarePaced, Inv, [Next]_vars
  PROVE  Inv'
BY IdleStep, AccessStep, CallStep, InvStands DEF Next

(* The code RAM holds the flash, word for word and in order, whatever the  *)
(* flash holds: the loops of the bootloader, the polls of the driver, the  *)
(* master and the slave make one path that neither skips nor repeats nor   *)
(* shifts a byte.                                                          *)
THEOREM SpiBoots ==
  ASSUME SlaveInTime, SoftwarePaced
  PROVE  Spec => []BootCopiesFlash
<1>1. Init => Inv
  BY InvStarts
<1>2. Inv /\ [Next]_vars => Inv'
  BY InvNext
<1>3. Inv => BootCopiesFlash
  BY DEF Inv
<1>4. QED
  BY <1>1, <1>2, <1>3, PTL DEF Spec

LEMMA Arrives ==
  ASSUME Inv, SlaveInTime, SoftwarePaced
  PROVE  TransfersArrive
<1>1. /\ Ready /\ gap \in Nat /\ Stage /\ StageFacts
      /\ HalfPeriod \in Nat /\ AccessGap \in Nat /\ AccessGap >= 3
  BY InvFacts, ReadyStands, Rates DEF SoftwarePaced
<1>2. NoTransferLost
  BY <1>1, LineFacts DEF NoTransferLost, Ready, LineInv, Wave, Starts, Selects
<1>3. ASSUME api = "none", code_ram # <<>> PROVE slave_rx_data = tdr
  <2>1. Settles
    BY <1>1, <1>3 DEF Stage, NotBooted, Waits, Takes, Waiting, Taking, Configuring
  <2>2. /\ ~tx_data_valid /\ state \in {"IDLE", "STOP"}
        /\ Remaining = 0 \/ Remaining + gap <= HalfPeriod - 1 - AccessGap
    BY <2>1 DEF Settles, Over
  <2>3. CASE state = "IDLE"
    BY <1>1, <2>2, <2>3 DEF Ready, LineInv, Bits
  <2>4. CASE state = "STOP"
    <3>1. /\ Since \in 1 .. HalfPeriod /\ Remaining = HalfPeriod + 1 - Since
          /\ Since >= 4 => sck_prv[3] = 0
      BY <1>1, <2>4 DEF StageFacts
    <3>2. Since >= 4
      BY <1>1, <2>2, <3>1
    <3>3. QED
      BY <1>1, <2>4, <3>1, <3>2 DEF Ready, LineInv, Bits
  <2>5. QED
    BY <2>2, <2>3, <2>4
<1>4. QED
  BY <1>2, <1>3 DEF TransfersArrive, SlaveReceives

(* Every byte stored in TDR finds the master idle and reaches the slave    *)
(* before the call returns, although read() goes by rxne, which is set     *)
(* while the slave is still selected.                                      *)
THEOREM SpiCarries ==
  ASSUME SlaveInTime, SoftwarePaced
  PROVE  Spec => []TransfersArrive
<1>1. Init => Inv
  BY InvStarts
<1>2. Inv /\ [Next]_vars => Inv'
  BY InvNext
<1>3. Inv => TransfersArrive
  BY Arrives
<1>4. QED
  BY <1>1, <1>2, <1>3, PTL DEF Spec

LEMMA OwnAnswer ==
  ASSUME Inv, SlaveInTime, api # "none", Head(todo) = LoadFrom("SPI_RDR")
  PROVE  rdr = FlashByte(transfers + FlashWords * BytesPerWord - 1)
<1>1. Stage
  BY InvFacts
<1>2. todo # <<>>
  BY <1>1, Heads DEF Stage, NotBooted, Settles, Waits, Takes, Done
<1>3. Head(todo).reg = "SPI_RDR"
  BY DEF LoadFrom
<1>4. Taking
  BY <1>1, <1>2, <1>3, Stages, Heads
<1>5. rdr = Asked
  BY <1>1, <1>2, <1>4, Stages DEF Takes
<1>6. QED
  BY <1>5 DEF Asked, FlashBytes

(* A byte is read from RDR only when it is the flash's answer to the       *)
(* transfer the call itself started: rxne is never left over, and write()  *)
(* never takes the cycles before txact rises for the end of its own.       *)
THEOREM SpiAnswers ==
  ASSUME SlaveInTime, SoftwarePaced
  PROVE  Spec => ReadsOwnAnswer
<1>1. Init => Inv
  BY InvStarts
<1>2. Inv /\ [Next]_vars => Inv'
  BY InvNext
<1>3. Inv => [api # "none" /\ Head(todo) = LoadFrom("SPI_RDR") /\ todo' # todo
                => rdr = FlashByte(transfers + FlashWords * BytesPerWord - 1)]_vars
  BY OwnAnswer
<1>4. QED
  BY <1>1, <1>2, <1>3, PTL DEF Spec, ReadsOwnAnswer

-----------------------------------------------------------------------------
(* How long a transfer takes: two edges of the line for each bit and the   *)
(* half period in which the slave stays selected, whatever the software    *)
(* does meanwhile.  It is what lets the polls of the driver come to an end.*)

EdgesLeft == (2 * ByteBits + 1) - (Led + Trailed)

TransferTime == (2 * ByteBits + 1) * HalfPeriod + 3

\* The cycles until the master is idle again.
TransferLeft ==
  IF Shifting THEN EdgesLeft * HalfPeriod + 1 - (IF transmission THEN Since ELSE 0)
  ELSE IF state = "START" THEN TransferTime - 1
  ELSE IF tx_data_valid THEN TransferTime ELSE 0

\* Each cycle brings the end of a transfer a cycle nearer, and the next one
\* begins at that end at the soonest.
TransfersEnd ==
  [][TransferLeft > 0 => \/ TransferLeft' = TransferLeft - 1
                         \/ TransferLeft = 1 /\ TransferLeft' = TransferTime]_vars

\* A poll finds what it waits for once the transfer is over and the slave has
\* noticed it.
PollsEnd ==
  \A bit \in {"rxne", "txact"} :
    todo # <<>> /\ Head(todo) = PollOf(bit) /\ TransferLeft = 0 /\ ~transmission
      => ~NotYet(Head(todo))

LEMMA OneFewer ==
  ASSUME NEW n \in Int, NEW h \in Int
  PROVE  n * h \in Int /\ (n + 1) * h = n * h + h
  OBVIOUS

LEMMA TimeIsNatural ==
  ASSUME SlaveInTime
  PROVE  TransferTime \in Nat /\ TransferTime > 3
<1>1. ByteBits \in Nat /\ HalfPeriod \in Nat /\ HalfPeriod >= 4
  BY Rates
<1>2. (2 * ByteBits) * HalfPeriod \in Nat
  BY <1>1
<1>3. (2 * ByteBits + 1) * HalfPeriod = (2 * ByteBits) * HalfPeriod + HalfPeriod
  BY <1>1, OneFewer
<1>4. QED
  BY <1>1, <1>2, <1>3 DEF TransferTime

\* The line between two bytes, and its edges.
LEMMA EdgesTold ==
  ASSUME LineTypes, SlaveInTime, Wave, Shifting
  PROVE  /\ EdgesLeft \in Nat /\ EdgesLeft >= 1
         /\ Led \in Nat /\ Line \in {0, 1} /\ Trailed = Led - Line
         /\ Since \in 1 .. HalfPeriod \/ ~transmission
         /\ state = "STOP" => transmission /\ EdgesLeft = 1 /\ ~sck
         /\ ~transmission => state = "ACTIVE" /\ Resting /\ bits_counter = 0 /\ ~sck
                             /\ EdgesLeft = 2 * ByteBits + 1
         /\ transmission => (generator.counter = 0 <=> Leading \/ Trailing)
         /\ Leading => transmission /\ ~sck /\ generator.counter = 0 /\ ~Trailing
         /\ Trailing => transmission /\ sck /\ generator.counter = 0 /\ state = "ACTIVE"
         /\ generator.target = ClockDivider /\ sck_generator_en /\ ~clk_divider_valid
         /\ ss = 0
<1>1. /\ ByteBits \in Nat /\ HalfPeriod \in Nat /\ ClockDivider \in Nat
      /\ HalfPeriod = ClockDivider + 1
      /\ bits_counter \in Nat /\ bits_counter <= ByteBits /\ sck \in BOOLEAN
      /\ transmission \in BOOLEAN
      /\ generator.counter \in Nat /\ generator.counter <= generator.target
      /\ generator.level \in BOOLEAN /\ generator.rising \in BOOLEAN /\ generator.falling \in BOOLEAN
  BY LineFacts, Rates
<1>2. /\ Selects /\ Samples3
      /\ state = "ACTIVE" => Actives
      /\ state = "STOP" => Stops
      /\ ~transmission => Resting
      /\ clk_divider_valid => state = "IDLE"
  BY DEF Wave, Shifting
<1>3. state \in {"ACTIVE", "STOP"} /\ state # "IDLE"
  BY DEF Shifting
<1>4. /\ generator.target = ClockDivider /\ sck_generator_en /\ ~clk_divider_valid /\ ss = 0
  BY <1>2, <1>3 DEF Selects, Configured
<1>5. Led \in Nat /\ Line \in {0, 1} /\ Trailed = Led - Line
  BY <1>1 DEF Led, Line, Trailed
<1>6. /\ state = "STOP" => transmission /\ ~sck /\ Led = ByteBits /\ Line = 0 /\ ~generator.falling
      /\ state = "ACTIVE" => Led = bits_counter
  BY <1>2, <1>3 DEF Stops, Led, Line
<1>7. Led <= ByteBits
  BY <1>1, <1>3, <1>6
<1>8. Led + Trailed = 2 * Led - Line
  BY <1>5
<1>9. EdgesLeft = 2 * ByteBits + 1 - 2 * Led + Line
  BY <1>1, <1>5, <1>8 DEF EdgesLeft
<1>10. EdgesLeft \in Nat /\ EdgesLeft >= 1
  BY <1>1, <1>5, <1>7, <1>9
<1>11. state = "STOP" => EdgesLeft = 1
  BY <1>1, <1>6, <1>9
<1>12. Since \in 1 .. HalfPeriod
  BY <1>1, <1>4 DEF Since
<1>13. /\ Leading => generator.level /\ generator.counter = 0
       /\ Trailing => ~generator.level /\ generator.counter = 0
       /\ sck <=> (generator.level /\ ~generator.rising) \/ generator.falling
       /\ transmission /\ generator.counter = 0 => Leading \/ Trailing
  BY <1>2 DEF Selects, Leading, Trailing
<1>14. /\ Leading => ~Trailing /\ ~sck
       /\ Trailing => sck
  BY <1>13 DEF Leading, Trailing
<1>15. ~transmission => ~Leading /\ ~Trailing
  BY <1>2 DEF Resting, Leading, Trailing
<1>16. ~transmission => state = "ACTIVE" /\ bits_counter = 0 /\ ~sck /\ EdgesLeft = 2 * ByteBits + 1
  <2>1. SUFFICES ASSUME ~transmission
                 PROVE  state = "ACTIVE" /\ bits_counter = 0 /\ ~sck /\ EdgesLeft = 2 * ByteBits + 1
    OBVIOUS
  <2>2. state = "ACTIVE" /\ bits_counter = 0
    BY <1>2, <1>3, <1>6, <2>1 DEF Actives
  <2>3. ~sck
    BY <1>2, <2>1 DEF Resting, Selects
  <2>4. Line = 0 /\ Led = 0
    BY <1>6, <2>2, <2>3 DEF Line
  <2>5. QED
    BY <1>1, <1>9, <2>2, <2>3, <2>4
<1>17. Trailing => state = "ACTIVE"
  BY <1>3, <1>6 DEF Trailing
<1>18. QED
  BY <1>2, <1>4, <1>5, <1>6, <1>10, <1>11, <1>12, <1>13, <1>14, <1>15, <1>16, <1>17, <1>1

\* A cycle of a transfer with an edge, and one without.
LEMMA ShiftingGoes ==
  ASSUME LineTypes, SlaveInTime, Wave, Shifting, Master(miso), FlashClock(ss, sck, mosi)
  PROVE  /\ TransferLeft \in Nat /\ TransferLeft > 0
         /\ \/ TransferLeft' = TransferLeft - 1
            \/ TransferLeft = 1 /\ state' = "IDLE"
<1>1. /\ EdgesLeft \in Nat /\ EdgesLeft >= 1
      /\ Led \in Nat /\ Line \in {0, 1} /\ Trailed = Led - Line
      /\ Since \in 1 .. HalfPeriod \/ ~transmission
      /\ state = "STOP" => transmission /\ EdgesLeft = 1 /\ ~sck
      /\ ~transmission => state = "ACTIVE" /\ Resting /\ bits_counter = 0 /\ ~sck
                          /\ EdgesLeft = 2 * ByteBits + 1
      /\ transmission => (generator.counter = 0 <=> Leading \/ Trailing)
      /\ Leading => transmission /\ ~sck /\ generator.counter = 0 /\ ~Trailing
      /\ Trailing => transmission /\ sck /\ generator.counter = 0 /\ state = "ACTIVE"
      /\ generator.target = ClockDivider /\ sck_generator_en /\ ~clk_divider_valid
      /\ ss = 0
  BY EdgesTold
<1>2. /\ ByteBits \in Nat /\ ClockDivider \in Nat /\ ClockDivider >= 3
      /\ HalfPeriod \in Nat /\ HalfPeriod = ClockDivider + 1 /\ HalfPeriod >= 4
      /\ bits_counter \in Nat /\ sck \in BOOLEAN /\ sck_polarity = FALSE
      /\ transmission \in BOOLEAN /\ generator.counter \in Nat
      /\ generator.counter <= generator.target
  BY LineFacts, Rates DEF SlaveInTime
<1>3. state \in {"ACTIVE", "STOP"}
  BY DEF Shifting
<1>4. transmission' = TRUE
  BY <1>1 DEF FlashClock, Selected, Unselected
<1>5. /\ generator.counter = ClockDivider => generator'.counter = 0
      /\ generator.counter # ClockDivider => generator'.counter = generator.counter + 1
  BY <1>1, ClockTurns
<1>6. Since' = IF transmission /\ Since < HalfPeriod THEN Since + 1 ELSE 1
  <2>1. CASE ~transmission
    <3>1. generator.counter = 0
      BY <1>1, <2>1 DEF Resting
    <3>2. generator'.counter = 1
      BY <1>2, <1>5, <3>1
    <3>3. QED
      BY <2>1, <3>2 DEF Since
  <2>2. CASE transmission /\ generator.counter = 0
    <3>1. generator'.counter = 1 /\ Since = HalfPeriod
      BY <1>2, <1>5, <2>2 DEF Since
    <3>2. QED
      BY <1>2, <3>1 DEF Since
  <2>3. CASE transmission /\ generator.counter # 0 /\ generator.counter # ClockDivider
    <3>1. generator'.counter = generator.counter + 1 /\ Since = generator.counter
          /\ generator.counter <= ClockDivider
      BY <1>1, <1>2, <1>5, <2>3 DEF Since
    <3>2. generator'.counter # 0 /\ Since < HalfPeriod
      BY <1>2, <2>3, <3>1
    <3>3. Since' = generator'.counter
      BY <3>2 DEF Since
    <3>4. QED
      BY <2>3, <3>1, <3>2, <3>3
  <2>4. CASE transmission /\ generator.counter = ClockDivider
    <3>1. generator'.counter = 0 /\ Since = ClockDivider
      BY <1>2, <1>5, <2>4 DEF Since
    <3>2. Since' = HalfPeriod
      BY <3>1 DEF Since, HalfPeriod
    <3>3. QED
      BY <1>2, <2>4, <3>1, <3>2
  <2>5. QED
    BY <1>2, <2>1, <2>2, <2>3, <2>4
<1> DEFINE s == IF transmission THEN Since ELSE 0
<1>7. s \in 0 .. HalfPeriod /\ (s = HalfPeriod => Leading \/ Trailing)
      /\ (s # HalfPeriod => ~Leading /\ ~Trailing)
  <2>1. transmission => (Since = HalfPeriod <=> generator.counter = 0)
    BY <1>1, <1>2 DEF Since
  <2>2. QED
    BY <1>1, <1>2, <2>1
<1>8. TransferLeft = EdgesLeft * HalfPeriod + 1 - s
  BY DEF TransferLeft
<1>9. TransferLeft \in Nat /\ TransferLeft > 0
  <2>1. (EdgesLeft - 1) * HalfPeriod \in Nat
        /\ EdgesLeft * HalfPeriod = (EdgesLeft - 1) * HalfPeriod + HalfPeriod
    <3>1. EdgesLeft - 1 \in Nat /\ (EdgesLeft - 1) + 1 = EdgesLeft
      BY <1>1
    <3>2. QED
      BY <1>2, <3>1, OneFewer
  <2>2. QED
    BY <1>2, <1>7, <1>8, <2>1
<1>10. Shifting' => TransferLeft' = EdgesLeft' * HalfPeriod + 1 - Since'
  BY <1>4 DEF TransferLeft, HalfPeriod
<1>11. CASE ~Leading /\ ~Trailing
  <2>1. BetweenEdges
    BY <1>1, <1>3, <1>11 DEF Master, Idle, Start, ActiveLeading, ActiveTrailing, Stop
  <2>2. state' = state /\ bits_counter' = bits_counter /\ sck' = sck
    BY <2>1 DEF BetweenEdges
  <2>3. Shifting' /\ EdgesLeft' = EdgesLeft
    BY <2>2 DEF Shifting, EdgesLeft, Led, Trailed, Line
  <2>4. Since' = s + 1
    BY <1>6, <1>7, <1>11, <1>1, <1>2
  <2>5. EdgesLeft * HalfPeriod \in Int
    BY <1>1, <1>2
  <2>6. QED
    BY <1>7, <1>8, <1>9, <1>10, <2>3, <2>4, <2>5
<1>12. CASE Leading /\ state = "ACTIVE"
  <2>1. ActiveLeading(miso)
    BY <1>1, <1>12 DEF Master, Idle, Start, ActiveTrailing, Stop, BetweenEdges
  <2>2. state' = "ACTIVE" /\ bits_counter' = bits_counter + 1 /\ sck' = TRUE
    BY <1>2, <1>12, <2>1 DEF ActiveLeading
  <2>3. Shifting' /\ EdgesLeft' = EdgesLeft - 1
    <3>1. Led = bits_counter /\ Trailed = bits_counter
      BY <1>1, <1>2, <1>12 DEF Led, Trailed, Line
    <3>2. Led' = bits_counter + 1 /\ Trailed' = (bits_counter + 1) - 1
      BY <2>2 DEF Led, Trailed, Line
    <3>3. EdgesLeft' = (2 * ByteBits + 1) - (Led' + Trailed')
      BY DEF EdgesLeft
    <3>4. QED
      BY <1>2, <2>2, <3>1, <3>2, <3>3 DEF Shifting, EdgesLeft
  <2>4. QED
    <3>1. s = HalfPeriod /\ Since' = 1
      BY <1>1, <1>2, <1>6, <1>7, <1>12
    <3> DEFINE e == EdgesLeft'
               p == e * HalfPeriod
    <3>2. e \in Int /\ e + 1 = EdgesLeft
      BY <1>1, <2>3
    <3>3. TransferLeft' = p + 1 - Since'
      BY <1>10, <2>3
    <3> HIDE DEF e
    <3>4. p \in Int /\ EdgesLeft * HalfPeriod = p + HalfPeriod
      BY <1>2, <3>2, OneFewer
    <3> HIDE DEF p
    <3>5. TransferLeft = (p + HalfPeriod) + 1 - HalfPeriod
      BY <1>8, <3>1, <3>4, Zenon
    <3>6. TransferLeft' = p + 1 - 1
      BY <3>1, <3>3, Zenon
    <3>7. TransferLeft' = TransferLeft - 1
      BY <1>2, <3>4, <3>5, <3>6
    <3>8. QED
      BY <1>9, <3>7
<1>13. CASE Trailing
  <2>1. ActiveTrailing(miso)
    BY <1>1, <1>13 DEF Master, Idle, Start, ActiveLeading, Stop, BetweenEdges
  <2>2. /\ sck' = FALSE
        /\ IF bits_counter = ByteBits THEN state' = "STOP"
                                      ELSE state' = "ACTIVE" /\ bits_counter' = bits_counter
    BY <1>2, <1>13, <2>1 DEF ActiveTrailing
  <2>3. Shifting' /\ EdgesLeft' = EdgesLeft - 1
    <3>1. Led = bits_counter /\ Trailed = bits_counter - 1
      BY <1>1, <1>13 DEF Led, Trailed, Line
    <3>2. Led' = bits_counter /\ Trailed' = bits_counter - 0
      BY <2>2 DEF Led, Trailed, Line
    <3>3. EdgesLeft' = (2 * ByteBits + 1) - (Led' + Trailed')
      BY DEF EdgesLeft
    <3>4. QED
      BY <1>2, <2>2, <3>1, <3>2, <3>3 DEF Shifting, EdgesLeft
  <2>4. QED
    <3>1. s = HalfPeriod /\ Since' = 1
      BY <1>1, <1>2, <1>6, <1>7, <1>13
    <3> DEFINE e == EdgesLeft'
               p == e * HalfPeriod
    <3>2. e \in Int /\ e + 1 = EdgesLeft
      BY <1>1, <2>3
    <3>3. TransferLeft' = p + 1 - Since'
      BY <1>10, <2>3
    <3> HIDE DEF e
    <3>4. p \in Int /\ EdgesLeft * HalfPeriod = p + HalfPeriod
      BY <1>2, <3>2, OneFewer
    <3> HIDE DEF p
    <3>5. TransferLeft = (p + HalfPeriod) + 1 - HalfPeriod
      BY <1>8, <3>1, <3>4, Zenon
    <3>6. TransferLeft' = p + 1 - 1
      BY <3>1, <3>3, Zenon
    <3>7. TransferLeft' = TransferLeft - 1
      BY <1>2, <3>4, <3>5, <3>6
    <3>8. QED
      BY <1>9, <3>7
<1>14. CASE Leading /\ state = "STOP"
  <2>1. Stop
    BY <1>1, <1>14 DEF Master, Idle, Start, ActiveLeading, ActiveTrailing, BetweenEdges
  <2>2. state' = "IDLE"
    BY <2>1 DEF Stop
  <2>3. s = HalfPeriod
    BY <1>7, <1>14
  <2>4. 1 * HalfPeriod + 1 - HalfPeriod = 1
    BY <1>2
  <2>5. TransferLeft = 1
    BY <1>1, <1>8, <1>14, <2>3, <2>4
  <2>6. QED
    BY <1>9, <2>2, <2>5
<1>15. QED
  BY <1>3, <1>11, <1>12, <1>13, <1>14

LEMMA TransferGoes ==
  ASSUME LineTypes, SlaveInTime, Wave, Master(miso), FlashClock(ss, sck, mosi),
         TransferLeft > 0
  PROVE  \/ TransferLeft' = TransferLeft - 1
         \/ TransferLeft = 1 /\ TransferLeft' = TransferTime
<1>1. state \in {"IDLE", "START", "ACTIVE", "STOP"} /\ tx_data_valid \in BOOLEAN
      /\ TransferTime \in Nat /\ TransferTime > 3
  BY LineFacts, TimeIsNatural
<1>2. TransferTime' = TransferTime
  BY DEF TransferTime, HalfPeriod
<1>3. CASE state = "IDLE"
  <2>1. tx_data_valid /\ TransferLeft = TransferTime
    BY <1>3 DEF TransferLeft, Shifting
  <2>2. Idle
    BY <1>3 DEF Master, Start, ActiveLeading, ActiveTrailing, Stop, BetweenEdges
  <2>3. state' = "START"
    BY <2>1, <2>2 DEF Idle
  <2>4. TransferLeft' = TransferTime - 1
    BY <1>2, <2>3 DEF TransferLeft, Shifting
  <2>5. QED
    BY <2>1, <2>4
<1>4. CASE state = "START"
  <2>1. TransferLeft = TransferTime - 1
    BY <1>4 DEF TransferLeft, Shifting
  <2>2. Start /\ Starts /\ Still
    BY <1>4 DEF Master, Idle, ActiveLeading, ActiveTrailing, Stop, BetweenEdges, Wave, Starts
  <2>3. state' = "ACTIVE" /\ bits_counter' = 0 /\ sck' = FALSE
    BY <2>2 DEF Start, Still
  <2>4. transmission' = FALSE
    <3>1. ss = 1
      BY <2>2 DEF Still
    <3>2. (ss = 0) = FALSE
      BY <3>1
    <3>3. transmission' = (ss = 0)
      BY DEF FlashClock, Selected, Unselected
    <3>4. QED
      BY <3>2, <3>3
  <2>5. Led' = 0 /\ Trailed' = 0 - 0
    BY <2>3 DEF Led, Trailed, Line
  <2>6. EdgesLeft' = (2 * ByteBits + 1) - (Led' + Trailed')
    BY DEF EdgesLeft
  <2>7. ByteBits \in Nat /\ HalfPeriod \in Nat
    BY Rates
  <2>8. EdgesLeft' = 2 * ByteBits + 1
    BY <2>5, <2>6, <2>7
  <2>9. TransferLeft' = (2 * ByteBits + 1) * HalfPeriod + 1 - 0
    BY <2>3, <2>4, <2>8 DEF TransferLeft, Shifting, HalfPeriod
  <2>10. (2 * ByteBits + 1) * HalfPeriod \in Nat
    BY <2>7
  <2>11. TransferLeft' = TransferTime - 1 - 1
    BY <2>9, <2>10 DEF TransferTime
  <2>12. QED
    BY <2>1, <2>11
<1>5. CASE state \in {"ACTIVE", "STOP"}
  <2>1. /\ TransferLeft \in Nat
        /\ \/ TransferLeft' = TransferLeft - 1
           \/ TransferLeft = 1 /\ state' = "IDLE"
    BY <1>5, ShiftingGoes DEF Shifting
  <2>2. state' = "IDLE" => TransferLeft' = IF tx_data_valid' THEN TransferTime ELSE 0
    BY <1>2 DEF TransferLeft, Shifting
  <2>3. QED
    BY <2>1, <2>2
<1>6. QED
  BY <1>1, <1>3, <1>4, <1>5

LEMMA PollSucceeds ==
  ASSUME Inv, SlaveInTime, NEW bit \in {"rxne", "txact"},
         todo # <<>>, Head(todo) = PollOf(bit), TransferLeft = 0, ~transmission
  PROVE  ~NotYet(PollOf(bit))
<1>1. Head(todo).reg \in {"rxne", "txact"} /\ LineTypes /\ Wave /\ Stage
  BY InvFacts DEF PollOf, Inv
<1>2. Waiting /\ Waits
  <2>1. Done => todo = <<>>
    BY DEF Done
  <2>2. ~Configuring /\ ~Asking /\ ~Taking /\ ~Keeping /\ ~Done
    BY <1>1, <2>1, Heads
  <2>3. QED
    BY <1>1, <2>2 DEF Stage, NotBooted, Settles, Waits, Takes
<1>3. state \in {"IDLE", "START", "ACTIVE", "STOP"} /\ tx_data_valid \in BOOLEAN
      /\ TransferTime \in Nat /\ TransferTime > 3
  BY <1>1, LineFacts, TimeIsNatural
<1>4. state = "IDLE" /\ ~tx_data_valid
  <2>1. ~Shifting
    <3>1. SUFFICES ASSUME Shifting PROVE FALSE
      OBVIOUS
    <3>2. /\ EdgesLeft \in Nat /\ EdgesLeft >= 1 /\ HalfPeriod \in Nat /\ HalfPeriod >= 4
      BY <1>1, <3>1, EdgesTold, Rates
    <3>3. TransferLeft = EdgesLeft * HalfPeriod + 1
      BY <3>1 DEF TransferLeft
    <3>4. (EdgesLeft - 1) * HalfPeriod \in Nat
          /\ EdgesLeft * HalfPeriod = (EdgesLeft - 1) * HalfPeriod + HalfPeriod
      <4>1. EdgesLeft - 1 \in Nat /\ (EdgesLeft - 1) + 1 = EdgesLeft
        BY <3>2
      <4>2. QED
        BY <3>2, <4>1, OneFewer
    <3>5. QED
      BY <3>2, <3>3, <3>4
  <2>2. QED
    BY <1>3, <2>1 DEF TransferLeft, Shifting
<1>5. sr.rxne /\ ~sr.txact
  BY <1>1, <1>2, <1>4 DEF Wave, Idles, Still, Waits
<1>6. QED
  <2>1. PollOf("rxne").reg = "rxne" /\ PollOf("txact").reg = "txact"
    BY DEF PollOf
  <2>2. QED
    BY <1>5 DEF NotYet

(* A transfer takes as many cycles as its bits and the divider say, for    *)
(* any of them, whatever the software does meanwhile; and when it is over  *)
(* the poll of read() or write() finds what it waits for.                  *)
THEOREM SpiTakesItsTime ==
  ASSUME SlaveInTime, SoftwarePaced
  PROVE  Spec => TransfersEnd /\ []PollsEnd
<1>1. Init => Inv
  BY InvStarts
<1>2. Inv /\ [Next]_vars => Inv'
  BY InvNext
<1>3. Inv => PollsEnd
  BY PollSucceeds DEF PollsEnd
<1>4. Inv /\ [Next]_vars =>
        [TransferLeft > 0 => \/ TransferLeft' = TransferLeft - 1
                             \/ TransferLeft = 1 /\ TransferLeft' = TransferTime]_vars
  <2>1. SUFFICES ASSUME Inv, Next, TransferLeft > 0
                 PROVE  \/ TransferLeft' = TransferLeft - 1
                        \/ TransferLeft = 1 /\ TransferLeft' = TransferTime
    OBVIOUS
  <2>2. LineTypes /\ Wave
    BY <2>1 DEF Inv, Types
  <2>3. Master(miso) /\ FlashClock(ss, sck, mosi)
    BY <2>1 DEF Next, CpuIdle, CpuAccess, CpuCalls, Clock, SpiClock
  <2>4. QED
    BY <2>1, <2>2, <2>3, TransferGoes
<1>5. QED
  BY <1>1, <1>2, <1>3, <1>4, PTL DEF Spec, TransfersEnd

\* The registers, the lines and the memories keep to their types: the counter
\* of bits never leaves the byte, nor the addresses the memories.
THEOREM SpiTypeCorrect ==
  ASSUME SlaveInTime, SoftwarePaced
  PROVE  Spec => []TypeOK
<1>1. Init => Inv
  BY InvStarts
<1>2. Inv /\ [Next]_vars => Inv'
  BY InvNext
<1>3. Inv => TypeOK
  BY DEF Inv, Types, LineTypes, Loading, TypeOK, FlashBytes
<1>4. QED
  BY <1>1, <1>2, <1>3, PTL DEF Spec

=============================================================================
