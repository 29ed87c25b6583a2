------------------------------ MODULE UartBoot ------------------------------
(***************************************************************************)
(* Booting over the UART, and the command line after it.  The software     *)
(* prints a prompt and reads: the words of the code RAM in the bootloader, *)
(* a line in Ui and Command_interpreter.  The peer answers a prompt it has *)
(* received, at its own pace.                                              *)
(*                                                                         *)
(* A prompt is one byte here.  The processor is never slower than          *)
(* SlowestGap cycles from one access to the next: nothing but its speed    *)
(* keeps received bytes from being overrun.                                *)
(*                                                                         *)
(* The peer is the computer at the other end of the lines (external).  It  *)
(* sends frames of a start bit, the bits of a byte and a stop bit, PeerBit *)
(* cycles each, and samples what it receives in the middle of the bits.    *)
(***************************************************************************)
EXTENDS Uart, Driver

CONSTANTS
  ClockDivider,   \* the divider the constructor sets (6)
  CodeWords,      \* words of the code RAM (4096)
  BytesPerWord,   \* bytes in a word (4)
  LineLength,     \* size of the line buffer (100)
  SlowestGap,     \* most cycles from an access to the next
  PeerBit,        \* system clock cycles in a bit of the peer
  PeerByteBits,   \* bits in a byte of the peer
  PeerBytes,      \* bytes the peer sends
  Newline, Prompt

ASSUME UartBootAssumption ==
  /\ {CodeWords, BytesPerWord, LineLength, SlowestGap} \subseteq Nat \ {0}
  /\ ClockDivider \in Divider
  /\ PeerBytes \subseteq Bytes /\ {Newline, Prompt} \subseteq Bytes
  /\ PeerByteBits = ByteBits

ASSUME PeerAssumption ==
  /\ PeerBit \in Nat /\ PeerBit > 1
  /\ PeerByteBits \in Nat \ {0}

VARIABLES
  frame,       \* line levels the peer has still to send
  held,        \* cycles the first of them has still to be held
  wait,        \* cycles to the next sample of the peer, 0 between frames
  samples,     \* bits it sampled so far
  heard,       \* last byte it received, with NoByte until there is one
  loaded,      \* the register as last loaded for an update
  bytes,       \* bytes of the word or of the line read so far
  code_ram,    \* words stored so far, in order
  stream,      \* history: bytes the peer sent since the prompt
  arriving     \* history: those of them the receiver has not delivered yet

peerVars == <<frame, held, wait, samples, heard>>

vars == <<uartVars, peerVars, driverVars, loaded, bytes, code_ram, stream, arriving>>

-----------------------------------------------------------------------------
(* The driver.  (A definition marked "slip" is not the code's but a        *)
(* mistake it could have had; the properties tell the two apart.)          *)

\* (slip) The UART is not enabled.
ConstructDisabled == <<StoreTo("UART_CDR", ClockDivider)>>

Construct == <<StoreTo("UART_CDR", ClockDivider)>> \o Update("UART_CR", "en", TRUE)

\* (slip) The status is not polled.
ReadUnpolled        == <<LoadFrom("UART_RDR")>>
WriteUnpolled(byte) == <<StoreTo("UART_TDR", byte)>>

Read        == <<PollOf("rxne"), LoadFrom("UART_RDR")>>
Write(byte) == <<StoreTo("UART_TDR", byte), PollOf("txact")>>

NotYet(a) == \/ a = PollOf("rxne") /\ ~sr.rxne
             \/ a = PollOf("txact") /\ sr.txact

LoadCodeThroughUart == Construct \o Write(Prompt) \o Read

ReadLine == Write(Prompt) \o Read

\* The loops go round: over the bytes of a line, which stop at a newline or at
\* the end of the buffer, over those of a word, and over the words.
ReadsOn(a) ==
  \/ /\ a = LoadFrom("UART_RDR") /\ api = "read_line"
     /\ rdr # Newline /\ Len(bytes) + 1 < LineLength
  \/ /\ a = LoadFrom("UART_RDR") /\ api = "load_code"
     /\ Len(bytes) + 1 < BytesPerWord
  \/ a.reg = "CODE_RAM" /\ Len(code_ram) + 1 < CodeWords

StoresWord(a) ==
  /\ a = LoadFrom("UART_RDR") /\ api = "load_code"
  /\ Len(bytes) + 1 = BytesPerWord

-----------------------------------------------------------------------------
(* The peer's end of the lines. *)

NoByte  == <<>>
Garbled == <<"framing error">>

PeerLine == IF frame = <<>> THEN 1 ELSE Head(frame)

\* A frame may begin in the cycle after the last one ended.
BeginsFrame(byte) ==
  /\ frame = <<>>
  /\ frame' = <<0>> \o byte \o <<1>>
  /\ held' = PeerBit

KeepsSending ==
  CASE frame = <<>> -> UNCHANGED <<frame, held>>
    [] frame # <<>> /\ held > 1 -> held' = held - 1 /\ UNCHANGED frame
    [] OTHER -> /\ frame' = Tail(frame)
                /\ held' = IF Len(frame) = 1 THEN 0 ELSE PeerBit

Listens(line) ==
  IF wait = 0
    THEN /\ wait' = IF line = 0 THEN PeerBit + PeerBit \div 2 - 1 ELSE 0
         /\ UNCHANGED <<samples, heard>>
  ELSE IF wait > 1 THEN wait' = wait - 1 /\ UNCHANGED <<samples, heard>>
  ELSE IF Len(samples) < PeerByteBits
    THEN /\ samples' = Append(samples, line)
         /\ wait' = PeerBit
         /\ UNCHANGED heard
  ELSE /\ heard' = IF line = 1 THEN samples ELSE Garbled
       /\ samples' = <<>>
       /\ wait' = 0

PeerInit ==
  /\ frame = <<>>
  /\ held = 0
  /\ wait = 0
  /\ samples = <<>>
  /\ heard = NoByte

-----------------------------------------------------------------------------
(* The peer sends as much as is asked for, once it has the prompt. *)

PeerMaySend ==
  /\ heard = Prompt
  /\ IF api = "load_code" THEN Len(stream) < CodeWords * BytesPerWord
     ELSE /\ api = "read_line"
          /\ Len(stream) < LineLength
          /\ Newline \notin {stream[k] : k \in DOMAIN stream}

\* The byte the receiver has just put together leaves arriving as it is
\* handed to the registers.
PeerSends(byte) ==
  /\ PeerMaySend
  /\ BeginsFrame(byte)
  /\ stream' = Append(stream, byte)
  /\ arriving' = Append(IF rx_data_valid THEN Tail(arriving) ELSE arriving, byte)

PeerWaits ==
  /\ KeepsSending
  /\ arriving' = IF rx_data_valid THEN Tail(arriving) ELSE arriving
  /\ UNCHANGED stream

Peer == PeerWaits \/ \E byte \in PeerBytes : PeerSends(byte)

-----------------------------------------------------------------------------
CpuIdle ==
  /\ todo = <<>> \/ gap < SlowestGap
  /\ Pace(NoAccess, SlowestGap)
  /\ UartClock(NoAccess, PeerLine)
  /\ Listens(sout)
  /\ Peer
  /\ UNCHANGED <<api, todo, loaded, bytes, code_ram>>

CpuAccess ==
  LET a == Head(todo)
      access == AccessDue(loaded)
  IN  /\ Due
      /\ \/ ReadsOn(a) /\ todo' = Read /\ UNCHANGED api
         \/ /\ StoresWord(a)
            /\ todo' = <<StoreTo("CODE_RAM", Len(code_ram))>> /\ UNCHANGED api
         \/ ~ReadsOn(a) /\ ~StoresWord(a) /\ Retire(NotYet(a))
      /\ loaded' = IF a = LoadFrom("UART_CR") THEN cr ELSE loaded
      /\ bytes' = CASE a = LoadFrom("UART_RDR") -> Append(bytes, rdr)
                    [] a.reg = "CODE_RAM" -> <<>>
                    [] OTHER -> bytes
      /\ code_ram' = IF a.reg = "CODE_RAM" THEN Append(code_ram, bytes) ELSE code_ram
      /\ Pace(access, SlowestGap)
      /\ UartClock(access, PeerLine)
      /\ Listens(sout)
      /\ Peer

\* A new call starts a new exchange: the peer has forgotten the last prompt.
CpuCalls ==
  /\ \/ ~cr.en /\ Call("load_code", LoadCodeThroughUart)
     \/ cr.en /\ Call("read_line", ReadLine)
  /\ Pace(NoAccess, SlowestGap)
  /\ UartClock(NoAccess, PeerLine)
  /\ KeepsSending
  /\ heard' = NoByte
  /\ bytes' = <<>> /\ code_ram' = <<>> /\ stream' = <<>>
  /\ UNCHANGED <<loaded, wait, samples, arriving>>

Init ==
  /\ UartInit /\ PeerInit /\ DriverInit
  /\ loaded = cr
  /\ bytes = <<>>
  /\ code_ram = <<>>
  /\ stream = <<>>
  /\ arriving = <<>>

Next == CpuIdle \/ CpuAccess \/ CpuCalls

\* The clock never stops, the processor gets on with its program, and the peer
\* sends what it was asked for.
Spec ==
  /\ Init /\ [][Next]_vars
  /\ WF_vars(Next) /\ WF_vars(CpuAccess)
  /\ WF_vars(Next /\ stream' # stream)

-----------------------------------------------------------------------------
TypeOK ==
  /\ UartTypeOK
  /\ bytes \in Seq(Bytes) /\ Len(bytes) <= IF api = "load_code" THEN BytesPerWord ELSE LineLength
  /\ Len(code_ram) <= CodeWords
  /\ wait \in 0 .. 2 * PeerBit /\ held \in 0 .. PeerBit

\* What the receiver hands on is what was sent, and a frame behind at most.
ReceivesFrames ==
  /\ rx_data_valid => arriving # <<>> /\ rx_data = Head(arriving) /\ ~rx_error
  /\ Len(arriving) <= 2

\* The software takes every byte from RDR before the next one is there.
NothingOverrun ==
  LET stored == Len(code_ram) * BytesPerWord
  IN  /\ stored + Len(bytes) <= Len(stream)
      /\ \A w \in DOMAIN code_ram :
           code_ram[w] = SubSeq(stream, (w - 1) * BytesPerWord + 1, w * BytesPerWord)
      /\ bytes = SubSeq(stream, stored + 1, stored + Len(bytes))

\* A line ends at the newline or where the buffer does, whichever is first.
LineIsRead ==
  api = "none" /\ cr.en /\ code_ram = <<>> =>
    bytes = stream /\ (Newline \in {bytes[k] : k \in DOMAIN bytes} \/ Len(bytes) = LineLength)

(* The software gets the bytes of the peer in order, each once and without *)
(* a gap, wherever in a bit of the receiver the sender's edges fall, and   *)
(* puts them together into the lines that were sent.  Nothing would tell   *)
(* it of an overrun.                                                       *)
LosesNothing == ReceivesFrames /\ NothingOverrun /\ LineIsRead

(* To the software the receiver is a ByteLink: the byte in RDR is the next *)
(* one sent, rxne rises with it and falls when it is taken, whatever the   *)
(* phase of the two clocks and however an arrival and a read collide.      *)
Link == INSTANCE ByteLink WITH
  LinkBytes <- PeerBytes, NoData <- Zero, inflight <- arriving, rxne <- sr.rxne

RefinesByteLink == Link!LinkSpec

(* The peer receives every byte written, once, with its stop bit, before   *)
(* write() returns.                                                        *)
WriteDelivers ==
  /\ heard \in {NoByte, Prompt}
  /\ api = "none" => wait = 0
  /\ todo # <<>> /\ Head(todo) = PollOf("rxne") => heard = Prompt

(* The boot ends, and every line is read.                                  *)
CallsReturn == api # "none" ~> api = "none"

=============================================================================
