----------------------------- MODULE Bootloader -----------------------------
(***************************************************************************)
(* The bootloader from reset to the jump into the code RAM.  It can be     *)
(* reset at any moment: the code RAM keeps what it holds, everything else  *)
(* in the chip and the flash start afresh, and a computer that is sending  *)
(* an image over the UART does not notice before it sees a new prompt.     *)
(*                                                                         *)
(* The bytes come over the links SpiBoot and UartBoot are about.  Every    *)
(* text is printed with the NUL that ends it; the one of the UART prompt   *)
(* is a step of its own, as the computer may begin to send meanwhile.      *)
(***************************************************************************)
EXTENDS Naturals, Sequences

CONSTANTS
  CodeWords,      \* words of the code RAM (4096)
  BytesPerWord,   \* bytes in a word (4)
  Bytes,          \* values of a byte
  Image,          \* bytes the flash ("spi") and the computer ("uart") hold
  PowerUpWord,    \* what a word of the code RAM holds after power-up
  MaxResets       \* resets in a run

ASSUME BootAssumption == CodeWords \in Nat \ {0} /\ BytesPerWord \in Nat \ {0}

\* The loader takes as many bytes as the code RAM has, whatever the program's size.
ASSUME ImageAssumption ==
  /\ Image \in [{"spi", "uart"} -> Seq(Bytes)]
  /\ \A s \in {"spi", "uart"} : Len(Image[s]) >= CodeWords * BytesPerWord

VARIABLES
  step,         \* where in main() the bootloader is
  source,       \* "spi", "uart" or "skipped"
  bytes,        \* bytes of the word being put together
  loaded,       \* words stored since the load began
  code_ram,
  mtvec,        \* the trap vector: in the boot ROM or in the code RAM
  finished,     \* the bootloader-finished pin
  flash,        \* bytes the flash has handed out since the reset
  rdr, rxne,    \* the receive registers of the UART
  sending,      \* index of the byte the computer sends next, 0 for none
  stream,       \* history: bytes it sent since the prompt was readable
  resets,
  keeps         \* the computer goes on sending when the chip is reset; or it
                \* is reset between two bytes and the computer stops

linkVars == <<rdr, rxne>>
cpuVars  == <<step, source, bytes, loaded, code_ram, mtvec, finished>>
vars     == <<cpuVars, linkVars, flash, sending, stream, resets, keeps>>

NoByte == "none"

Link == INSTANCE ByteLink WITH LinkBytes <- {}, NoData <- NoByte, inflight <- <<>>

-----------------------------------------------------------------------------
(* main() of the bootloader. *)

ChecksSkippingPin ==
  /\ step = "started"
  /\ \/ step' = "loaded" /\ source' = "skipped"
     \/ step' = "not_skipped" /\ UNCHANGED source
  /\ UNCHANGED <<bytes, loaded, code_ram, mtvec, finished, linkVars, flash, sending, stream, resets, keeps>>

\* (slip) Each source is announced as the other one.
ChecksSourcePinSwapped ==
  /\ step = "not_skipped"
  /\ \/ /\ source' = "uart" /\ step' = "load"
        /\ UNCHANGED <<sending, stream>>
     \/ /\ source' = "spi" /\ step' = "prompted"
        /\ sending' = 1 /\ stream' = <<>>
  /\ bytes' = <<>> /\ loaded' = 0
  /\ UNCHANGED <<code_ram, mtvec, finished, linkVars, flash, resets, keeps>>

\* The text that names the UART is what the computer waits for.
ChecksSourcePin ==
  /\ step = "not_skipped"
  /\ \/ /\ source' = "uart" /\ step' = "prompted"
        /\ sending' = 1 /\ stream' = <<>>
     \/ /\ source' = "spi" /\ step' = "load"
        /\ UNCHANGED <<sending, stream>>
  /\ bytes' = <<>> /\ loaded' = 0
  /\ UNCHANGED <<code_ram, mtvec, finished, linkVars, flash, resets, keeps>>

EndsPrompt ==
  /\ step = "prompted"
  /\ step' = "load"
  /\ UNCHANGED <<source, bytes, loaded, code_ram, mtvec, finished,
                 linkVars, flash, sending, stream, resets, keeps>>

\* (slip) The last word is not loaded.
LastWordEarly(words) == words >= CodeWords - 1

LastWord(words) == words >= CodeWords

\* A byte read goes into the word, a whole word into the code RAM.
Loads(byte) ==
  LET word == Append(bytes, byte)
      whole == Len(word) = BytesPerWord
  IN  /\ step = "load"
      /\ code_ram' = IF whole THEN [code_ram EXCEPT ![loaded] = word] ELSE code_ram
      /\ bytes' = IF whole THEN <<>> ELSE word
      /\ loaded' = IF whole THEN loaded + 1 ELSE loaded
      /\ step' = IF LastWord(loaded') THEN "loaded" ELSE "load"
      /\ UNCHANGED <<source, mtvec, finished, sending, stream, resets, keeps>>

LoadsThroughSpi ==
  /\ source = "spi"
  /\ Loads(Image["spi"][flash + 1])
  /\ flash' = flash + 1
  /\ UNCHANGED linkVars

LoadsThroughUart ==
  /\ source = "uart"
  /\ Loads(rdr)
  /\ Link!Takes
  /\ UNCHANGED flash

\* uart.read() polls until there is a byte.
Polls == step = "load" /\ source = "uart" /\ ~rxne /\ UNCHANGED vars

SetsPin ==
  /\ step = "loaded"
  /\ mtvec' = "code_ram"
  /\ finished' = TRUE
  /\ step' = "finished"
  /\ UNCHANGED <<source, bytes, loaded, code_ram, linkVars, flash, sending, stream, resets, keeps>>

Jumps ==
  /\ step = "finished"
  /\ step' = "running"
  /\ UNCHANGED <<source, bytes, loaded, code_ram, mtvec, finished,
                 linkVars, flash, sending, stream, resets, keeps>>

Software ==
  \/ ChecksSkippingPin \/ ChecksSourcePin \/ EndsPrompt
  \/ LoadsThroughSpi \/ LoadsThroughUart \/ Polls
  \/ SetsPin \/ Jumps

-----------------------------------------------------------------------------
(* The world around it. *)

\* What is left of a frame the reset fell in is taken for a byte.
Fragment == "fragment"

\* One byte at most arrives in the time of the prompt's NUL, and none before
\* the last one is taken while the software reads.  The computer lets a frame
\* pass before it answers a prompt, so that the receiver finds its start bit.
ComputerSends ==
  /\ sending # 0
  /\ step = "prompted" => stream = <<>>
  /\ step = "load" /\ source = "uart" => ~rxne
  /\ \/ Link!Delivers(Image["uart"][sending])
     \/ step \notin {"prompted", "load"} /\ Link!Delivers(Fragment)
  /\ sending' = IF sending = Len(Image["uart"]) THEN 0 ELSE sending + 1
  /\ stream' = IF step \in {"prompted", "load"} THEN Append(stream, Image["uart"][sending])
               ELSE stream
  /\ UNCHANGED <<cpuVars, flash, resets, keeps>>

Reset ==
  /\ resets < MaxResets
  /\ resets' = resets + 1
  /\ step' = "started" /\ source' = "skipped" /\ bytes' = <<>> /\ loaded' = 0
  /\ mtvec' = "boot_rom" /\ finished' = FALSE
  /\ flash' = 0 /\ stream' = <<>>
  /\ rdr' = NoByte /\ rxne' = FALSE
  /\ sending' = IF keeps THEN sending ELSE 0
  /\ UNCHANGED <<code_ram, keeps>>

Runs == step = "running" /\ UNCHANGED vars

Init ==
  /\ step = "started" /\ source = "skipped" /\ bytes = <<>> /\ loaded = 0
  /\ code_ram = [i \in 0 .. CodeWords - 1 |-> PowerUpWord]
  /\ mtvec = "boot_rom" /\ finished = FALSE
  /\ flash = 0 /\ sending = 0 /\ stream = <<>> /\ resets = 0
  /\ keeps \in BOOLEAN
  /\ Link!LinkInit

Next == Software \/ ComputerSends \/ Reset \/ Runs

\* The software gets on, and the computer sends what it was asked for.
Spec == Init /\ [][Next]_vars /\ WF_vars(Software) /\ WF_vars(ComputerSends)

-----------------------------------------------------------------------------
\* The i-th word of an image.
WordOf(s, i) == [k \in 1 .. BytesPerWord |-> Image[s][i * BytesPerWord + k]]

\* The whole image of the source chosen is loaded, and will take the traps.
FinishedMeansLoaded ==
  finished => /\ source # "skipped" =>
                   \A i \in 0 .. CodeWords - 1 : code_ram[i] = WordOf(source, i)
              /\ mtvec = "code_ram"

\* The words come from one image or both, each at its place.
WordsInPlace ==
  \A i \in 0 .. CodeWords - 1 :
    code_ram[i] \in {PowerUpWord} \union {WordOf(s, i) : s \in {"spi", "uart"}}

(* Once the finished pin is up and a source was chosen, the code RAM holds *)
(* the whole image of that source, whatever was loaded, in whole or in     *)
(* part, before the resets; a load that is skipped runs what the earlier   *)
(* ones left, complete or not, but with no word out of its place.          *)
CodeRamHoldsImages == ~keeps => FinishedMeansLoaded /\ WordsInPlace

\* Bytes received since the load began, the one in RDR included.
Received == loaded * BytesPerWord + Len(bytes) + (IF rxne THEN 1 ELSE 0)

\* The n-th of them is what was sent, but for the first few.
AsSent(n, byte, strays) == n > strays => byte = stream[n - strays]

HoldsStream(strays) ==
  /\ Received = Len(stream) + strays
  /\ \A i \in 0 .. loaded - 1 : \A k \in 1 .. BytesPerWord :
       AsSent(i * BytesPerWord + k, code_ram[i][k], strays)
  /\ \A k \in 1 .. Len(bytes) : AsSent(loaded * BytesPerWord + k, bytes[k], strays)
  /\ rxne => AsSent(Received, rdr, strays)

(* While the image comes over the UART, what is in the code RAM is what    *)
(* was sent since the prompt, in order and without a gap, with at most one *)
(* byte of an interrupted transfer before it: RDR is read without a look   *)
(* at what was in it when the load began.                                  *)
LoadsStream ==
  step = "load" /\ source = "uart" => \E strays \in {0, 1} : HoldsStream(strays)

(* The boot comes to its end, after the last reset, if the computer does   *)
(* send a whole image.                                                     *)
BootEnds == ~keeps ~> step = "running"

=============================================================================
