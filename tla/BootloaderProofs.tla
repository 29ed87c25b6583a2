-------------------------- MODULE BootloaderProofs --------------------------
(***************************************************************************)
(* The bootloader loads what it was sent, for any size of the code RAM and *)
(* of its words, any images and any number of resets.                      *)
(***************************************************************************)
EXTENDS Bootloader, SequenceTheorems, TLAPS

RdrValues == Bytes \union {NoByte, Fragment}

TypeInv ==
  /\ step \in {"started", "not_skipped", "prompted", "load", "loaded", "finished", "running"}
  /\ source \in {"spi", "uart", "skipped"}
  /\ bytes \in Seq(RdrValues) /\ Len(bytes) < BytesPerWord
  /\ loaded \in Nat
  /\ DOMAIN code_ram = 0 .. CodeWords - 1
  /\ rdr \in RdrValues /\ rxne \in BOOLEAN
  /\ sending \in 0 .. Len(Image["uart"])
  /\ stream \in Seq(Bytes)
  /\ keeps \in BOOLEAN
  /\ step = "prompted" => source = "uart" /\ bytes = <<>> /\ loaded = 0
  /\ step = "load" => source \in {"spi", "uart"} /\ loaded < CodeWords

\* The flash has handed out what is loaded.
Fetching ==
  /\ step \in {"started", "not_skipped"} => flash = 0
  /\ step = "load" /\ source = "spi" => flash = loaded * BytesPerWord + Len(bytes)

(* The stream is what was received, but for a byte that lay in RDR.  Until *)
(* the load begins it holds at most one byte.                              *)
Streaming ==
  /\ step = "prompted" => Len(stream) <= 1
  /\ step \in {"prompted", "load"} /\ source = "uart" =>
       \E strays \in {0, 1} : HoldsStream(strays)

(* A computer that stops at a reset is where the loader is: what was       *)
(* received is the beginning of its image.                                 *)
After(n) == IF n = Len(Image["uart"]) THEN 0 ELSE n + 1

InStep ==
  /\ step \in {"started", "not_skipped"} \/ source # "uart" => sending = 0 /\ ~rxne
  /\ step \in {"prompted", "load"} /\ source = "uart" =>
       /\ sending = After(Received)
       /\ step = "prompted" => Len(stream) = Received
       /\ rxne => rdr = Image["uart"][Received]

(* The bytes of the word and the words loaded are those of the image, the  *)
(* rest of the code RAM was loaded before.                                 *)
LoadsImage ==
  /\ step = "load" =>
       /\ \A k \in 1 .. Len(bytes) : bytes[k] = Image[source][loaded * BytesPerWord + k]
       /\ \A i \in 0 .. loaded - 1 : code_ram[i] = WordOf(source, i)
  /\ step \in {"loaded", "finished", "running"} /\ source # "skipped" =>
       \A i \in 0 .. CodeWords - 1 : code_ram[i] = WordOf(source, i)
  /\ WordsInPlace

PinTells ==
  finished => step \in {"finished", "running"} /\ mtvec = "code_ram"

BootInv ==
  /\ TypeInv
  /\ Fetching
  /\ Streaming
  /\ ~keeps => InStep /\ LoadsImage
  /\ PinTells

-----------------------------------------------------------------------------
(* Places of bytes and words. *)

LEMMA Distributes ==
  ASSUME NEW a \in Int, NEW b \in Int, NEW c \in Int
  PROVE  (a + b) * c = a * c + b * c
  OBVIOUS

\* The bytes of a word loaded come before those of the word after the last.
LEMMA WordsBefore ==
  ASSUME NEW words \in Nat, NEW i \in 0 .. words - 1, NEW k \in 1 .. BytesPerWord
  PROVE  /\ i * BytesPerWord \in Nat
         /\ i * BytesPerWord + k \in 1 .. words * BytesPerWord
<1> DEFINE rest == words - 1 - i
<1>1. {rest, i + 1, BytesPerWord, 1, i} \subseteq Int /\ rest \in Nat /\ i \in Nat
      /\ BytesPerWord \in Nat /\ rest + (i + 1) = words
  BY BootAssumption
<1> HIDE DEF rest
<1>2. (rest + (i + 1)) * BytesPerWord = rest * BytesPerWord + (i + 1) * BytesPerWord
  BY <1>1, Distributes, ZenonT(40)
<1>3. (i + 1) * BytesPerWord = i * BytesPerWord + 1 * BytesPerWord
  BY <1>1, Distributes, ZenonT(40)
<1>4. 1 * BytesPerWord = BytesPerWord
  BY <1>1
<1>5. rest * BytesPerWord \in Nat /\ i * BytesPerWord \in Nat
  BY <1>1
<1>6. QED
  BY <1>1, <1>2, <1>3, <1>4, <1>5

LEMMA NextWord ==
  ASSUME NEW words \in Nat
  PROVE  /\ words * BytesPerWord \in Nat
         /\ (words + 1) * BytesPerWord = words * BytesPerWord + BytesPerWord
<1>1. {words, 1, BytesPerWord} \subseteq Int /\ BytesPerWord \in Nat
  BY BootAssumption
<1>2. (words + 1) * BytesPerWord = words * BytesPerWord + 1 * BytesPerWord
  BY <1>1, Distributes, Zenon
<1>3. 1 * BytesPerWord = BytesPerWord /\ words * BytesPerWord \in Nat
  BY <1>1
<1>4. QED
  BY <1>2, <1>3

LEMMA InRam ==
  ASSUME NEW i \in Nat, i < CodeWords
  PROVE  CodeWords \in Nat /\ i \in 0 .. CodeWords - 1
  BY BootAssumption

LEMMA ImageByte ==
  ASSUME NEW s \in {"spi", "uart"}, NEW n \in 1 .. CodeWords * BytesPerWord
  PROVE  n \in 1 .. Len(Image[s]) /\ Image[s][n] \in Bytes
<1>1. Image[s] \in Seq(Bytes) /\ Len(Image[s]) >= CodeWords * BytesPerWord
  BY ImageAssumption
<1>2. Len(Image[s]) \in Nat /\ Image[s] \in [1 .. Len(Image[s]) -> Bytes]
  BY <1>1, LenProperties
<1>3. n \in 1 .. Len(Image[s])
  BY <1>1, <1>2, BootAssumption
<1>4. QED
  BY <1>2, <1>3

-----------------------------------------------------------------------------
LEMMA InitEstablishes == Init => BootInv
<1> SUFFICES ASSUME Init PROVE BootInv
  OBVIOUS
<1> USE DEF Init, Link!LinkInit
<1>1. <<>> \in Seq(RdrValues) /\ <<>> \in Seq(Bytes) /\ Len(<<>>) = 0
  BY EmptySeq
<1>2. Len(Image["uart"]) \in Nat
  BY ImageAssumption, LenProperties
<1>3. TypeInv
  <2>1. bytes \in Seq(RdrValues) /\ Len(bytes) < BytesPerWord /\ stream \in Seq(Bytes)
    BY <1>1, BootAssumption
  <2>2. rdr \in RdrValues /\ rxne \in BOOLEAN /\ keeps \in BOOLEAN
    BY DEF RdrValues
  <2>3. loaded \in Nat /\ sending \in 0 .. Len(Image["uart"])
    BY <1>2
  <2>4. DOMAIN code_ram = 0 .. CodeWords - 1
    OBVIOUS
  <2>5. QED
    BY <2>1, <2>2, <2>3, <2>4 DEF TypeInv
<1>4. Fetching /\ Streaming
  BY DEF Fetching, Streaming
<1>5. InStep /\ LoadsImage
  BY DEF InStep, LoadsImage, WordsInPlace
<1>6. PinTells
  BY DEF PinTells
<1>7. QED
  BY <1>3, <1>4, <1>5, <1>6 DEF BootInv

-----------------------------------------------------------------------------
(* The steps that load nothing. *)

LEMMA SkippingInv == BootInv /\ ChecksSkippingPin => BootInv'
<1> SUFFICES ASSUME BootInv, ChecksSkippingPin PROVE BootInv'
  OBVIOUS
<1> USE DEF ChecksSkippingPin, linkVars
<1>1. TypeInv'
  BY DEF BootInv, TypeInv
<1>2. Fetching' /\ Streaming'
  BY DEF BootInv, Fetching, Streaming
<1>3. ~keeps => InStep' /\ LoadsImage'
  BY DEF BootInv, InStep, LoadsImage, WordsInPlace, WordOf
<1>4. PinTells'
  BY DEF BootInv, PinTells
<1>5. QED
  BY <1>1, <1>2, <1>3, <1>4 DEF BootInv

LEMMA ImageNotEmpty == Len(Image["uart"]) \in Nat \ {0}
<1>1. CodeWords \in Nat /\ 0 \in 0 .. CodeWords - 1 /\ 1 \in 1 .. BytesPerWord
  BY BootAssumption
<1>2. 0 * BytesPerWord + 1 \in 1 .. CodeWords * BytesPerWord
  BY <1>1, WordsBefore
<1>3. 0 * BytesPerWord + 1 = 1
  BY BootAssumption
<1>4. 1 \in 1 .. Len(Image["uart"])
  BY <1>2, <1>3, ImageByte
<1>5. Len(Image["uart"]) \in Nat
  BY ImageAssumption, LenProperties
<1>6. QED
  BY <1>4, <1>5

LEMMA NothingReceived ==
  ASSUME loaded = 0, bytes = <<>>
  PROVE  Received = IF rxne THEN 1 ELSE 0
  BY BootAssumption, EmptySeq DEF Received

LEMMA NothingReceivedNext ==
  ASSUME loaded' = 0, bytes' = <<>>
  PROVE  Received' = IF rxne' THEN 1 ELSE 0
  BY BootAssumption, EmptySeq DEF Received

LEMMA SourceInv == BootInv /\ ChecksSourcePin => BootInv'
<1> SUFFICES ASSUME BootInv, ChecksSourcePin PROVE BootInv'
  OBVIOUS
<1>1. <<>> \in Seq(RdrValues) /\ <<>> \in Seq(Bytes) /\ Len(<<>>) = 0
  BY EmptySeq
<1>0. Len(bytes') = 0 /\ loaded' = 0 /\ bytes' \in Seq(RdrValues)
  BY <1>1 DEF ChecksSourcePin
<1>b. Len(bytes') < BytesPerWord /\ loaded' \in Nat /\ loaded' < CodeWords
  BY <1>0, BootAssumption
<1>c. 1 .. Len(bytes') = {} /\ 0 .. loaded' - 1 = {}
  BY <1>0
<1>2. step = "not_skipped" /\ loaded' = 0 /\ bytes' = <<>>
      /\ UNCHANGED <<code_ram, mtvec, finished, rdr, rxne, flash, keeps>>
  BY DEF ChecksSourcePin, linkVars
<1>3. \/ source' = "uart" /\ step' = "prompted" /\ sending' = 1 /\ stream' = <<>>
      \/ source' = "spi" /\ step' = "load" /\ UNCHANGED <<sending, stream>>
  BY DEF ChecksSourcePin
<1>4. TypeInv'
  <2>1. sending' \in 0 .. Len(Image["uart"]) /\ stream' \in Seq(Bytes)
    <3>1. sending \in 0 .. Len(Image["uart"]) /\ stream \in Seq(Bytes)
      BY DEF BootInv, TypeInv
    <3>2. 1 \in 0 .. Len(Image["uart"])
      BY ImageNotEmpty
    <3>3. QED
      BY <1>1, <1>3, <3>1, <3>2
  <2>2. QED
    BY <1>0, <1>b, <1>2, <1>3, <2>1 DEF BootInv, TypeInv
<1>5. Fetching'
  <2>1. flash' = 0
    BY <1>2 DEF BootInv, Fetching
  <2>2. loaded' * BytesPerWord + Len(bytes') = 0
    BY <1>0, BootAssumption
  <2>3. QED
    BY <1>3, <2>1, <2>2 DEF Fetching
<1>6. Streaming'
  <2>1. CASE step' = "prompted"
    <3>1. stream' = <<>> /\ Len(stream') = 0
      BY <1>1, <1>3, <2>1
    <3>2. Received' = IF rxne' THEN 1 ELSE 0
      BY <1>2, NothingReceivedNext
    <3>3. 1 .. Len(bytes') = {} /\ 0 .. loaded' - 1 = {}
      BY <1>c
    <3>4. CASE rxne'
      <4>1. HoldsStream(1)'
        BY <3>1, <3>2, <3>3, <3>4 DEF HoldsStream, AsSent
      <4>2. QED
        BY <3>1, <4>1 DEF Streaming
    <3>5. CASE ~rxne'
      <4>1. HoldsStream(0)'
        BY <3>1, <3>2, <3>3, <3>5 DEF HoldsStream
      <4>2. QED
        BY <3>1, <4>1 DEF Streaming
    <3>6. QED
      BY <3>4, <3>5
  <2>2. QED
    BY <1>3, <2>1 DEF Streaming
<1>7. ~keeps => InStep' /\ LoadsImage'
  <2> SUFFICES ASSUME ~keeps PROVE InStep' /\ LoadsImage'
    OBVIOUS
  <2>1. sending = 0 /\ ~rxne
    BY <1>2 DEF BootInv, InStep
  <2>2. InStep'
    <3>1. CASE step' = "prompted"
      <4>1. Received' = 0
        BY <1>2, <2>1, NothingReceivedNext
      <4>2. sending' = After(Received')
        BY <1>3, <3>1, <4>1, ImageNotEmpty DEF After
      <4>3. QED
        BY <1>1, <1>2, <1>3, <2>1, <3>1, <4>1, <4>2 DEF InStep
    <3>2. QED
      BY <1>2, <1>3, <2>1, <3>1 DEF InStep
  <2>3. LoadsImage'
    <3>1. QED
      BY <1>c, <1>2, <1>3 DEF BootInv, LoadsImage, WordsInPlace, WordOf
  <2>4. QED
    BY <2>2, <2>3
<1>8. PinTells'
  BY <1>2, <1>3 DEF BootInv, PinTells
<1>9. QED
  BY <1>2, <1>4, <1>5, <1>6, <1>7, <1>8 DEF BootInv

LEMMA PromptInv == BootInv /\ EndsPrompt => BootInv'
<1> SUFFICES ASSUME BootInv, EndsPrompt PROVE BootInv'
  OBVIOUS
<1> USE DEF EndsPrompt, linkVars
<1>1. source = "uart" /\ bytes = <<>> /\ loaded = 0 /\ Len(bytes) = 0
  BY EmptySeq DEF BootInv, TypeInv
<1>2. TypeInv'
  BY <1>1, BootAssumption DEF BootInv, TypeInv
<1>3. Fetching' /\ Streaming'
  BY <1>1 DEF BootInv, Fetching, Streaming, HoldsStream, AsSent, Received
<1>4. ~keeps => InStep' /\ LoadsImage'
  BY <1>1 DEF BootInv, InStep, LoadsImage, WordsInPlace, WordOf, Received
<1>5. PinTells'
  BY DEF BootInv, PinTells
<1>6. QED
  BY <1>2, <1>3, <1>4, <1>5 DEF BootInv

LEMMA EndInv == BootInv /\ (SetsPin \/ Jumps) => BootInv'
<1> SUFFICES ASSUME BootInv, SetsPin \/ Jumps PROVE BootInv'
  OBVIOUS
<1> USE DEF SetsPin, Jumps, linkVars
<1>1. TypeInv'
  BY DEF BootInv, TypeInv
<1>2. Fetching' /\ Streaming'
  BY DEF BootInv, Fetching, Streaming
<1>3. ~keeps => InStep' /\ LoadsImage'
  BY DEF BootInv, InStep, LoadsImage, WordsInPlace, WordOf
<1>4. PinTells'
  BY DEF BootInv, PinTells
<1>5. QED
  BY <1>1, <1>2, <1>3, <1>4 DEF BootInv

LEMMA ResetInv == BootInv /\ Reset => BootInv'
<1> SUFFICES ASSUME BootInv, Reset PROVE BootInv'
  OBVIOUS
<1> USE DEF Reset
<1>1. <<>> \in Seq(RdrValues) /\ <<>> \in Seq(Bytes) /\ Len(<<>>) = 0
  BY EmptySeq
<1>2. Len(Image["uart"]) \in Nat
  BY ImageAssumption, LenProperties
<1>3. TypeInv'
  <2>1. rdr' \in RdrValues
    BY DEF RdrValues
  <2>2. sending' \in 0 .. Len(Image["uart"])
    <3>1. sending' \in {0, sending} /\ sending \in 0 .. Len(Image["uart"])
      BY DEF BootInv, TypeInv
    <3>2. QED
      BY <1>2, <3>1
  <2>3. Len(bytes') < BytesPerWord /\ bytes' \in Seq(RdrValues) /\ stream' \in Seq(Bytes)
    BY <1>1, BootAssumption
  <2>4. QED
    BY <2>1, <2>2, <2>3 DEF BootInv, TypeInv
<1>4. Fetching' /\ Streaming'
  BY DEF Fetching, Streaming
<1>5. ~keeps => InStep' /\ LoadsImage'
  BY DEF BootInv, InStep, LoadsImage, WordsInPlace, WordOf
<1>6. PinTells'
  BY DEF PinTells
<1>7. QED
  BY <1>3, <1>4, <1>5, <1>6 DEF BootInv

-----------------------------------------------------------------------------
(* A byte is sent. *)

LEMMA SendsNext ==
  ASSUME BootInv, ComputerSends
  PROVE  /\ sending \in 1 .. Len(Image["uart"]) /\ sending' = After(sending)
         /\ sending' \in 0 .. Len(Image["uart"])
         /\ Image["uart"][sending] \in Bytes
<1>1. sending \in 0 .. Len(Image["uart"])
  BY DEF BootInv, TypeInv
<1>2. sending # 0 /\ sending' = After(sending)
  BY DEF ComputerSends, After
<1>3. sending \in 1 .. Len(Image["uart"])
  BY <1>1, <1>2, ImageNotEmpty
<1>4. sending' \in 0 .. Len(Image["uart"])
  BY <1>2, <1>3, ImageNotEmpty DEF After
<1>5. Image["uart"] \in Seq(Bytes)
  BY ImageAssumption
<1>6. Image["uart"] \in [1 .. Len(Image["uart"]) -> Bytes]
  BY <1>5, LenProperties
<1>7. QED
  BY <1>2, <1>3, <1>4, <1>6

\* The byte that is sent goes to the end of the stream, and into RDR.
LEMMA StreamGrows ==
  ASSUME BootInv, ComputerSends, step \in {"prompted", "load"}, source = "uart"
  PROVE  /\ stream' \in Seq(Bytes) /\ Len(stream') = Len(stream) + 1
         /\ \A n \in 1 .. Len(stream) : stream'[n] = stream[n]
         /\ rxne' = TRUE /\ rdr' = Image["uart"][sending]
         /\ stream'[Len(stream')] = rdr' /\ rdr' \in Bytes
         /\ sending \in 1 .. Len(Image["uart"]) /\ sending' = After(sending)
<1>1. sending \in 1 .. Len(Image["uart"]) /\ sending' = After(sending)
  BY SendsNext
<1>2. Image["uart"][sending] \in Bytes
  BY SendsNext
<1>3. stream' = Append(stream, Image["uart"][sending])
  BY DEF ComputerSends
<1>4. rxne' = TRUE /\ rdr' = Image["uart"][sending]
  BY DEF ComputerSends, Link!Delivers
<1>5. stream \in Seq(Bytes)
  BY DEF BootInv, TypeInv
<1>6. Len(stream) \in Nat
  BY <1>5, LenProperties
<1>7. QED
  BY <1>1, <1>2, <1>3, <1>4, <1>5, <1>6, AppendProperties

LEMMA SendInv == BootInv /\ ComputerSends => BootInv'
<1> SUFFICES ASSUME BootInv, ComputerSends PROVE BootInv'
  OBVIOUS
<1>1. UNCHANGED <<step, source, bytes, loaded, code_ram, mtvec, finished, flash, keeps>>
  BY DEF ComputerSends, cpuVars
<1>2. CASE step \in {"prompted", "load"} /\ source = "uart"
  <2>0. /\ stream' \in Seq(Bytes) /\ Len(stream') = Len(stream) + 1
        /\ \A n \in 1 .. Len(stream) : stream'[n] = stream[n]
        /\ rxne' = TRUE /\ rdr' = Image["uart"][sending]
        /\ stream'[Len(stream')] = rdr' /\ rdr' \in Bytes
        /\ sending \in 1 .. Len(Image["uart"]) /\ sending' = After(sending)
    BY <1>2, StreamGrows
  <2>1. Len(stream) \in Nat /\ Len(bytes) \in Nat /\ loaded \in Nat
        /\ loaded * BytesPerWord \in Nat /\ rxne \in BOOLEAN
    <3>1. stream \in Seq(Bytes) /\ bytes \in Seq(RdrValues) /\ loaded \in Nat /\ rxne \in BOOLEAN
      BY DEF BootInv, TypeInv
    <3>2. QED
      BY <3>1, LenProperties, NextWord
  <2> DEFINE before == loaded * BytesPerWord + Len(bytes)
  <2>2. Received' = before + 1 /\ before \in Nat
    <3>1. Received' = before + 1
      BY <1>1, <2>0 DEF Received
    <3>2. QED
      BY <2>1, <3>1
  <2>3. Received = before + (IF rxne THEN 1 ELSE 0)
    BY DEF Received
  <2> HIDE DEF before
  <2>4. Streaming'
    <3>1. step = "prompted" => stream = <<>> /\ Len(stream) = 0
      BY EmptySeq DEF ComputerSends
    <3>2. step = "load" => ~rxne
      BY <1>2 DEF ComputerSends
    <3>3. PICK strays \in {0, 1} : HoldsStream(strays)
      BY <1>2 DEF BootInv, Streaming
    <3>4. CASE ~rxne
      <4>1. before = Len(stream) + strays
        BY <2>2, <2>3, <3>3, <3>4 DEF HoldsStream
      <4>2. Received' = Len(stream') + strays
        BY <2>0, <2>1, <2>2, <4>1
      <4>3. ASSUME NEW n \in 1 .. before, NEW byte, AsSent(n, byte, strays)
            PROVE  n > strays => byte = stream'[n - strays]
        <5>1. n > strays => n - strays \in 1 .. Len(stream)
          BY <2>1, <2>2, <4>1
        <5>2. QED
          BY <1>2, <4>3, <5>1, <2>0 DEF AsSent
      <4>4. ASSUME NEW i \in 0 .. loaded - 1, NEW k \in 1 .. BytesPerWord
            PROVE  AsSent(i * BytesPerWord + k, code_ram[i][k], strays)'
        <5>1. AsSent(i * BytesPerWord + k, code_ram[i][k], strays)
          BY <3>3 DEF HoldsStream
        <5>2. i * BytesPerWord + k \in 1 .. before
          BY <2>1, WordsBefore DEF before
        <5>3. QED
          BY <1>1, <4>3, <5>1, <5>2 DEF AsSent
      <4>5. ASSUME NEW k \in 1 .. Len(bytes)
            PROVE  AsSent(loaded * BytesPerWord + k, bytes[k], strays)'
        <5>1. AsSent(loaded * BytesPerWord + k, bytes[k], strays)
          BY <3>3 DEF HoldsStream
        <5>2. loaded * BytesPerWord + k \in 1 .. before
          BY <2>1 DEF before
        <5>3. QED
          BY <1>1, <4>3, <5>1, <5>2 DEF AsSent
      <4>6. AsSent(Received, rdr, strays)'
        <5>1. Received' - strays = Len(stream')
          BY <1>2, <2>1, <4>2, <2>0
        <5>2. QED
          BY <1>2, <5>1, <2>0 DEF AsSent
      <4>7. HoldsStream(strays)'
        BY <1>1, <4>2, <4>4, <4>5, <4>6 DEF HoldsStream
      <4>8. step' = "prompted" => Len(stream') <= 1
        BY <1>1, <1>2, <3>1, <2>0
      <4>9. QED
        BY <4>7, <4>8 DEF Streaming
    <3>5. CASE rxne
      <4>1. step = "prompted"
        BY <1>2, <3>2, <3>5
      <4>2. Len(bytes) = 0 /\ loaded = 0
        BY <4>1, EmptySeq DEF BootInv, TypeInv
      <4>3. before = 0 /\ Received' = 1 /\ Len(stream') = 1
        BY <1>2, <2>2, <3>1, <4>1, <4>2, BootAssumption, <2>0 DEF before
      <4>4. 1 .. Len(bytes') = {} /\ 0 .. loaded' - 1 = {}
        BY <1>1, <4>2
      <4>5. AsSent(Received, rdr, 0)'
        BY <1>2, <4>3, <2>0 DEF AsSent
      <4>6. HoldsStream(0)'
        BY <4>3, <4>4, <4>5 DEF HoldsStream
      <4>7. QED
        BY <4>3, <4>6 DEF Streaming
    <3>6. QED
      BY <3>4, <3>5
  <2>5. TypeInv'
    <3>1. rdr' \in RdrValues /\ rxne' \in BOOLEAN
      BY <1>2, <2>0 DEF RdrValues
    <3>2. sending' \in 0 .. Len(Image["uart"])
      BY SendsNext
    <3>3. QED
      BY <1>1, <1>2, <3>1, <3>2, <2>0 DEF BootInv, TypeInv
  <2>6. ~keeps => InStep'
    <3> SUFFICES ASSUME ~keeps PROVE InStep'
      OBVIOUS
    <3>1. sending = After(Received) /\ (step = "prompted" => Len(stream) = Received)
      BY <1>2 DEF BootInv, InStep
    <3>2. step = "prompted" => stream = <<>> /\ Len(stream) = 0
      BY EmptySeq DEF ComputerSends
    <3>3. step = "load" => ~rxne
      BY <1>2 DEF ComputerSends
    <3>4. ~rxne
      BY <1>2, <2>1, <2>2, <2>3, <3>1, <3>2, <3>3
    <3>5. Received = before
      BY <2>2, <2>3, <3>4
    <3>6. sending = Received'
      BY <1>2, <2>2, <3>1, <3>5, <2>0 DEF After
    <3>7. step' = "prompted" => Len(stream') = Received'
      BY <1>1, <1>2, <2>2, <3>1, <3>2, <3>5, <2>0
    <3>8. QED
      BY <1>1, <1>2, <3>6, <3>7, <2>0 DEF InStep
  <2>7. Fetching' /\ (~keeps => LoadsImage') /\ PinTells'
    BY <1>1 DEF BootInv, Fetching, LoadsImage, PinTells, WordsInPlace, WordOf
  <2>8. QED
    BY <1>1, <2>4, <2>5, <2>6, <2>7 DEF BootInv
<1>3. CASE ~(step \in {"prompted", "load"} /\ source = "uart")
  <2>1. sending \in 1 .. Len(Image["uart"]) /\ sending' \in 0 .. Len(Image["uart"])
    BY SendsNext
  <2>2. Image["uart"][sending] \in Bytes
    BY SendsNext
  <2>3. stream' \in {stream, Append(stream, Image["uart"][sending])}
    BY DEF ComputerSends
  <2>4. stream' \in Seq(Bytes)
    <3>1. stream \in Seq(Bytes)
      BY DEF BootInv, TypeInv
    <3>2. Append(stream, Image["uart"][sending]) \in Seq(Bytes)
      BY <2>2, <3>1, AppendProperties
    <3>3. QED
      BY <2>3, <3>1, <3>2
  <2>5. rdr' \in RdrValues /\ rxne' = TRUE
    BY <2>2 DEF ComputerSends, Link!Delivers, RdrValues
  <2>6. sending' \in 0 .. Len(Image["uart"])
    BY <2>1
  <2>7. step # "prompted"
    BY <1>3 DEF BootInv, TypeInv
  <2>8. TypeInv'
    BY <1>1, <2>4, <2>5, <2>6 DEF BootInv, TypeInv
  <2>9. Streaming'
    BY <1>1, <1>3, <2>7 DEF Streaming
  <2>10. ~keeps => InStep'
    <3>0. sending # 0
      BY DEF ComputerSends
    <3>1. ~keeps => ~(step \in {"started", "not_skipped"} \/ source # "uart")
      BY <3>0 DEF BootInv, InStep
    <3>2. QED
      BY <1>1, <1>3, <3>1 DEF InStep
  <2>11. Fetching' /\ (~keeps => LoadsImage') /\ PinTells'
    BY <1>1 DEF BootInv, Fetching, LoadsImage, PinTells, WordsInPlace, WordOf
  <2>12. QED
    BY <1>1, <2>8, <2>9, <2>10, <2>11 DEF BootInv
<1>4. QED
  BY <1>2, <1>3

-----------------------------------------------------------------------------
(* A byte is loaded. *)

\* It completes a word or it does not; either way it has its place.
LEMMA ByteLoaded ==
  ASSUME BootInv, NEW byte \in RdrValues, Loads(byte)
  PROVE  /\ Append(bytes, byte) \in Seq(RdrValues)
         /\ Len(Append(bytes, byte)) = Len(bytes) + 1
         /\ \A k \in 1 .. Len(bytes) : Append(bytes, byte)[k] = bytes[k]
         /\ Append(bytes, byte)[Len(bytes) + 1] = byte
         /\ loaded \in 0 .. CodeWords - 1 /\ Len(bytes) \in Nat
         /\ \/ /\ Len(bytes) + 1 = BytesPerWord
               /\ bytes' = <<>> /\ Len(bytes') = 0 /\ loaded' = loaded + 1
               /\ code_ram' = [code_ram EXCEPT ![loaded] = Append(bytes, byte)]
            \/ /\ Len(bytes) + 1 < BytesPerWord
               /\ bytes' = Append(bytes, byte) /\ loaded' = loaded
               /\ code_ram' = code_ram
<1>1. bytes \in Seq(RdrValues) /\ Len(bytes) < BytesPerWord
  BY DEF BootInv, TypeInv
<1>2. Len(bytes) \in Nat
  BY <1>1, LenProperties
<1>3. /\ Append(bytes, byte) \in Seq(RdrValues)
      /\ Len(Append(bytes, byte)) = Len(bytes) + 1
      /\ \A k \in 1 .. Len(bytes) : Append(bytes, byte)[k] = bytes[k]
      /\ Append(bytes, byte)[Len(bytes) + 1] = byte
  BY <1>1, AppendProperties
<1>4. loaded \in Nat /\ loaded < CodeWords
  BY DEF BootInv, TypeInv, Loads
<1>5. loaded \in 0 .. CodeWords - 1
  BY <1>4, BootAssumption
<1>6. CASE Len(bytes) + 1 = BytesPerWord
  <2>1. Len(Append(bytes, byte)) = BytesPerWord
    BY <1>3, <1>6
  <2>2. /\ bytes' = <<>> /\ loaded' = loaded + 1
        /\ code_ram' = [code_ram EXCEPT ![loaded] = Append(bytes, byte)]
    BY <2>1 DEF Loads
  <2>3. Len(bytes') = 0
    BY <2>2, EmptySeq
  <2>4. QED
    BY <1>2, <1>3, <1>5, <1>6, <2>2, <2>3
<1>7. CASE Len(bytes) + 1 # BytesPerWord
  <2>1. Len(Append(bytes, byte)) # BytesPerWord
    BY <1>3, <1>7
  <2>2. bytes' = Append(bytes, byte) /\ loaded' = loaded /\ code_ram' = code_ram
    BY <2>1 DEF Loads
  <2>3. Len(bytes) + 1 < BytesPerWord
    BY <1>1, <1>2, <1>7, BootAssumption
  <2>4. QED
    BY <1>2, <1>3, <1>5, <2>2, <2>3
<1>8. QED
  BY <1>6, <1>7

LEMMA PlaceMoves ==
  ASSUME BootInv, NEW byte \in RdrValues, Loads(byte)
  PROVE  /\ loaded * BytesPerWord \in Nat
         /\ loaded' * BytesPerWord + Len(bytes') = loaded * BytesPerWord + Len(bytes) + 1
<1>1. /\ loaded \in Nat /\ Len(bytes) \in Nat /\ Len(Append(bytes, byte)) = Len(bytes) + 1
      /\ \/ Len(bytes) + 1 = BytesPerWord /\ Len(bytes') = 0 /\ loaded' = loaded + 1
         \/ bytes' = Append(bytes, byte) /\ loaded' = loaded
  BY ByteLoaded
<1>2. loaded * BytesPerWord \in Nat
      /\ (loaded + 1) * BytesPerWord = loaded * BytesPerWord + BytesPerWord
  BY <1>1, NextWord
<1>3. CASE Len(bytes) + 1 = BytesPerWord /\ Len(bytes') = 0 /\ loaded' = loaded + 1
  BY <1>1, <1>2, <1>3
<1>4. CASE bytes' = Append(bytes, byte) /\ loaded' = loaded
  BY <1>1, <1>2, <1>4
<1>5. QED
  BY <1>1, <1>2, <1>3, <1>4

LEMMA LoadedTypes ==
  ASSUME BootInv, NEW byte \in RdrValues, Loads(byte)
  PROVE  /\ bytes' \in Seq(RdrValues) /\ Len(bytes') < BytesPerWord
         /\ loaded' \in Nat /\ DOMAIN code_ram' = 0 .. CodeWords - 1
         /\ step' \in {"load", "loaded"}
         /\ step' = "load" => loaded' < CodeWords
         /\ step' = "loaded" => loaded' = CodeWords
         /\ UNCHANGED <<source, sending, stream, keeps, mtvec, finished>>
<1>1. <<>> \in Seq(RdrValues) /\ BytesPerWord \in Nat \ {0} /\ CodeWords \in Nat
  BY EmptySeq, BootAssumption
<1>2. DOMAIN code_ram = 0 .. CodeWords - 1
  BY DEF BootInv, TypeInv
<1>3. DOMAIN code_ram' = 0 .. CodeWords - 1
  BY <1>2, ByteLoaded
<1>4. bytes' \in Seq(RdrValues) /\ Len(bytes') < BytesPerWord /\ loaded' \in Nat
      /\ loaded' <= CodeWords
  <2>1. /\ Append(bytes, byte) \in Seq(RdrValues)
        /\ Len(Append(bytes, byte)) = Len(bytes) + 1
        /\ loaded \in 0 .. CodeWords - 1 /\ Len(bytes) \in Nat
        /\ \/ bytes' = <<>> /\ Len(bytes') = 0 /\ loaded' = loaded + 1
           \/ Len(bytes) + 1 < BytesPerWord /\ bytes' = Append(bytes, byte) /\ loaded' = loaded
    BY ByteLoaded
  <2>2. bytes' \in Seq(RdrValues)
    BY <1>1, <2>1
  <2>3. Len(bytes') < BytesPerWord
    BY <1>1, <2>1
  <2>4. loaded' \in Nat /\ loaded' <= CodeWords
    BY <1>1, <2>1
  <2>5. QED
    BY <2>2, <2>3, <2>4
<1>5. step' = IF loaded' >= CodeWords THEN "loaded" ELSE "load"
  BY DEF Loads, LastWord
<1>6. UNCHANGED <<source, sending, stream, keeps, mtvec, finished>>
  BY DEF Loads
<1>7. QED
  BY <1>1, <1>3, <1>4, <1>5, <1>6

\* What is loaded from the image goes on being the image.
LEMMA ImageLoaded ==
  ASSUME BootInv, NEW byte \in RdrValues, Loads(byte), LoadsImage,
         source \in {"spi", "uart"},
         byte = Image[source][loaded * BytesPerWord + Len(bytes) + 1]
  PROVE  LoadsImage'
<1>1. source' = source /\ step = "load"
  BY DEF Loads
<1>2. /\ \A k \in 1 .. Len(bytes) : bytes[k] = Image[source][loaded * BytesPerWord + k]
      /\ \A i \in 0 .. loaded - 1 : code_ram[i] = WordOf(source, i)
      /\ WordsInPlace
  BY <1>1 DEF LoadsImage
<1>3. /\ loaded \in 0 .. CodeWords - 1 /\ Len(bytes) \in Nat /\ CodeWords \in Nat
      /\ DOMAIN code_ram = 0 .. CodeWords - 1 /\ loaded * BytesPerWord \in Nat
  BY ByteLoaded, PlaceMoves, BootAssumption DEF BootInv, TypeInv
<1> DEFINE word == Append(bytes, byte)
<1>4. /\ word \in Seq(RdrValues) /\ Len(word) = Len(bytes) + 1
      /\ \A k \in 1 .. Len(bytes) : word[k] = bytes[k]
      /\ word[Len(bytes) + 1] = byte
  BY ByteLoaded
<1>5. \A k \in 1 .. Len(word) : word[k] = Image[source][loaded * BytesPerWord + k]
  <2> SUFFICES ASSUME NEW k \in 1 .. Len(word)
               PROVE  word[k] = Image[source][loaded * BytesPerWord + k]
    OBVIOUS
  <2>1. CASE k \in 1 .. Len(bytes)
    BY <1>2, <1>4, <2>1
  <2>2. CASE k = Len(bytes) + 1
    <3>1. loaded * BytesPerWord + k = loaded * BytesPerWord + Len(bytes) + 1
      BY <1>3, <2>2
    <3>2. QED
      BY <1>4, <2>2, <3>1
  <2>3. QED
    BY <1>3, <1>4, <2>1, <2>2
<1>6. \/ /\ Len(bytes) + 1 = BytesPerWord /\ Len(bytes') = 0 /\ loaded' = loaded + 1
         /\ code_ram' = [code_ram EXCEPT ![loaded] = word]
      \/ bytes' = word /\ loaded' = loaded /\ code_ram' = code_ram
  BY ByteLoaded
<1> HIDE DEF word
<1>7. /\ step' \in {"load", "loaded"}
      /\ step' = "loaded" => loaded' = CodeWords
  BY LoadedTypes
<1>8. CASE /\ Len(bytes) + 1 = BytesPerWord /\ Len(bytes') = 0 /\ loaded' = loaded + 1
           /\ code_ram' = [code_ram EXCEPT ![loaded] = word]
  <2>1. word = WordOf(source, loaded)
    <3>1. word \in [1 .. BytesPerWord -> RdrValues]
      BY <1>4, <1>8, LenProperties
    <3>2. \A k \in 1 .. BytesPerWord : word[k] = Image[source][loaded * BytesPerWord + k]
      BY <1>4, <1>5, <1>8
    <3>3. QED
      BY <3>1, <3>2 DEF WordOf
  <2>2. \A i \in 0 .. CodeWords - 1 :
          code_ram'[i] = IF i = loaded THEN WordOf(source, i) ELSE code_ram[i]
    BY <1>3, <1>8, <2>1
  <2>3. \A i \in 0 .. loaded' - 1 : code_ram'[i] = WordOf(source, i)
    <3>1. \A i \in 0 .. loaded' - 1 : i \in 0 .. CodeWords - 1
                                   /\ (i = loaded \/ i \in 0 .. loaded - 1)
      BY <1>3, <1>8
    <3>2. QED
      BY <1>2, <2>2, <3>1
  <2>4. WordsInPlace'
    <3>1. \A i \in 0 .. CodeWords - 1 : code_ram'[i] \in {PowerUpWord, WordOf("spi", i), WordOf("uart", i)}
      BY <1>2, <2>2 DEF WordsInPlace
    <3>2. QED
      BY <3>1 DEF WordsInPlace, WordOf
  <2>5. 1 .. Len(bytes') = {}
    BY <1>8
  <2>6. loaded' = CodeWords => \A i \in 0 .. CodeWords - 1 : code_ram'[i] = WordOf(source, i)
    BY <2>3
  <2>7. QED
    BY <1>1, <1>7, <2>3, <2>4, <2>5, <2>6 DEF LoadsImage, WordOf
<1>9. CASE bytes' = word /\ loaded' = loaded /\ code_ram' = code_ram
  <2>1. step' = "load"
    BY <1>3, <1>7, <1>9
  <2>2. \A k \in 1 .. Len(bytes') : bytes'[k] = Image[source][loaded' * BytesPerWord + k]
    BY <1>5, <1>9
  <2>3. \A i \in 0 .. loaded' - 1 : code_ram'[i] = WordOf(source, i)
    BY <1>2, <1>9
  <2>4. WordsInPlace'
    BY <1>2, <1>9 DEF WordsInPlace, WordOf
  <2>5. QED
    BY <1>1, <2>1, <2>2, <2>3, <2>4 DEF LoadsImage, WordOf
<1>10. QED
  BY <1>6, <1>8, <1>9

LEMMA SpiInv == BootInv /\ LoadsThroughSpi => BootInv'
<1> SUFFICES ASSUME BootInv, LoadsThroughSpi PROVE BootInv'
  OBVIOUS
<1> DEFINE byte == Image["spi"][flash + 1]
<1>1. source = "spi" /\ Loads(byte) /\ flash' = flash + 1 /\ UNCHANGED <<rdr, rxne>>
  BY DEF LoadsThroughSpi, linkVars
<1>2. step = "load" /\ flash = loaded * BytesPerWord + Len(bytes)
  BY <1>1 DEF BootInv, Fetching, Loads
<1>3. byte \in RdrValues
  <2>1. /\ bytes \in Seq(RdrValues) /\ Len(bytes) < BytesPerWord
        /\ loaded \in Nat /\ loaded < CodeWords
    BY <1>2 DEF BootInv, TypeInv
  <2>2. Len(bytes) \in Nat
    BY <2>1, LenProperties
  <2>3. Len(bytes) + 1 \in 1 .. BytesPerWord
    BY <2>1, <2>2, BootAssumption
  <2>4. loaded * BytesPerWord \in Nat
        /\ loaded * BytesPerWord + (Len(bytes) + 1) \in 1 .. CodeWords * BytesPerWord
    BY <2>1, <2>3, WordsBefore, BootAssumption, InRam
  <2>5. flash + 1 = loaded * BytesPerWord + (Len(bytes) + 1)
    BY <1>2, <2>2, <2>4
  <2>6. byte \in Bytes
    BY <2>4, <2>5, ImageByte
  <2>7. QED
    BY <2>6 DEF RdrValues
<1> HIDE DEF byte
<1>4. /\ bytes' \in Seq(RdrValues) /\ Len(bytes') < BytesPerWord
      /\ loaded' \in Nat /\ DOMAIN code_ram' = 0 .. CodeWords - 1
      /\ step' \in {"load", "loaded"}
      /\ step' = "load" => loaded' < CodeWords
      /\ UNCHANGED <<source, sending, stream, keeps, mtvec, finished>>
  BY <1>1, <1>3, LoadedTypes
<1>5. TypeInv'
  BY <1>1, <1>4 DEF BootInv, TypeInv
<1>6. Fetching'
  <2>1. loaded' * BytesPerWord + Len(bytes') = flash'
    BY <1>1, <1>2, <1>3, PlaceMoves
  <2>2. QED
    BY <1>4, <2>1 DEF Fetching
<1>7. Streaming' /\ PinTells'
  BY <1>1, <1>2, <1>4 DEF BootInv, Streaming, PinTells
<1>8. ~keeps => InStep'
  BY <1>1, <1>4 DEF BootInv, InStep
<1>9. ~keeps => LoadsImage'
  <2> SUFFICES ASSUME ~keeps PROVE LoadsImage'
    OBVIOUS
  <2>1. LoadsImage
    BY DEF BootInv
  <2>2. byte = Image[source][loaded * BytesPerWord + Len(bytes) + 1]
    BY <1>1, <1>2 DEF byte
  <2>3. QED
    BY <1>1, <1>3, <2>1, <2>2, ImageLoaded
<1>10. QED
  BY <1>4, <1>5, <1>6, <1>7, <1>8, <1>9 DEF BootInv

\* What is loaded from the UART goes on being the stream.
LEMMA StreamLoaded ==
  ASSUME BootInv, NEW strays \in {0, 1}, HoldsStream(strays), rxne, Loads(rdr), rxne' = FALSE
  PROVE  HoldsStream(strays)'
<1>1. stream' = stream /\ rdr \in RdrValues /\ stream \in Seq(Bytes)
      /\ DOMAIN code_ram = 0 .. CodeWords - 1
  BY DEF Loads, BootInv, TypeInv
<1>2. Len(stream) \in Nat
  BY <1>1, LenProperties
<1> DEFINE word == Append(bytes, rdr)
           start == loaded * BytesPerWord
<1>3. /\ Len(word) = Len(bytes) + 1
      /\ \A k \in 1 .. Len(bytes) : word[k] = bytes[k]
      /\ word[Len(bytes) + 1] = rdr
      /\ loaded \in 0 .. CodeWords - 1 /\ Len(bytes) \in Nat
      /\ \/ /\ Len(bytes) + 1 = BytesPerWord /\ Len(bytes') = 0 /\ loaded' = loaded + 1
            /\ code_ram' = [code_ram EXCEPT ![loaded] = word]
         \/ bytes' = word /\ loaded' = loaded /\ code_ram' = code_ram
  BY <1>1, ByteLoaded
<1>4. start \in Nat /\ loaded' * BytesPerWord + Len(bytes') = start + Len(bytes) + 1
  BY <1>1, PlaceMoves
<1>5. Received = start + Len(bytes) + 1 /\ Received' = Received
  BY <1>3, <1>4 DEF Received
<1> HIDE DEF word, start
<1>6. Received' = Len(stream') + strays
  BY <1>1, <1>5 DEF HoldsStream
<1>7. \A k \in 1 .. Len(word) : AsSent(start + k, word[k], strays)
  <2> SUFFICES ASSUME NEW k \in 1 .. Len(word) PROVE AsSent(start + k, word[k], strays)
    OBVIOUS
  <2>1. CASE k \in 1 .. Len(bytes)
    BY <1>3, <2>1 DEF HoldsStream, start
  <2>2. CASE k = Len(bytes) + 1
    <3>1. start + k = Received
      BY <1>3, <1>4, <1>5, <2>2
    <3>2. QED
      BY <1>3, <2>2, <3>1 DEF HoldsStream
  <2>3. QED
    BY <1>3, <2>1, <2>2
<1>8. \A i \in 0 .. loaded - 1 : \A k \in 1 .. BytesPerWord :
        AsSent(i * BytesPerWord + k, code_ram[i][k], strays)
  BY DEF HoldsStream
<1>9. CASE /\ Len(bytes) + 1 = BytesPerWord /\ Len(bytes') = 0 /\ loaded' = loaded + 1
           /\ code_ram' = [code_ram EXCEPT ![loaded] = word]
  <2>1. ASSUME NEW i \in 0 .. loaded' - 1, NEW k \in 1 .. BytesPerWord
        PROVE  AsSent(i * BytesPerWord + k, code_ram'[i][k], strays)
    <3>1. CASE i = loaded
      <4>1. code_ram'[i] = word /\ k \in 1 .. Len(word)
        BY <1>1, <1>3, <1>9, <3>1
      <4>2. QED
        BY <1>7, <3>1, <4>1 DEF start
    <3>2. CASE i \in 0 .. loaded - 1
      <4>1. code_ram'[i] = code_ram[i]
        BY <1>1, <1>3, <1>9, <3>2
      <4>2. QED
        BY <1>8, <3>2, <4>1
    <3>3. QED
      BY <1>3, <1>9, <3>1, <3>2
  <2>2. 1 .. Len(bytes') = {}
    BY <1>9
  <2>3. QED
    BY <1>1, <1>6, <2>1, <2>2 DEF HoldsStream, AsSent
<1>10. CASE bytes' = word /\ loaded' = loaded /\ code_ram' = code_ram
  BY <1>1, <1>6, <1>7, <1>8, <1>10 DEF HoldsStream, AsSent, start
<1>11. QED
  BY <1>3, <1>9, <1>10

LEMMA UartInv == BootInv /\ LoadsThroughUart => BootInv'
<1> SUFFICES ASSUME BootInv, LoadsThroughUart PROVE BootInv'
  OBVIOUS
<1>1. source = "uart" /\ Loads(rdr) /\ UNCHANGED <<flash, rdr>> /\ rxne /\ rxne' = FALSE
  BY DEF LoadsThroughUart, Link!Takes
<1>2. step = "load" /\ rdr \in RdrValues
  BY <1>1 DEF BootInv, TypeInv, Loads
<1>3. /\ bytes' \in Seq(RdrValues) /\ Len(bytes') < BytesPerWord
      /\ loaded' \in Nat /\ DOMAIN code_ram' = 0 .. CodeWords - 1
      /\ step' \in {"load", "loaded"}
      /\ step' = "load" => loaded' < CodeWords
      /\ UNCHANGED <<source, sending, stream, keeps, mtvec, finished>>
  BY <1>1, <1>2, LoadedTypes
<1>4. TypeInv'
  BY <1>1, <1>3 DEF BootInv, TypeInv
<1>5. PICK strays \in {0, 1} : HoldsStream(strays)
  BY <1>1, <1>2 DEF BootInv, Streaming
<1>6. HoldsStream(strays)'
  BY <1>1, <1>5, StreamLoaded
<1>7. Streaming'
  BY <1>3, <1>6 DEF Streaming
<1>8. Fetching' /\ PinTells'
  BY <1>1, <1>2, <1>3 DEF BootInv, Fetching, PinTells
<1>9. Received' = Received /\ Received = loaded * BytesPerWord + Len(bytes) + 1
  <2>1. loaded * BytesPerWord \in Nat /\ Len(bytes) \in Nat
    BY <1>1, <1>2, PlaceMoves, ByteLoaded
  <2>2. loaded' * BytesPerWord + Len(bytes') = loaded * BytesPerWord + Len(bytes) + 1
    BY <1>1, <1>2, PlaceMoves
  <2>3. QED
    BY <1>1, <2>1, <2>2 DEF Received
<1>10. ~keeps => InStep'
  BY <1>1, <1>2, <1>3, <1>9 DEF BootInv, InStep
<1>11. ~keeps => LoadsImage'
  <2> SUFFICES ASSUME ~keeps PROVE LoadsImage'
    OBVIOUS
  <2>1. LoadsImage /\ rdr = Image["uart"][Received]
    BY <1>1, <1>2 DEF BootInv, InStep
  <2>2. rdr = Image[source][loaded * BytesPerWord + Len(bytes) + 1]
    BY <1>1, <1>9, <2>1
  <2>3. QED
    BY <1>1, <1>2, <2>1, <2>2, ImageLoaded
<1>12. QED
  BY <1>3, <1>4, <1>7, <1>8, <1>10, <1>11 DEF BootInv

-----------------------------------------------------------------------------
LEMMA NextPreserves == BootInv /\ [Next]_vars => BootInv'
<1> SUFFICES ASSUME BootInv, [Next]_vars PROVE BootInv'
  OBVIOUS
<1>1. CASE UNCHANGED vars
  <2>1. UNCHANGED <<step, source, bytes, loaded, code_ram, mtvec, finished, flash,
                    rdr, rxne, sending, stream, keeps>>
    BY <1>1 DEF vars, cpuVars, linkVars
  <2>2. TypeInv' /\ Fetching' /\ PinTells'
    BY <2>1 DEF BootInv, TypeInv, Fetching, PinTells
  <2>3. Streaming'
    <3>1. ASSUME NEW strays, HoldsStream(strays) PROVE HoldsStream(strays)'
      BY <2>1, <3>1 DEF HoldsStream, AsSent, Received
    <3>2. QED
      BY <2>1, <3>1 DEF BootInv, Streaming
  <2>4. ~keeps => InStep' /\ LoadsImage'
    <3>1. InStep => InStep'
      BY <2>1 DEF InStep, Received
    <3>2. WordsInPlace => WordsInPlace'
      BY <2>1 DEF WordsInPlace, WordOf
    <3>3. LoadsImage => LoadsImage'
      BY <2>1, <3>2 DEF LoadsImage, WordOf
    <3>4. QED
      BY <3>1, <3>3 DEF BootInv
  <2>5. QED
    BY <2>1, <2>2, <2>3, <2>4 DEF BootInv
<1>2. CASE Software
  BY <1>1, <1>2, SkippingInv, SourceInv, PromptInv, SpiInv, UartInv, EndInv DEF Software, Polls
<1>3. CASE ComputerSends
  BY <1>3, SendInv
<1>4. CASE Reset
  BY <1>4, ResetInv
<1>5. CASE Runs
  BY <1>1, <1>5 DEF Runs
<1>6. QED
  BY <1>1, <1>2, <1>3, <1>4, <1>5 DEF Next

(* The registers, the loader and the computer keep to their types; no word *)
(* is stored behind the code RAM.                                          *)
THEOREM BootTypeCorrect == Spec => []TypeInv
<1>1. BootInv => TypeInv
  BY DEF BootInv
<1>2. QED
  BY InitEstablishes, NextPreserves, <1>1, PTL DEF Spec

(* Whatever was loaded, in whole or in part, before the resets, the image  *)
(* of the source chosen is in the code RAM when the finished pin rises,    *)
(* and no word is ever out of its place.                                   *)
THEOREM CodeRamIsLoaded == Spec => []CodeRamHoldsImages
<1>1. BootInv => CodeRamHoldsImages
  BY DEF BootInv, PinTells, LoadsImage, CodeRamHoldsImages, FinishedMeansLoaded
<1>2. QED
  BY InitEstablishes, NextPreserves, <1>1, PTL DEF Spec

(* What the UART load puts in the code RAM is the stream since the prompt, *)
(* after one stray byte at most, even if the computer did not notice the   *)
(* reset.                                                                  *)
THEOREM StreamIsLoaded == Spec => []LoadsStream
<1>1. BootInv => LoadsStream
  BY DEF BootInv, Streaming, LoadsStream
<1>2. QED
  BY InitEstablishes, NextPreserves, <1>1, PTL DEF Spec

-----------------------------------------------------------------------------
(* How far the boot has come, if a computer that is cut off at a reset     *)
(* stops sending: the steps of main() to the jump, the bytes still to be   *)
(* loaded and those still to be sent.                                      *)

AllBytes == CodeWords * BytesPerWord

StepsToRun ==
  CASE step = "started" -> 5
    [] step = "not_skipped" -> 4
    [] step = "prompted" -> 3
    [] step \in {"load", "loaded"} -> 2
    [] step = "finished" -> 1
    [] OTHER -> 0

BytesToLoad ==
  CASE step \in {"started", "not_skipped", "prompted"} -> AllBytes
    [] step = "load" -> AllBytes - (loaded * BytesPerWord + Len(bytes))
    [] OTHER -> 0

BytesToSend ==
  IF step \in {"started", "not_skipped"} THEN Len(Image["uart"])
  ELSE IF sending = 0 THEN 0 ELSE Len(Image["uart"]) - sending + 1

StepsLeft == StepsToRun + BytesToLoad + BytesToSend

MostSteps == 5 + AllBytes + Len(Image["uart"])

\* uart.read() waits for a byte.
Waits == step = "load" /\ source = "uart" /\ ~rxne

BootGetsOn == [][~keeps => StepsLeft' < StepsLeft \/ Reset]_vars

NeverStarves ==
  ~keeps => StepsLeft \in 0 .. MostSteps /\ (Waits => sending # 0)

LEMMA Sizes ==
  /\ AllBytes \in Nat /\ CodeWords \in Nat /\ BytesPerWord \in Nat
  /\ Len(Image["uart"]) \in Nat /\ Len(Image["uart"]) >= AllBytes
<1>1. CodeWords \in Nat /\ BytesPerWord \in Nat
  BY BootAssumption
<1>2. CodeWords * BytesPerWord \in Nat
  BY <1>1, NextWord
<1>3. Image["uart"] \in Seq(Bytes) /\ Len(Image["uart"]) >= CodeWords * BytesPerWord
  BY ImageAssumption
<1>4. QED
  BY <1>1, <1>2, <1>3, LenProperties DEF AllBytes

\* The byte that is loaded next lies within the code RAM.
LEMMA PlaceInRam ==
  ASSUME TypeInv, step = "load"
  PROVE  /\ loaded * BytesPerWord \in Nat /\ Len(bytes) \in Nat
         /\ loaded * BytesPerWord + Len(bytes) < AllBytes
<1>1. /\ bytes \in Seq(RdrValues) /\ Len(bytes) < BytesPerWord
      /\ loaded \in Nat /\ loaded < CodeWords
  BY DEF TypeInv
<1>2. Len(bytes) \in Nat
  BY <1>1, LenProperties
<1>3. Len(bytes) + 1 \in 1 .. BytesPerWord /\ CodeWords \in Nat
  BY <1>1, <1>2, BootAssumption
<1>4. loaded \in 0 .. CodeWords - 1
  BY <1>1, <1>3
<1>5. /\ loaded * BytesPerWord \in Nat
      /\ loaded * BytesPerWord + (Len(bytes) + 1) \in 1 .. AllBytes
  BY <1>3, <1>4, WordsBefore DEF AllBytes
<1>6. QED
  BY <1>2, <1>5, Sizes

InCounts ==
  /\ StepsToRun \in 0 .. 5
  /\ BytesToLoad \in 0 .. AllBytes
  /\ BytesToSend \in 0 .. Len(Image["uart"])

LEMMA Counts == TypeInv => InCounts
<1> SUFFICES ASSUME TypeInv PROVE InCounts
  OBVIOUS
<1>1. StepsToRun \in 0 .. 5
  BY DEF TypeInv, StepsToRun
<1>2. BytesToLoad \in 0 .. AllBytes
  <2>1. CASE step = "load"
    <3>1. BytesToLoad = AllBytes - (loaded * BytesPerWord + Len(bytes))
      BY <2>1 DEF BytesToLoad
    <3>2. QED
      BY <2>1, <3>1, PlaceInRam, Sizes
  <2>2. CASE step # "load"
    <3>1. BytesToLoad \in {0, AllBytes}
      BY <2>2 DEF BytesToLoad
    <3>2. QED
      BY <3>1, Sizes
  <2>3. QED
    BY <2>1, <2>2
<1>3. BytesToSend \in 0 .. Len(Image["uart"])
  <2>1. sending \in 0 .. Len(Image["uart"])
    BY DEF TypeInv
  <2>2. QED
    BY <2>1, Sizes DEF BytesToSend
<1>4. QED
  BY <1>1, <1>2, <1>3 DEF InCounts

\* It is enough that one of the three goes down and the others do not go up.
LEMMA Less ==
  ASSUME TypeInv, TypeInv',
         StepsToRun' <= StepsToRun, BytesToLoad' <= BytesToLoad, BytesToSend' <= BytesToSend,
         \/ StepsToRun' < StepsToRun \/ BytesToLoad' < BytesToLoad \/ BytesToSend' < BytesToSend
  PROVE  StepsLeft' < StepsLeft
<1> DEFINE a == StepsToRun'
           b == BytesToLoad'
           c == BytesToSend'
<1>1. {StepsToRun, BytesToLoad, BytesToSend} \subseteq Nat
  BY Counts, Sizes DEF InCounts
<1>2. InCounts'
  BY Counts, PTL
<1>3. a \in 0 .. 5 /\ b \in 0 .. AllBytes /\ c \in 0 .. Len(Image["uart"])
  BY <1>2 DEF InCounts, AllBytes
<1>4. a <= StepsToRun /\ b <= BytesToLoad /\ c <= BytesToSend
      /\ (a < StepsToRun \/ b < BytesToLoad \/ c < BytesToSend)
  OBVIOUS
<1>5. StepsLeft' = a + b + c
  BY DEF StepsLeft
<1> HIDE DEF a, b, c
<1>6. {a, b, c} \subseteq Nat
  BY <1>3, Sizes
<1>7. QED
  BY <1>1, <1>4, <1>5, <1>6 DEF StepsLeft

\* A step of main() that loads nothing.
LEMMA MainGetsOn ==
  ASSUME BootInv, BootInv', ~keeps,
         ChecksSkippingPin \/ ChecksSourcePin \/ EndsPrompt \/ SetsPin \/ Jumps
  PROVE  StepsLeft' < StepsLeft
<1>1. TypeInv /\ TypeInv'
  BY DEF BootInv
<1>2. InCounts /\ InCounts'
  BY <1>1, Counts, PTL
<1>3. BytesToSend \in Nat /\ BytesToSend <= Len(Image["uart"])
      /\ BytesToLoad \in Nat /\ BytesToLoad <= AllBytes
      /\ BytesToSend' \in Nat /\ BytesToSend' <= Len(Image["uart"])
      /\ BytesToLoad' \in Nat /\ BytesToLoad' <= AllBytes
  BY <1>2, Sizes DEF InCounts, AllBytes
<1>4. CASE ChecksSkippingPin
  <2>1. step = "started" /\ step' \in {"loaded", "not_skipped"}
    BY <1>4 DEF ChecksSkippingPin
  <2>2. StepsToRun = 5 /\ BytesToLoad = AllBytes /\ BytesToSend = Len(Image["uart"])
    BY <2>1 DEF StepsToRun, BytesToLoad, BytesToSend
  <2>3. StepsToRun' \in {2, 4}
    BY <2>1 DEF StepsToRun
  <2>4. StepsToRun' < StepsToRun /\ StepsToRun' <= StepsToRun
        /\ BytesToLoad' <= BytesToLoad /\ BytesToSend' <= BytesToSend
    BY <1>3, <2>2, <2>3
  <2>5. QED
    BY <1>1, <2>4, Less, Zenon
<1>5. CASE ChecksSourcePin
  <2>1. step = "not_skipped" /\ step' \in {"prompted", "load"}
    BY <1>5 DEF ChecksSourcePin
  <2>2. StepsToRun = 4 /\ BytesToLoad = AllBytes /\ BytesToSend = Len(Image["uart"])
    BY <2>1 DEF StepsToRun, BytesToLoad, BytesToSend
  <2>3. StepsToRun' \in {2, 3}
    BY <2>1 DEF StepsToRun
  <2>4. StepsToRun' < StepsToRun /\ StepsToRun' <= StepsToRun
        /\ BytesToLoad' <= BytesToLoad /\ BytesToSend' <= BytesToSend
    BY <1>3, <2>2, <2>3
  <2>5. QED
    BY <1>1, <2>4, Less, Zenon
<1>6. CASE EndsPrompt
  <2>1. step = "prompted" /\ step' = "load" /\ UNCHANGED sending
    BY <1>6 DEF EndsPrompt
  <2>2. StepsToRun = 3 /\ BytesToLoad = AllBytes /\ StepsToRun' = 2
    BY <2>1 DEF StepsToRun, BytesToLoad
  <2>3. BytesToSend' = BytesToSend
    BY <2>1 DEF BytesToSend
  <2>4. StepsToRun' < StepsToRun /\ StepsToRun' <= StepsToRun
        /\ BytesToLoad' <= BytesToLoad /\ BytesToSend' <= BytesToSend
    BY <1>3, <2>2, <2>3
  <2>5. QED
    BY <1>1, <2>4, Less, Zenon
<1>7. CASE SetsPin \/ Jumps
  <2>1. \/ step = "loaded" /\ step' = "finished"
        \/ step = "finished" /\ step' = "running"
    BY <1>7 DEF SetsPin, Jumps
  <2>2. UNCHANGED sending
    BY <1>7 DEF SetsPin, Jumps
  <2>3. StepsToRun' < StepsToRun /\ StepsToRun' <= StepsToRun
        /\ BytesToLoad' = 0 /\ BytesToLoad = 0
    BY <2>1 DEF StepsToRun, BytesToLoad
  <2>4. BytesToSend' = BytesToSend
    BY <2>1, <2>2 DEF BytesToSend
  <2>5. StepsToRun' < StepsToRun /\ StepsToRun' <= StepsToRun
        /\ BytesToLoad' <= BytesToLoad /\ BytesToSend' <= BytesToSend
    BY <1>3, <2>3, <2>4
  <2>6. QED
    BY <1>1, <2>5, Less, Zenon
<1>8. QED
  BY <1>4, <1>5, <1>6, <1>7

\* A byte that is loaded.
LEMMA LoadGetsOn ==
  ASSUME BootInv, BootInv', NEW byte \in RdrValues, Loads(byte)
  PROVE  StepsLeft' < StepsLeft
<1>1. TypeInv /\ TypeInv'
  BY DEF BootInv
<1>2. step = "load" /\ step' \in {"load", "loaded"} /\ UNCHANGED sending
  BY LoadedTypes DEF Loads
<1>3. /\ loaded * BytesPerWord \in Nat /\ Len(bytes) \in Nat
      /\ loaded * BytesPerWord + Len(bytes) < AllBytes
  BY <1>1, <1>2, PlaceInRam
<1>4. loaded' * BytesPerWord + Len(bytes') = loaded * BytesPerWord + Len(bytes) + 1
  BY PlaceMoves
<1> DEFINE before == loaded * BytesPerWord + Len(bytes)
           after == loaded' * BytesPerWord + Len(bytes')
<1>5. before \in Nat /\ before < AllBytes /\ after = before + 1
  BY <1>3, <1>4
<1>6. BytesToLoad = AllBytes - before
  BY <1>2 DEF BytesToLoad
<1>7. BytesToLoad' \in {0, AllBytes - after}
  BY <1>2 DEF BytesToLoad, AllBytes
<1>8. StepsToRun = 2 /\ StepsToRun' = 2
  BY <1>2 DEF StepsToRun
<1>9. BytesToSend' = BytesToSend
  BY <1>2 DEF BytesToSend
<1>10. InCounts
  BY <1>1, Counts
<1> HIDE DEF before, after
<1>11. BytesToLoad' < BytesToLoad
  BY <1>5, <1>6, <1>7, Sizes
<1>12. StepsToRun' <= StepsToRun /\ BytesToLoad' <= BytesToLoad /\ BytesToSend' <= BytesToSend
  <2>1. BytesToSend \in Nat
    BY <1>10, Sizes DEF InCounts
  <2>2. BytesToLoad' <= BytesToLoad
    BY <1>5, <1>6, <1>7, Sizes
  <2>3. QED
    BY <1>8, <1>9, <2>1, <2>2
<1>13. QED
  BY <1>1, <1>11, <1>12, Less

\* A byte that is sent: the computer sends while the image is loaded, or
\* after that what was not asked for.
LEMMA SendGetsOn ==
  ASSUME BootInv, BootInv', ~keeps, ComputerSends
  PROVE  StepsLeft' < StepsLeft
<1>1. TypeInv /\ TypeInv' /\ InCounts
  BY Counts DEF BootInv
<1>2. UNCHANGED <<step, bytes, loaded>>
  BY DEF ComputerSends, cpuVars
<1>3. StepsToRun' = StepsToRun /\ BytesToLoad' = BytesToLoad
  BY <1>2 DEF StepsToRun, BytesToLoad, AllBytes
<1>4. sending \in 1 .. Len(Image["uart"]) /\ sending' = After(sending)
  BY SendsNext
<1>5. step \notin {"started", "not_skipped"}
  <2>1. sending # 0
    BY DEF ComputerSends
  <2>2. QED
    BY <2>1 DEF BootInv, InStep
<1>6. BytesToSend = Len(Image["uart"]) - sending + 1
  BY <1>4, <1>5 DEF BytesToSend
<1>7. BytesToSend' \in {0, Len(Image["uart"]) - sending}
  <2>1. BytesToSend' = IF sending' = 0 THEN 0 ELSE Len(Image["uart"]) - sending' + 1
    BY <1>2, <1>5 DEF BytesToSend
  <2>2. \/ sending' = 0
        \/ sending' = sending + 1 /\ sending + 1 # 0
    BY <1>4, Sizes DEF After
  <2>3. CASE sending' = 0
    BY <2>1, <2>3
  <2>4. CASE sending' = sending + 1 /\ sending + 1 # 0
    <3>1. BytesToSend' = Len(Image["uart"]) - (sending + 1) + 1
      BY <2>1, <2>4
    <3>2. QED
      BY <1>4, <3>1, Sizes
  <2>5. QED
    BY <2>2, <2>3, <2>4
<1>8. BytesToSend' < BytesToSend /\ BytesToSend' <= BytesToSend
  BY <1>4, <1>6, <1>7, Sizes
<1>9. StepsToRun' <= StepsToRun /\ BytesToLoad' <= BytesToLoad
  BY <1>1, <1>3, Sizes DEF InCounts
<1>10. QED
  BY <1>1, <1>8, <1>9, Less

LEMMA NextGetsOn ==
  ASSUME BootInv, BootInv', ~keeps, Next
  PROVE  StepsLeft' < StepsLeft \/ Reset \/ UNCHANGED vars
<1>1. CASE Software
  <2>1. CASE LoadsThroughSpi
    <3>1. Loads(Image["spi"][flash + 1]) /\ source = "spi"
      BY <2>1 DEF LoadsThroughSpi
    <3>2. TypeInv /\ step = "load" /\ flash = loaded * BytesPerWord + Len(bytes)
      BY <3>1 DEF BootInv, Fetching, Loads
    <3>3. flash + 1 \in 1 .. CodeWords * BytesPerWord
      BY <3>2, PlaceInRam, Sizes DEF AllBytes
    <3>4. Image["spi"][flash + 1] \in RdrValues
      BY <3>3, ImageByte DEF RdrValues
    <3>5. QED
      BY <3>1, <3>4, LoadGetsOn
  <2>2. CASE LoadsThroughUart
    <3>1. Loads(rdr) /\ rdr \in RdrValues
      BY <2>2 DEF LoadsThroughUart, BootInv, TypeInv
    <3>2. QED
      BY <3>1, LoadGetsOn
  <2>3. QED
    BY <1>1, <2>1, <2>2, MainGetsOn DEF Software, Polls
<1>2. CASE ComputerSends
  BY <1>2, SendGetsOn
<1>3. CASE Reset
  BY <1>3
<1>4. CASE Runs
  BY <1>4 DEF Runs
<1>5. QED
  BY <1>1, <1>2, <1>3, <1>4 DEF Next

LEMMA SumBounded ==
  ASSUME NEW a \in Nat, NEW b \in Nat, NEW c \in Nat, NEW x \in Nat, NEW y \in Nat,
         a <= 5, b <= x, c <= y
  PROVE  a + b + c \in 0 .. 5 + x + y
  OBVIOUS

\* While uart.read() waits, the computer has a byte that is still to be sent.
LEMMA WaitsForTheComputer == BootInv => NeverStarves
<1> SUFFICES ASSUME BootInv, ~keeps PROVE StepsLeft \in 0 .. MostSteps /\ (Waits => sending # 0)
  BY DEF NeverStarves
<1>1. TypeInv /\ InCounts
  BY Counts DEF BootInv
<1>2. StepsLeft \in 0 .. MostSteps
  <2>1. /\ StepsToRun \in Nat /\ StepsToRun <= 5
        /\ BytesToLoad \in Nat /\ BytesToLoad <= AllBytes
        /\ BytesToSend \in Nat /\ BytesToSend <= Len(Image["uart"])
    BY <1>1, Sizes DEF InCounts
  <2>2. StepsLeft = StepsToRun + BytesToLoad + BytesToSend
        /\ MostSteps = 5 + AllBytes + Len(Image["uart"])
    BY DEF StepsLeft, MostSteps
  <2>3. QED
    BY <2>1, <2>2, Sizes, SumBounded, Zenon
<1>3. Waits => sending # 0
  <2> SUFFICES ASSUME Waits PROVE sending # 0
    OBVIOUS
  <2>1. step = "load" /\ source = "uart" /\ ~rxne
    BY DEF Waits
  <2>2. sending = After(Received)
    BY <2>1 DEF BootInv, InStep
  <2>3. /\ loaded * BytesPerWord \in Nat /\ Len(bytes) \in Nat
        /\ loaded * BytesPerWord + Len(bytes) < AllBytes
    BY <1>1, <2>1, PlaceInRam
  <2>4. Received = loaded * BytesPerWord + Len(bytes)
    BY <2>1, <2>3 DEF Received
  <2>5. Received \in Nat /\ Received < Len(Image["uart"])
    BY <2>3, <2>4, Sizes
  <2>6. QED
    BY <2>2, <2>5, Sizes DEF After
<1>4. QED
  BY <1>2, <1>3

(* Whatever the computer and main() do in whatever order, each of their    *)
(* steps brings the jump nearer, and there are never more to make than the *)
(* two images have bytes and five; and main() waits in uart.read() only    *)
(* while the computer still has a byte to send.  It is what BootEnds rests *)
(* on, and needs no fairness.                                              *)
THEOREM EveryStepCounts == Spec => BootGetsOn /\ []NeverStarves
<1>1. BootInv /\ BootInv' /\ [Next]_vars => [~keeps => StepsLeft' < StepsLeft \/ Reset]_vars
  BY NextGetsOn
<1>2. QED
  BY InitEstablishes, NextPreserves, WaitsForTheComputer, <1>1, PTL DEF Spec, BootGetsOn

=============================================================================
