------------------------------ MODULE PmcProofs ------------------------------
(***************************************************************************)
(* Any calls of Pixel_matrix on the coprocessor and the pixels, for a      *)
(* column of any length, a code RAM of any size that holds the programs    *)
(* and any pace of the software that the assumptions below allow.          *)
(*                                                                         *)
(* What the software still has to do names the stage of a call; the        *)
(* program the coprocessor is in follows from what has been overwritten so *)
(* far, and where it is in it from the cycles since the last access, gap.  *)
(***************************************************************************)
EXTENDS PmcSystem, SequenceTheorems, TLAPS

(* The coprocessor's address space holds its programs, and an address in a *)
(* JUMP is not confused with the class of the instruction beside it.       *)
ProgramsFit == AddrMod >= 9 /\ 8192 % AddrMod = 0

(* Four cycles pass from an access to the next by another pointer.         *)
SoftwarePaced == AccessGap >= 4

-----------------------------------------------------------------------------
(* What the software still has to do. *)

StoreWord(w, b0, b1, b2, b3) ==
  StoreTo("PMCC_CODE_RAM", [word |-> w, bytes |-> <<b0, b1, b2, b3>>])

Loads       == LoadFrom("PMC_CR")
Sets(field) == [op |-> "store_back", reg |-> "PMC_CR", field |-> field, data |-> TRUE]
Polls       == PollOf("PMC_SR")

Shifter0 == StoreWord(0, 0, 192, 3, 0)
Shifter1 == StoreWord(1, 192, 2, 0, 32)
Shifter2 == StoreWord(2, 0, 0, 0, 0)
Latcher0 == StoreWord(0, 192, 32, 0, 192)
Latcher1 == StoreWord(1, 0, 0, 0, 0)
Hits0    == StoreWord(0, 0, 192, 8, 0)
Hits1    == StoreWord(1, 192, 0, 0, 0)

Restart   == <<Loads, Sets("rst"), Loads, Sets("en")>>
Resetting == <<Sets("rst"), Loads, Sets("en")>>
Enabling  == <<Loads, Sets("en")>>
Enables   == <<Sets("en")>>

WholeShifter == <<Shifter0, Shifter1, Shifter2, Loads, Sets("rst"), Loads, Sets("en")>>
ShifterFrom1 == <<Shifter1, Shifter2, Loads, Sets("rst"), Loads, Sets("en")>>
ShifterFrom2 == <<Shifter2, Loads, Sets("rst"), Loads, Sets("en")>>
WholeLatcher == <<Latcher0, Latcher1, Loads, Sets("rst"), Loads, Sets("en")>>
LatcherFrom1 == <<Latcher1, Loads, Sets("rst"), Loads, Sets("en")>>
WholeHits    == <<Hits0, Hits1, Loads, Sets("rst"), Loads, Sets("en")>>
HitsFrom1    == <<Hits1, Loads, Sets("rst"), Loads, Sets("en")>>

Awaiting   == <<Polls, Loads, Sets("trg")>>
Triggering == <<Loads, Sets("trg")>>
Triggers   == <<Sets("trg")>>

Writing == <<StoreTo("PMC_DIN_0", target[PixelBits + 1 - bit]), Polls, Loads, Sets("trg")>>
Reading == <<LoadFrom("PMC_DOUT_0"), Polls, Loads, Sets("trg")>>

-----------------------------------------------------------------------------
(* The program in the code RAM, and where the coprocessor is in it. *)

HoldsBytes(w, b0, b1, b2, b3) ==
  mem[4 * w] = b0 /\ mem[4 * w + 1] = b1 /\ mem[4 * w + 2] = b2 /\ mem[4 * w + 3] = b3

HoldsShifter == HoldsBytes(0, 0, 192, 3, 0) /\ HoldsBytes(1, 192, 2, 0, 32) /\ mem[8] = 0
HoldsLatcher == HoldsBytes(0, 192, 32, 0, 192) /\ HoldsBytes(1, 0, 0, 0, 0) /\ mem[8] = 0
HoldsHits    == HoldsBytes(0, 0, 192, 8, 0) /\ HoldsBytes(1, 192, 0, 0, 0) /\ mem[8] = 0

Wait      == [op |-> "WAITT", arg |-> 0]
Stores(v) == [op |-> "STORE", arg |-> v]
Back      == [op |-> "JUMP", arg |-> 0]

On == cr.en /\ ~cr.rst /\ ~cr.trg

\* At an instruction, with the control lines as they are before it.
Is(a, i, lines) == On /\ pc_id = a /\ instr = i /\ matrix_ctrl = lines

Rests(a) == On /\ pc_id = a /\ instr = Wait

\* Never enabled since power was up.
Off == ~cr.en /\ ~cr.trg /\ pc_id = 0 /\ matrix_ctrl = 0

\* Reset by the software, for a cycle.
Held == cr.en /\ cr.rst /\ ~cr.trg /\ pc_id = 0 /\ matrix_ctrl = 0

Triggered(lines) == /\ cr.en /\ ~cr.rst /\ cr.trg
                    /\ pc_id = 0 /\ instr = Wait /\ matrix_ctrl \in lines

\* The cycles after a trigger, told by those since it was set.
Shifting ==
  \/ gap = 1 /\ Triggered({0, 2})
  \/ gap = 2 /\ \E lines \in {0, 2} : Is(1, Stores(3), lines)
  \/ gap = 3 /\ Is(4, Stores(2), 3)
  \/ gap >= 4 /\ (Is(7, Back, 2) \/ Is(0, Wait, 2))

Hitting ==
  \/ gap = 1 /\ Triggered({0})
  \/ gap = 2 /\ Is(1, Stores(8), 0)
  \/ gap = 3 /\ Is(4, Stores(0), 8)
  \/ gap >= 4 /\ Is(7, Wait, 0)

\* The latch program, once reset lets it go.
Latching ==
  \/ gap = 1 /\ Held
  \/ gap = 2 /\ Is(0, Stores(32), 0)
  \/ gap = 3 /\ Is(3, Stores(0), 32)
  \/ gap >= 4 /\ Is(6, Wait, 0)

\* The lines may be released from here without the matrix noticing.
Calm == matrix_ctrl \in {0, 2, 704}

Latched == HoldsLatcher /\ Is(6, Wait, 0)

-----------------------------------------------------------------------------
(* The column. *)

\* The shift of the last trigger is still to come.
Pending == cr.trg \/ instr = Stores(3)

Shifted(n) == \A k \in 1 .. n : pixels[k] = target[PixelBits - n + k]

Written(n) == IF Pending THEN Shifted(n - 1) /\ din_0 = target[PixelBits + 1 - n]
                         ELSE Shifted(n)

Moved(n) == \A k \in n + 1 .. PixelBits : pixels[k] = counted[k - n]

Moving(n) == Moved(IF Pending THEN n - 1 ELSE n)

Fresh == dout_0 = pixels[PixelBits]

-----------------------------------------------------------------------------
(* The stages of a call: what is still to do, and where the hardware is. *)

\* While the shifter is loaded to read a column that was counted.
Kept == part = "read" /\ api = "calibrate" => pixels = counted

\* Where the coprocessor may be when a call begins.
Free == \/ Off /\ ~cr.rst
        \/ Latched
        \/ HoldsShifter /\ Shifting

Idles ==
  /\ part = "none" /\ todo = <<>>
  /\ Free

LoadsShifter0 ==
  /\ part \in {"write", "read"} /\ bit = 0
  /\ todo = WholeShifter
  /\ \/ Free /\ ~(part = "read" /\ api = "calibrate")
     \/ /\ part = "read" /\ api = "calibrate" /\ HoldsHits /\ Hitting
        /\ gap >= 4 => pixels = counted

LoadsShifter1 ==
  /\ part \in {"write", "read"} /\ bit = 0
  /\ todo = ShifterFrom1
  /\ HoldsBytes(0, 0, 192, 3, 0)
  /\ \/ Off /\ ~cr.rst
     \/ Rests(6) /\ Calm /\ mem[6] = 0
     \/ Rests(0) /\ Calm
     \/ Rests(7) /\ Calm /\ mem[7] = 0 /\ mem[8] = 0
  /\ Kept

LoadsShifter2 ==
  /\ part \in {"write", "read"} /\ bit = 0
  /\ todo = ShifterFrom2
  /\ HoldsBytes(0, 0, 192, 3, 0) /\ HoldsBytes(1, 192, 2, 0, 32)
  /\ \/ Off /\ ~cr.rst
     \/ Rests(6) /\ Calm
     \/ Rests(0) /\ Calm
     \/ Rests(7) /\ Calm /\ mem[8] = 0 /\ gap = 1
     \/ On /\ pc_id = 7 /\ instr = Back /\ Calm /\ gap = 2
  /\ Kept

LoadsLatcher0 ==
  /\ part = "latch" /\ bit = 0
  /\ todo = WholeLatcher
  /\ HoldsShifter /\ Shifting /\ Written(PixelBits)

LoadsLatcher1 ==
  /\ part = "latch" /\ bit = 0
  /\ todo = LatcherFrom1
  /\ HoldsBytes(0, 192, 32, 0, 192) /\ HoldsBytes(1, 192, 2, 0, 32) /\ mem[8] = 0
  /\ \/ gap = 1 /\ Is(0, Wait, 2)
     \/ gap = 2 /\ Is(0, Stores(32), 2)
     \/ gap = 3 /\ Is(3, Stores(704), 32)
     \/ gap >= 4 /\ Is(6, Wait, 704)
  /\ pixels = target

LoadsHits0 ==
  /\ part = "hit" /\ bit = 0
  /\ todo = WholeHits
  /\ Latched

LoadsHits1 ==
  /\ part = "hit" /\ bit = 0
  /\ todo = HitsFrom1
  /\ HoldsBytes(0, 0, 192, 8, 0) /\ mem[8] = 0
  /\ mem[6] = 0 /\ Is(6, Wait, 0)

\* The program of the part is in the RAM.
Loaded ==
  /\ part # "none"
  /\ part \in {"write", "read"} => HoldsShifter
  /\ part = "latch" => HoldsLatcher /\ pixels = target
  /\ part = "hit" => HoldsHits
  /\ Kept

Restarts ==
  /\ bit = 0 /\ Loaded
  /\ \/ todo = Restart
     \/ todo = Resetting /\ loaded = cr
  /\ \/ Off /\ ~cr.rst /\ part \in {"write", "read"}
     \/ Rests(6) /\ Calm
     \/ Rests(0) /\ Calm /\ part \in {"write", "read"}

Restarted ==
  /\ bit = 0 /\ Loaded
  /\ todo = Enabling
  /\ \/ part \in {"write", "read"} /\ Off /\ (cr.rst => gap = 1)
     \/ part # "latch" /\ Held /\ gap = 1
     \/ part # "latch" /\ Is(0, Wait, 0)
     \/ part = "latch" /\ Latching /\ (gap > 2 => config = target)

Enabled ==
  /\ bit = 0 /\ Loaded
  /\ todo = Enables /\ loaded = cr
  /\ \/ part \in {"write", "read"} /\ Off /\ ~cr.rst
     \/ part # "latch" /\ Is(0, Wait, 0)
     \/ part = "latch" /\ Is(6, Wait, 0) /\ config = target

Accesses ==
  /\ bit \in 1 .. PixelBits
  /\ HoldsShifter
  /\ \/ bit > 1 /\ Shifting
     \/ Is(0, Wait, 0)
  /\ \/ part = "write" /\ todo = Writing /\ Written(bit - 1)
     \/ /\ part = "read" /\ todo = Reading
        /\ Len(result) = bit - 1
        /\ api = "calibrate" \/ bit > 1 => Moving(bit - 1)
        /\ gap >= 4 => Fresh

Awaits ==
  /\ \/ todo \in {Awaiting, Triggering}
     \/ todo = Triggers /\ loaded = cr
  /\ \/ /\ part = "write" /\ HoldsShifter /\ \E lines \in {0, 2} : Is(0, Wait, lines)
        /\ bit \in 1 .. PixelBits
        /\ Shifted(bit - 1) /\ din_0 = target[PixelBits + 1 - bit]
     \/ /\ part = "read" /\ HoldsShifter /\ \E lines \in {0, 2} : Is(0, Wait, lines)
        /\ bit \in 1 .. PixelBits
        /\ Len(result) = bit /\ Moved(bit - 1)
     \/ part = "hit" /\ HoldsHits /\ Is(0, Wait, 0) /\ bit = 1

Stage ==
  \/ Idles
  \/ LoadsShifter0 \/ LoadsShifter1 \/ LoadsShifter2
  \/ LoadsLatcher0 \/ LoadsLatcher1
  \/ LoadsHits0 \/ LoadsHits1
  \/ Restarts \/ Restarted \/ Enabled
  \/ Accesses \/ Awaits

Parts ==
  /\ api \in {"none", "load_pixels_configs", "calibrate", "read_counters"}
  /\ api = "none" <=> part = "none"
  /\ api = "load_pixels_configs" => part \in {"write", "latch"}
  /\ api = "read_counters" => part = "read"
  /\ api = "calibrate" => part \in {"write", "latch", "hit", "read"}

\* What holds throughout.
Always ==
  /\ ~loop_execution /\ ~lifo_readout
  /\ mem \in [Addr -> Byte \cup {Unwritten}]
  /\ cr \in [en : BOOLEAN, rst : BOOLEAN, trg : BOOLEAN]
  /\ {pixels, config, target, counted} \subseteq Word
  /\ din_0 \in {0, 1} /\ dout_0 \in {0, 1}
  /\ result \in Seq({0, 1})
  /\ gap \in Nat \ {0}
  /\ bit \in Nat
  /\ Parts
  /\ part \in {"none", "hit", "read"} => config = target
  /\ api # "none" /\ ~(part = "read" /\ bit > 0) => result = <<>>
  /\ ReadsCounters
  /\ Len(result) <= PixelBits

Inv == Always /\ Stage


-----------------------------------------------------------------------------
(* The instructions. *)

LEMMA Constants ==
  ASSUME ProgramsFit
  PROVE  /\ AddrMod \in Nat /\ AddrMod >= 9
         /\ PixelBits \in Nat /\ PixelBits >= 1
         /\ AccessGap \in Nat /\ UpdateGap \in Nat /\ UpdateGap >= 1
  BY PmccAssumption, PixelBitsAssumption, GapAssumption DEF ProgramsFit

LEMMA Classes ==
  0 \div 32 = 0 /\ 32 \div 32 = 1 /\ 192 \div 32 = 6
  BY SMT

LEMMA DecodesWait ==
  ASSUME NEW b1, NEW b2
  PROVE  Decode(0, b1, b2) = Wait
  BY Classes DEF Decode, Wait

LEMMA DecodesStore ==
  ASSUME NEW b1 \in Byte, NEW b2 \in Byte
  PROVE  Decode(192, b1, b2) = Stores(b2 * 256 + b1)
  BY Classes DEF Decode, Stores

LEMMA DecodesBack ==
  ASSUME ProgramsFit, NEW b2
  PROVE  Decode(32, 0, b2) = Back
<1>1. 32 % 64 = 32
  BY SMT
<1>2. Number(32, 0) % AddrMod = 0
  BY <1>1, Constants DEF Number, ProgramsFit
<1>3. 0 \in Byte
  BY DEF Byte
<1>4. QED
  BY <1>2, <1>3, Classes DEF Decode, Back

LEMMA FetchesBytes ==
  ASSUME ProgramsFit, mem \in [Addr -> Byte \cup {Unwritten}], NEW a \in 0 .. 6
  PROVE  Fetch(a) = Decode(mem[a], mem[a + 1], mem[a + 2])
<1>1. {a, a + 1, a + 2} \subseteq DOMAIN mem
  BY Constants DEF Addr
<1>2. QED
  BY <1>1 DEF Fetch, ByteAt

LEMMA FetchesWait ==
  ASSUME ProgramsFit, mem \in [Addr -> Byte \cup {Unwritten}], NEW a \in 0 .. 8, mem[a] = 0
  PROVE  Fetch(a) = Wait
<1>1. a \in DOMAIN mem
  BY Constants DEF Addr
<1>2. QED
  BY <1>1, DecodesWait DEF Fetch, ByteAt

LEMMA FetchesBack ==
  ASSUME ProgramsFit, mem \in [Addr -> Byte \cup {Unwritten}], mem[7] = 32, mem[8] = 0
  PROVE  Fetch(7) = Back
<1>1. 7 \in DOMAIN mem /\ 8 \in DOMAIN mem /\ 7 + 1 = 8
  BY Constants DEF Addr
<1>2. QED
  BY <1>1, DecodesBack DEF Fetch, ByteAt

LEMMA FetchesStore ==
  ASSUME ProgramsFit, mem \in [Addr -> Byte \cup {Unwritten}], NEW a \in 0 .. 6,
         mem[a] = 192, mem[a + 1] \in Byte, mem[a + 2] \in Byte
  PROVE  Fetch(a) = Stores(mem[a + 2] * 256 + mem[a + 1])
  BY FetchesBytes, DecodesStore

LEMMA ShifterProgram ==
  ASSUME ProgramsFit, mem \in [Addr -> Byte \cup {Unwritten}], HoldsShifter
  PROVE  /\ Fetch(0) = Wait /\ Fetch(1) = Stores(3) /\ Fetch(4) = Stores(2)
         /\ Fetch(6) = Wait /\ Fetch(7) = Back
<1>1. /\ mem[0] = 0 /\ mem[1] = 192 /\ mem[2] = 3 /\ mem[3] = 0
      /\ mem[4] = 192 /\ mem[5] = 2 /\ mem[6] = 0 /\ mem[7] = 32 /\ mem[8] = 0
  BY DEF HoldsShifter, HoldsBytes
<1>2. Fetch(0) = Wait /\ Fetch(6) = Wait
  BY <1>1, FetchesWait
<1>3. Fetch(1) = Stores(3)
  BY <1>1, FetchesStore DEF Byte
<1>4. Fetch(4) = Stores(2)
  BY <1>1, FetchesStore DEF Byte
<1>5. Fetch(7) = Back
  BY <1>1, FetchesBack
<1>6. QED
  BY <1>2, <1>3, <1>4, <1>5

LEMMA LatcherProgram ==
  ASSUME ProgramsFit, mem \in [Addr -> Byte \cup {Unwritten}], HoldsLatcher
  PROVE  Fetch(0) = Stores(32) /\ Fetch(3) = Stores(0) /\ Fetch(6) = Wait
<1>1. /\ mem[0] = 192 /\ mem[1] = 32 /\ mem[2] = 0 /\ mem[3] = 192
      /\ mem[4] = 0 /\ mem[5] = 0 /\ mem[6] = 0
  BY DEF HoldsLatcher, HoldsBytes
<1>2. Fetch(0) = Stores(32)
  BY <1>1, FetchesStore DEF Byte
<1>3. Fetch(3) = Stores(0)
  BY <1>1, FetchesStore DEF Byte
<1>4. QED
  BY <1>1, <1>2, <1>3, FetchesWait

LEMMA HitsProgram ==
  ASSUME ProgramsFit, mem \in [Addr -> Byte \cup {Unwritten}], HoldsHits
  PROVE  /\ Fetch(0) = Wait /\ Fetch(1) = Stores(8) /\ Fetch(4) = Stores(0)
         /\ Fetch(6) = Wait /\ Fetch(7) = Wait
<1>1. /\ mem[0] = 0 /\ mem[1] = 192 /\ mem[2] = 8 /\ mem[3] = 0
      /\ mem[4] = 192 /\ mem[5] = 0 /\ mem[6] = 0 /\ mem[7] = 0
  BY DEF HoldsHits, HoldsBytes
<1>2. Fetch(1) = Stores(8)
  BY <1>1, FetchesStore DEF Byte
<1>3. Fetch(4) = Stores(0)
  BY <1>1, FetchesStore DEF Byte
<1>4. QED
  BY <1>1, <1>2, <1>3, FetchesWait

(* While the latch program is stored over the shifter, its second STORE is *)
(* put together from old and new bytes.                                    *)
LEMMA MixedProgram ==
  ASSUME ProgramsFit, mem \in [Addr -> Byte \cup {Unwritten}],
         HoldsBytes(0, 192, 32, 0, 192), HoldsBytes(1, 192, 2, 0, 32)
  PROVE  Fetch(0) = Stores(32) /\ Fetch(3) = Stores(704) /\ Fetch(6) = Wait
<1>1. /\ mem[0] = 192 /\ mem[1] = 32 /\ mem[2] = 0 /\ mem[3] = 192
      /\ mem[4] = 192 /\ mem[5] = 2 /\ mem[6] = 0
  BY DEF HoldsBytes
<1>2. Fetch(0) = Stores(32)
  BY <1>1, FetchesStore DEF Byte
<1>3. Fetch(3) = Stores(704)
  BY <1>1, FetchesStore DEF Byte
<1>4. QED
  BY <1>1, <1>2, <1>3, FetchesWait

-----------------------------------------------------------------------------
(* A clock edge of the coprocessor, with no loop begun. *)

Loopless == ~loop_execution /\ ~lifo_readout

LEMMA LooplessEdge ==
  ASSUME Loopless, instr.op \in {"WAITT", "STORE", "JUMP"}, PmccRun(instr, cr.trg)
  PROVE  /\ Loopless'
         /\ ~BranchExec(instr)
         /\ pc_id' = PcIf(instr, cr.trg, FALSE)
         /\ matrix_ctrl' = IF instr.op = "STORE" THEN instr.arg ELSE matrix_ctrl
<1>1. ~Branch(instr) /\ ~IsLoop(instr)
  BY DEF Branch, IsLoop
<1>2. ~BranchExec(instr) /\ ~ClosesLoop(instr) /\ ~OpensLoop(instr)
  BY <1>1 DEF BranchExec, Repeats, ClosesLoop, OpensLoop
<1>3. ~LoopExecutionNxt(instr) /\ ~LifoPop(instr)
  BY <1>2 DEF LoopExecutionNxt, LifoPop, Loopless
<1>4. loop_execution' = LoopExecutionNxt(instr) /\ lifo_readout' = LifoPop(instr)
  BY DEF PmccRun
<1>5. Store(instr) <=> instr.op = "STORE"
  BY DEF Store
<1>6. QED
  BY <1>2, <1>3, <1>4, <1>5 DEF Loopless, PmccRun

LEMMA RunEdge ==
  ASSUME ProgramsFit, Loopless, NEW access, NEW dout, PmcClock(access, dout),
         cr.en, ~cr.rst, cr'.en, ~cr'.rst, instr.op \in {"WAITT", "STORE", "JUMP"}
  PROVE  /\ Loopless'
         /\ ~BranchExec(instr)
         /\ pc_id' = PcIf(instr, cr.trg, FALSE)
         /\ instr' = Fetch(PcIf(instr, cr.trg, FALSE))
         /\ matrix_ctrl' = IF instr.op = "STORE" THEN instr.arg ELSE matrix_ctrl
<1>1. InReset(cr) = FALSE /\ InReset(cr') = FALSE
  BY DEF InReset
<1>2. PmccRun(instr, cr.trg) /\ instr' = Fetch(PcIf(instr, cr.trg, FALSE))
  BY <1>1 DEF PmcClock, CodeRamClock
<1>3. QED
  BY <1>2, LooplessEdge

LEMMA WaitEdge ==
  ASSUME ProgramsFit, Loopless, NEW access, NEW dout, PmcClock(access, dout),
         cr.en, ~cr.rst, cr'.en, ~cr'.rst, ~cr.trg, instr = Wait
  PROVE  /\ Loopless'
         /\ pc_id' = pc_id /\ instr' = Fetch(pc_id) /\ matrix_ctrl' = matrix_ctrl
<1>1. instr.op = "WAITT"
  BY DEF Wait
<1>2. /\ Loopless' /\ ~BranchExec(instr)
      /\ pc_id' = PcIf(instr, cr.trg, FALSE)
      /\ instr' = Fetch(PcIf(instr, cr.trg, FALSE))
      /\ matrix_ctrl' = matrix_ctrl
  BY <1>1, RunEdge
<1>3. PcIf(instr, cr.trg, FALSE) = pc_id
  BY <1>1, <1>2 DEF PcIf, Waiting, Waitt, Jump
<1>4. QED
  BY <1>2, <1>3

LEMMA TriggerEdge ==
  ASSUME ProgramsFit, Loopless, NEW access, NEW dout, PmcClock(access, dout),
         cr.en, ~cr.rst, cr'.en, ~cr'.rst, cr.trg, instr = Wait, pc_id = 0
  PROVE  /\ Loopless'
         /\ pc_id' = 1 /\ instr' = Fetch(1) /\ matrix_ctrl' = matrix_ctrl
<1>1. instr.op = "WAITT"
  BY DEF Wait
<1>2. Following(instr) = 1
  <2>1. Bytes(instr) = 1
    BY <1>1 DEF Bytes, Store, IsLoop, Jump
  <2>2. 1 % AddrMod = 1
    BY Constants
  <2>3. QED
    BY <2>1, <2>2 DEF Following
<1>3. /\ Loopless' /\ ~BranchExec(instr)
      /\ pc_id' = PcIf(instr, cr.trg, FALSE)
      /\ instr' = Fetch(PcIf(instr, cr.trg, FALSE))
      /\ matrix_ctrl' = matrix_ctrl
  BY <1>1, RunEdge
<1>4. PcIf(instr, cr.trg, FALSE) = 1
  BY <1>1, <1>2, <1>3 DEF PcIf, Waiting, Waitt, Jump
<1>5. QED
  BY <1>3, <1>4

LEMMA StoreEdge ==
  ASSUME ProgramsFit, Loopless, NEW access, NEW dout, PmcClock(access, dout),
         cr.en, ~cr.rst, cr'.en, ~cr'.rst, NEW v, instr = Stores(v), pc_id \in 0 .. 5
  PROVE  /\ Loopless'
         /\ pc_id' = pc_id + 3 /\ instr' = Fetch(pc_id + 3) /\ matrix_ctrl' = v
<1>1. instr.op = "STORE" /\ instr.arg = v
  BY DEF Stores
<1>2. Following(instr) = pc_id + 3
  <2>1. Bytes(instr) = 3
    BY <1>1 DEF Bytes, Store, IsLoop, Jump
  <2>2. (pc_id + 3) % AddrMod = pc_id + 3
    BY Constants
  <2>3. QED
    BY <2>1, <2>2 DEF Following
<1>3. /\ Loopless' /\ ~BranchExec(instr)
      /\ pc_id' = PcIf(instr, cr.trg, FALSE)
      /\ instr' = Fetch(PcIf(instr, cr.trg, FALSE))
      /\ matrix_ctrl' = v
  BY <1>1, RunEdge
<1>4. PcIf(instr, cr.trg, FALSE) = pc_id + 3
  BY <1>1, <1>2, <1>3 DEF PcIf, Waiting, Waitt, Jump
<1>5. QED
  BY <1>3, <1>4

LEMMA BackEdge ==
  ASSUME ProgramsFit, Loopless, NEW access, NEW dout, PmcClock(access, dout),
         cr.en, ~cr.rst, cr'.en, ~cr'.rst, instr = Back
  PROVE  /\ Loopless'
         /\ pc_id' = 0 /\ instr' = Fetch(0) /\ matrix_ctrl' = matrix_ctrl
<1>1. instr.op = "JUMP" /\ instr.arg = 0
  BY DEF Back
<1>2. /\ Loopless' /\ ~BranchExec(instr)
      /\ pc_id' = PcIf(instr, cr.trg, FALSE)
      /\ instr' = Fetch(PcIf(instr, cr.trg, FALSE))
      /\ matrix_ctrl' = matrix_ctrl
  BY <1>1, RunEdge
<1>3. PcIf(instr, cr.trg, FALSE) = 0
  BY <1>1, <1>2 DEF PcIf, Waiting, Waitt, Jump
<1>4. QED
  BY <1>2, <1>3

LEMMA ResetEdge ==
  ASSUME NEW access, NEW dout, PmcClock(access, dout), InReset(cr) \/ InReset(cr')
  PROVE  /\ Loopless' /\ pc_id' = 0 /\ matrix_ctrl' = 0
         /\ InReset(cr) => instr' = Fetch(0)
<1>1. PmccReset
  BY DEF PmcClock
<1>2. InReset(cr) => PcIf(instr, cr.trg, InReset(cr)) = 0
  BY DEF PcIf, InReset
<1>3. QED
  BY <1>1, <1>2 DEF PmccReset, PmcClock, CodeRamClock, Loopless

-----------------------------------------------------------------------------
(* The registers. *)

\* An access that stores neither in the code RAM nor in the control register.
Quiet(access) == ~Writes(access, "PMCC_CODE_RAM") /\ ~Writes(access, "PMC_CR")

LEMMA QuietEdge ==
  ASSUME NEW access, NEW dout, PmcClock(access, dout), Quiet(access),
         cr \in [en : BOOLEAN, rst : BOOLEAN, trg : BOOLEAN]
  PROVE  /\ mem' = mem
         /\ cr' \in [en : BOOLEAN, rst : BOOLEAN, trg : BOOLEAN]
         /\ (cr'.en <=> cr.en) /\ (cr'.rst => ~cr.rst) /\ (cr'.trg => ~cr.trg)
         /\ ~cr'.rst /\ ~cr'.trg
<1>1. cr' = [cr EXCEPT !.trg = @ /\ ~cr.trg, !.rst = @ /\ ~cr.rst]
  BY DEF PmcClock, CrNxt, Quiet
<1>2. mem' = mem
  BY DEF PmcClock, CodeRamClock, Quiet
<1>3. QED
  BY <1>1, <1>2

LEMMA StoreRamEdge ==
  ASSUME ProgramsFit, NEW w \in {0, 1, 2},
         NEW b0 \in Byte, NEW b1 \in Byte, NEW b2 \in Byte, NEW b3 \in Byte,
         PmcClock(WriteOf("PMCC_CODE_RAM", [word |-> w, bytes |-> <<b0, b1, b2, b3>>]), Dout),
         mem \in [Addr -> Byte \cup {Unwritten}],
         cr \in [en : BOOLEAN, rst : BOOLEAN, trg : BOOLEAN]
  PROVE  /\ mem' \in [Addr -> Byte \cup {Unwritten}]
         /\ \A a \in 0 .. 8 : a \div 4 # w => mem'[a] = mem[a]
         /\ w = 0 => mem'[0] = b0 /\ mem'[1] = b1 /\ mem'[2] = b2 /\ mem'[3] = b3
         /\ w = 1 => mem'[4] = b0 /\ mem'[5] = b1 /\ mem'[6] = b2 /\ mem'[7] = b3
         /\ w = 2 => mem'[8] = b0
         /\ cr' \in [en : BOOLEAN, rst : BOOLEAN, trg : BOOLEAN]
         /\ (cr'.en <=> cr.en) /\ ~cr'.rst /\ ~cr'.trg
<1> DEFINE bytes == <<b0, b1, b2, b3>>
           access == WriteOf("PMCC_CODE_RAM", [word |-> w, bytes |-> bytes])
<1>1. Writes(access, "PMCC_CODE_RAM") /\ ~Writes(access, "PMC_CR")
      /\ access.wdata.word = w /\ access.wdata.bytes = bytes
  BY DEF Writes, WriteOf
<1>2. cr' = [cr EXCEPT !.trg = @ /\ ~cr.trg, !.rst = @ /\ ~cr.rst]
  BY <1>1 DEF PmcClock, CrNxt
<1>3. mem' = [a \in Addr |-> IF a \div 4 = w THEN bytes[(a % 4) + 1] ELSE mem[a]]
  BY <1>1 DEF PmcClock, CodeRamClock
<1>4. bytes[1] = b0 /\ bytes[2] = b1 /\ bytes[3] = b2 /\ bytes[4] = b3
  OBVIOUS
<1>5. \A a \in Addr : a % 4 \in 0 .. 3 /\ bytes[(a % 4) + 1] \in Byte
  <2> TAKE a \in Addr
  <2>1. a % 4 \in 0 .. 3
    BY Constants DEF Addr
  <2>2. (a % 4) + 1 \in {1, 2, 3, 4}
    BY <2>1
  <2>3. QED
    BY <1>4, <2>1, <2>2
<1> HIDE DEF bytes
<1>6. 0 .. 8 \subseteq Addr
  BY Constants DEF Addr
<1>7. mem' \in [Addr -> Byte \cup {Unwritten}]
  BY <1>3, <1>5
<1>8. \A a \in 0 .. 8 : a \div 4 # w => mem'[a] = mem[a]
  BY <1>3, <1>6
<1>9. \A a \in 0 .. 8 : a \div 4 = w => mem'[a] = bytes[(a % 4) + 1]
  BY <1>3, <1>6
<1>10. /\ 0 \div 4 = 0 /\ 1 \div 4 = 0 /\ 2 \div 4 = 0 /\ 3 \div 4 = 0
       /\ 4 \div 4 = 1 /\ 5 \div 4 = 1 /\ 6 \div 4 = 1 /\ 7 \div 4 = 1 /\ 8 \div 4 = 2
       /\ 0 % 4 = 0 /\ 1 % 4 = 1 /\ 2 % 4 = 2 /\ 3 % 4 = 3
       /\ 4 % 4 = 0 /\ 5 % 4 = 1 /\ 6 % 4 = 2 /\ 7 % 4 = 3 /\ 8 % 4 = 0
  BY SMT
<1>11. /\ w = 0 => mem'[0] = b0 /\ mem'[1] = b1 /\ mem'[2] = b2 /\ mem'[3] = b3
       /\ w = 1 => mem'[4] = b0 /\ mem'[5] = b1 /\ mem'[6] = b2 /\ mem'[7] = b3
       /\ w = 2 => mem'[8] = b0
  BY <1>4, <1>9, <1>10
<1>12. QED
  BY <1>2, <1>7, <1>8, <1>11

LEMMA StoreCrEdge ==
  ASSUME NEW field \in {"en", "rst", "trg"},
         PmcClock(WriteOf("PMC_CR", [loaded EXCEPT ![field] = TRUE]), Dout),
         cr \in [en : BOOLEAN, rst : BOOLEAN, trg : BOOLEAN],
         loaded = cr, ~cr.rst, ~cr.trg
  PROVE  /\ mem' = mem
         /\ cr' \in [en : BOOLEAN, rst : BOOLEAN, trg : BOOLEAN]
         /\ cr'.en  <=> cr.en \/ field = "en"
         /\ cr'.rst <=> field = "rst"
         /\ cr'.trg <=> field = "trg"
<1> DEFINE access == WriteOf("PMC_CR", [loaded EXCEPT ![field] = TRUE])
<1>1. /\ Writes(access, "PMC_CR") /\ ~Writes(access, "PMCC_CODE_RAM")
      /\ access.wdata = [cr EXCEPT ![field] = TRUE]
  BY DEF Writes, WriteOf
<1>2. cr' = [access.wdata EXCEPT !.trg = @ /\ ~cr.trg, !.rst = @ /\ ~cr.rst]
  BY <1>1 DEF PmcClock, CrNxt
<1>3. mem' = mem
  BY <1>1 DEF PmcClock, CodeRamClock
<1> HIDE DEF access
<1>4. QED
  BY <1>1, <1>2, <1>3

-----------------------------------------------------------------------------
(* What the matrix makes of the control lines. *)

LEMMA LineValues ==
  /\ ~ClkSh(0) /\ ~ShA(0) /\ ~Gate(0) /\ ~Strobe(0) /\ ~WriteCfg(0)
  /\ ~ClkSh(2) /\ ShA(2) /\ ~Gate(2) /\ ~Strobe(2) /\ ~WriteCfg(2)
  /\ ClkSh(3) /\ ShA(3) /\ ~Gate(3) /\ ~Strobe(3) /\ ~WriteCfg(3)
  /\ ~ClkSh(8) /\ ~ShA(8) /\ Gate(8) /\ ~Strobe(8) /\ ~WriteCfg(8)
  /\ ~ClkSh(32) /\ ~ShA(32) /\ ~Gate(32) /\ ~Strobe(32) /\ WriteCfg(32)
  /\ ~ClkSh(704) /\ ~ShA(704) /\ ~Gate(704) /\ ~Strobe(704) /\ ~WriteCfg(704)
<1>1. ~ClkSh(0) /\ ~ShA(0) /\ ~Gate(0) /\ ~Strobe(0) /\ ~WriteCfg(0)
  BY DEF Line, ClkSh, ShA, Gate, Strobe, WriteCfg
<1>2. ~ClkSh(2) /\ ShA(2) /\ ~Gate(2) /\ ~Strobe(2) /\ ~WriteCfg(2)
  BY DEF Line, ClkSh, ShA, Gate, Strobe, WriteCfg
<1>3. ClkSh(3) /\ ShA(3) /\ ~Gate(3) /\ ~Strobe(3) /\ ~WriteCfg(3)
  BY DEF Line, ClkSh, ShA, Gate, Strobe, WriteCfg
<1>4. ~ClkSh(8) /\ ~ShA(8) /\ Gate(8) /\ ~Strobe(8) /\ ~WriteCfg(8)
  BY DEF Line, ClkSh, ShA, Gate, Strobe, WriteCfg
<1>5. ~ClkSh(32) /\ ~ShA(32) /\ ~Gate(32) /\ ~Strobe(32) /\ WriteCfg(32)
  BY DEF Line, ClkSh, ShA, Gate, Strobe, WriteCfg
<1>6. ~ClkSh(704) /\ ~ShA(704) /\ ~Gate(704) /\ ~Strobe(704) /\ ~WriteCfg(704)
  BY DEF Line, ClkSh, ShA, Gate, Strobe, WriteCfg
<1>7. QED
  BY <1>1, <1>2, <1>3, <1>4, <1>5, <1>6

\* A step in which the matrix does nothing.
Still ==
  /\ UNCHANGED <<pixels, config>>
  /\ ~Latches(matrix_ctrl, matrix_ctrl') /\ ~Counts(matrix_ctrl, matrix_ctrl')

\* A step in which it only shifts, or latches, or counts.
ShiftsIn ==
  /\ pixels' = [k \in 1 .. PixelBits |-> IF k = 1 THEN din_0' ELSE pixels[k - 1]]
  /\ config' = config
  /\ ~Latches(matrix_ctrl, matrix_ctrl') /\ ~Counts(matrix_ctrl, matrix_ctrl')

LatchesConfig ==
  /\ pixels' = pixels /\ config' = pixels
  /\ Latches(matrix_ctrl, matrix_ctrl') /\ ~Counts(matrix_ctrl, matrix_ctrl')

CountsHits ==
  /\ pixels' \in Word /\ config' = config
  /\ ~Latches(matrix_ctrl, matrix_ctrl') /\ Counts(matrix_ctrl, matrix_ctrl')

LEMMA SameLines ==
  ASSUME MatrixStep(matrix_ctrl, matrix_ctrl', din_0'), matrix_ctrl' = matrix_ctrl
  PROVE  Still
  BY DEF MatrixStep, Shifts, Latches, Counts, Still

LEMMA CalmLines ==
  ASSUME MatrixStep(matrix_ctrl, matrix_ctrl', din_0'),
         \/ matrix_ctrl = 3 /\ matrix_ctrl' = 2
         \/ matrix_ctrl \in {0, 2, 704, 32} /\ matrix_ctrl' = 0
         \/ matrix_ctrl = 0 /\ matrix_ctrl' = 8
         \/ matrix_ctrl = 32 /\ matrix_ctrl' = 704
  PROVE  Still
<1>1. /\ ~Shifts(matrix_ctrl, matrix_ctrl') /\ ~Latches(matrix_ctrl, matrix_ctrl')
      /\ ~Counts(matrix_ctrl, matrix_ctrl')
  BY LineValues DEF Shifts, Latches, Counts
<1>2. QED
  BY <1>1 DEF MatrixStep, Still

LEMMA ShiftLines ==
  ASSUME MatrixStep(matrix_ctrl, matrix_ctrl', din_0'), matrix_ctrl \in {0, 2}, matrix_ctrl' = 3
  PROVE  ShiftsIn
<1>1. /\ Shifts(matrix_ctrl, matrix_ctrl') /\ ~Latches(matrix_ctrl, matrix_ctrl')
      /\ ~Counts(matrix_ctrl, matrix_ctrl')
  BY LineValues DEF Shifts, Latches, Counts
<1>2. QED
  BY <1>1 DEF MatrixStep, ShiftsIn

LEMMA LatchLines ==
  ASSUME MatrixStep(matrix_ctrl, matrix_ctrl', din_0'), matrix_ctrl \in {0, 2}, matrix_ctrl' = 32
  PROVE  LatchesConfig
<1>1. /\ ~Shifts(matrix_ctrl, matrix_ctrl') /\ Latches(matrix_ctrl, matrix_ctrl')
      /\ ~Counts(matrix_ctrl, matrix_ctrl')
  BY LineValues DEF Shifts, Latches, Counts
<1>2. QED
  BY <1>1 DEF MatrixStep, LatchesConfig

LEMMA CountLines ==
  ASSUME MatrixStep(matrix_ctrl, matrix_ctrl', din_0'), matrix_ctrl = 8, matrix_ctrl' = 0
  PROVE  CountsHits
<1>1. /\ ~Shifts(matrix_ctrl, matrix_ctrl') /\ ~Latches(matrix_ctrl, matrix_ctrl')
      /\ Counts(matrix_ctrl, matrix_ctrl')
  BY LineValues DEF Shifts, Latches, Counts
<1>2. QED
  BY <1>1 DEF MatrixStep, CountsHits

-----------------------------------------------------------------------------
(* The accesses. *)

LEMMA Paces ==
  ASSUME NEW access, Pace(access, AccessGap), gap \in Nat \ {0}, AccessGap \in Nat
  PROVE  /\ gap' \in Nat \ {0}
         /\ access # NoAccess => gap' = 1
         /\ access = NoAccess => gap' = IF gap < AccessGap THEN gap + 1 ELSE gap
<1>1. gap' = IF access # NoAccess THEN 1 ELSE IF gap < AccessGap THEN gap + 1 ELSE gap
  BY DEF Pace
<1>2. CASE access # NoAccess
  BY <1>1, <1>2
<1>3. CASE access = NoAccess
  BY <1>1, <1>3
<1>4. QED
  BY <1>2, <1>3

LEMMA QuietAccesses ==
  /\ Quiet(NoAccess)
  /\ \A reg : Quiet(ReadOf(reg)) /\ (reg # "NONE" => ReadOf(reg) # NoAccess)
  /\ \A data : Quiet(WriteOf("PMC_DIN_0", data))
  /\ \A reg, data : WriteOf(reg, data) # NoAccess
<1>1. Quiet(NoAccess)
  BY DEF Quiet, Writes, NoAccess
<1>2. \A reg : Quiet(ReadOf(reg)) /\ (reg # "NONE" => ReadOf(reg) # NoAccess)
  BY DEF Quiet, Writes, ReadOf, NoAccess
<1>3. \A data : Quiet(WriteOf("PMC_DIN_0", data))
  BY DEF Quiet, Writes, WriteOf
<1>4. \A reg, data : WriteOf(reg, data) # NoAccess
  <2> SUFFICES ASSUME NEW reg, NEW data PROVE WriteOf(reg, data).we # NoAccess.we
    OBVIOUS
  <2>1. QED
    BY DEF WriteOf, NoAccess
<1>5. QED
  BY <1>1, <1>2, <1>3, <1>4

\* What any access leaves alone.
Made(access) ==
  /\ Clock(access) /\ access # NoAccess /\ Observe /\ target' = target
  /\ gap' = 1

LEMMA StoreMade ==
  ASSUME CpuAccess, NEW reg, NEW data, Head(todo) = StoreTo(reg, data),
         gap \in Nat \ {0}, AccessGap \in Nat
  PROVE  /\ gap >= AccessGap /\ Made(WriteOf(reg, data))
         /\ loaded' = loaded /\ result' = result /\ GoesOn(FALSE)
<1>1. /\ Head(todo).op = "store" /\ Head(todo).reg = reg /\ Head(todo).data = data
  BY DEF StoreTo
<1>2. AccessDue(loaded) = WriteOf(reg, data)
  BY <1>1 DEF AccessDue
<1>3. Head(todo) # LoadFrom("PMC_CR") /\ Head(todo) # LoadFrom("PMC_DOUT_0")
  BY <1>1 DEF LoadFrom
<1>4. gap >= AccessGap
  BY <1>1 DEF CpuAccess, Due
<1>5. Clock(WriteOf(reg, data)) /\ Observe /\ target' = target
      /\ loaded' = loaded /\ result' = result
  BY <1>2, <1>3 DEF CpuAccess
<1>6. GoesOn(FALSE)
  <2>1. (Head(todo).op = "poll" /\ ~sr_wtt) = FALSE
    BY <1>1
  <2>2. QED
    BY <2>1 DEF CpuAccess
<1>7. gap' = 1
  BY <1>5, Paces, QuietAccesses DEF Clock
<1>8. QED
  BY <1>4, <1>5, <1>6, <1>7, QuietAccesses DEF Made

LEMMA LoadMade ==
  ASSUME CpuAccess, NEW reg \in {"PMC_CR", "PMC_DOUT_0"}, Head(todo) = LoadFrom(reg),
         gap \in Nat \ {0}, AccessGap \in Nat
  PROVE  /\ gap >= AccessGap /\ Made(ReadOf(reg)) /\ GoesOn(FALSE)
         /\ reg = "PMC_CR" => loaded' = cr /\ result' = result
         /\ reg = "PMC_DOUT_0" => result' = Append(result, dout_0)
<1>1. Head(todo).op = "load" /\ Head(todo).reg = reg
  BY DEF LoadFrom
<1>2. AccessDue(loaded) = ReadOf(reg)
  BY <1>1 DEF AccessDue
<1>3. gap >= AccessGap
  BY <1>1 DEF CpuAccess, Due
<1>4. LoadFrom("PMC_CR") # LoadFrom("PMC_DOUT_0")
  <2>1. LoadFrom("PMC_CR").reg # LoadFrom("PMC_DOUT_0").reg
    BY DEF LoadFrom
  <2>2. QED
    BY <2>1
<1>5. Clock(ReadOf(reg)) /\ Observe /\ target' = target
  BY <1>2 DEF CpuAccess
<1>6. /\ reg = "PMC_CR" => loaded' = cr /\ result' = result
      /\ reg = "PMC_DOUT_0" => result' = Append(result, dout_0)
  BY <1>4 DEF CpuAccess
<1>7. GoesOn(FALSE)
  <2>1. (Head(todo).op = "poll" /\ ~sr_wtt) = FALSE
    BY <1>1
  <2>2. QED
    BY <2>1 DEF CpuAccess
<1>8. gap' = 1 /\ ReadOf(reg) # NoAccess
  BY <1>5, Paces, QuietAccesses DEF Clock
<1>9. QED
  BY <1>3, <1>5, <1>6, <1>7, <1>8 DEF Made

LEMMA PollMade ==
  ASSUME CpuAccess, Head(todo) = Polls, gap \in Nat \ {0}, AccessGap \in Nat
  PROVE  /\ gap >= AccessGap /\ Made(ReadOf("PMC_SR"))
         /\ GoesOn(FALSE) \/ UNCHANGED <<api, todo, part, bit>>
         /\ loaded' = loaded /\ result' = result
<1>1. Head(todo).op = "poll" /\ Head(todo).reg = "PMC_SR"
  BY DEF Polls, PollOf
<1>2. AccessDue(loaded) = ReadOf("PMC_SR")
  BY <1>1 DEF AccessDue
<1>3. Head(todo) # LoadFrom("PMC_CR") /\ Head(todo) # LoadFrom("PMC_DOUT_0")
  BY <1>1 DEF LoadFrom
<1>4. gap >= AccessGap
  BY <1>1 DEF CpuAccess, Due
<1>5. Clock(ReadOf("PMC_SR")) /\ Observe /\ target' = target
      /\ loaded' = loaded /\ result' = result
  BY <1>2, <1>3 DEF CpuAccess
<1>6. GoesOn(FALSE) \/ UNCHANGED <<api, todo, part, bit>>
  BY DEF CpuAccess, GoesOn
<1>7. gap' = 1 /\ ReadOf("PMC_SR") # NoAccess
  BY <1>5, Paces, QuietAccesses DEF Clock
<1>8. QED
  BY <1>4, <1>5, <1>6, <1>7 DEF Made

LEMMA SetMade ==
  ASSUME CpuAccess, NEW field, Head(todo) = Sets(field), gap \in Nat \ {0}, AccessGap \in Nat
  PROVE  /\ Made(WriteOf("PMC_CR", [loaded EXCEPT ![field] = TRUE]))
         /\ loaded' = loaded /\ result' = result /\ GoesOn(FALSE)
<1>1. /\ Head(todo).op = "store_back" /\ Head(todo).reg = "PMC_CR"
      /\ Head(todo).field = field /\ Head(todo).data = TRUE
  BY DEF Sets
<1>2. AccessDue(loaded) = WriteOf("PMC_CR", [loaded EXCEPT ![field] = TRUE])
  BY <1>1 DEF AccessDue
<1>3. Head(todo) # LoadFrom("PMC_CR") /\ Head(todo) # LoadFrom("PMC_DOUT_0")
  BY <1>1 DEF LoadFrom
<1>4. Clock(WriteOf("PMC_CR", [loaded EXCEPT ![field] = TRUE])) /\ Observe /\ target' = target
      /\ loaded' = loaded /\ result' = result
  BY <1>2, <1>3 DEF CpuAccess
<1>5. GoesOn(FALSE)
  <2>1. (Head(todo).op = "poll" /\ ~sr_wtt) = FALSE
    BY <1>1
  <2>2. QED
    BY <2>1 DEF CpuAccess
<1>6. gap' = 1
  BY <1>4, Paces, QuietAccesses DEF Clock
<1>7. QED
  BY <1>4, <1>5, <1>6, QuietAccesses DEF Made

-----------------------------------------------------------------------------
(* The scripts. *)

LEMMA Heads ==
  /\ Head(WholeShifter) = Shifter0 /\ Tail(WholeShifter) = ShifterFrom1 /\ Len(WholeShifter) = 7
  /\ Head(ShifterFrom1) = Shifter1 /\ Tail(ShifterFrom1) = ShifterFrom2 /\ Len(ShifterFrom1) = 6
  /\ Head(ShifterFrom2) = Shifter2 /\ Tail(ShifterFrom2) = Restart /\ Len(ShifterFrom2) = 5
  /\ Head(WholeLatcher) = Latcher0 /\ Tail(WholeLatcher) = LatcherFrom1 /\ Len(WholeLatcher) = 6
  /\ Head(LatcherFrom1) = Latcher1 /\ Tail(LatcherFrom1) = Restart /\ Len(LatcherFrom1) = 5
  /\ Head(WholeHits) = Hits0 /\ Tail(WholeHits) = HitsFrom1 /\ Len(WholeHits) = 6
  /\ Head(HitsFrom1) = Hits1 /\ Tail(HitsFrom1) = Restart /\ Len(HitsFrom1) = 5
  /\ Head(Restart) = Loads /\ Tail(Restart) = Resetting /\ Len(Restart) = 4
  /\ Head(Resetting) = Sets("rst") /\ Tail(Resetting) = Enabling /\ Len(Resetting) = 3
  /\ Head(Enabling) = Loads /\ Tail(Enabling) = Enables /\ Len(Enabling) = 2
  /\ Head(Enables) = Sets("en") /\ Len(Enables) = 1
  /\ Head(Awaiting) = Polls /\ Tail(Awaiting) = Triggering /\ Len(Awaiting) = 3
  /\ Head(Triggering) = Loads /\ Tail(Triggering) = Triggers /\ Len(Triggering) = 2
  /\ Head(Triggers) = Sets("trg") /\ Len(Triggers) = 1
  /\ Head(Writing) = StoreTo("PMC_DIN_0", target[PixelBits + 1 - bit])
  /\ Tail(Writing) = Awaiting /\ Len(Writing) = 4
  /\ Head(Reading) = LoadFrom("PMC_DOUT_0") /\ Tail(Reading) = Awaiting /\ Len(Reading) = 4
<1>1. /\ Head(WholeShifter) = Shifter0 /\ Tail(WholeShifter) = ShifterFrom1 /\ Len(WholeShifter) = 7
      /\ Head(ShifterFrom1) = Shifter1 /\ Tail(ShifterFrom1) = ShifterFrom2 /\ Len(ShifterFrom1) = 6
      /\ Head(ShifterFrom2) = Shifter2 /\ Tail(ShifterFrom2) = Restart /\ Len(ShifterFrom2) = 5
  BY DEF WholeShifter, ShifterFrom1, ShifterFrom2, Restart
<1>2. /\ Head(WholeLatcher) = Latcher0 /\ Tail(WholeLatcher) = LatcherFrom1 /\ Len(WholeLatcher) = 6
      /\ Head(LatcherFrom1) = Latcher1 /\ Tail(LatcherFrom1) = Restart /\ Len(LatcherFrom1) = 5
  BY DEF WholeLatcher, LatcherFrom1, Restart
<1>3. /\ Head(WholeHits) = Hits0 /\ Tail(WholeHits) = HitsFrom1 /\ Len(WholeHits) = 6
      /\ Head(HitsFrom1) = Hits1 /\ Tail(HitsFrom1) = Restart /\ Len(HitsFrom1) = 5
  BY DEF WholeHits, HitsFrom1, Restart
<1>4. /\ Head(Restart) = Loads /\ Tail(Restart) = Resetting /\ Len(Restart) = 4
      /\ Head(Resetting) = Sets("rst") /\ Tail(Resetting) = Enabling /\ Len(Resetting) = 3
      /\ Head(Enabling) = Loads /\ Tail(Enabling) = Enables /\ Len(Enabling) = 2
      /\ Head(Enables) = Sets("en") /\ Len(Enables) = 1
  BY DEF Restart, Resetting, Enabling, Enables
<1>5. /\ Head(Awaiting) = Polls /\ Tail(Awaiting) = Triggering /\ Len(Awaiting) = 3
      /\ Head(Triggering) = Loads /\ Tail(Triggering) = Triggers /\ Len(Triggering) = 2
      /\ Head(Triggers) = Sets("trg") /\ Len(Triggers) = 1
  BY DEF Awaiting, Triggering, Triggers
<1>6. /\ Head(Writing) = StoreTo("PMC_DIN_0", target[PixelBits + 1 - bit])
      /\ Tail(Writing) = Awaiting /\ Len(Writing) = 4
      /\ Head(Reading) = LoadFrom("PMC_DOUT_0") /\ Tail(Reading) = Awaiting /\ Len(Reading) = 4
  BY DEF Writing, Reading, Awaiting
<1>7. QED
  BY <1>1, <1>2, <1>3, <1>4, <1>5, <1>6

LEMMA GoesOnWithin ==
  ASSUME GoesOn(FALSE), Len(todo) \in 2 .. 7
  PROVE  todo' = Tail(todo) /\ UNCHANGED <<api, part, bit>>
<1>1. Len(todo) # 1
  OBVIOUS
<1>2. QED
  BY <1>1, Zenon DEF GoesOn

LEMMA GoesOnBeyond ==
  ASSUME GoesOn(FALSE), Len(todo) = 1, bit \in Nat, Rounds \in Nat
  PROVE  \/ bit < Rounds /\ NextRound
         \/ bit >= Rounds /\ NextPart
  BY DEF GoesOn

LEMMA Joins ==
  ASSUME NEW S, NEW s \in Seq(S), NEW t \in Seq(S), NEW v \in Seq(S),
         Len(v) = Len(s) + Len(t),
         \A i \in 1 .. Len(s) : v[i] = s[i],
         \A i \in 1 .. Len(t) : v[Len(s) + i] = t[i]
  PROVE  s \o t = v
<1>1. /\ s \o t \in Seq(S) /\ Len(s \o t) = Len(s) + Len(t)
      /\ \A i \in 1 .. Len(s) + Len(t) :
           (s \o t)[i] = IF i <= Len(s) THEN s[i] ELSE t[i - Len(s)]
  BY ConcatProperties
<1>2. Len(s) \in Nat /\ Len(t) \in Nat
  OBVIOUS
<1>3. ASSUME NEW i \in 1 .. Len(v)
      PROVE  (s \o t)[i] = v[i]
  <2>1. CASE i <= Len(s)
    BY <1>1, <1>2, <2>1
  <2>2. CASE i > Len(s)
    <3>1. i - Len(s) \in 1 .. Len(t) /\ Len(s) + (i - Len(s)) = i
      BY <1>2, <2>2
    <3>2. v[i] = t[i - Len(s)]
      BY <3>1
    <3>3. QED
      BY <1>1, <1>2, <2>2, <3>2
  <2>3. QED
    BY <1>2, <2>1, <2>2
<1>4. QED
  BY <1>1, <1>3, SeqEqual

LEMMA JoinsTwoTwo ==
  ASSUME NEW a, NEW b, NEW c, NEW d
  PROVE  <<a, b>> \o <<c, d>> = <<a, b, c, d>>
<1> DEFINE S == {a, b, c, d}
           s == <<a, b>>
           t == <<c, d>>
           v == <<a, b, c, d>>
<1>1. s \in Seq(S) /\ t \in Seq(S) /\ v \in Seq(S) /\ Len(s) = 2 /\ Len(t) = 2 /\ Len(v) = 4
      /\ s[1] = a /\ s[2] = b
      /\ t[1] = c /\ t[2] = d
      /\ v[1] = a /\ v[2] = b /\ v[3] = c /\ v[4] = d
  OBVIOUS
<1> HIDE DEF S, s, t, v
<1>2. \A i \in 1 .. Len(s) : v[i] = s[i]
  BY <1>1
<1>3. \A i \in 1 .. Len(t) : v[Len(s) + i] = t[i]
  BY <1>1
<1>4. Len(v) = Len(s) + Len(t)
  BY <1>1
<1>5. s \o t = v
  BY <1>1, <1>2, <1>3, <1>4, Joins
<1>6. QED
  BY <1>5 DEF s, t, v

LEMMA JoinsThreeTwo ==
  ASSUME NEW a, NEW b, NEW c, NEW d, NEW e
  PROVE  <<a, b, c>> \o <<d, e>> = <<a, b, c, d, e>>
<1> DEFINE S == {a, b, c, d, e}
           s == <<a, b, c>>
           t == <<d, e>>
           v == <<a, b, c, d, e>>
<1>1. s \in Seq(S) /\ t \in Seq(S) /\ v \in Seq(S) /\ Len(s) = 3 /\ Len(t) = 2 /\ Len(v) = 5
      /\ s[1] = a /\ s[2] = b /\ s[3] = c
      /\ t[1] = d /\ t[2] = e
      /\ v[1] = a /\ v[2] = b /\ v[3] = c /\ v[4] = d /\ v[5] = e
  OBVIOUS
<1> HIDE DEF S, s, t, v
<1>2. \A i \in 1 .. Len(s) : v[i] = s[i]
  BY <1>1
<1>3. \A i \in 1 .. Len(t) : v[Len(s) + i] = t[i]
  BY <1>1
<1>4. Len(v) = Len(s) + Len(t)
  BY <1>1
<1>5. s \o t = v
  BY <1>1, <1>2, <1>3, <1>4, Joins
<1>6. QED
  BY <1>5 DEF s, t, v

LEMMA JoinsFourTwo ==
  ASSUME NEW a, NEW b, NEW c, NEW d, NEW e, NEW f
  PROVE  <<a, b, c, d>> \o <<e, f>> = <<a, b, c, d, e, f>>
<1> DEFINE S == {a, b, c, d, e, f}
           s == <<a, b, c, d>>
           t == <<e, f>>
           v == <<a, b, c, d, e, f>>
<1>1. s \in Seq(S) /\ t \in Seq(S) /\ v \in Seq(S) /\ Len(s) = 4 /\ Len(t) = 2 /\ Len(v) = 6
      /\ s[1] = a /\ s[2] = b /\ s[3] = c /\ s[4] = d
      /\ t[1] = e /\ t[2] = f
      /\ v[1] = a /\ v[2] = b /\ v[3] = c /\ v[4] = d /\ v[5] = e /\ v[6] = f
  OBVIOUS
<1> HIDE DEF S, s, t, v
<1>2. \A i \in 1 .. Len(s) : v[i] = s[i]
  BY <1>1
<1>3. \A i \in 1 .. Len(t) : v[Len(s) + i] = t[i]
  BY <1>1
<1>4. Len(v) = Len(s) + Len(t)
  BY <1>1
<1>5. s \o t = v
  BY <1>1, <1>2, <1>3, <1>4, Joins
<1>6. QED
  BY <1>5 DEF s, t, v

LEMMA JoinsFiveTwo ==
  ASSUME NEW a, NEW b, NEW c, NEW d, NEW e, NEW f, NEW g
  PROVE  <<a, b, c, d, e>> \o <<f, g>> = <<a, b, c, d, e, f, g>>
<1> DEFINE S == {a, b, c, d, e, f, g}
           s == <<a, b, c, d, e>>
           t == <<f, g>>
           v == <<a, b, c, d, e, f, g>>
<1>1. s \in Seq(S) /\ t \in Seq(S) /\ v \in Seq(S) /\ Len(s) = 5 /\ Len(t) = 2 /\ Len(v) = 7
      /\ s[1] = a /\ s[2] = b /\ s[3] = c /\ s[4] = d /\ s[5] = e
      /\ t[1] = f /\ t[2] = g
      /\ v[1] = a /\ v[2] = b /\ v[3] = c /\ v[4] = d /\ v[5] = e /\ v[6] = f /\ v[7] = g
  OBVIOUS
<1> HIDE DEF S, s, t, v
<1>2. \A i \in 1 .. Len(s) : v[i] = s[i]
  BY <1>1
<1>3. \A i \in 1 .. Len(t) : v[Len(s) + i] = t[i]
  BY <1>1
<1>4. Len(v) = Len(s) + Len(t)
  BY <1>1
<1>5. s \o t = v
  BY <1>1, <1>2, <1>3, <1>4, Joins
<1>6. QED
  BY <1>5 DEF s, t, v

LEMMA JoinsOneTwo ==
  ASSUME NEW a, NEW b, NEW c
  PROVE  <<a>> \o <<b, c>> = <<a, b, c>>
<1> DEFINE S == {a, b, c}
           s == <<a>>
           t == <<b, c>>
           v == <<a, b, c>>
<1>1. s \in Seq(S) /\ t \in Seq(S) /\ v \in Seq(S) /\ Len(s) = 1 /\ Len(t) = 2 /\ Len(v) = 3
      /\ s[1] = a
      /\ t[1] = b /\ t[2] = c
      /\ v[1] = a /\ v[2] = b /\ v[3] = c
  OBVIOUS
<1> HIDE DEF S, s, t, v
<1>2. \A i \in 1 .. Len(s) : v[i] = s[i]
  BY <1>1
<1>3. \A i \in 1 .. Len(t) : v[Len(s) + i] = t[i]
  BY <1>1
<1>4. Len(v) = Len(s) + Len(t)
  BY <1>1
<1>5. s \o t = v
  BY <1>1, <1>2, <1>3, <1>4, Joins
<1>6. QED
  BY <1>5 DEF s, t, v

LEMMA JoinsOneThree ==
  ASSUME NEW a, NEW b, NEW c, NEW d
  PROVE  <<a>> \o <<b, c, d>> = <<a, b, c, d>>
<1> DEFINE S == {a, b, c, d}
           s == <<a>>
           t == <<b, c, d>>
           v == <<a, b, c, d>>
<1>1. s \in Seq(S) /\ t \in Seq(S) /\ v \in Seq(S) /\ Len(s) = 1 /\ Len(t) = 3 /\ Len(v) = 4
      /\ s[1] = a
      /\ t[1] = b /\ t[2] = c /\ t[3] = d
      /\ v[1] = a /\ v[2] = b /\ v[3] = c /\ v[4] = d
  OBVIOUS
<1> HIDE DEF S, s, t, v
<1>2. \A i \in 1 .. Len(s) : v[i] = s[i]
  BY <1>1
<1>3. \A i \in 1 .. Len(t) : v[Len(s) + i] = t[i]
  BY <1>1
<1>4. Len(v) = Len(s) + Len(t)
  BY <1>1
<1>5. s \o t = v
  BY <1>1, <1>2, <1>3, <1>4, Joins
<1>6. QED
  BY <1>5 DEF s, t, v

LEMMA TriggerScript == AwaitTrigger = Awaiting
<1>1. Trigger = <<Loads, Sets("trg")>>
  BY DEF Trigger, Update, Loads, Sets
<1>2. QED
  BY <1>1, JoinsOneTwo DEF AwaitTrigger, Awaiting, Polls

LEMMA ShifterScript == Begin("write") = WholeShifter /\ Begin("read") = WholeShifter
<1> DEFINE code == data_shifter
           words == [w \in 1 .. (Len(code) + 3) \div 4 |->
                       StoreTo("PMCC_CODE_RAM",
                         [word |-> w - 1,
                          bytes |-> [b \in 1 .. 4 |->
                            IF 4 * (w - 1) + b \in DOMAIN code THEN code[4 * (w - 1) + b] ELSE 0]])]
<1>1. Len(code) = 9 /\ DOMAIN code = 1 .. 9
      /\ code[1] = 0 /\ code[2] = 192 /\ code[3] = 3 /\ code[4] = 0 /\ code[5] = 192
      /\ code[6] = 2 /\ code[7] = 0 /\ code[8] = 32 /\ code[9] = 0
  BY DEF data_shifter
<1> HIDE DEF code
<1>2. (9 + 3) \div 4 = 3
  BY SMT
<1>3. words = <<Shifter0, Shifter1, Shifter2>>
  <2>1. [b \in 1 .. 4 |-> IF 4 * (1 - 1) + b \in DOMAIN code THEN code[4 * (1 - 1) + b] ELSE 0]
          = <<0, 192, 3, 0>>
    BY <1>1
  <2>2. [b \in 1 .. 4 |-> IF 4 * (2 - 1) + b \in DOMAIN code THEN code[4 * (2 - 1) + b] ELSE 0]
          = <<192, 2, 0, 32>>
    BY <1>1
  <2>3. [b \in 1 .. 4 |-> IF 4 * (3 - 1) + b \in DOMAIN code THEN code[4 * (3 - 1) + b] ELSE 0]
          = <<0, 0, 0, 0>>
    BY <1>1
  <2>4. words[1] = Shifter0 /\ words[2] = Shifter1 /\ words[3] = Shifter2
    BY <1>1, <1>2, <2>1, <2>2, <2>3 DEF Shifter0, Shifter1, Shifter2, StoreWord
  <2>5. words = [w \in 1 .. 3 |-> words[w]]
    BY <1>1, <1>2
  <2> HIDE DEF words
  <2>6. QED
    BY <2>4, <2>5
<1>4. LoadApplication(data_shifter) = words \o Reset \o Enable
  BY DEF LoadApplication, code
<1>5. LoadApplication(data_shifter) = WholeShifter
  <2>1. Reset = <<Loads, Sets("rst")>> /\ Enable = <<Loads, Sets("en")>>
    BY DEF Reset, Enable, Update, Loads, Sets
  <2> HIDE DEF words
  <2>2. words \o Reset = <<Shifter0, Shifter1, Shifter2, Loads, Sets("rst")>>
    BY <1>3, <2>1, JoinsThreeTwo
  <2>3. (words \o Reset) \o Enable = <<Shifter0, Shifter1, Shifter2, Loads, Sets("rst")>> \o <<Loads, Sets("en")>>
    BY <2>1, <2>2, Zenon
  <2>4. <<Shifter0, Shifter1, Shifter2, Loads, Sets("rst")>> \o <<Loads, Sets("en")>> = WholeShifter
    BY JoinsFiveTwo DEF WholeShifter
  <2>5. QED
    BY <1>4, <2>3, <2>4, Zenon
<1>6. QED
  BY <1>5 DEF Begin

LEMMA LatcherScript == Begin("latch") = WholeLatcher
<1> DEFINE code == pixels_configs_latcher
           words == [w \in 1 .. (Len(code) + 3) \div 4 |->
                       StoreTo("PMCC_CODE_RAM",
                         [word |-> w - 1,
                          bytes |-> [b \in 1 .. 4 |->
                            IF 4 * (w - 1) + b \in DOMAIN code THEN code[4 * (w - 1) + b] ELSE 0]])]
<1>1. Len(code) = 7 /\ DOMAIN code = 1 .. 7
      /\ code[1] = 192 /\ code[2] = 32 /\ code[3] = 0 /\ code[4] = 192 /\ code[5] = 0
      /\ code[6] = 0 /\ code[7] = 0
  BY DEF pixels_configs_latcher
<1> HIDE DEF code
<1>2. (7 + 3) \div 4 = 2
  BY SMT
<1>3. words = <<Latcher0, Latcher1>>
  <2>1. [b \in 1 .. 4 |-> IF 4 * (1 - 1) + b \in DOMAIN code THEN code[4 * (1 - 1) + b] ELSE 0]
          = <<192, 32, 0, 192>>
    BY <1>1
  <2>2. [b \in 1 .. 4 |-> IF 4 * (2 - 1) + b \in DOMAIN code THEN code[4 * (2 - 1) + b] ELSE 0]
          = <<0, 0, 0, 0>>
    BY <1>1
  <2>3. words[1] = Latcher0 /\ words[2] = Latcher1
    BY <1>1, <1>2, <2>1, <2>2 DEF Latcher0, Latcher1, StoreWord
  <2>4. words = [w \in 1 .. 2 |-> words[w]]
    BY <1>1, <1>2
  <2> HIDE DEF words
  <2>5. QED
    BY <2>3, <2>4
<1>4. LoadApplication(pixels_configs_latcher) = words \o Reset \o Enable
  BY DEF LoadApplication, code
<1>5. LoadApplication(pixels_configs_latcher) = WholeLatcher
  <2>1. Reset = <<Loads, Sets("rst")>> /\ Enable = <<Loads, Sets("en")>>
    BY DEF Reset, Enable, Update, Loads, Sets
  <2> HIDE DEF words
  <2>2. words \o Reset = <<Latcher0, Latcher1, Loads, Sets("rst")>>
    BY <1>3, <2>1, JoinsTwoTwo
  <2>3. (words \o Reset) \o Enable = <<Latcher0, Latcher1, Loads, Sets("rst")>> \o <<Loads, Sets("en")>>
    BY <2>1, <2>2, Zenon
  <2>4. <<Latcher0, Latcher1, Loads, Sets("rst")>> \o <<Loads, Sets("en")>> = WholeLatcher
    BY JoinsFourTwo DEF WholeLatcher
  <2>5. QED
    BY <1>4, <2>3, <2>4, Zenon
<1>6. QED
  BY <1>5 DEF Begin

LEMMA HitsScript == Begin("hit") = WholeHits
<1> DEFINE code == hits_generator
           words == [w \in 1 .. (Len(code) + 3) \div 4 |->
                       StoreTo("PMCC_CODE_RAM",
                         [word |-> w - 1,
                          bytes |-> [b \in 1 .. 4 |->
                            IF 4 * (w - 1) + b \in DOMAIN code THEN code[4 * (w - 1) + b] ELSE 0]])]
<1>1. Len(code) = 7 /\ DOMAIN code = 1 .. 7
      /\ code[1] = 0 /\ code[2] = 192 /\ code[3] = 8 /\ code[4] = 0 /\ code[5] = 192
      /\ code[6] = 0 /\ code[7] = 0
  BY DEF hits_generator
<1> HIDE DEF code
<1>2. (7 + 3) \div 4 = 2
  BY SMT
<1>3. words = <<Hits0, Hits1>>
  <2>1. [b \in 1 .. 4 |-> IF 4 * (1 - 1) + b \in DOMAIN code THEN code[4 * (1 - 1) + b] ELSE 0]
          = <<0, 192, 8, 0>>
    BY <1>1
  <2>2. [b \in 1 .. 4 |-> IF 4 * (2 - 1) + b \in DOMAIN code THEN code[4 * (2 - 1) + b] ELSE 0]
          = <<192, 0, 0, 0>>
    BY <1>1
  <2>3. words[1] = Hits0 /\ words[2] = Hits1
    BY <1>1, <1>2, <2>1, <2>2 DEF Hits0, Hits1, StoreWord
  <2>4. words = [w \in 1 .. 2 |-> words[w]]
    BY <1>1, <1>2
  <2> HIDE DEF words
  <2>5. QED
    BY <2>3, <2>4
<1>4. LoadApplication(hits_generator) = words \o Reset \o Enable
  BY DEF LoadApplication, code
<1>5. LoadApplication(hits_generator) = WholeHits
  <2>1. Reset = <<Loads, Sets("rst")>> /\ Enable = <<Loads, Sets("en")>>
    BY DEF Reset, Enable, Update, Loads, Sets
  <2> HIDE DEF words
  <2>2. words \o Reset = <<Hits0, Hits1, Loads, Sets("rst")>>
    BY <1>3, <2>1, JoinsTwoTwo
  <2>3. (words \o Reset) \o Enable = <<Hits0, Hits1, Loads, Sets("rst")>> \o <<Loads, Sets("en")>>
    BY <2>1, <2>2, Zenon
  <2>4. <<Hits0, Hits1, Loads, Sets("rst")>> \o <<Loads, Sets("en")>> = WholeHits
    BY JoinsFourTwo DEF WholeHits
  <2>5. QED
    BY <1>4, <2>3, <2>4, Zenon
<1>6. QED
  BY <1>5 DEF Begin

LEMMA RoundScripts ==
  ASSUME PixelBits \in Nat, bit \in Nat, NextRound
  PROVE  /\ bit' = bit + 1 /\ api' = api /\ part' = part
         /\ part = "write" => todo' = <<StoreTo("PMC_DIN_0", target[PixelBits + 1 - bit']),
                                        Polls, Loads, Sets("trg")>>
         /\ part = "read" => todo' = Reading
         /\ part = "hit" => todo' = Awaiting
<1>1. Awaiting = <<Polls, Loads, Sets("trg")>>
  BY DEF Awaiting
<1>2. PixelBits + 1 - (bit + 1) = PixelBits - bit
  OBVIOUS
<1>3. bit' = bit + 1 /\ api' = api /\ part' = part
  BY DEF NextRound
<1>4. part = "write" => todo' = <<StoreTo("PMC_DIN_0", target[PixelBits - bit]),
                                    Polls, Loads, Sets("trg")>>
  BY <1>1, JoinsOneThree, TriggerScript DEF NextRound, WriteBit
<1>5. part = "read" => todo' = Reading
  BY <1>1, JoinsOneThree, TriggerScript DEF NextRound, ReadBit, Reading
<1>6. part = "hit" => todo' = Awaiting
  BY TriggerScript DEF NextRound
<1>7. QED
  BY <1>1, <1>2, <1>3, <1>4, <1>5, <1>6

LEMMA PartScripts ==
  ASSUME NextPart, part \in {"write", "latch", "hit", "read"}
  PROVE  /\ bit' = 0
         /\ part = "write" => part' = "latch" /\ todo' = WholeLatcher /\ api' = api
         /\ part = "latch" /\ api = "calibrate" => part' = "hit" /\ todo' = WholeHits /\ api' = api
         /\ part = "hit" => part' = "read" /\ todo' = WholeShifter /\ api' = api
         /\ part = "read" \/ (part = "latch" /\ api # "calibrate")
              => part' = "none" /\ todo' = <<>> /\ api' = "none"
<1>1. part' = FollowingPart /\ bit' = 0
      /\ IF part' = "none" THEN api' = "none" /\ todo' = <<>>
                           ELSE todo' = Begin(part') /\ api' = api
  BY DEF NextPart
<1>2. CASE part = "write"
  BY <1>1, <1>2, LatcherScript DEF FollowingPart
<1>3. CASE part = "latch"
  BY <1>1, <1>3, HitsScript DEF FollowingPart
<1>4. CASE part = "hit"
  BY <1>1, <1>4, ShifterScript DEF FollowingPart
<1>5. CASE part = "read"
  BY <1>1, <1>5 DEF FollowingPart
<1>6. QED
  BY <1>2, <1>3, <1>4, <1>5

-----------------------------------------------------------------------------
(* A cycle, from each place the coprocessor may be in.                     *)

\* What the lemmas need to know of the state.
Sane ==
  /\ ProgramsFit /\ Loopless
  /\ mem \in [Addr -> Byte \cup {Unwritten}]
  /\ cr \in [en : BOOLEAN, rst : BOOLEAN, trg : BOOLEAN]

\* A cycle in which the software does not store to the control register.
Cycle(access) ==
  /\ Clock(access)
  /\ cr'.en <=> cr.en
  /\ ~cr'.rst /\ ~cr'.trg

LEMMA OffTurns ==
  ASSUME Sane, NEW access, Cycle(access), Off
  PROVE  Off' /\ ~cr'.rst /\ Loopless' /\ Still
<1>1. PmcClock(access, Dout) /\ MatrixStep(matrix_ctrl, matrix_ctrl', din_0')
  BY DEF Cycle, Clock
<1>2. InReset(cr)
  BY DEF Off, InReset
<1>3. Loopless' /\ pc_id' = 0 /\ matrix_ctrl' = 0
  BY <1>1, <1>2, ResetEdge
<1>4. Still
  BY <1>1, <1>3, SameLines DEF Off
<1>5. QED
  BY <1>3, <1>4 DEF Off, Cycle

LEMMA RestsTurns ==
  ASSUME Sane, NEW access, Cycle(access), NEW a \in 0 .. 8, Rests(a), mem[a] = 0
  PROVE  Rests(a)' /\ matrix_ctrl' = matrix_ctrl /\ Loopless' /\ Still
<1>1. PmcClock(access, Dout) /\ MatrixStep(matrix_ctrl, matrix_ctrl', din_0')
  BY DEF Cycle, Clock
<1>2. cr.en /\ ~cr.rst /\ ~cr.trg /\ cr'.en /\ ~cr'.rst /\ ~cr'.trg /\ instr = Wait /\ pc_id = a
  BY DEF Rests, On, Cycle
<1>3. Loopless' /\ pc_id' = a /\ instr' = Fetch(a) /\ matrix_ctrl' = matrix_ctrl
  BY <1>1, <1>2, WaitEdge DEF Sane
<1>4. Fetch(a) = Wait
  BY FetchesWait DEF Sane
<1>5. Still
  BY <1>1, <1>3, SameLines
<1>6. QED
  BY <1>2, <1>3, <1>4, <1>5 DEF Rests, On

LEMMA IsRests ==
  ASSUME NEW a, NEW lines
  PROVE  /\ Is(a, Wait, lines) <=> Rests(a) /\ matrix_ctrl = lines
         /\ Is(a, Wait, lines)' <=> Rests(a)' /\ matrix_ctrl' = lines
  BY DEF Is, Rests, On

LEMMA WaitTurns ==
  ASSUME Sane, NEW access, Cycle(access), NEW a \in 0 .. 8, NEW lines, Is(a, Wait, lines), mem[a] = 0
  PROVE  Is(a, Wait, lines)' /\ Loopless' /\ Still
<1>1. Rests(a) /\ matrix_ctrl = lines
  BY DEF Is, Rests
<1>2. Rests(a)' /\ matrix_ctrl' = matrix_ctrl /\ Loopless' /\ Still
  BY <1>1, RestsTurns
<1>3. QED
  BY <1>1, <1>2 DEF Is, Rests

LEMMA StoreTurns ==
  ASSUME Sane, NEW access, Cycle(access), NEW a \in 0 .. 5, NEW v, NEW lines, Is(a, Stores(v), lines)
  PROVE  /\ On' /\ pc_id' = a + 3 /\ instr' = Fetch(a + 3) /\ matrix_ctrl' = v /\ Loopless'
         /\ MatrixStep(matrix_ctrl, matrix_ctrl', din_0')
<1>1. PmcClock(access, Dout) /\ MatrixStep(matrix_ctrl, matrix_ctrl', din_0')
  BY DEF Cycle, Clock
<1>2. cr.en /\ ~cr.rst /\ ~cr.trg /\ cr'.en /\ ~cr'.rst /\ ~cr'.trg
      /\ instr = Stores(v) /\ pc_id = a
  BY DEF Is, On, Cycle
<1>3. Loopless' /\ pc_id' = a + 3 /\ instr' = Fetch(a + 3) /\ matrix_ctrl' = v
  BY <1>1, <1>2, StoreEdge DEF Sane
<1>4. QED
  BY <1>1, <1>2, <1>3 DEF On

LEMMA BackTurns ==
  ASSUME Sane, NEW access, Cycle(access), On, instr = Back, mem[0] = 0
  PROVE  Rests(0)' /\ matrix_ctrl' = matrix_ctrl /\ Loopless' /\ Still
<1>1. PmcClock(access, Dout) /\ MatrixStep(matrix_ctrl, matrix_ctrl', din_0')
  BY DEF Cycle, Clock
<1>2. cr.en /\ ~cr.rst /\ ~cr.trg /\ cr'.en /\ ~cr'.rst /\ ~cr'.trg
  BY DEF On, Cycle
<1>3. Loopless' /\ pc_id' = 0 /\ instr' = Fetch(0) /\ matrix_ctrl' = matrix_ctrl
  BY <1>1, <1>2, BackEdge DEF Sane
<1>4. Fetch(0) = Wait
  BY FetchesWait DEF Sane
<1>5. Still
  BY <1>1, <1>3, SameLines
<1>6. QED
  BY <1>2, <1>3, <1>4, <1>5 DEF Rests, On

LEMMA TriggerTurns ==
  ASSUME Sane, NEW access, Cycle(access), NEW L, Triggered(L)
  PROVE  /\ On' /\ pc_id' = 1 /\ instr' = Fetch(1) /\ matrix_ctrl' = matrix_ctrl /\ matrix_ctrl \in L
         /\ Loopless' /\ Still
<1>1. PmcClock(access, Dout) /\ MatrixStep(matrix_ctrl, matrix_ctrl', din_0')
  BY DEF Cycle, Clock
<1>2. cr.en /\ ~cr.rst /\ cr.trg /\ cr'.en /\ ~cr'.rst /\ ~cr'.trg /\ instr = Wait /\ pc_id = 0
      /\ matrix_ctrl \in L
  BY DEF Triggered, Cycle
<1>3. Loopless' /\ pc_id' = 1 /\ instr' = Fetch(1) /\ matrix_ctrl' = matrix_ctrl
  BY <1>1, <1>2, TriggerEdge DEF Sane
<1>4. Still
  BY <1>1, <1>3, SameLines
<1>5. QED
  BY <1>2, <1>3, <1>4 DEF On

LEMMA HeldTurns ==
  ASSUME Sane, NEW access, Cycle(access), Held
  PROVE  On' /\ pc_id' = 0 /\ instr' = Fetch(0) /\ matrix_ctrl' = 0 /\ Loopless' /\ Still
<1>1. PmcClock(access, Dout) /\ MatrixStep(matrix_ctrl, matrix_ctrl', din_0')
  BY DEF Cycle, Clock
<1>2. InReset(cr)
  BY DEF Held, InReset
<1>3. Loopless' /\ pc_id' = 0 /\ matrix_ctrl' = 0 /\ instr' = Fetch(0)
  BY <1>1, <1>2, ResetEdge
<1>4. Still
  BY <1>1, <1>3, SameLines DEF Held
<1>5. QED
  BY <1>3, <1>4 DEF Held, Cycle, On

(* The runs of the four programs, cycle by cycle. *)

LEMMA ShiftingTurns ==
  ASSUME Sane, NEW access, Cycle(access), HoldsShifter, Shifting
  PROVE  /\ Loopless'
         /\ gap = 1 => Still /\ \E lines \in {0, 2} : Is(1, Stores(3), lines)'
         /\ gap = 2 => ShiftsIn /\ Is(4, Stores(2), 3)'
         /\ gap = 3 => Still /\ Is(7, Back, 2)'
         /\ gap >= 4 => Still /\ Is(0, Wait, 2)'
<1>1. /\ Fetch(1) = Stores(3) /\ Fetch(4) = Stores(2) /\ Fetch(7) = Back /\ mem[0] = 0
  BY ShifterProgram DEF Sane, HoldsShifter, HoldsBytes
<1>2. CASE gap = 1 /\ Triggered({0, 2})
  <2>1. /\ On' /\ pc_id' = 1 /\ instr' = Stores(3) /\ matrix_ctrl' = matrix_ctrl
        /\ matrix_ctrl \in {0, 2} /\ Loopless' /\ Still
    BY <1>1, <1>2, TriggerTurns
  <2>2. \E lines \in {0, 2} : Is(1, Stores(3), lines)'
    BY <2>1 DEF Is
  <2>3. QED
    BY <1>2, <2>1, <2>2
<1>3. CASE gap = 2 /\ \E lines \in {0, 2} : Is(1, Stores(3), lines)
  <2>1. PICK lines \in {0, 2} : Is(1, Stores(3), lines)
    BY <1>3
  <2>2. /\ On' /\ pc_id' = 4 /\ instr' = Stores(2) /\ matrix_ctrl' = 3 /\ Loopless'
        /\ MatrixStep(matrix_ctrl, matrix_ctrl', din_0')
    BY <1>1, <2>1, StoreTurns
  <2>3. ShiftsIn
    BY <2>1, <2>2, ShiftLines DEF Is
  <2>4. QED
    BY <1>3, <2>2, <2>3 DEF Is
<1>4. CASE gap = 3 /\ Is(4, Stores(2), 3)
  <2>1. /\ On' /\ pc_id' = 7 /\ instr' = Back /\ matrix_ctrl' = 2 /\ Loopless'
        /\ MatrixStep(matrix_ctrl, matrix_ctrl', din_0')
    BY <1>1, <1>4, StoreTurns
  <2>2. Still
    BY <1>4, <2>1, CalmLines DEF Is
  <2>3. QED
    BY <1>4, <2>1, <2>2 DEF Is
<1>5. CASE gap >= 4 /\ Is(7, Back, 2)
  <2>1. Rests(0)' /\ matrix_ctrl' = 2 /\ Loopless' /\ Still
    BY <1>1, <1>5, BackTurns DEF Is
  <2>2. QED
    BY <1>5, <2>1 DEF Is, Rests
<1>6. CASE gap >= 4 /\ Is(0, Wait, 2)
  BY <1>1, <1>6, WaitTurns
<1>7. QED
  BY <1>2, <1>3, <1>4, <1>5, <1>6 DEF Shifting

LEMMA HittingTurns ==
  ASSUME Sane, NEW access, Cycle(access), HoldsHits, Hitting
  PROVE  /\ Loopless'
         /\ gap = 1 => Still /\ Is(1, Stores(8), 0)'
         /\ gap = 2 => Still /\ Is(4, Stores(0), 8)'
         /\ gap = 3 => CountsHits /\ Is(7, Wait, 0)'
         /\ gap >= 4 => Still /\ Is(7, Wait, 0)'
<1>1. /\ Fetch(1) = Stores(8) /\ Fetch(4) = Stores(0) /\ Fetch(7) = Wait /\ mem[7] = 0
  BY HitsProgram DEF Sane, HoldsHits, HoldsBytes
<1>2. CASE gap = 1 /\ Triggered({0})
  <2>1. /\ On' /\ pc_id' = 1 /\ instr' = Stores(8) /\ matrix_ctrl' = matrix_ctrl
        /\ matrix_ctrl \in {0} /\ Loopless' /\ Still
    BY <1>1, <1>2, TriggerTurns
  <2>2. QED
    BY <1>2, <2>1 DEF Is
<1>3. CASE gap = 2 /\ Is(1, Stores(8), 0)
  <2>1. /\ On' /\ pc_id' = 4 /\ instr' = Stores(0) /\ matrix_ctrl' = 8 /\ Loopless'
        /\ MatrixStep(matrix_ctrl, matrix_ctrl', din_0')
    BY <1>1, <1>3, StoreTurns
  <2>2. Still
    BY <1>3, <2>1, CalmLines DEF Is
  <2>3. QED
    BY <1>3, <2>1, <2>2 DEF Is
<1>4. CASE gap = 3 /\ Is(4, Stores(0), 8)
  <2>1. /\ On' /\ pc_id' = 7 /\ instr' = Wait /\ matrix_ctrl' = 0 /\ Loopless'
        /\ MatrixStep(matrix_ctrl, matrix_ctrl', din_0')
    BY <1>1, <1>4, StoreTurns
  <2>2. CountsHits
    BY <1>4, <2>1, CountLines DEF Is
  <2>3. QED
    BY <1>4, <2>1, <2>2 DEF Is
<1>5. CASE gap >= 4 /\ Is(7, Wait, 0)
  BY <1>1, <1>5, WaitTurns
<1>6. QED
  BY <1>2, <1>3, <1>4, <1>5 DEF Hitting

LEMMA LatchingTurns ==
  ASSUME Sane, NEW access, Cycle(access), HoldsLatcher, Latching
  PROVE  /\ Loopless'
         /\ gap = 1 => Still /\ Is(0, Stores(32), 0)'
         /\ gap = 2 => LatchesConfig /\ Is(3, Stores(0), 32)'
         /\ gap = 3 => Still /\ Is(6, Wait, 0)'
         /\ gap >= 4 => Still /\ Is(6, Wait, 0)'
<1>1. /\ Fetch(0) = Stores(32) /\ Fetch(3) = Stores(0) /\ Fetch(6) = Wait /\ mem[6] = 0
  BY LatcherProgram DEF Sane, HoldsLatcher, HoldsBytes
<1>2. CASE gap = 1 /\ Held
  <2>1. /\ On' /\ pc_id' = 0 /\ instr' = Stores(32) /\ matrix_ctrl' = 0 /\ Loopless' /\ Still
    BY <1>1, <1>2, HeldTurns
  <2>2. QED
    BY <1>2, <2>1 DEF Is
<1>3. CASE gap = 2 /\ Is(0, Stores(32), 0)
  <2>1. /\ On' /\ pc_id' = 3 /\ instr' = Stores(0) /\ matrix_ctrl' = 32 /\ Loopless'
        /\ MatrixStep(matrix_ctrl, matrix_ctrl', din_0')
    BY <1>1, <1>3, StoreTurns
  <2>2. LatchesConfig
    BY <1>3, <2>1, LatchLines DEF Is
  <2>3. QED
    BY <1>3, <2>1, <2>2 DEF Is
<1>4. CASE gap = 3 /\ Is(3, Stores(0), 32)
  <2>1. /\ On' /\ pc_id' = 6 /\ instr' = Wait /\ matrix_ctrl' = 0 /\ Loopless'
        /\ MatrixStep(matrix_ctrl, matrix_ctrl', din_0')
    BY <1>1, <1>4, StoreTurns
  <2>2. Still
    BY <1>4, <2>1, CalmLines DEF Is
  <2>3. QED
    BY <1>4, <2>1, <2>2 DEF Is
<1>5. CASE gap >= 4 /\ Is(6, Wait, 0)
  BY <1>1, <1>5, WaitTurns
<1>6. QED
  BY <1>2, <1>3, <1>4, <1>5 DEF Latching

\* The latch program with one word of it in place.
HoldsMixed ==
  HoldsBytes(0, 192, 32, 0, 192) /\ HoldsBytes(1, 192, 2, 0, 32) /\ mem[8] = 0

LatchingEarly ==
  \/ gap = 1 /\ Is(0, Wait, 2)
  \/ gap = 2 /\ Is(0, Stores(32), 2)
  \/ gap = 3 /\ Is(3, Stores(704), 32)
  \/ gap >= 4 /\ Is(6, Wait, 704)

LEMMA LatchingEarlyTurns ==
  ASSUME Sane, NEW access, Cycle(access), HoldsMixed, LatchingEarly
  PROVE  /\ Loopless'
         /\ gap = 1 => Still /\ Is(0, Stores(32), 2)'
         /\ gap = 2 => LatchesConfig /\ Is(3, Stores(704), 32)'
         /\ gap = 3 => Still /\ Is(6, Wait, 704)'
         /\ gap >= 4 => Still /\ Is(6, Wait, 704)'
<1>1. /\ Fetch(0) = Stores(32) /\ Fetch(3) = Stores(704) /\ Fetch(6) = Wait /\ mem[6] = 0
  BY MixedProgram DEF Sane, HoldsMixed, HoldsBytes
<1>2. CASE gap = 1 /\ Is(0, Wait, 2)
  <2>1. PmcClock(access, Dout) /\ MatrixStep(matrix_ctrl, matrix_ctrl', din_0')
    BY DEF Cycle, Clock
  <2>2. cr.en /\ ~cr.rst /\ ~cr.trg /\ cr'.en /\ ~cr'.rst /\ ~cr'.trg /\ instr = Wait /\ pc_id = 0
        /\ matrix_ctrl = 2
    BY <1>2 DEF Is, On, Cycle
  <2>3. Loopless' /\ pc_id' = 0 /\ instr' = Stores(32) /\ matrix_ctrl' = matrix_ctrl
    BY <1>1, <2>1, <2>2, WaitEdge DEF Sane
  <2>4. Still
    BY <2>1, <2>3, SameLines
  <2>5. QED
    BY <1>2, <2>2, <2>3, <2>4 DEF Is, On
<1>3. CASE gap = 2 /\ Is(0, Stores(32), 2)
  <2>1. /\ On' /\ pc_id' = 3 /\ instr' = Stores(704) /\ matrix_ctrl' = 32 /\ Loopless'
        /\ MatrixStep(matrix_ctrl, matrix_ctrl', din_0')
    BY <1>1, <1>3, StoreTurns
  <2>2. LatchesConfig
    BY <1>3, <2>1, LatchLines DEF Is
  <2>3. QED
    BY <1>3, <2>1, <2>2 DEF Is
<1>4. CASE gap = 3 /\ Is(3, Stores(704), 32)
  <2>1. /\ On' /\ pc_id' = 6 /\ instr' = Wait /\ matrix_ctrl' = 704 /\ Loopless'
        /\ MatrixStep(matrix_ctrl, matrix_ctrl', din_0')
    BY <1>1, <1>4, StoreTurns
  <2>2. Still
    BY <1>4, <2>1, CalmLines DEF Is
  <2>3. QED
    BY <1>4, <2>1, <2>2 DEF Is
<1>5. CASE gap >= 4 /\ Is(6, Wait, 704)
  BY <1>1, <1>5, WaitTurns
<1>6. QED
  BY <1>2, <1>3, <1>4, <1>5 DEF LatchingEarly

(* The stores to the control register. *)

LEMMA ResetTurns ==
  ASSUME NEW access, Clock(access), Calm, cr'.rst
  PROVE  Loopless' /\ pc_id' = 0 /\ matrix_ctrl' = 0 /\ Still
<1>1. PmcClock(access, Dout) /\ MatrixStep(matrix_ctrl, matrix_ctrl', din_0')
  BY DEF Clock
<1>2. Loopless' /\ pc_id' = 0 /\ matrix_ctrl' = 0
  BY <1>1, ResetEdge DEF InReset
<1>3. Still
  BY <1>1, <1>2, CalmLines DEF Calm
<1>4. QED
  BY <1>2, <1>3

LEMMA EnableTurns ==
  ASSUME Sane, NEW access, Clock(access), Off, mem[0] = 0
  PROVE  Loopless' /\ pc_id' = 0 /\ instr' = Wait /\ matrix_ctrl' = 0 /\ Still
<1>1. PmcClock(access, Dout) /\ MatrixStep(matrix_ctrl, matrix_ctrl', din_0')
  BY DEF Clock
<1>2. InReset(cr)
  BY DEF Off, InReset
<1>3. Loopless' /\ pc_id' = 0 /\ matrix_ctrl' = 0 /\ instr' = Fetch(0)
  BY <1>1, <1>2, ResetEdge
<1>4. Fetch(0) = Wait
  BY FetchesWait DEF Sane
<1>5. Still
  BY <1>1, <1>3, SameLines DEF Off
<1>6. QED
  BY <1>3, <1>4, <1>5

LEMMA TriggeringTurns ==
  ASSUME Sane, NEW access, Clock(access), NEW lines, Is(0, Wait, lines), mem[0] = 0,
         cr'.en, ~cr'.rst, cr'.trg
  PROVE  /\ Loopless' /\ pc_id' = 0 /\ instr' = Wait /\ matrix_ctrl' = lines /\ Still
         /\ Triggered({lines})'
<1>1. PmcClock(access, Dout) /\ MatrixStep(matrix_ctrl, matrix_ctrl', din_0')
  BY DEF Clock
<1>2. cr.en /\ ~cr.rst /\ ~cr.trg /\ instr = Wait /\ pc_id = 0 /\ matrix_ctrl = lines
  BY DEF Is, On
<1>3. Loopless' /\ pc_id' = 0 /\ instr' = Fetch(0) /\ matrix_ctrl' = matrix_ctrl
  BY <1>1, <1>2, WaitEdge DEF Sane
<1>4. Fetch(0) = Wait
  BY FetchesWait DEF Sane
<1>5. Still
  BY <1>1, <1>3, SameLines
<1>6. QED
  BY <1>2, <1>3, <1>4, <1>5 DEF Triggered

-----------------------------------------------------------------------------
(* What every step leaves as it should be, whatever the stage. *)

LEMMA QuietCycle ==
  ASSUME ProgramsFit, Always, NEW access, Clock(access), Quiet(access)
  PROVE  /\ Sane /\ Cycle(access) /\ mem' = mem
         /\ cr' \in [en : BOOLEAN, rst : BOOLEAN, trg : BOOLEAN]
         /\ ~cr.rst /\ ~cr.trg => cr' = cr
         /\ ~Writes(access, "PMC_DIN_0") => din_0' = din_0
         /\ dout_0' = pixels[PixelBits]
<1>1. PmcClock(access, Dout)
  BY DEF Clock
<1>2. Sane
  BY DEF Always, Sane, Loopless
<1>3. /\ mem' = mem /\ cr' \in [en : BOOLEAN, rst : BOOLEAN, trg : BOOLEAN]
      /\ cr'.en <=> cr.en
      /\ ~cr'.rst /\ ~cr'.trg
  BY <1>1, QuietEdge DEF Always
<1>4. ASSUME ~cr.rst, ~cr.trg
      PROVE  cr' = cr
  <2>1. cr \in [en : BOOLEAN, rst : BOOLEAN, trg : BOOLEAN]
    BY DEF Always
  <2>2. cr = [en |-> cr.en, rst |-> cr.rst, trg |-> cr.trg]
    BY <2>1
  <2>3. cr' = [en |-> cr'.en, rst |-> cr'.rst, trg |-> cr'.trg]
    BY <1>3
  <2>4. cr'.en \in BOOLEAN /\ cr'.rst \in BOOLEAN /\ cr'.trg \in BOOLEAN
    BY <1>3
  <2>5. cr.en \in BOOLEAN /\ cr.rst \in BOOLEAN /\ cr.trg \in BOOLEAN
    BY <2>1
  <2>6. cr'.en = cr.en /\ cr'.rst = cr.rst /\ cr'.trg = cr.trg
    BY <1>3, <1>4, <2>4, <2>5
  <2>7. QED
    BY <2>2, <2>3, <2>6
<1>5. ~Writes(access, "PMC_DIN_0") => din_0' = din_0
  BY <1>1 DEF PmcClock
<1>6. dout_0' = pixels[PixelBits]
  BY <1>1 DEF PmcClock, Dout
<1>7. QED
  BY <1>2, <1>3, <1>4, <1>5, <1>6 DEF Cycle

\* A cycle without an access, as far as the stage is told by the call.
Passes ==
  /\ Sane /\ Cycle(NoAccess) /\ mem' = mem
  /\ cr' \in [en : BOOLEAN, rst : BOOLEAN, trg : BOOLEAN]
  /\ ~cr.rst /\ ~cr.trg => cr' = cr
  /\ din_0' = din_0
  /\ dout_0' = pixels[PixelBits]
  /\ gap' \in Nat \ {0}
  /\ gap = 1 => gap' = 2
  /\ gap = 2 => gap' = 3
  /\ gap = 3 => gap' = 4
  /\ gap >= 4 => gap' >= 4

LEMMA ClockPasses ==
  ASSUME ProgramsFit, SoftwarePaced, Always, Clock(NoAccess)
  PROVE  Passes
<1>1. Quiet(NoAccess) /\ ~Writes(NoAccess, "PMC_DIN_0")
  BY QuietAccesses DEF NoAccess, Writes
<1>2. gap \in Nat \ {0} /\ AccessGap \in Nat /\ AccessGap >= 4
  BY Constants DEF Always, SoftwarePaced
<1>3. gap' \in Nat \ {0} /\ gap' = IF gap < AccessGap THEN gap + 1 ELSE gap
  BY <1>2, Paces DEF Clock
<1>4. QED
  BY <1>1, <1>2, <1>3, QuietCycle DEF Passes

\* What the matrix may do, and when.
Column ==
  \/ Still
  \/ ShiftsIn
  \/ LatchesConfig /\ part = "latch" /\ pixels = target
  \/ CountsHits /\ part = "read" /\ api = "calibrate" /\ bit = 0

LEMMA StillObserved ==
  ASSUME Observe, Still \/ ShiftsIn \/ LatchesConfig
  PROVE  counted' = IF api = "read_counters" /\ result = <<>> THEN pixels' ELSE counted
<1>1. ~Counts(matrix_ctrl, matrix_ctrl')
  BY DEF Still, ShiftsIn, LatchesConfig
<1>2. QED
  BY <1>1 DEF Observe

LEMMA HitsObserved ==
  ASSUME Observe, CountsHits
  PROVE  counted' = pixels'
  BY DEF Observe, CountsHits

LEMMA ColumnTypes ==
  ASSUME ProgramsFit, Always, Observe, Column, din_0' \in {0, 1}
  PROVE  {pixels, config, counted}' \subseteq Word
<1>1. pixels \in Word /\ config \in Word /\ counted \in Word
  BY DEF Always
<1>2. pixels' \in Word
  <2>1. CASE ShiftsIn
    <3>1. \A k \in 1 .. PixelBits : k # 1 => k - 1 \in 1 .. PixelBits
      BY Constants
    <3>2. \A k \in 1 .. PixelBits : (IF k = 1 THEN din_0' ELSE pixels[k - 1]) \in {0, 1}
      BY <1>1, <3>1 DEF Word
    <3>3. QED
      BY <2>1, <3>2 DEF ShiftsIn, Word
  <2>2. CASE ~ShiftsIn
    BY <1>1, <2>2 DEF Column, Still, LatchesConfig, CountsHits
  <2>3. QED
    BY <2>1, <2>2
<1>3. config' \in Word
  BY <1>1 DEF Column, Still, ShiftsIn, LatchesConfig, CountsHits
<1>4. counted' \in Word
  BY <1>1, <1>2 DEF Observe
<1>5. QED
  BY <1>2, <1>3, <1>4

(* What was read stays what is to be read: the column is not counted again *)
(* before the next call, nor taken as it is once a bit of it was read.     *)
LEMMA CountedKept ==
  ASSUME Always, Observe, Column, result # <<>>
  PROVE  counted' = counted
<1>1. CASE Still \/ ShiftsIn \/ LatchesConfig
  BY <1>1, StillObserved
<1>2. CASE CountsHits /\ part = "read" /\ api = "calibrate" /\ bit = 0
  BY <1>2 DEF Always
<1>3. QED
  BY <1>1, <1>2 DEF Column

\* Where the call has come to, and what it has read.
Proceeds ==
  /\ Parts' /\ bit' \in Nat
  /\ target' \in Word
  /\ part' \in {"none", "hit", "read"} => /\ target' = target
                                         /\ \/ part \in {"none", "hit", "read"}
                                            \/ config = target
  /\ api' # "none" /\ ~(part' = "read" /\ bit' > 0) => result' = <<>>
  /\ \/ result' \in {result, <<>>}
     \/ /\ result' = Append(result, dout_0) /\ Len(result) < PixelBits
        /\ dout_0 = counted'[PixelBits - Len(result)]

LEMMA ResultKept ==
  ASSUME ProgramsFit, Always, Observe, Column, Proceeds
  PROVE  result' \in Seq({0, 1}) /\ ReadsCounters' /\ Len(result') <= PixelBits
<1>1. /\ result \in Seq({0, 1}) /\ Len(result) \in Nat /\ dout_0 \in {0, 1}
      /\ Len(result) <= PixelBits
      /\ \A k \in 1 .. Len(result) : result[k] = counted[PixelBits + 1 - k]
  BY DEF Always, ReadsCounters
<1>2. PixelBits \in Nat
  BY Constants
<1>3. CASE result' = <<>>
  BY <1>2, <1>3 DEF ReadsCounters
<1>4. CASE result' = result /\ result # <<>>
  <2>1. counted' = counted
    BY <1>4, CountedKept
  <2>2. QED
    BY <1>1, <1>4, <2>1 DEF ReadsCounters
<1>5. CASE /\ result' = Append(result, dout_0) /\ Len(result) < PixelBits
           /\ dout_0 = counted'[PixelBits - Len(result)]
  <2>1. /\ result' \in Seq({0, 1}) /\ Len(result') = Len(result) + 1
        /\ \A k \in 1 .. Len(result) : result'[k] = result[k]
        /\ result'[Len(result) + 1] = dout_0
    BY <1>1, <1>5, AppendProperties
  <2>2. ASSUME NEW k \in 1 .. Len(result')
        PROVE  result'[k] = counted'[PixelBits + 1 - k]
    <3>1. CASE k = Len(result) + 1
      <4>1. PixelBits + 1 - k = PixelBits - Len(result)
        BY <1>1, <1>2, <3>1
      <4>2. QED
        BY <1>5, <2>1, <3>1, <4>1
    <3>2. CASE k # Len(result) + 1
      <4>1. k \in 1 .. Len(result)
        BY <1>1, <2>1, <3>2
      <4>2. result # <<>>
        BY <4>1
      <4>3. counted' = counted
        BY <4>2, CountedKept
      <4>4. QED
        BY <1>1, <2>1, <4>1, <4>3
    <3>3. QED
      BY <3>1, <3>2
  <2>3. QED
    BY <1>1, <1>2, <1>5, <2>1, <2>2 DEF ReadsCounters
<1>6. QED
  BY <1>3, <1>4, <1>5 DEF Proceeds

LEMMA AlwaysKept ==
  ASSUME ProgramsFit, Always, NEW access, Clock(access), Observe,
         Loopless', Column, Proceeds,
         mem' \in [Addr -> Byte \cup {Unwritten}],
         cr' \in [en : BOOLEAN, rst : BOOLEAN, trg : BOOLEAN],
         gap' \in Nat \ {0}, din_0' \in {0, 1}
  PROVE  Always'
<1>1. {pixels, config, counted}' \subseteq Word
  BY ColumnTypes
<1>2. target' \in Word /\ Parts' /\ bit' \in Nat
      /\ (api' # "none" /\ ~(part' = "read" /\ bit' > 0) => result' = <<>>)
  BY DEF Proceeds
<1>3. dout_0' \in {0, 1}
  <2>1. dout_0' = pixels[PixelBits]
    BY DEF Clock, PmcClock, Dout
  <2>2. QED
    BY <2>1, Constants DEF Always, Word
<1>4. result' \in Seq({0, 1}) /\ ReadsCounters' /\ Len(result') <= PixelBits
  BY ResultKept
<1>5. part' \in {"none", "hit", "read"} => config' = target'
  <2> SUFFICES ASSUME part' \in {"none", "hit", "read"}
               PROVE  config' = target'
    OBVIOUS
  <2>1. target' = target
    BY DEF Proceeds
  <2>2. config = target
    BY DEF Proceeds, Always
  <2>3. QED
    BY <2>1, <2>2 DEF Column, Still, ShiftsIn, LatchesConfig, CountsHits
<1>6. QED
  BY <1>1, <1>2, <1>3, <1>4, <1>5 DEF Always, Loopless

-----------------------------------------------------------------------------
(* What is in the column while bits are shifted through it. *)

LEMMA StillKeeps ==
  ASSUME NEW n, Still, Pending' <=> Pending, din_0' = din_0, target' = target
  PROVE  /\ Shifted(n) => Shifted(n)'
         /\ Written(n) => Written(n)'
         /\ counted' = counted => (Moved(n) => Moved(n)') /\ (Moving(n) => Moving(n)')
<1>1. pixels' = pixels
  BY DEF Still
<1>2. QED
  BY <1>1 DEF Shifted, Written, Moved, Moving

LEMMA ShiftKeeps ==
  ASSUME ProgramsFit, NEW n \in 1 .. PixelBits, ShiftsIn, Pending, ~Pending',
         din_0' = din_0, target' = target
  PROVE  /\ Written(n) => Written(n)'
         /\ counted' = counted /\ Moving(n) => Moving(n)'
<1>1. /\ PixelBits \in Nat
      /\ \A k \in 1 .. PixelBits : pixels'[k] = IF k = 1 THEN din_0 ELSE pixels[k - 1]
  BY Constants DEF ShiftsIn
<1>2. ASSUME Written(n)
      PROVE  Written(n)'
  <2>1. Shifted(n - 1) /\ din_0 = target[PixelBits + 1 - n]
    BY <1>2 DEF Written
  <2>2. ASSUME NEW k \in 1 .. n
        PROVE  pixels'[k] = target[PixelBits - n + k]
    <3>1. CASE k = 1
      <4>1. PixelBits - n + k = PixelBits + 1 - n
        BY <1>1, <3>1
      <4>2. QED
        BY <1>1, <2>1, <3>1, <4>1
    <3>2. CASE k # 1
      <4>1. k - 1 \in 1 .. n - 1 /\ PixelBits - (n - 1) + (k - 1) = PixelBits - n + k
        BY <1>1, <3>2
      <4>2. pixels[k - 1] = target[PixelBits - n + k]
        BY <2>1, <4>1 DEF Shifted
      <4>3. QED
        BY <1>1, <3>2, <4>2
    <3>3. QED
      BY <3>1, <3>2
  <2>3. Shifted(n)'
    BY <2>2 DEF Shifted
  <2>4. QED
    BY <2>3 DEF Written
<1>3. ASSUME Moving(n), counted' = counted
      PROVE  Moving(n)'
  <2>1. Moved(n - 1)
    BY <1>3 DEF Moving
  <2>2. ASSUME NEW k \in n + 1 .. PixelBits
        PROVE  pixels'[k] = counted[k - n]
    <3>1. k \in 1 .. PixelBits /\ k # 1
      BY <1>1
    <3>2. k - 1 \in (n - 1) + 1 .. PixelBits /\ (k - 1) - (n - 1) = k - n
      BY <1>1
    <3>3. pixels[k - 1] = counted[k - n]
      BY <2>1, <3>2 DEF Moved
    <3>4. QED
      BY <1>1, <3>1, <3>3
  <2>3. Moved(n)'
    BY <1>3, <2>2 DEF Moved
  <2>4. QED
    BY <2>3 DEF Moving
<1>4. QED
  BY <1>2, <1>3

LEMMA Pendings ==
  ASSUME NEW a, NEW lines
  PROVE  /\ Is(a, Stores(3), lines) => Pending /\ ~cr.trg
         /\ Is(a, Stores(2), lines) => ~Pending
         /\ Is(a, Back, lines) => ~Pending
         /\ Is(a, Wait, lines) => ~Pending
         /\ Is(a, Stores(3), lines)' => Pending'
         /\ Is(a, Stores(2), lines)' => ~Pending'
         /\ Is(a, Back, lines)' => ~Pending'
         /\ Is(a, Wait, lines)' => ~Pending'
<1>1. Stores(3) # Stores(2) /\ Stores(3) # Back /\ Stores(3) # Wait
  <2>1. Stores(3).op # Back.op /\ Stores(3).op # Wait.op /\ Stores(3).arg # Stores(2).arg
    BY DEF Stores, Back, Wait
  <2>2. QED
    BY <2>1
<1>2. QED
  BY <1>1 DEF Is, On, Pending

-----------------------------------------------------------------------------
(* Each stage while time passes. *)

LEMMA ShiftingPasses ==
  ASSUME Passes, HoldsShifter, Shifting, gap \in Nat \ {0}
  PROVE  /\ HoldsShifter' /\ Shifting' /\ Loopless'
         /\ \/ Still /\ (Pending' <=> Pending)
            \/ gap = 2 /\ ShiftsIn /\ Pending /\ ~Pending'
<1>1. /\ Sane /\ Cycle(NoAccess) /\ mem' = mem
      /\ gap = 1 => gap' = 2
      /\ gap = 2 => gap' = 3
      /\ gap = 3 => gap' = 4
      /\ gap >= 4 => gap' >= 4
  BY DEF Passes
<1>2. HoldsShifter' /\ Loopless'
  BY <1>1, ShiftingTurns DEF HoldsShifter, HoldsBytes
<1>3. CASE gap = 1
  <2>1. Still /\ \E lines \in {0, 2} : Is(1, Stores(3), lines)'
    BY <1>1, <1>3, ShiftingTurns
  <2>2. Pending
    BY <1>3 DEF Shifting, Triggered, Pending
  <2>3. Pending'
    BY <2>1, Pendings
  <2>4. Shifting'
    BY <1>1, <1>3, <2>1 DEF Shifting
  <2>5. QED
    BY <1>2, <2>1, <2>2, <2>3, <2>4
<1>4. CASE gap = 2
  <2>1. ShiftsIn /\ Is(4, Stores(2), 3)'
    BY <1>1, <1>4, ShiftingTurns
  <2>2. Pending
    BY <1>4, Pendings DEF Shifting
  <2>3. Shifting' /\ ~Pending'
    BY <1>1, <1>4, <2>1, Pendings DEF Shifting
  <2>4. QED
    BY <1>2, <1>4, <2>1, <2>2, <2>3
<1>5. CASE gap = 3
  <2>1. Still /\ Is(7, Back, 2)'
    BY <1>1, <1>5, ShiftingTurns
  <2>2. ~Pending
    BY <1>5, Pendings DEF Shifting
  <2>3. gap' >= 4
    BY <1>1, <1>5
  <2>4. Shifting' /\ ~Pending'
    BY <2>1, <2>3, Pendings DEF Shifting
  <2>5. QED
    BY <1>2, <2>1, <2>2, <2>4
<1>6. CASE gap >= 4
  <2>1. Still /\ Is(0, Wait, 2)'
    BY <1>1, <1>6, ShiftingTurns
  <2>2. ~Pending
    BY <1>6, Pendings DEF Shifting
  <2>3. Shifting' /\ ~Pending'
    BY <1>1, <1>6, <2>1, Pendings DEF Shifting
  <2>4. QED
    BY <1>2, <2>1, <2>2, <2>3
<1>7. QED
  BY <1>3, <1>4, <1>5, <1>6

LEMMA HittingPasses ==
  ASSUME Passes, HoldsHits, Hitting, gap \in Nat \ {0}
  PROVE  /\ HoldsHits' /\ Hitting' /\ Loopless'
         /\ gap # 3 => Still
         /\ gap = 3 => CountsHits
<1>1. /\ Sane /\ Cycle(NoAccess) /\ mem' = mem
      /\ gap = 1 => gap' = 2
      /\ gap = 2 => gap' = 3
      /\ gap = 3 => gap' >= 4
      /\ gap >= 4 => gap' >= 4
  BY DEF Passes
<1>2. HoldsHits' /\ Loopless'
  BY <1>1, HittingTurns DEF HoldsHits, HoldsBytes
<1>3. CASE gap = 1
  BY <1>1, <1>2, <1>3, HittingTurns DEF Hitting
<1>4. CASE gap = 2
  BY <1>1, <1>2, <1>4, HittingTurns DEF Hitting
<1>5. CASE gap = 3
  BY <1>1, <1>2, <1>5, HittingTurns DEF Hitting
<1>6. CASE gap >= 4
  BY <1>1, <1>2, <1>6, HittingTurns DEF Hitting
<1>7. QED
  BY <1>3, <1>4, <1>5, <1>6

LEMMA LatchingPasses ==
  ASSUME Passes, HoldsLatcher, Latching, gap \in Nat \ {0}
  PROVE  /\ HoldsLatcher' /\ Latching' /\ Loopless'
         /\ gap # 2 => Still
         /\ gap = 2 => LatchesConfig
<1>1. /\ Sane /\ Cycle(NoAccess) /\ mem' = mem
      /\ gap = 1 => gap' = 2
      /\ gap = 2 => gap' = 3
      /\ gap = 3 => gap' >= 4
      /\ gap >= 4 => gap' >= 4
  BY DEF Passes
<1>2. HoldsLatcher' /\ Loopless'
  BY <1>1, LatchingTurns DEF HoldsLatcher, HoldsBytes
<1>3. CASE gap = 1
  BY <1>1, <1>2, <1>3, LatchingTurns DEF Latching
<1>4. CASE gap = 2
  BY <1>1, <1>2, <1>4, LatchingTurns DEF Latching
<1>5. CASE gap = 3
  BY <1>1, <1>2, <1>5, LatchingTurns DEF Latching
<1>6. CASE gap >= 4
  BY <1>1, <1>2, <1>6, LatchingTurns DEF Latching
<1>7. QED
  BY <1>3, <1>4, <1>5, <1>6

LEMMA LatchingEarlyPasses ==
  ASSUME Passes, HoldsMixed, LatchingEarly, gap \in Nat \ {0}
  PROVE  /\ HoldsMixed' /\ LatchingEarly' /\ Loopless'
         /\ gap # 2 => Still
         /\ gap = 2 => LatchesConfig
<1>1. /\ Sane /\ Cycle(NoAccess) /\ mem' = mem
      /\ gap = 1 => gap' = 2
      /\ gap = 2 => gap' = 3
      /\ gap = 3 => gap' >= 4
      /\ gap >= 4 => gap' >= 4
  BY DEF Passes
<1>2. HoldsMixed' /\ Loopless'
  BY <1>1, LatchingEarlyTurns DEF HoldsMixed, HoldsBytes
<1>3. CASE gap = 1
  BY <1>1, <1>2, <1>3, LatchingEarlyTurns DEF LatchingEarly
<1>4. CASE gap = 2
  BY <1>1, <1>2, <1>4, LatchingEarlyTurns DEF LatchingEarly
<1>5. CASE gap = 3
  BY <1>1, <1>2, <1>5, LatchingEarlyTurns DEF LatchingEarly
<1>6. CASE gap >= 4
  BY <1>1, <1>2, <1>6, LatchingEarlyTurns DEF LatchingEarly
<1>7. QED
  BY <1>3, <1>4, <1>5, <1>6

\* The call stands still.
Waits == Observe /\ UNCHANGED <<api, todo, part, bit, loaded, result, target>>

LEMMA KeptStays ==
  ASSUME Observe, Still, UNCHANGED <<api, part>>, Kept
  PROVE  Kept'
<1>1. counted' = IF api = "read_counters" /\ result = <<>> THEN pixels' ELSE counted
  BY StillObserved
<1>2. pixels' = pixels
  BY DEF Still
<1>3. QED
  BY <1>1, <1>2 DEF Kept

LEMMA FreePasses ==
  ASSUME Passes, Free, gap \in Nat \ {0}
  PROVE  Free' /\ Loopless' /\ (Still \/ ShiftsIn)
<1>1. Sane /\ Cycle(NoAccess) /\ mem' = mem
  BY DEF Passes
<1>2. CASE Off /\ ~cr.rst
  BY <1>1, <1>2, OffTurns DEF Free
<1>3. CASE Latched
  <2>1. mem[6] = 0
    BY <1>3 DEF Latched, HoldsLatcher, HoldsBytes
  <2>2. Is(6, Wait, 0)' /\ Loopless' /\ Still
    BY <1>1, <1>3, <2>1, WaitTurns DEF Latched
  <2>3. HoldsLatcher'
    BY <1>1, <1>3 DEF Latched, HoldsLatcher, HoldsBytes
  <2>4. QED
    BY <2>2, <2>3 DEF Free, Latched
<1>4. CASE HoldsShifter /\ Shifting
  BY <1>4, ShiftingPasses DEF Free
<1>5. QED
  BY <1>2, <1>3, <1>4 DEF Free

LEMMA IdlesPasses ==
  ASSUME Always, Passes, Waits, Idles
  PROVE  Idles' /\ Loopless' /\ Column
<1>1. Free' /\ Loopless' /\ (Still \/ ShiftsIn)
  BY FreePasses DEF Idles, Always
<1>2. QED
  BY <1>1 DEF Idles, Waits, Column

LEMMA LoadsShifter0Passes ==
  ASSUME Always, Passes, Waits, LoadsShifter0
  PROVE  LoadsShifter0' /\ Loopless' /\ Column
<1>1. gap \in Nat \ {0}
  BY DEF Always
<1>2. /\ part' \in {"write", "read"} /\ bit' = 0 /\ todo' = WholeShifter'
      /\ part' = part /\ api' = api
  BY DEF LoadsShifter0, Waits, WholeShifter, Shifter0, Shifter1, Shifter2
<1>3. CASE Free /\ ~(part = "read" /\ api = "calibrate")
  <2>1. Free' /\ Loopless' /\ (Still \/ ShiftsIn)
    BY <1>1, <1>3, FreePasses
  <2>2. QED
    BY <1>2, <1>3, <2>1 DEF LoadsShifter0, Column
<1>4. CASE /\ part = "read" /\ api = "calibrate" /\ HoldsHits /\ Hitting
           /\ gap >= 4 => pixels = counted
  <2>1. HoldsHits' /\ Hitting' /\ Loopless' /\ (gap # 3 => Still) /\ (gap = 3 => CountsHits)
    BY <1>1, <1>4, HittingPasses
  <2>2. CASE gap = 3
    <3>1. counted' = pixels'
      BY <2>1, <2>2, HitsObserved DEF Waits
    <3>2. QED
      BY <1>2, <1>4, <2>1, <2>2, <3>1 DEF LoadsShifter0, Column
  <2>3. CASE gap # 3
    <3>1. counted' = counted /\ pixels' = pixels
      BY <1>4, <2>1, <2>3, StillObserved DEF Waits, Still
    <3>2. gap' >= 4 => gap >= 4
      BY <1>1, <2>3 DEF Passes
    <3>3. QED
      BY <1>2, <1>4, <2>1, <2>3, <3>1, <3>2 DEF LoadsShifter0, Column
  <2>4. QED
    BY <2>2, <2>3
<1>5. QED
  BY <1>3, <1>4 DEF LoadsShifter0

LEMMA LoadsShifter1Passes ==
  ASSUME Always, Passes, Waits, LoadsShifter1
  PROVE  LoadsShifter1' /\ Loopless' /\ Column
<1>1. Sane /\ Cycle(NoAccess) /\ mem' = mem /\ mem[0] = 0
  BY DEF Passes, LoadsShifter1, HoldsBytes
<1>2. /\ part' \in {"write", "read"} /\ bit' = 0 /\ todo' = ShifterFrom1'
      /\ HoldsBytes(0, 0, 192, 3, 0)'
  BY <1>1 DEF LoadsShifter1, Waits, ShifterFrom1, HoldsBytes
<1>3. Still => Kept'
  BY KeptStays DEF LoadsShifter1, Waits
<1>4. CASE Off /\ ~cr.rst
  BY <1>1, <1>2, <1>3, <1>4, OffTurns DEF LoadsShifter1, Column
<1>5. CASE Rests(6) /\ Calm /\ mem[6] = 0
  <2>1. Rests(6)' /\ matrix_ctrl' = matrix_ctrl /\ Loopless' /\ Still
    BY <1>1, <1>5, RestsTurns
  <2>2. QED
    BY <1>1, <1>2, <1>3, <1>5, <2>1 DEF LoadsShifter1, Column, Calm
<1>6. CASE Rests(0) /\ Calm
  <2>1. Rests(0)' /\ matrix_ctrl' = matrix_ctrl /\ Loopless' /\ Still
    BY <1>1, <1>6, RestsTurns
  <2>2. QED
    BY <1>1, <1>2, <1>3, <1>6, <2>1 DEF LoadsShifter1, Column, Calm
<1>7. CASE Rests(7) /\ Calm /\ mem[7] = 0 /\ mem[8] = 0
  <2>1. Rests(7)' /\ matrix_ctrl' = matrix_ctrl /\ Loopless' /\ Still
    BY <1>1, <1>7, RestsTurns
  <2>2. QED
    BY <1>1, <1>2, <1>3, <1>7, <2>1 DEF LoadsShifter1, Column, Calm
<1>8. QED
  BY <1>4, <1>5, <1>6, <1>7 DEF LoadsShifter1

LEMMA LoadsShifter2Passes ==
  ASSUME Always, Passes, Waits, LoadsShifter2
  PROVE  LoadsShifter2' /\ Loopless' /\ Column
<1>1. Sane /\ Cycle(NoAccess) /\ mem' = mem /\ mem[0] = 0 /\ mem[6] = 0 /\ mem[7] = 32
  BY DEF Passes, LoadsShifter2, HoldsBytes
<1>2. /\ part' \in {"write", "read"} /\ bit' = 0 /\ todo' = ShifterFrom2'
      /\ HoldsBytes(0, 0, 192, 3, 0)' /\ HoldsBytes(1, 192, 2, 0, 32)'
  BY <1>1 DEF LoadsShifter2, Waits, ShifterFrom2, HoldsBytes
<1>3. Still => Kept'
  BY KeptStays DEF LoadsShifter2, Waits
<1>4. CASE Off /\ ~cr.rst
  BY <1>1, <1>2, <1>3, <1>4, OffTurns DEF LoadsShifter2, Column
<1>5. CASE Rests(6) /\ Calm
  <2>1. Rests(6)' /\ matrix_ctrl' = matrix_ctrl /\ Loopless' /\ Still
    BY <1>1, <1>5, RestsTurns
  <2>2. QED
    BY <1>1, <1>2, <1>3, <1>5, <2>1 DEF LoadsShifter2, Column, Calm
<1>6. CASE Rests(0) /\ Calm
  <2>1. Rests(0)' /\ matrix_ctrl' = matrix_ctrl /\ Loopless' /\ Still
    BY <1>1, <1>6, RestsTurns
  <2>2. QED
    BY <1>1, <1>2, <1>3, <1>6, <2>1 DEF LoadsShifter2, Column, Calm
<1>7. CASE Rests(7) /\ Calm /\ mem[8] = 0 /\ gap = 1
  <2>1. PmcClock(NoAccess, Dout) /\ MatrixStep(matrix_ctrl, matrix_ctrl', din_0')
    BY <1>1 DEF Cycle, Clock
  <2>2. cr.en /\ ~cr.rst /\ ~cr.trg /\ cr'.en /\ ~cr'.rst /\ ~cr'.trg /\ instr = Wait /\ pc_id = 7
    BY <1>1, <1>7 DEF Rests, On, Cycle
  <2>3. Loopless' /\ pc_id' = 7 /\ instr' = Fetch(7) /\ matrix_ctrl' = matrix_ctrl
    BY <1>1, <2>1, <2>2, WaitEdge DEF Sane
  <2>4. Fetch(7) = Back
    BY <1>1, <1>7, FetchesBack DEF Sane
  <2>5. Still
    BY <2>1, <2>3, SameLines
  <2>6. gap' = 2
    BY <1>7 DEF Passes
  <2>7. On' /\ Calm'
    BY <1>7, <2>2, <2>3 DEF On, Calm
  <2>8. QED
    BY <1>2, <1>3, <2>3, <2>4, <2>5, <2>6, <2>7 DEF LoadsShifter2, Column
<1>8. CASE On /\ pc_id = 7 /\ instr = Back /\ Calm /\ gap = 2
  <2>1. Rests(0)' /\ matrix_ctrl' = matrix_ctrl /\ Loopless' /\ Still
    BY <1>1, <1>8, BackTurns
  <2>2. QED
    BY <1>1, <1>2, <1>3, <1>8, <2>1 DEF LoadsShifter2, Column, Calm
<1>9. QED
  BY <1>4, <1>5, <1>6, <1>7, <1>8 DEF LoadsShifter2

LEMMA LoadsLatcher0Passes ==
  ASSUME ProgramsFit, Always, Passes, Waits, LoadsLatcher0
  PROVE  LoadsLatcher0' /\ Loopless' /\ Column
<1>1. /\ HoldsShifter' /\ Shifting' /\ Loopless'
      /\ \/ Still /\ (Pending' <=> Pending)
         \/ gap = 2 /\ ShiftsIn /\ Pending /\ ~Pending'
  BY ShiftingPasses DEF LoadsLatcher0, Always
<1>2. part' = "latch" /\ bit' = 0 /\ todo' = WholeLatcher' /\ target' = target
  BY DEF LoadsLatcher0, Waits, WholeLatcher
<1>3. din_0' = din_0 /\ PixelBits \in 1 .. PixelBits
  BY Constants DEF Passes
<1>4. Written(PixelBits)'
  BY <1>1, <1>2, <1>3, StillKeeps, ShiftKeeps DEF LoadsLatcher0
<1>5. QED
  BY <1>1, <1>2, <1>4 DEF LoadsLatcher0, Column

LEMMA LoadsLatcher1Passes ==
  ASSUME Always, Passes, Waits, LoadsLatcher1
  PROVE  LoadsLatcher1' /\ Loopless' /\ Column
<1>1. HoldsMixed /\ LatchingEarly /\ pixels = target /\ gap \in Nat \ {0}
  BY DEF LoadsLatcher1, HoldsMixed, LatchingEarly, Always
<1>2. /\ HoldsMixed' /\ LatchingEarly' /\ Loopless'
      /\ gap # 2 => Still
      /\ gap = 2 => LatchesConfig
  BY <1>1, LatchingEarlyPasses
<1>3. part' = "latch" /\ bit' = 0 /\ todo' = LatcherFrom1' /\ target' = target
  BY DEF LoadsLatcher1, Waits, LatcherFrom1
<1>4. pixels' = target'
  BY <1>1, <1>2, <1>3 DEF Still, LatchesConfig
<1>5. LoadsLatcher1'
  BY <1>2, <1>3, <1>4 DEF LoadsLatcher1, HoldsMixed, LatchingEarly
<1>6. QED
  BY <1>1, <1>2, <1>5 DEF LoadsLatcher1, Column

LEMMA LoadsHits0Passes ==
  ASSUME Passes, Waits, LoadsHits0
  PROVE  LoadsHits0' /\ Loopless' /\ Column
<1>1. Sane /\ Cycle(NoAccess) /\ mem' = mem /\ mem[6] = 0
  BY DEF Passes, LoadsHits0, Latched, HoldsLatcher, HoldsBytes
<1>2. Is(6, Wait, 0)' /\ Loopless' /\ Still
  BY <1>1, WaitTurns DEF LoadsHits0, Latched
<1>3. part' = "hit" /\ bit' = 0 /\ todo' = WholeHits' /\ HoldsLatcher'
  BY <1>1 DEF LoadsHits0, Waits, WholeHits, Latched, HoldsLatcher, HoldsBytes
<1>4. QED
  BY <1>2, <1>3 DEF LoadsHits0, Latched, Column

LEMMA LoadsHits1Passes ==
  ASSUME Passes, Waits, LoadsHits1
  PROVE  LoadsHits1' /\ Loopless' /\ Column
<1>1. Sane /\ Cycle(NoAccess) /\ mem' = mem /\ mem[6] = 0
  BY DEF Passes, LoadsHits1
<1>2. Is(6, Wait, 0)' /\ Loopless' /\ Still
  BY <1>1, WaitTurns DEF LoadsHits1
<1>3. part' = "hit" /\ bit' = 0 /\ todo' = HitsFrom1' /\ HoldsBytes(0, 0, 192, 8, 0)' /\ mem'[8] = 0
  BY <1>1 DEF LoadsHits1, Waits, HitsFrom1, HoldsBytes
<1>4. QED
  BY <1>1, <1>2, <1>3 DEF LoadsHits1, Column

LEMMA LoadedStays ==
  ASSUME Observe, mem' = mem, UNCHANGED <<api, part, target>>, Loaded,
         \/ Still
         \/ LatchesConfig /\ part = "latch"
  PROVE  Loaded'
<1>1. pixels' = pixels
  BY DEF Still, LatchesConfig
<1>2. /\ part' # "none"
      /\ part' \in {"write", "read"} => HoldsShifter'
      /\ part' = "latch" => HoldsLatcher' /\ pixels' = target'
      /\ part' = "hit" => HoldsHits'
  BY <1>1 DEF Loaded, HoldsShifter, HoldsLatcher, HoldsHits, HoldsBytes
<1>3. Kept'
  BY KeptStays DEF Loaded, Kept
<1>4. QED
  BY <1>2, <1>3 DEF Loaded

LEMMA LoadedWaits ==
  ASSUME Always, Loaded
  PROVE  /\ part # "latch" => mem[0] = 0
         /\ mem[6] = 0
  BY DEF Always, Parts, Loaded, HoldsShifter, HoldsLatcher, HoldsHits, HoldsBytes

LEMMA RestartsTurns ==
  ASSUME Always, Sane, NEW access, Cycle(access), mem' = mem, ~cr.rst /\ ~cr.trg => cr' = cr,
         Observe, UNCHANGED <<api, part, bit, target>>, Restarts,
         \/ todo' = Restart
         \/ todo' = Resetting /\ loaded' = cr
  PROVE  Restarts' /\ Loopless' /\ Column
<1>1. mem[6] = 0 /\ (part # "latch" => mem[0] = 0)
  BY LoadedWaits DEF Restarts
<1>2. ~cr.rst /\ ~cr.trg
  BY DEF Restarts, Off, Rests, On
<1>3. Still => Loaded'
  BY LoadedStays DEF Restarts
<1>4. /\ bit' = 0 /\ part' = part
      /\ \/ todo' = Restart'
         \/ todo' = Resetting' /\ loaded' = cr'
  BY <1>2 DEF Restarts, Restart, Resetting
<1>5. CASE Off /\ ~cr.rst /\ part \in {"write", "read"}
  BY <1>3, <1>4, <1>5, OffTurns DEF Restarts, Column
<1>6. CASE Rests(6) /\ Calm
  <2>1. Rests(6)' /\ matrix_ctrl' = matrix_ctrl /\ Loopless' /\ Still
    BY <1>1, <1>6, RestsTurns
  <2>2. QED
    BY <1>3, <1>4, <1>6, <2>1 DEF Restarts, Column, Calm
<1>7. CASE Rests(0) /\ Calm /\ part \in {"write", "read"}
  <2>1. Rests(0)' /\ matrix_ctrl' = matrix_ctrl /\ Loopless' /\ Still
    BY <1>1, <1>7, RestsTurns
  <2>2. QED
    BY <1>3, <1>4, <1>7, <2>1 DEF Restarts, Column, Calm
<1>8. QED
  BY <1>5, <1>6, <1>7 DEF Restarts

LEMMA RestartsPasses ==
  ASSUME Always, Passes, Waits, Restarts
  PROVE  Restarts' /\ Loopless' /\ Column
<1>1. /\ Sane /\ Cycle(NoAccess) /\ mem' = mem /\ (~cr.rst /\ ~cr.trg => cr' = cr)
      /\ Observe /\ UNCHANGED <<api, part, bit, target>>
      /\ \/ todo' = Restart
         \/ todo' = Resetting /\ loaded' = cr
  BY DEF Passes, Waits, Restarts
<1>2. QED
  BY <1>1, RestartsTurns

LEMMA RestartedPasses ==
  ASSUME ProgramsFit, Always, Passes, Waits, Restarted
  PROVE  Restarted' /\ Loopless' /\ Column
<1>1. Sane /\ Cycle(NoAccess) /\ mem' = mem /\ gap \in Nat \ {0}
  BY DEF Passes, Always
<1>2. part # "latch" => mem[0] = 0
  BY LoadedWaits DEF Restarted
<1>3. bit' = 0 /\ part' = part /\ todo' = Enabling' /\ target' = target
  BY DEF Restarted, Waits, Enabling
<1>4. Still => Loaded'
  BY <1>1, LoadedStays DEF Restarted, Waits
<1>5. CASE part \in {"write", "read"} /\ Off /\ (cr.rst => gap = 1)
  <2>1. Off' /\ ~cr'.rst /\ Loopless' /\ Still
    BY <1>1, <1>5, OffTurns
  <2>2. QED
    BY <1>3, <1>4, <1>5, <2>1 DEF Restarted, Column
<1>6. CASE part # "latch" /\ Held /\ gap = 1
  <2>1. On' /\ pc_id' = 0 /\ instr' = Fetch(0) /\ matrix_ctrl' = 0 /\ Loopless' /\ Still
    BY <1>1, <1>6, HeldTurns
  <2>2. Fetch(0) = Wait
    BY <1>1, <1>2, <1>6, FetchesWait DEF Sane
  <2>3. Is(0, Wait, 0)'
    BY <2>1, <2>2 DEF Is
  <2>4. QED
    BY <1>3, <1>4, <1>6, <2>1, <2>3 DEF Restarted, Column
<1>7. CASE part # "latch" /\ Is(0, Wait, 0)
  <2>1. Is(0, Wait, 0)' /\ Loopless' /\ Still
    BY <1>1, <1>2, <1>7, WaitTurns
  <2>2. QED
    BY <1>3, <1>4, <1>7, <2>1 DEF Restarted, Column
<1>8. CASE part = "latch" /\ Latching /\ (gap > 2 => config = target)
  <2>1. HoldsLatcher /\ pixels = target /\ Loaded
    BY <1>8 DEF Restarted, Loaded
  <2>2. /\ Latching' /\ Loopless'
        /\ gap # 2 => Still
        /\ gap = 2 => LatchesConfig
    BY <1>1, <1>8, <2>1, LatchingPasses
  <2>3. Loaded'
    BY <1>1, <1>8, <2>1, <2>2, LoadedStays DEF Waits
  <2>4. gap' > 2 => config' = target'
    <3>1. CASE gap = 1
      BY <3>1 DEF Passes
    <3>2. CASE gap = 2
      BY <1>3, <2>1, <2>2, <3>2 DEF LatchesConfig
    <3>3. CASE gap > 2
      BY <1>3, <1>8, <2>2, <3>3 DEF Still
    <3>4. QED
      BY <1>1, <3>1, <3>2, <3>3
  <2>5. QED
    BY <1>3, <1>8, <2>1, <2>2, <2>3, <2>4 DEF Restarted, Column
<1>9. QED
  BY <1>5, <1>6, <1>7, <1>8 DEF Restarted

LEMMA EnabledPasses ==
  ASSUME Always, Passes, Waits, Enabled
  PROVE  Enabled' /\ Loopless' /\ Column
<1>1. Sane /\ Cycle(NoAccess) /\ mem' = mem /\ (~cr.rst /\ ~cr.trg => cr' = cr)
  BY DEF Passes
<1>2. mem[6] = 0 /\ (part # "latch" => mem[0] = 0)
  BY LoadedWaits DEF Enabled
<1>3. ~cr.rst /\ ~cr.trg
  BY DEF Enabled, Off, Is, On
<1>4. bit' = 0 /\ part' = part /\ todo' = Enables' /\ loaded' = cr' /\ target' = target
  BY <1>1, <1>3 DEF Enabled, Waits, Enables
<1>5. Still => Loaded'
  BY <1>1, LoadedStays DEF Enabled, Waits
<1>6. CASE part \in {"write", "read"} /\ Off /\ ~cr.rst
  BY <1>1, <1>4, <1>5, <1>6, OffTurns DEF Enabled, Column
<1>7. CASE part # "latch" /\ Is(0, Wait, 0)
  <2>1. Is(0, Wait, 0)' /\ Loopless' /\ Still
    BY <1>1, <1>2, <1>7, WaitTurns
  <2>2. QED
    BY <1>4, <1>5, <1>7, <2>1 DEF Enabled, Column
<1>8. CASE part = "latch" /\ Is(6, Wait, 0) /\ config = target
  <2>1. Is(6, Wait, 0)' /\ Loopless' /\ Still
    BY <1>1, <1>2, <1>8, WaitTurns
  <2>2. config' = target'
    BY <1>4, <1>8, <2>1 DEF Still
  <2>3. QED
    BY <1>4, <1>5, <1>8, <2>1, <2>2 DEF Enabled, Column
<1>9. QED
  BY <1>6, <1>7, <1>8 DEF Enabled

LEMMA CountedWaits ==
  ASSUME Always, Observe, Column, part = "read", Len(result) = bit - 1,
         api = "calibrate" \/ bit > 1, ~CountsHits
  PROVE  counted' = counted
<1>1. CASE bit > 1
  <2>1. result # <<>>
    BY <1>1 DEF Always
  <2>2. QED
    BY <2>1, CountedKept
<1>2. CASE api = "calibrate"
  BY <1>2, StillObserved DEF Column
<1>3. QED
  BY <1>1, <1>2

LEMMA AccessesPasses ==
  ASSUME ProgramsFit, Always, Passes, Waits, Accesses
  PROVE  Accesses' /\ Loopless' /\ Column
<1>1. /\ Sane /\ Cycle(NoAccess) /\ mem' = mem /\ mem[0] = 0
      /\ din_0' = din_0 /\ dout_0' = pixels[PixelBits]
  BY DEF Passes, Accesses, HoldsShifter, HoldsBytes
<1>2. gap \in Nat \ {0} /\ PixelBits \in Nat /\ bit \in 1 .. PixelBits
  BY Constants DEF Always, Accesses
<1>3. HoldsShifter' /\ UNCHANGED <<api, part, bit, result, target>>
      /\ (todo = Writing => todo' = Writing') /\ (todo = Reading => todo' = Reading')
  BY <1>1 DEF Accesses, HoldsShifter, HoldsBytes, Waits, Writing, Reading
<1>4. /\ Loopless'
      /\ \/ bit' > 1 /\ Shifting'
         \/ Is(0, Wait, 0)'
      /\ \/ Still /\ (Pending' <=> Pending)
         \/ bit > 1 /\ gap = 2 /\ ShiftsIn /\ Pending /\ ~Pending'
  <2>1. CASE bit > 1 /\ Shifting
    BY <1>2, <1>3, <2>1, ShiftingPasses DEF Accesses, Passes
  <2>2. CASE Is(0, Wait, 0)
    BY <1>1, <2>2, WaitTurns, Pendings
  <2>3. QED
    BY <2>1, <2>2 DEF Accesses
<1>5. Column /\ ~CountsHits
  BY <1>4 DEF Column, Still, ShiftsIn, CountsHits
<1>6. CASE part = "write" /\ todo = Writing /\ Written(bit - 1)
  <2>1. Written(bit - 1)'
    <3>1. CASE Still /\ (Pending' <=> Pending)
      BY <1>1, <1>3, <1>6, <3>1, StillKeeps
    <3>2. CASE bit > 1 /\ ShiftsIn /\ Pending /\ ~Pending'
      <4>1. bit - 1 \in 1 .. PixelBits
        BY <1>2, <3>2
      <4>2. QED
        BY <1>1, <1>3, <1>6, <3>2, <4>1, ShiftKeeps
    <3>3. QED
      BY <1>4, <3>1, <3>2
  <2>2. QED
    BY <1>2, <1>3, <1>4, <1>5, <1>6, <2>1 DEF Accesses
<1>7. CASE /\ part = "read" /\ todo = Reading
           /\ Len(result) = bit - 1
           /\ api = "calibrate" \/ bit > 1 => Moving(bit - 1)
           /\ gap >= 4 => Fresh
  <2>1. ASSUME api = "calibrate" \/ bit > 1
        PROVE  Moving(bit - 1)'
    <3>1. counted' = counted
      BY <1>5, <1>7, <2>1, CountedWaits DEF Waits
    <3>2. CASE Still /\ (Pending' <=> Pending)
      BY <1>1, <1>3, <1>7, <2>1, <3>1, <3>2, StillKeeps
    <3>3. CASE bit > 1 /\ ShiftsIn /\ Pending /\ ~Pending'
      <4>1. bit - 1 \in 1 .. PixelBits
        BY <1>2, <3>3
      <4>2. QED
        BY <1>1, <1>3, <1>7, <2>1, <3>1, <3>3, <4>1, ShiftKeeps
    <3>4. QED
      BY <1>4, <3>2, <3>3
  <2>2. gap' >= 4 => Fresh'
    <3>1. CASE Still
      BY <1>1, <3>1 DEF Still, Fresh
    <3>2. CASE ~Still
      <4>1. gap = 2
        BY <1>4, <3>2
      <4>2. QED
        BY <4>1 DEF Passes
    <3>3. QED
      BY <3>1, <3>2
  <2>3. QED
    BY <1>2, <1>3, <1>4, <1>5, <1>7, <2>1, <2>2 DEF Accesses
<1>8. QED
  BY <1>6, <1>7 DEF Accesses

LEMMA AwaitsTurns ==
  ASSUME ProgramsFit, Always, Sane, NEW access, Cycle(access), mem' = mem,
         ~cr.rst /\ ~cr.trg => cr' = cr, din_0' = din_0,
         Observe, UNCHANGED <<api, part, bit, result, target>>, Awaits,
         \/ todo' \in {Awaiting, Triggering}
         \/ todo' = Triggers /\ loaded' = cr
  PROVE  Awaits' /\ Loopless' /\ Column
<1>1. ~cr.rst /\ ~cr.trg
  BY DEF Awaits, Is, On
<1>2. \/ todo' \in {Awaiting', Triggering'}
      \/ todo' = Triggers' /\ loaded' = cr'
  BY <1>1 DEF Awaits, Awaiting, Triggering, Triggers
<1>3. /\ HoldsShifter => HoldsShifter' /\ mem[0] = 0
      /\ HoldsHits => HoldsHits' /\ mem[0] = 0
  BY DEF HoldsShifter, HoldsHits, HoldsBytes
<1>4. CASE /\ part = "write" /\ HoldsShifter /\ \E lines \in {0, 2} : Is(0, Wait, lines)
           /\ bit \in 1 .. PixelBits
           /\ Shifted(bit - 1) /\ din_0 = target[PixelBits + 1 - bit]
  <2>1. (\E lines \in {0, 2} : Is(0, Wait, lines)') /\ Loopless' /\ Still
    BY <1>3, <1>4, WaitTurns
  <2>2. Shifted(bit - 1)'
    BY <1>4, <2>1 DEF Still, Shifted
  <2>3. QED
    BY <1>2, <1>3, <1>4, <2>1, <2>2 DEF Awaits, Column
<1>5. CASE /\ part = "read" /\ HoldsShifter /\ \E lines \in {0, 2} : Is(0, Wait, lines)
           /\ bit \in 1 .. PixelBits
           /\ Len(result) = bit /\ Moved(bit - 1)
  <2>1. (\E lines \in {0, 2} : Is(0, Wait, lines)') /\ Loopless' /\ Still
    BY <1>3, <1>5, WaitTurns
  <2>2. counted' = counted
    BY <1>5, <2>1, CountedKept DEF Column
  <2>3. Moved(bit - 1)'
    BY <1>5, <2>1, <2>2 DEF Still, Moved
  <2>4. QED
    BY <1>2, <1>3, <1>5, <2>1, <2>3 DEF Awaits, Column
<1>6. CASE part = "hit" /\ HoldsHits /\ Is(0, Wait, 0) /\ bit = 1
  <2>1. Is(0, Wait, 0)' /\ Loopless' /\ Still
    BY <1>3, <1>6, WaitTurns
  <2>2. QED
    BY <1>2, <1>3, <1>6, <2>1 DEF Awaits, Column
<1>7. QED
  BY <1>4, <1>5, <1>6 DEF Awaits

LEMMA AwaitsPasses ==
  ASSUME ProgramsFit, Always, Passes, Waits, Awaits
  PROVE  Awaits' /\ Loopless' /\ Column
<1>1. /\ Sane /\ Cycle(NoAccess) /\ mem' = mem /\ din_0' = din_0
      /\ ~cr.rst /\ ~cr.trg => cr' = cr
      /\ Observe /\ UNCHANGED <<api, part, bit, result, target>>
      /\ \/ todo' \in {Awaiting, Triggering}
         \/ todo' = Triggers /\ loaded' = cr
  BY DEF Passes, Waits, Awaits
<1>2. QED
  BY <1>1, AwaitsTurns

-----------------------------------------------------------------------------
(* Each stage as the software makes its next access: words of a program.   *)

LEMMA CallStays ==
  ASSUME Always, UNCHANGED <<api, part, bit, result, target>>
  PROVE  Proceeds
BY DEF Always, Parts, Proceeds

\* What holds after any step but the stage.
Types ==
  /\ mem' \in [Addr -> Byte \cup {Unwritten}]
  /\ cr' \in [en : BOOLEAN, rst : BOOLEAN, trg : BOOLEAN]
  /\ gap' \in Nat \ {0} /\ din_0' \in {0, 1}

Follows == Loopless' /\ Column /\ Proceeds /\ Types

\* Word w of the code RAM is stored, in a cycle that was due.
Stored(w, b0, b1, b2, b3) ==
  /\ gap >= 4 /\ gap' = 1
  /\ Sane /\ \E access : Cycle(access)
  /\ \A a \in 0 .. 8 : a \div 4 # w => mem'[a] = mem[a]
  /\ w = 0 => mem'[0] = b0 /\ mem'[1] = b1 /\ mem'[2] = b2 /\ mem'[3] = b3
  /\ w = 1 => mem'[4] = b0 /\ mem'[5] = b1 /\ mem'[6] = b2 /\ mem'[7] = b3
  /\ w = 2 => mem'[8] = b0
  /\ todo' = Tail(todo)
  /\ UNCHANGED <<api, part, bit, loaded, result, target>>
  /\ Types /\ Proceeds /\ Observe

LEMMA WordStored ==
  ASSUME ProgramsFit, SoftwarePaced, Always, CpuAccess, NEW w \in {0, 1, 2},
         NEW b0 \in Byte, NEW b1 \in Byte, NEW b2 \in Byte, NEW b3 \in Byte,
         Head(todo) = StoreWord(w, b0, b1, b2, b3), Len(todo) \in 2 .. 7
  PROVE  Stored(w, b0, b1, b2, b3)
<1> DEFINE data == [word |-> w, bytes |-> <<b0, b1, b2, b3>>]
           access == WriteOf("PMCC_CODE_RAM", data)
<1>1. gap \in Nat \ {0} /\ AccessGap \in Nat /\ AccessGap >= 4
  BY Constants DEF Always, SoftwarePaced
<1>2. Head(todo) = StoreTo("PMCC_CODE_RAM", data)
  BY DEF StoreWord
<1> HIDE DEF data
<1>3. /\ gap >= AccessGap /\ Made(access)
      /\ loaded' = loaded /\ result' = result /\ GoesOn(FALSE)
  BY <1>1, <1>2, StoreMade
<1>4. Clock(access) /\ Observe /\ target' = target /\ gap' = 1
  BY <1>3 DEF Made
<1>5. PmcClock(access, Dout)
  BY <1>4 DEF Clock
<1>6. Sane /\ mem \in [Addr -> Byte \cup {Unwritten}]
      /\ cr \in [en : BOOLEAN, rst : BOOLEAN, trg : BOOLEAN]
  BY DEF Always, Sane, Loopless
<1>7. /\ mem' \in [Addr -> Byte \cup {Unwritten}]
      /\ \A a \in 0 .. 8 : a \div 4 # w => mem'[a] = mem[a]
      /\ w = 0 => mem'[0] = b0 /\ mem'[1] = b1 /\ mem'[2] = b2 /\ mem'[3] = b3
      /\ w = 1 => mem'[4] = b0 /\ mem'[5] = b1 /\ mem'[6] = b2 /\ mem'[7] = b3
      /\ w = 2 => mem'[8] = b0
      /\ cr' \in [en : BOOLEAN, rst : BOOLEAN, trg : BOOLEAN]
      /\ (cr'.en <=> cr.en) /\ ~cr'.rst /\ ~cr'.trg
  <2>1. PmcClock(WriteOf("PMCC_CODE_RAM", [word |-> w, bytes |-> <<b0, b1, b2, b3>>]), Dout)
    BY <1>5 DEF data
  <2>2. QED
    BY <1>6, <2>1, StoreRamEdge
<1>8. din_0' = din_0
  BY <1>5 DEF PmcClock, Writes, WriteOf
<1>9. Cycle(access)
  BY <1>4, <1>7 DEF Cycle
<1>10. todo' = Tail(todo) /\ UNCHANGED <<api, part, bit>>
  BY <1>3, GoesOnWithin
<1>11. Types
  BY <1>4, <1>7, <1>8 DEF Types, Always
<1>12. Proceeds
  BY <1>3, <1>4, <1>10, CallStays
<1> HIDE DEF access
<1>13. QED
  BY <1>1, <1>3, <1>4, <1>6, <1>7, <1>9, <1>10, <1>11, <1>12 DEF Stored

LEMMA Quotients ==
  /\ 0 \div 4 = 0 /\ 1 \div 4 = 0 /\ 2 \div 4 = 0 /\ 3 \div 4 = 0
  /\ 4 \div 4 = 1 /\ 5 \div 4 = 1 /\ 6 \div 4 = 1 /\ 7 \div 4 = 1
  /\ 8 \div 4 = 2
BY SMT

LEMMA StoredWords ==
  ASSUME NEW w \in {0, 1, 2}, NEW b0, NEW b1, NEW b2, NEW b3, Stored(w, b0, b1, b2, b3)
  PROVE  /\ w # 2 => HoldsBytes(w, b0, b1, b2, b3)'
         /\ w # 0 => mem'[0] = mem[0] /\ mem'[1] = mem[1] /\ mem'[2] = mem[2] /\ mem'[3] = mem[3]
         /\ w # 1 => mem'[4] = mem[4] /\ mem'[5] = mem[5] /\ mem'[6] = mem[6] /\ mem'[7] = mem[7]
         /\ w # 2 => mem'[8] = mem[8]
<1>1. \A a \in 0 .. 8 : a \div 4 # w => mem'[a] = mem[a]
  BY DEF Stored
<1>2. /\ w # 0 => mem'[0] = mem[0] /\ mem'[1] = mem[1] /\ mem'[2] = mem[2] /\ mem'[3] = mem[3]
      /\ w # 1 => mem'[4] = mem[4] /\ mem'[5] = mem[5] /\ mem'[6] = mem[6] /\ mem'[7] = mem[7]
      /\ w # 2 => mem'[8] = mem[8]
  BY <1>1, Quotients
<1>3. CASE w = 0
  BY <1>2, <1>3 DEF Stored, HoldsBytes
<1>4. CASE w = 1
  BY <1>2, <1>4 DEF Stored, HoldsBytes
<1>5. QED
  BY <1>2, <1>3, <1>4

LEMMA ProgramBytes == {0, 2, 3, 8, 32, 192} \subseteq Byte
BY DEF Byte

LEMMA LoadsShifter0Stores ==
  ASSUME ProgramsFit, SoftwarePaced, Always, CpuAccess, LoadsShifter0
  PROVE  LoadsShifter1' /\ Follows
<1>1. Head(todo) = Shifter0 /\ Tail(todo) = ShifterFrom1 /\ Len(todo) = 7
  BY Heads DEF LoadsShifter0
<1>2. Stored(0, 0, 192, 3, 0)
  BY <1>1, ProgramBytes, WordStored DEF Shifter0
<1>3. /\ gap >= 4 /\ gap' = 1 /\ Sane /\ todo' = ShifterFrom1
      /\ UNCHANGED <<api, part, bit, loaded, result, target>>
      /\ Types /\ Proceeds /\ Observe
  BY <1>1, <1>2 DEF Stored
<1>4. PICK access : Cycle(access)
  BY <1>2 DEF Stored
<1>5. HoldsBytes(0, 0, 192, 3, 0)'
      /\ mem'[6] = mem[6] /\ mem'[7] = mem[7] /\ mem'[8] = mem[8]
  BY <1>2, StoredWords
<1>6. part' \in {"write", "read"} /\ bit' = 0 /\ todo' = ShifterFrom1'
  BY <1>3 DEF LoadsShifter0, ShifterFrom1, Shifter1, Shifter2
<1>7. CASE Free /\ ~(part = "read" /\ api = "calibrate")
  <2>1. Kept'
    BY <1>3, <1>7 DEF Kept
  <2>2. CASE Off /\ ~cr.rst
    BY <1>3, <1>4, <1>5, <1>6, <2>1, <2>2, OffTurns DEF LoadsShifter1, Follows, Column
  <2>3. CASE Latched
    <3>1. mem[6] = 0 /\ Rests(6) /\ matrix_ctrl = 0
      BY <2>3, IsRests DEF Latched, HoldsLatcher, HoldsBytes
    <3>2. Rests(6)' /\ matrix_ctrl' = matrix_ctrl /\ Loopless' /\ Still
      BY <1>3, <1>4, <3>1, RestsTurns
    <3>3. QED
      BY <1>3, <1>5, <1>6, <2>1, <3>1, <3>2 DEF LoadsShifter1, Follows, Column, Calm
  <2>4. CASE HoldsShifter /\ Shifting
    <3>1. Still /\ Is(0, Wait, 2)' /\ Loopless'
      BY <1>3, <1>4, <2>4, ShiftingTurns
    <3>2. QED
      BY <1>3, <1>5, <1>6, <2>1, <3>1, IsRests DEF LoadsShifter1, Follows, Column, Calm
  <2>5. QED
    BY <1>7, <2>2, <2>3, <2>4 DEF Free
<1>8. CASE /\ part = "read" /\ api = "calibrate" /\ HoldsHits /\ Hitting
           /\ gap >= 4 => pixels = counted
  <2>1. Still /\ Is(7, Wait, 0)' /\ Loopless'
    BY <1>3, <1>4, <1>8, HittingTurns
  <2>2. Kept'
    BY <1>3, <1>8, <2>1, StillObserved DEF Kept, Still
  <2>3. mem[7] = 0 /\ mem[8] = 0
    BY <1>8 DEF HoldsHits, HoldsBytes
  <2>4. QED
    BY <1>3, <1>5, <1>6, <2>1, <2>2, <2>3, IsRests DEF LoadsShifter1, Follows, Column, Calm
<1>9. QED
  BY <1>7, <1>8 DEF LoadsShifter0

LEMMA LoadsShifter1Stores ==
  ASSUME ProgramsFit, SoftwarePaced, Always, CpuAccess, LoadsShifter1
  PROVE  LoadsShifter2' /\ Follows
<1>1. Head(todo) = Shifter1 /\ Tail(todo) = ShifterFrom2 /\ Len(todo) = 6
  BY Heads DEF LoadsShifter1
<1>2. Stored(1, 192, 2, 0, 32)
  BY <1>1, ProgramBytes, WordStored DEF Shifter1
<1>3. /\ gap' = 1 /\ Sane /\ todo' = ShifterFrom2
      /\ UNCHANGED <<api, part, bit, loaded, result, target>>
      /\ Types /\ Proceeds /\ Observe
  BY <1>1, <1>2 DEF Stored
<1>4. PICK access : Cycle(access)
  BY <1>2 DEF Stored
<1>5. /\ HoldsBytes(1, 192, 2, 0, 32)' /\ mem'[8] = mem[8]
      /\ mem'[0] = mem[0] /\ mem'[1] = mem[1] /\ mem'[2] = mem[2] /\ mem'[3] = mem[3]
  BY <1>2, StoredWords
<1>6. HoldsBytes(0, 0, 192, 3, 0)' /\ mem[0] = 0
  BY <1>5 DEF LoadsShifter1, HoldsBytes
<1>7. part' \in {"write", "read"} /\ bit' = 0 /\ todo' = ShifterFrom2'
  BY <1>3 DEF LoadsShifter1, ShifterFrom2, Shifter2
<1>8. Still => Kept'
  BY <1>3, KeptStays DEF LoadsShifter1
<1>9. CASE Off /\ ~cr.rst
  BY <1>3, <1>4, <1>5, <1>6, <1>7, <1>8, <1>9, OffTurns DEF LoadsShifter2, Follows, Column
<1>10. CASE Rests(6) /\ Calm /\ mem[6] = 0
  <2>1. Rests(6)' /\ matrix_ctrl' = matrix_ctrl /\ Loopless' /\ Still
    BY <1>3, <1>4, <1>10, RestsTurns
  <2>2. QED
    BY <1>3, <1>5, <1>6, <1>7, <1>8, <1>10, <2>1 DEF LoadsShifter2, Follows, Column, Calm
<1>11. CASE Rests(0) /\ Calm
  <2>1. Rests(0)' /\ matrix_ctrl' = matrix_ctrl /\ Loopless' /\ Still
    BY <1>3, <1>4, <1>6, <1>11, RestsTurns
  <2>2. QED
    BY <1>3, <1>5, <1>6, <1>7, <1>8, <1>11, <2>1 DEF LoadsShifter2, Follows, Column, Calm
<1>12. CASE Rests(7) /\ Calm /\ mem[7] = 0 /\ mem[8] = 0
  <2>1. Rests(7)' /\ matrix_ctrl' = matrix_ctrl /\ Loopless' /\ Still
    BY <1>3, <1>4, <1>12, RestsTurns
  <2>2. QED
    BY <1>3, <1>5, <1>6, <1>7, <1>8, <1>12, <2>1 DEF LoadsShifter2, Follows, Column, Calm
<1>13. QED
  BY <1>9, <1>10, <1>11, <1>12 DEF LoadsShifter1

LEMMA LoadsShifter2Stores ==
  ASSUME ProgramsFit, SoftwarePaced, Always, CpuAccess, LoadsShifter2
  PROVE  Restarts' /\ Follows
<1>1. Head(todo) = Shifter2 /\ Tail(todo) = Restart /\ Len(todo) = 5
  BY Heads DEF LoadsShifter2
<1>2. Stored(2, 0, 0, 0, 0)
  BY <1>1, ProgramBytes, WordStored DEF Shifter2
<1>3. /\ gap >= 4 /\ gap' = 1 /\ Sane /\ todo' = Restart
      /\ UNCHANGED <<api, part, bit, loaded, result, target>>
      /\ Types /\ Proceeds /\ Observe
  BY <1>1, <1>2 DEF Stored
<1>4. PICK access : Cycle(access)
  BY <1>2 DEF Stored
<1>5. /\ mem'[8] = 0
      /\ mem'[0] = mem[0] /\ mem'[1] = mem[1] /\ mem'[2] = mem[2] /\ mem'[3] = mem[3]
      /\ mem'[4] = mem[4] /\ mem'[5] = mem[5] /\ mem'[6] = mem[6] /\ mem'[7] = mem[7]
  BY <1>2, StoredWords DEF Stored
<1>6. HoldsShifter' /\ mem[0] = 0 /\ mem[6] = 0
  BY <1>5 DEF LoadsShifter2, HoldsShifter, HoldsBytes
<1>7. part' \in {"write", "read"} /\ bit' = 0 /\ todo' = Restart'
  BY <1>3 DEF LoadsShifter2, Restart
<1>8. Still => Loaded'
  <2>1. Still => Kept'
    BY <1>3, KeptStays DEF LoadsShifter2
  <2>2. QED
    BY <1>6, <1>7, <2>1 DEF Loaded
<1>9. CASE Off /\ ~cr.rst
  BY <1>3, <1>4, <1>7, <1>8, <1>9, OffTurns DEF Restarts, Follows, Column
<1>10. CASE Rests(6) /\ Calm
  <2>1. Rests(6)' /\ matrix_ctrl' = matrix_ctrl /\ Loopless' /\ Still
    BY <1>3, <1>4, <1>6, <1>10, RestsTurns
  <2>2. QED
    BY <1>3, <1>7, <1>8, <1>10, <2>1 DEF Restarts, Follows, Column, Calm
<1>11. CASE Rests(0) /\ Calm
  <2>1. Rests(0)' /\ matrix_ctrl' = matrix_ctrl /\ Loopless' /\ Still
    BY <1>3, <1>4, <1>6, <1>11, RestsTurns
  <2>2. QED
    BY <1>3, <1>7, <1>8, <1>11, <2>1 DEF Restarts, Follows, Column, Calm
<1>12. QED
  BY <1>3, <1>9, <1>10, <1>11 DEF LoadsShifter2

LEMMA SameWord ==
  ASSUME NEW u \in Word, NEW v \in Word, \A k \in 1 .. PixelBits : u[k] = v[k]
  PROVE  u = v
<1>1. u = [k \in 1 .. PixelBits |-> u[k]] /\ v = [k \in 1 .. PixelBits |-> v[k]]
  BY DEF Word
<1>2. [k \in 1 .. PixelBits |-> u[k]] = [k \in 1 .. PixelBits |-> v[k]]
  OBVIOUS
<1>3. QED
  BY <1>1, <1>2, Zenon

LEMMA LoadsLatcher0Stores ==
  ASSUME ProgramsFit, SoftwarePaced, Always, CpuAccess, LoadsLatcher0
  PROVE  LoadsLatcher1' /\ Follows
<1>1. Head(todo) = Latcher0 /\ Tail(todo) = LatcherFrom1 /\ Len(todo) = 6
  BY Heads DEF LoadsLatcher0
<1>2. Stored(0, 192, 32, 0, 192)
  BY <1>1, ProgramBytes, WordStored DEF Latcher0
<1>3. /\ gap >= 4 /\ gap' = 1 /\ Sane /\ todo' = LatcherFrom1
      /\ UNCHANGED <<api, part, bit, loaded, result, target>>
      /\ Types /\ Proceeds /\ Observe
  BY <1>1, <1>2 DEF Stored
<1>4. PICK access : Cycle(access)
  BY <1>2 DEF Stored
<1>5. /\ HoldsBytes(0, 192, 32, 0, 192)' /\ mem'[8] = mem[8]
      /\ mem'[4] = mem[4] /\ mem'[5] = mem[5] /\ mem'[6] = mem[6] /\ mem'[7] = mem[7]
  BY <1>2, StoredWords
<1>6. HoldsBytes(1, 192, 2, 0, 32)' /\ mem'[8] = 0
  BY <1>5 DEF LoadsLatcher0, HoldsShifter, HoldsBytes
<1>7. part' = "latch" /\ bit' = 0 /\ todo' = LatcherFrom1'
  BY <1>3 DEF LoadsLatcher0, LatcherFrom1, Latcher1
<1>8. Still /\ Is(0, Wait, 2)' /\ Loopless'
  BY <1>3, <1>4, ShiftingTurns DEF LoadsLatcher0
<1>9. pixels' = target'
  <2>1. ~Pending
    BY <1>3, Pendings DEF LoadsLatcher0, Shifting
  <2>2. \A k \in 1 .. PixelBits : pixels[k] = target[PixelBits - PixelBits + k]
    BY <2>1 DEF LoadsLatcher0, Written, Shifted
  <2>3. \A k \in 1 .. PixelBits : pixels[k] = target[k]
    BY <2>2, Constants
  <2>4. pixels = target
    <3>1. pixels \in Word /\ target \in Word
      BY DEF Always
    <3>2. QED
      BY <2>3, <3>1, SameWord
  <2>5. QED
    BY <1>3, <1>8, <2>4 DEF Still
<1>10. QED
  BY <1>3, <1>5, <1>6, <1>7, <1>8, <1>9 DEF LoadsLatcher1, Follows, Column

LEMMA LoadsLatcher1Stores ==
  ASSUME ProgramsFit, SoftwarePaced, Always, CpuAccess, LoadsLatcher1
  PROVE  Restarts' /\ Follows
<1>1. Head(todo) = Latcher1 /\ Tail(todo) = Restart /\ Len(todo) = 5
  BY Heads DEF LoadsLatcher1
<1>2. Stored(1, 0, 0, 0, 0)
  BY <1>1, ProgramBytes, WordStored DEF Latcher1
<1>3. /\ gap >= 4 /\ gap' = 1 /\ Sane /\ todo' = Restart
      /\ UNCHANGED <<api, part, bit, loaded, result, target>>
      /\ Types /\ Proceeds /\ Observe
  BY <1>1, <1>2 DEF Stored
<1>4. PICK access : Cycle(access)
  BY <1>2 DEF Stored
<1>5. /\ HoldsBytes(1, 0, 0, 0, 0)' /\ mem'[8] = mem[8]
      /\ mem'[0] = mem[0] /\ mem'[1] = mem[1] /\ mem'[2] = mem[2] /\ mem'[3] = mem[3]
  BY <1>2, StoredWords
<1>6. HoldsLatcher'
  BY <1>5 DEF LoadsLatcher1, HoldsLatcher, HoldsBytes
<1>7. part' = "latch" /\ bit' = 0 /\ todo' = Restart'
  BY <1>3 DEF LoadsLatcher1, Restart
<1>8. HoldsMixed /\ LatchingEarly /\ pixels = target
  BY DEF LoadsLatcher1, HoldsMixed, LatchingEarly
<1>9. Still /\ Is(6, Wait, 704)' /\ Loopless'
  BY <1>3, <1>4, <1>8, LatchingEarlyTurns
<1>10. Loaded'
  BY <1>3, <1>6, <1>7, <1>8, <1>9 DEF Loaded, Kept, Still
<1>11. QED
  BY <1>3, <1>7, <1>9, <1>10, IsRests DEF Restarts, Follows, Column, Calm

LEMMA LoadsHits0Stores ==
  ASSUME ProgramsFit, SoftwarePaced, Always, CpuAccess, LoadsHits0
  PROVE  LoadsHits1' /\ Follows
<1>1. Head(todo) = Hits0 /\ Tail(todo) = HitsFrom1 /\ Len(todo) = 6
  BY Heads DEF LoadsHits0
<1>2. Stored(0, 0, 192, 8, 0)
  BY <1>1, ProgramBytes, WordStored DEF Hits0
<1>3. /\ gap' = 1 /\ Sane /\ todo' = HitsFrom1
      /\ UNCHANGED <<api, part, bit, loaded, result, target>>
      /\ Types /\ Proceeds /\ Observe
  BY <1>1, <1>2 DEF Stored
<1>4. PICK access : Cycle(access)
  BY <1>2 DEF Stored
<1>5. HoldsBytes(0, 0, 192, 8, 0)' /\ mem'[6] = mem[6] /\ mem'[8] = mem[8]
  BY <1>2, StoredWords
<1>6. mem[6] = 0 /\ mem[8] = 0
  BY DEF LoadsHits0, Latched, HoldsLatcher, HoldsBytes
<1>7. part' = "hit" /\ bit' = 0 /\ todo' = HitsFrom1'
  BY <1>3 DEF LoadsHits0, HitsFrom1, Hits1
<1>8. Is(6, Wait, 0)' /\ Loopless' /\ Still
  BY <1>3, <1>4, <1>6, WaitTurns DEF LoadsHits0, Latched
<1>9. QED
  BY <1>3, <1>5, <1>6, <1>7, <1>8 DEF LoadsHits1, Follows, Column

LEMMA LoadsHits1Stores ==
  ASSUME ProgramsFit, SoftwarePaced, Always, CpuAccess, LoadsHits1
  PROVE  Restarts' /\ Follows
<1>1. Head(todo) = Hits1 /\ Tail(todo) = Restart /\ Len(todo) = 5
  BY Heads DEF LoadsHits1
<1>2. Stored(1, 192, 0, 0, 0)
  BY <1>1, ProgramBytes, WordStored DEF Hits1
<1>3. /\ gap' = 1 /\ Sane /\ todo' = Restart
      /\ UNCHANGED <<api, part, bit, loaded, result, target>>
      /\ Types /\ Proceeds /\ Observe
  BY <1>1, <1>2 DEF Stored
<1>4. PICK access : Cycle(access)
  BY <1>2 DEF Stored
<1>5. /\ HoldsBytes(1, 192, 0, 0, 0)' /\ mem'[8] = mem[8]
      /\ mem'[0] = mem[0] /\ mem'[1] = mem[1] /\ mem'[2] = mem[2] /\ mem'[3] = mem[3]
  BY <1>2, StoredWords
<1>6. HoldsHits' /\ mem[6] = 0
  BY <1>5 DEF LoadsHits1, HoldsHits, HoldsBytes
<1>7. part' = "hit" /\ bit' = 0 /\ todo' = Restart'
  BY <1>3 DEF LoadsHits1, Restart
<1>8. Is(6, Wait, 0)' /\ Loopless' /\ Still
  BY <1>3, <1>4, <1>6, WaitTurns DEF LoadsHits1
<1>9. Loaded'
  BY <1>6, <1>7 DEF Loaded, Kept
<1>10. QED
  BY <1>3, <1>7, <1>8, <1>9, IsRests DEF Restarts, Follows, Column, Calm

-----------------------------------------------------------------------------
(* Each stage as the software makes its next access: loads and polls, and  *)
(* stores to the data register.                                            *)

\* An access that leaves program and control register alone.
Quieted ==
  /\ gap >= 4 /\ gap' = 1
  /\ Sane /\ \E access : Cycle(access)
  /\ mem' = mem
  /\ cr' \in [en : BOOLEAN, rst : BOOLEAN, trg : BOOLEAN]
  /\ ~cr.rst /\ ~cr.trg => cr' = cr
  /\ Observe /\ target' = target

LEMMA QuietMade ==
  ASSUME ProgramsFit, SoftwarePaced, Always, NEW access, Made(access), Quiet(access),
         gap >= AccessGap
  PROVE  /\ Quieted
         /\ ~Writes(access, "PMC_DIN_0") => Types /\ din_0' = din_0
<1>1. Clock(access) /\ Observe /\ target' = target /\ gap' = 1
  BY DEF Made
<1>2. /\ Sane /\ Cycle(access) /\ mem' = mem
      /\ cr' \in [en : BOOLEAN, rst : BOOLEAN, trg : BOOLEAN]
      /\ ~cr.rst /\ ~cr.trg => cr' = cr
      /\ ~Writes(access, "PMC_DIN_0") => din_0' = din_0
  BY <1>1, QuietCycle
<1>3. gap >= 4
  BY Constants DEF SoftwarePaced, Always
<1>4. Quieted
  BY <1>1, <1>2, <1>3 DEF Quieted
<1>5. ~Writes(access, "PMC_DIN_0") => Types /\ din_0' = din_0
  BY <1>1, <1>2 DEF Types, Always
<1>6. QED
  BY <1>4, <1>5

LEMMA LoadsQuieted ==
  ASSUME ProgramsFit, SoftwarePaced, Always, CpuAccess, Head(todo) = Loads, Len(todo) \in 2 .. 7
  PROVE  /\ Quieted /\ Types /\ din_0' = din_0 /\ Proceeds
         /\ todo' = Tail(todo) /\ loaded' = cr
         /\ UNCHANGED <<api, part, bit, result, target>>
<1>1. gap \in Nat \ {0} /\ AccessGap \in Nat
  BY Constants DEF Always
<1>2. Head(todo) = LoadFrom("PMC_CR")
  BY DEF Loads
<1>3. /\ gap >= AccessGap /\ Made(ReadOf("PMC_CR")) /\ GoesOn(FALSE)
      /\ loaded' = cr /\ result' = result
  BY <1>1, <1>2, LoadMade
<1>4. Quiet(ReadOf("PMC_CR")) /\ ~Writes(ReadOf("PMC_CR"), "PMC_DIN_0")
  BY QuietAccesses DEF Writes, ReadOf
<1>5. Quieted /\ Types /\ din_0' = din_0
  BY <1>3, <1>4, QuietMade
<1>6. todo' = Tail(todo) /\ UNCHANGED <<api, part, bit>>
  BY <1>3, GoesOnWithin
<1>7. target' = target
  BY <1>3 DEF Made
<1>8. QED
  BY <1>3, <1>5, <1>6, <1>7, CallStays

LEMMA PollsQuieted ==
  ASSUME ProgramsFit, SoftwarePaced, Always, CpuAccess, Head(todo) = Polls, Len(todo) \in 2 .. 7
  PROVE  /\ Quieted /\ Types /\ din_0' = din_0 /\ Proceeds
         /\ todo' \in {todo, Tail(todo)} /\ loaded' = loaded
         /\ UNCHANGED <<api, part, bit, result, target>>
<1>1. gap \in Nat \ {0} /\ AccessGap \in Nat
  BY Constants DEF Always
<1>2. /\ gap >= AccessGap /\ Made(ReadOf("PMC_SR"))
      /\ GoesOn(FALSE) \/ UNCHANGED <<api, todo, part, bit>>
      /\ loaded' = loaded /\ result' = result
  BY <1>1, PollMade
<1>3. Quiet(ReadOf("PMC_SR")) /\ ~Writes(ReadOf("PMC_SR"), "PMC_DIN_0")
  BY QuietAccesses DEF Writes, ReadOf
<1>4. Quieted /\ Types /\ din_0' = din_0
  BY <1>2, <1>3, QuietMade
<1>5. todo' \in {todo, Tail(todo)} /\ UNCHANGED <<api, part, bit>>
  BY <1>2, GoesOnWithin
<1>6. target' = target
  BY <1>2 DEF Made
<1>7. QED
  BY <1>2, <1>4, <1>5, <1>6, CallStays

LEMMA RestartsLoads ==
  ASSUME ProgramsFit, SoftwarePaced, Always, CpuAccess, Restarts, todo = Restart
  PROVE  Restarts' /\ Follows
<1>1. Head(todo) = Loads /\ Tail(todo) = Resetting /\ Len(todo) = 4
  BY Heads
<1>2. /\ Quieted /\ Types /\ Proceeds
      /\ todo' = Resetting /\ loaded' = cr
      /\ UNCHANGED <<api, part, bit, result, target>>
  BY <1>1, LoadsQuieted
<1>3. PICK access : Cycle(access)
  BY <1>2 DEF Quieted
<1>4. Sane /\ mem' = mem /\ Observe /\ (~cr.rst /\ ~cr.trg => cr' = cr)
  BY <1>2 DEF Quieted
<1>5. Restarts' /\ Loopless' /\ Column
  BY <1>2, <1>3, <1>4, RestartsTurns
<1>6. QED
  BY <1>2, <1>5 DEF Follows

LEMMA RestartedLoads ==
  ASSUME ProgramsFit, SoftwarePaced, Always, CpuAccess, Restarted
  PROVE  Enabled' /\ Follows
<1>1. Head(todo) = Loads /\ Tail(todo) = Enables /\ Len(todo) = 2
  BY Heads DEF Restarted
<1>2. /\ Quieted /\ Types /\ Proceeds
      /\ todo' = Enables /\ loaded' = cr
      /\ UNCHANGED <<api, part, bit, result, target>>
  <2>1. Len(todo) \in 2 .. 7
    BY <1>1
  <2>2. QED
    BY <1>1, <2>1, LoadsQuieted
<1>3. PICK access : Cycle(access)
  BY <1>2 DEF Quieted
<1>4. Sane /\ mem' = mem /\ Observe /\ (~cr.rst /\ ~cr.trg => cr' = cr) /\ gap >= 4
  BY <1>2 DEF Quieted
<1>5. part # "latch" => mem[0] = 0
  BY LoadedWaits DEF Restarted
<1>6. Still => Loaded'
  BY <1>2, <1>4, LoadedStays DEF Restarted
<1>7. bit' = 0 /\ part' = part /\ todo' = Enables'
  BY <1>2 DEF Restarted, Enables
<1>8. CASE part \in {"write", "read"} /\ Off /\ (cr.rst => gap = 1)
  <2>1. ~cr.rst /\ ~cr.trg
    BY <1>4, <1>8 DEF Off
  <2>2. Off' /\ ~cr'.rst /\ Loopless' /\ Still
    BY <1>3, <1>4, <1>8, OffTurns
  <2>3. QED
    BY <1>2, <1>4, <1>6, <1>7, <1>8, <2>1, <2>2 DEF Enabled, Follows, Column
<1>9. CASE part # "latch" /\ Is(0, Wait, 0)
  <2>1. ~cr.rst /\ ~cr.trg
    BY <1>9 DEF Is, On
  <2>2. Is(0, Wait, 0)' /\ Loopless' /\ Still
    BY <1>3, <1>4, <1>5, <1>9, WaitTurns
  <2>3. QED
    BY <1>2, <1>4, <1>6, <1>7, <1>9, <2>1, <2>2 DEF Enabled, Follows, Column
<1>10. CASE part = "latch" /\ Latching /\ (gap > 2 => config = target)
  <2>1. gap \in Nat /\ gap >= 4
    BY <1>4 DEF Always
  <2>2. Is(6, Wait, 0) /\ config = target
    BY <1>10, <2>1 DEF Latching
  <2>3. HoldsLatcher
    BY <1>10 DEF Restarted, Loaded
  <2>4. ~cr.rst /\ ~cr.trg
    BY <2>2 DEF Is, On
  <2>5. Is(6, Wait, 0)' /\ Loopless' /\ Still
    BY <1>3, <1>4, <1>10, <2>3, LatchingTurns
  <2>6. config' = target'
    BY <1>2, <2>2, <2>5 DEF Still
  <2>7. QED
    BY <1>2, <1>4, <1>6, <1>7, <1>10, <2>4, <2>5, <2>6 DEF Enabled, Follows, Column
<1>11. CASE part # "latch" /\ Held /\ gap = 1
  BY <1>4, <1>11
<1>12. QED
  BY <1>8, <1>9, <1>10, <1>11 DEF Restarted

LEMMA AwaitsReads ==
  ASSUME ProgramsFit, SoftwarePaced, Always, CpuAccess, Awaits, todo \in {Awaiting, Triggering}
  PROVE  Awaits' /\ Follows
<1>1. CASE todo = Awaiting
  <2>1. Head(todo) = Polls /\ Tail(todo) = Triggering /\ Len(todo) = 3
    BY <1>1, Heads
  <2>2. /\ Quieted /\ Types /\ din_0' = din_0 /\ Proceeds
        /\ todo' \in {Awaiting, Triggering}
        /\ UNCHANGED <<api, part, bit, result, target>>
    BY <1>1, <2>1, PollsQuieted
  <2>3. PICK access : Cycle(access)
    BY <2>2 DEF Quieted
  <2>4. Sane /\ mem' = mem /\ Observe /\ (~cr.rst /\ ~cr.trg => cr' = cr)
    BY <2>2 DEF Quieted
  <2>5. Awaits' /\ Loopless' /\ Column
    BY <2>2, <2>3, <2>4, AwaitsTurns
  <2>6. QED
    BY <2>2, <2>5 DEF Follows
<1>2. CASE todo = Triggering
  <2>1. Head(todo) = Loads /\ Tail(todo) = Triggers /\ Len(todo) = 2
    BY <1>2, Heads
  <2>2. /\ Quieted /\ Types /\ din_0' = din_0 /\ Proceeds
        /\ todo' = Triggers /\ loaded' = cr
        /\ UNCHANGED <<api, part, bit, result, target>>
    BY <2>1, LoadsQuieted
  <2>3. PICK access : Cycle(access)
    BY <2>2 DEF Quieted
  <2>4. Sane /\ mem' = mem /\ Observe /\ (~cr.rst /\ ~cr.trg => cr' = cr)
    BY <2>2 DEF Quieted
  <2>5. Awaits' /\ Loopless' /\ Column
    BY <2>2, <2>3, <2>4, AwaitsTurns
  <2>6. QED
    BY <2>2, <2>5 DEF Follows
<1>3. QED
  BY <1>1, <1>2

LEMMA AccessesRests ==
  ASSUME Sane, NEW access, Cycle(access), Accesses, gap >= 4, mem' = mem
  PROVE  /\ \E lines \in {0, 2} : Is(0, Wait, lines)'
         /\ Loopless' /\ Still /\ ~Pending /\ HoldsShifter'
<1>1. mem[0] = 0
  BY DEF Accesses, HoldsShifter, HoldsBytes
<1>2. HoldsShifter'
  BY DEF Accesses, HoldsShifter, HoldsBytes
<1>3. CASE Shifting
  <2>1. Is(0, Wait, 2)' /\ Loopless' /\ Still
    BY <1>3, ShiftingTurns DEF Accesses
  <2>2. ~Pending
    BY <1>3, Pendings DEF Shifting
  <2>3. QED
    BY <1>2, <2>1, <2>2
<1>4. CASE Is(0, Wait, 0)
  BY <1>1, <1>2, <1>4, WaitTurns, Pendings
<1>5. QED
  BY <1>3, <1>4 DEF Accesses

LEMMA AccessesWrites ==
  ASSUME ProgramsFit, SoftwarePaced, Always, CpuAccess, Accesses, part = "write"
  PROVE  Awaits' /\ Follows
<1> DEFINE data == target[PixelBits + 1 - bit]
           access == WriteOf("PMC_DIN_0", data)
<1>1. /\ todo = Writing /\ Written(bit - 1)
      /\ bit \in 1 .. PixelBits /\ PixelBits \in Nat
  BY Constants DEF Accesses
<1>2. Head(todo) = StoreTo("PMC_DIN_0", data) /\ Tail(todo) = Awaiting /\ Len(todo) = 4
  BY <1>1, Heads
<1>3. gap \in Nat \ {0} /\ AccessGap \in Nat
  BY Constants DEF Always
<1>4. data \in {0, 1}
  <2>1. PixelBits + 1 - bit \in 1 .. PixelBits
    BY <1>1
  <2>2. QED
    BY <2>1 DEF Always, Word
<1>5. /\ gap >= AccessGap /\ Made(access)
      /\ loaded' = loaded /\ result' = result /\ GoesOn(FALSE)
  <2> HIDE DEF data
  <2>1. QED
    BY <1>2, <1>3, StoreMade
<1>6. Quieted
  BY <1>5, QuietAccesses, QuietMade
<1>7. din_0' = data
  <2>1. PmcClock(access, Dout)
    BY <1>5 DEF Made, Clock
  <2>2. Writes(access, "PMC_DIN_0") /\ access.wdata = data
    BY DEF Writes, WriteOf
  <2>3. QED
    BY <2>1, <2>2 DEF PmcClock
<1>8. todo' = Awaiting /\ UNCHANGED <<api, part, bit>>
  <2>1. Len(todo) \in 2 .. 7
    BY <1>2
  <2>2. QED
    BY <1>2, <1>5, <2>1, GoesOnWithin
<1>9. Sane /\ mem' = mem /\ Observe /\ gap' = 1 /\ gap >= 4 /\ target' = target
      /\ cr' \in [en : BOOLEAN, rst : BOOLEAN, trg : BOOLEAN]
  BY <1>6 DEF Quieted
<1>10. PICK cycle : Cycle(cycle)
  BY <1>6 DEF Quieted
<1>11. /\ \E lines \in {0, 2} : Is(0, Wait, lines)'
       /\ Loopless' /\ Still /\ ~Pending /\ HoldsShifter'
  BY <1>9, <1>10, AccessesRests
<1>12. Shifted(bit - 1)'
  BY <1>1, <1>8, <1>9, <1>11 DEF Written, Shifted, Still
<1>13. Types
  BY <1>4, <1>7, <1>9 DEF Types, Always
<1>14. Proceeds
  BY <1>5, <1>8, <1>9, CallStays
<1>15. Awaits'
  BY <1>1, <1>7, <1>8, <1>9, <1>11, <1>12 DEF Awaits, Awaiting
<1>16. QED
  BY <1>11, <1>13, <1>14, <1>15 DEF Follows, Column

LEMMA AccessesReads ==
  ASSUME ProgramsFit, SoftwarePaced, Always, CpuAccess, Accesses, part = "read"
  PROVE  Awaits' /\ Follows
<1>1. /\ todo = Reading /\ Len(result) = bit - 1
      /\ api = "calibrate" \/ bit > 1 => Moving(bit - 1)
      /\ gap >= 4 => Fresh
      /\ bit \in 1 .. PixelBits /\ PixelBits \in Nat
  BY Constants DEF Accesses
<1>2. Head(todo) = LoadFrom("PMC_DOUT_0") /\ Tail(todo) = Awaiting /\ Len(todo) = 4
  BY <1>1, Heads
<1>3. gap \in Nat \ {0} /\ AccessGap \in Nat
  BY Constants DEF Always
<1>4. /\ gap >= AccessGap /\ Made(ReadOf("PMC_DOUT_0")) /\ GoesOn(FALSE)
      /\ result' = Append(result, dout_0)
  BY <1>2, <1>3, LoadMade
<1>5. Quiet(ReadOf("PMC_DOUT_0")) /\ ~Writes(ReadOf("PMC_DOUT_0"), "PMC_DIN_0")
  BY QuietAccesses DEF Writes, ReadOf
<1>6. Quieted /\ Types
  BY <1>4, <1>5, QuietMade
<1>7. todo' = Awaiting /\ UNCHANGED <<api, part, bit>>
  <2>1. Len(todo) \in 2 .. 7
    BY <1>2
  <2>2. QED
    BY <1>2, <1>4, <2>1, GoesOnWithin
<1>8. Sane /\ mem' = mem /\ Observe /\ gap' = 1 /\ gap >= 4 /\ target' = target
  BY <1>6 DEF Quieted
<1>9. PICK cycle : Cycle(cycle)
  BY <1>6 DEF Quieted
<1>10. /\ \E lines \in {0, 2} : Is(0, Wait, lines)'
       /\ Loopless' /\ Still /\ ~Pending /\ HoldsShifter'
  BY <1>8, <1>9, AccessesRests
<1>11. pixels' = pixels /\ dout_0 = pixels[PixelBits]
  BY <1>1, <1>8, <1>10 DEF Still, Fresh
<1>12. \A k \in bit .. PixelBits : pixels[k] = counted'[k - (bit - 1)]
  <2>1. CASE api = "calibrate" \/ bit > 1
    <3>1. counted' = counted
      BY <1>1, <1>8, <1>10, <2>1, CountedWaits DEF Column, Still, CountsHits
    <3>2. Moved(bit - 1)
      BY <1>1, <1>10, <2>1 DEF Moving
    <3>3. (bit - 1) + 1 = bit
      BY <1>1
    <3>4. QED
      BY <3>1, <3>2, <3>3 DEF Moved
  <2>2. CASE ~(api = "calibrate" \/ bit > 1)
    <3>1. bit = 1 /\ result = <<>>
      BY <1>1, <2>2 DEF Always
    <3>2. api = "read_counters"
      BY <2>2 DEF Always, Parts
    <3>3. counted' = pixels
      BY <1>8, <1>10, <1>11, <3>1, <3>2, StillObserved
    <3>4. QED
      BY <1>1, <3>1, <3>3
  <2>3. QED
    BY <2>1, <2>2
<1>13. dout_0 = counted'[PixelBits - Len(result)]
  <2>1. PixelBits \in bit .. PixelBits /\ PixelBits - (bit - 1) = PixelBits - Len(result)
    BY <1>1
  <2>2. QED
    BY <1>11, <1>12, <2>1
<1>14. Len(result') = bit
  <2>1. result \in Seq({0, 1}) /\ dout_0 \in {0, 1}
    BY DEF Always
  <2>2. QED
    BY <1>1, <1>4, <2>1, AppendProperties
<1>15. Moved(bit - 1)'
  <2>1. (bit - 1) + 1 = bit
    BY <1>1
  <2>2. QED
    BY <1>7, <1>11, <1>12, <2>1 DEF Moved
<1>16. Proceeds
  <2>1. Len(result) < PixelBits
    BY <1>1
  <2>2. api # "none" /\ bit > 0
    BY <1>1 DEF Always, Parts
  <2>3. Parts'
    BY <1>7 DEF Always, Parts
  <2>4. target' \in Word /\ bit' \in Nat
    BY <1>7, <1>8 DEF Always
  <2>5. QED
    BY <1>4, <1>7, <1>8, <1>13, <2>1, <2>2, <2>3, <2>4 DEF Proceeds
<1>17. Awaits'
  BY <1>1, <1>7, <1>10, <1>14, <1>15 DEF Awaits, Awaiting
<1>18. QED
  BY <1>6, <1>10, <1>16, <1>17 DEF Follows, Column

-----------------------------------------------------------------------------
(* Each stage as the software makes its next access: stores to the control *)
(* register, the last of which begins what comes next.                     *)

\* A bit of the control register is set.
Updated(field) ==
  /\ Sane /\ gap' = 1
  /\ \E access : Clock(access)
  /\ mem' = mem /\ din_0' = din_0
  /\ cr'.en  <=> cr.en \/ field = "en"
  /\ cr'.rst <=> field = "rst"
  /\ cr'.trg <=> field = "trg"
  /\ Types /\ Observe
  /\ UNCHANGED <<target, result>>
  /\ GoesOn(FALSE)

LEMMA FieldUpdated ==
  ASSUME ProgramsFit, Always, CpuAccess, NEW field \in {"en", "rst", "trg"},
         Head(todo) = Sets(field), loaded = cr, ~cr.rst, ~cr.trg
  PROVE  Updated(field)
<1> DEFINE access == WriteOf("PMC_CR", [loaded EXCEPT ![field] = TRUE])
<1>1. gap \in Nat \ {0} /\ AccessGap \in Nat
  BY Constants DEF Always
<1>2. Made(access) /\ result' = result /\ GoesOn(FALSE)
  BY <1>1, SetMade
<1>3. Clock(access) /\ Observe /\ target' = target /\ gap' = 1
  BY <1>2 DEF Made
<1>4. PmcClock(access, Dout)
  BY <1>3 DEF Clock
<1>5. cr \in [en : BOOLEAN, rst : BOOLEAN, trg : BOOLEAN]
  BY DEF Always
<1>6. /\ mem' = mem
      /\ cr' \in [en : BOOLEAN, rst : BOOLEAN, trg : BOOLEAN]
      /\ cr'.en  <=> cr.en \/ field = "en"
      /\ cr'.rst <=> field = "rst"
      /\ cr'.trg <=> field = "trg"
  BY <1>4, <1>5, StoreCrEdge
<1>7. din_0' = din_0
  BY <1>4 DEF PmcClock, Writes, WriteOf
<1>8. Types
  BY <1>3, <1>6, <1>7 DEF Types, Always
<1>9. Sane
  BY DEF Always, Sane, Loopless
<1> HIDE DEF access
<1>10. QED
  BY <1>2, <1>3, <1>6, <1>7, <1>8, <1>9 DEF Updated

LEMMA RestartsResets ==
  ASSUME ProgramsFit, Always, CpuAccess, Restarts, todo = Resetting, loaded = cr
  PROVE  Restarted' /\ Follows
<1>1. Head(todo) = Sets("rst") /\ Tail(todo) = Enabling /\ Len(todo) = 3
  BY Heads
<1>2. ~cr.rst /\ ~cr.trg
  BY DEF Restarts, Off, Rests, On
<1>3. Updated("rst")
  BY <1>1, <1>2, FieldUpdated
<1>4. PICK access : Clock(access)
  BY <1>3 DEF Updated
<1>5. /\ Sane /\ gap' = 1 /\ mem' = mem /\ Types /\ Observe
      /\ (cr'.en <=> cr.en) /\ cr'.rst /\ ~cr'.trg
      /\ UNCHANGED <<target, result>> /\ GoesOn(FALSE)
  BY <1>3 DEF Updated
<1>6. todo' = Enabling /\ UNCHANGED <<api, part, bit>>
  <2>1. Len(todo) \in 2 .. 7
    BY <1>1
  <2>2. QED
    BY <1>1, <1>5, <2>1, GoesOnWithin
<1>7. Calm
  BY DEF Restarts, Off, Calm
<1>8. Loopless' /\ pc_id' = 0 /\ matrix_ctrl' = 0 /\ Still
  BY <1>4, <1>5, <1>7, ResetTurns
<1>9. Loaded'
  BY <1>5, <1>6, <1>8, LoadedStays DEF Restarts
<1>10. Proceeds
  BY <1>5, <1>6, CallStays
<1>11. bit' = 0 /\ todo' = Enabling' /\ part' = part
  BY <1>6 DEF Restarts, Enabling
<1>12. CASE Off /\ ~cr.rst /\ part \in {"write", "read"}
  <2>1. Off'
    BY <1>5, <1>8, <1>12 DEF Off
  <2>2. QED
    BY <1>5, <1>8, <1>9, <1>10, <1>11, <1>12, <2>1 DEF Restarted, Follows, Column
<1>13. CASE On /\ (Rests(6) \/ part \in {"write", "read"})
  <2>1. Held'
    BY <1>5, <1>8, <1>13 DEF On, Held
  <2>2. Latching' /\ gap' = 1
    BY <1>5, <2>1 DEF Latching
  <2>3. QED
    BY <1>5, <1>8, <1>9, <1>10, <1>11, <2>1, <2>2 DEF Restarted, Follows, Column
<1>14. QED
  BY <1>12, <1>13 DEF Restarts, Rests

LEMMA AccessesBegin ==
  ASSUME ProgramsFit, Always, NextRound, part \in {"write", "read"}, bit = 0, api # "none",
         gap' = 1, HoldsShifter', Is(0, Wait, 0)', Kept', UNCHANGED <<target, result>>
  PROVE  Accesses'
<1>1. PixelBits \in Nat /\ PixelBits >= 1
  BY Constants
<1>2. /\ bit' = 1 /\ api' = api /\ part' = part
      /\ part = "write" => todo' = Writing'
      /\ part = "read" => todo' = Reading'
  BY <1>1, RoundScripts DEF Writing, Reading
<1>3. ~Pending'
  BY Pendings
<1>4. bit' - 1 = 0
  BY <1>2
<1>5. CASE part = "write"
  <2>1. Written(bit - 1)'
    BY <1>3, <1>4 DEF Written, Shifted
  <2>2. QED
    BY <1>1, <1>2, <1>5, <2>1 DEF Accesses
<1>6. CASE part = "read"
  <2>1. Len(result') = bit' - 1
    BY <1>4, <1>6 DEF Always
  <2>2. ASSUME api' = "calibrate"
        PROVE  Moving(bit - 1)'
    <3>1. pixels' = counted'
      BY <1>2, <1>6, <2>2 DEF Kept
    <3>2. \A k \in 1 .. PixelBits : k - 0 = k
      OBVIOUS
    <3>3. Moved(0)'
      BY <3>1, <3>2 DEF Moved
    <3>4. QED
      BY <1>3, <1>4, <3>3 DEF Moving, Moved
  <2>3. ~(bit' > 1) /\ ~(gap' >= 4)
    BY <1>2
  <2>4. QED
    BY <1>1, <1>2, <1>6, <2>1, <2>2, <2>3 DEF Accesses
<1>7. QED
  BY <1>5, <1>6

LEMMA EnabledEnables ==
  ASSUME ProgramsFit, Always, CpuAccess, Enabled
  PROVE  (Accesses \/ Awaits \/ LoadsHits0 \/ Idles)' /\ Follows
<1>1. Head(todo) = Sets("en") /\ Len(todo) = 1 /\ loaded = cr
      /\ bit = 0 /\ Loaded
  BY Heads DEF Enabled
<1>2. ~cr.rst /\ ~cr.trg
  BY DEF Enabled, Off, Is, On
<1>3. Updated("en")
  BY <1>1, <1>2, FieldUpdated
<1>4. PICK access : Clock(access)
  BY <1>3 DEF Updated
<1>5. /\ Sane /\ gap' = 1 /\ mem' = mem /\ Types /\ Observe
      /\ cr'.en /\ ~cr'.rst /\ ~cr'.trg
      /\ UNCHANGED <<target, result>> /\ GoesOn(FALSE)
  BY <1>3 DEF Updated
<1>6. part \in {"write", "latch", "hit", "read"} /\ api # "none"
      /\ PixelBits \in Nat /\ PixelBits >= 1
  BY <1>1, Constants DEF Always, Parts, Loaded
<1>7. result = <<>>
  BY <1>1, <1>6 DEF Always
<1>8. mem[6] = 0 /\ (part # "latch" => mem[0] = 0)
  BY <1>1, LoadedWaits
<1>9. /\ Loopless' /\ Still
      /\ part = "latch" => Is(6, Wait, 0)' /\ config = target
      /\ part # "latch" => Is(0, Wait, 0)'
  <2>1. CASE part \in {"write", "read"} /\ Off /\ ~cr.rst
    <3>1. Loopless' /\ pc_id' = 0 /\ instr' = Wait /\ matrix_ctrl' = 0 /\ Still
      BY <1>4, <1>5, <1>8, <2>1, EnableTurns
    <3>2. QED
      BY <1>5, <2>1, <3>1 DEF Is, On
  <2>2. CASE part # "latch" /\ Is(0, Wait, 0)
    <3>1. Cycle(access)
      BY <1>4, <1>5, <2>2 DEF Cycle, Is, On
    <3>2. QED
      BY <1>5, <1>8, <2>2, <3>1, WaitTurns
  <2>3. CASE part = "latch" /\ Is(6, Wait, 0) /\ config = target
    <3>1. Cycle(access)
      BY <1>4, <1>5, <2>3 DEF Cycle, Is, On
    <3>2. QED
      BY <1>5, <1>8, <2>3, <3>1, WaitTurns
  <2>4. QED
    BY <2>1, <2>2, <2>3 DEF Enabled
<1>10. Rounds \in Nat
       /\ (part = "latch" => Rounds = 0) /\ (part # "latch" => Rounds >= 1)
  BY <1>6 DEF Rounds
<1>11. /\ part = "latch" => NextPart
       /\ part # "latch" => NextRound
  BY <1>1, <1>5, <1>10, GoesOnBeyond
<1>12. /\ HoldsShifter => HoldsShifter'
       /\ HoldsLatcher => HoldsLatcher'
       /\ HoldsHits => HoldsHits'
  BY <1>5 DEF HoldsShifter, HoldsLatcher, HoldsHits, HoldsBytes
<1>13. Loopless' /\ Column /\ Types
  BY <1>5, <1>9 DEF Column
<1>14. target' \in Word /\ target' = target
  BY <1>5 DEF Always
<1>15. CASE part \in {"write", "read"}
  <2>1. NextRound
    BY <1>11, <1>15
  <2>2. bit' = 1 /\ api' = api /\ part' = part
    BY <1>1, <1>6, <2>1, RoundScripts
  <2>3. Kept'
    BY <1>1, <1>5, <1>9, <2>2, KeptStays DEF Loaded
  <2>4. HoldsShifter' /\ Is(0, Wait, 0)'
    BY <1>1, <1>9, <1>12, <1>15 DEF Loaded
  <2>5. Accesses'
    BY <1>1, <1>5, <1>6, <1>15, <2>1, <2>3, <2>4, AccessesBegin
  <2>6. Proceeds
    BY <1>5, <1>7, <1>14, <2>2 DEF Proceeds, Always, Parts
  <2>7. QED
    BY <1>13, <2>5, <2>6 DEF Follows
<1>16. CASE part = "hit"
  <2>1. NextRound
    BY <1>11, <1>16
  <2>2. bit' = 1 /\ api' = api /\ part' = part /\ todo' = Awaiting'
    BY <1>1, <1>6, <1>16, <2>1, RoundScripts DEF Awaiting
  <2>3. Awaits'
    BY <1>1, <1>9, <1>12, <1>16, <2>2 DEF Awaits, Loaded
  <2>4. Proceeds
    BY <1>5, <1>7, <1>14, <2>2 DEF Proceeds, Always, Parts
  <2>5. QED
    BY <1>13, <2>3, <2>4 DEF Follows
<1>17. CASE part = "latch"
  <2>1. NextPart
    BY <1>11, <1>17
  <2>2. Latched' /\ config = target
    BY <1>1, <1>9, <1>12, <1>17 DEF Latched, Loaded
  <2>3. CASE api = "calibrate"
    <3>1. bit' = 0 /\ part' = "hit" /\ todo' = WholeHits' /\ api' = api
      BY <1>6, <1>17, <2>1, <2>3, PartScripts DEF WholeHits, Hits0, Hits1
    <3>2. LoadsHits0'
      BY <2>2, <3>1 DEF LoadsHits0
    <3>3. Proceeds
      BY <1>5, <1>7, <1>14, <2>2, <2>3, <3>1 DEF Proceeds, Parts
    <3>4. QED
      BY <1>13, <3>2, <3>3 DEF Follows
  <2>4. CASE api # "calibrate"
    <3>1. bit' = 0 /\ part' = "none" /\ todo' = <<>> /\ api' = "none"
      BY <1>6, <1>17, <2>1, <2>4, PartScripts
    <3>2. Idles'
      BY <2>2, <3>1 DEF Idles, Free
    <3>3. Proceeds
      BY <1>5, <1>7, <1>14, <2>2, <3>1 DEF Proceeds, Parts
    <3>4. QED
      BY <1>13, <3>2, <3>3 DEF Follows
  <2>5. QED
    BY <2>3, <2>4
<1>18. QED
  BY <1>6, <1>15, <1>16, <1>17

LEMMA AwaitsTriggers ==
  ASSUME ProgramsFit, Always, CpuAccess, Awaits, todo = Triggers, loaded = cr
  PROVE  (Accesses \/ LoadsLatcher0 \/ LoadsShifter0 \/ Idles)' /\ Follows
<1>1. Head(todo) = Sets("trg") /\ Len(todo) = 1
  BY Heads
<1>2. cr.en /\ ~cr.rst /\ ~cr.trg
  BY DEF Awaits, Is, On
<1>3. Updated("trg")
  BY <1>1, <1>2, FieldUpdated
<1>4. PICK access : Clock(access)
  BY <1>3 DEF Updated
<1>5. /\ Sane /\ gap' = 1 /\ mem' = mem /\ din_0' = din_0 /\ Types /\ Observe
      /\ cr'.en /\ ~cr'.rst /\ cr'.trg
      /\ UNCHANGED <<target, result>> /\ GoesOn(FALSE)
  BY <1>2, <1>3 DEF Updated
<1>6. /\ HoldsShifter => HoldsShifter' /\ mem[0] = 0
      /\ HoldsHits => HoldsHits' /\ mem[0] = 0
  BY <1>5 DEF HoldsShifter, HoldsHits, HoldsBytes
<1>7. Pending'
  BY <1>5 DEF Pending
<1>8. PixelBits \in Nat /\ bit \in Nat /\ Rounds \in Nat /\ target' \in Word
      /\ (part \in {"write", "read"} => Rounds = PixelBits) /\ (part = "hit" => Rounds = 1)
  BY <1>5, Constants DEF Rounds, Always, Awaits
<1>9. \/ bit < Rounds /\ NextRound
      \/ bit >= Rounds /\ NextPart
  BY <1>1, <1>5, <1>8, GoesOnBeyond
<1>10. ASSUME part \in {"write", "read"}
       PROVE  /\ Loopless' /\ Column /\ Still /\ HoldsShifter' /\ Shifting'
              /\ bit \in 1 .. PixelBits
  <2>1. HoldsShifter /\ bit \in 1 .. PixelBits
    BY <1>10 DEF Awaits
  <2>2. PICK lines \in {0, 2} : Is(0, Wait, lines)
    BY <1>10 DEF Awaits
  <2>3. Loopless' /\ Still /\ Triggered({lines})'
    BY <1>4, <1>5, <1>6, <2>1, <2>2, TriggeringTurns
  <2>4. Shifting'
    BY <1>5, <2>3 DEF Shifting, Triggered
  <2>5. QED
    BY <1>6, <2>1, <2>3, <2>4 DEF Column
<1>11. CASE part = "write"
  <2>1. /\ Loopless' /\ Column /\ Still /\ HoldsShifter' /\ Shifting'
        /\ bit \in 1 .. PixelBits
    BY <1>10, <1>11
  <2>2. Shifted(bit - 1) /\ din_0 = target[PixelBits + 1 - bit]
    BY <1>11 DEF Awaits
  <2>3. result = <<>> /\ api \in {"load_pixels_configs", "calibrate"}
    BY <1>11 DEF Always, Parts
  <2>4. CASE bit < PixelBits
    <3>1. NextRound
      BY <1>8, <1>9, <1>11, <2>4
    <3>2. bit' = bit + 1 /\ api' = api /\ part' = part /\ todo' = Writing'
      BY <1>5, <1>8, <1>11, <3>1, RoundScripts DEF Writing
    <3>3. bit' - 1 = bit /\ bit' > 1 /\ bit' \in 1 .. PixelBits
      BY <1>8, <2>1, <2>4, <3>2
    <3>4. Written(bit - 1)'
      BY <1>5, <1>7, <2>1, <2>2, <3>3 DEF Written, Shifted, Still
    <3>5. Accesses'
      BY <1>11, <2>1, <3>2, <3>3, <3>4 DEF Accesses
    <3>6. Proceeds
      BY <1>5, <1>8, <1>11, <2>3, <3>2, <3>3 DEF Proceeds, Parts
    <3>7. QED
      BY <1>5, <2>1, <3>5, <3>6 DEF Follows
  <2>5. CASE bit = PixelBits
    <3>1. NextPart
      BY <1>8, <1>9, <1>11, <2>5
    <3>2. bit' = 0 /\ api' = api /\ part' = "latch" /\ todo' = WholeLatcher'
      BY <1>11, <3>1, PartScripts DEF WholeLatcher, Latcher0, Latcher1
    <3>3. Written(PixelBits)'
      BY <1>5, <1>7, <2>1, <2>2, <2>5 DEF Written, Shifted, Still
    <3>4. LoadsLatcher0'
      BY <2>1, <3>2, <3>3 DEF LoadsLatcher0
    <3>5. Proceeds
      BY <1>5, <1>8, <1>11, <2>3, <3>2 DEF Proceeds, Parts
    <3>6. QED
      BY <1>5, <2>1, <3>4, <3>5 DEF Follows
  <2>6. QED
    BY <1>8, <2>1, <2>4, <2>5
<1>12. CASE part = "read"
  <2>1. /\ Loopless' /\ Column /\ Still /\ HoldsShifter' /\ Shifting'
        /\ bit \in 1 .. PixelBits
    BY <1>10, <1>12
  <2>2. Len(result) = bit /\ Moved(bit - 1)
    BY <1>12 DEF Awaits
  <2>3. counted' = counted
    BY <1>5, <2>1, <2>2, CountedKept
  <2>4. api \in {"read_counters", "calibrate"}
    BY <1>12 DEF Always, Parts
  <2>5. CASE bit < PixelBits
    <3>1. NextRound
      BY <1>8, <1>9, <1>12, <2>5
    <3>2. bit' = bit + 1 /\ api' = api /\ part' = part /\ todo' = Reading'
      BY <1>8, <1>12, <3>1, RoundScripts DEF Reading
    <3>3. bit' - 1 = bit /\ bit' > 1 /\ bit' \in 1 .. PixelBits
      BY <1>8, <2>1, <2>5, <3>2
    <3>4. Moving(bit - 1)'
      BY <1>7, <2>1, <2>2, <2>3, <3>3 DEF Moving, Moved, Still
    <3>5. Len(result') = bit' - 1 /\ ~(gap' >= 4)
      BY <1>5, <2>2, <3>3
    <3>6. Accesses'
      BY <1>12, <2>1, <3>2, <3>3, <3>4, <3>5 DEF Accesses
    <3>7. Proceeds
      BY <1>5, <1>8, <1>12, <2>4, <3>2, <3>3 DEF Proceeds, Parts
    <3>8. QED
      BY <1>5, <2>1, <3>6, <3>7 DEF Follows
  <2>6. CASE bit = PixelBits
    <3>1. NextPart
      BY <1>8, <1>9, <1>12, <2>6
    <3>2. bit' = 0 /\ api' = "none" /\ part' = "none" /\ todo' = <<>>
      BY <1>12, <3>1, PartScripts
    <3>3. Idles'
      BY <2>1, <3>2 DEF Idles, Free
    <3>4. Proceeds
      BY <1>5, <1>8, <1>12, <3>2 DEF Proceeds, Parts
    <3>5. QED
      BY <1>5, <2>1, <3>3, <3>4 DEF Follows
  <2>7. QED
    BY <1>8, <2>1, <2>5, <2>6
<1>13. CASE part = "hit"
  <2>1. HoldsHits /\ Is(0, Wait, 0) /\ bit = 1
    BY <1>13 DEF Awaits
  <2>2. Loopless' /\ Still /\ Triggered({0})'
    BY <1>4, <1>5, <1>6, <2>1, TriggeringTurns
  <2>3. Hitting' /\ HoldsHits' /\ ~(gap' >= 4)
    BY <1>5, <1>6, <2>1, <2>2 DEF Hitting
  <2>4. result = <<>> /\ api = "calibrate"
    BY <1>13 DEF Always, Parts
  <2>5. NextPart
    BY <1>8, <1>9, <1>13, <2>1
  <2>6. bit' = 0 /\ api' = api /\ part' = "read" /\ todo' = WholeShifter'
    BY <1>13, <2>5, PartScripts DEF WholeShifter, Shifter0, Shifter1, Shifter2
  <2>7. LoadsShifter0'
    BY <2>3, <2>4, <2>6 DEF LoadsShifter0
  <2>8. Proceeds
    BY <1>5, <1>8, <1>13, <2>4, <2>6 DEF Proceeds, Parts
  <2>9. QED
    BY <1>5, <2>2, <2>7, <2>8 DEF Follows, Column
<1>14. QED
  BY <1>11, <1>12, <1>13 DEF Awaits

-----------------------------------------------------------------------------
(* The invariant holds from the first clock edge on. *)

LEMMA ScriptsTold ==
  /\ WholeShifter # <<>> /\ ShifterFrom1 # <<>> /\ ShifterFrom2 # <<>>
  /\ WholeLatcher # <<>> /\ LatcherFrom1 # <<>> /\ WholeHits # <<>> /\ HitsFrom1 # <<>>
  /\ Restart # <<>> /\ Resetting # <<>> /\ Enabling # <<>> /\ Enables # <<>>
  /\ Awaiting # <<>> /\ Triggering # <<>> /\ Triggers # <<>>
  /\ Writing # <<>> /\ Reading # <<>>
<1>1. \A s : Len(s) \in {1, 2, 3, 4, 5, 6, 7} => s # <<>>
  <2>1. Len(<<>>) = 0 /\ 0 \notin {1, 2, 3, 4, 5, 6, 7}
    OBVIOUS
  <2>2. QED
    BY <2>1, Zenon
<1>2. QED
  BY <1>1, Heads

LEMMA StagesBusy ==
  ASSUME Always, Stage, ~Idles
  PROVE  todo # <<>> /\ part # "none" /\ api # "none"
<1>1. todo # <<>>
  BY ScriptsTold DEF Stage, LoadsShifter0, LoadsShifter1, LoadsShifter2, LoadsLatcher0,
     LoadsLatcher1, LoadsHits0, LoadsHits1, Restarts, Restarted, Enabled, Accesses, Awaits
<1>2. part # "none"
  BY DEF Stage, LoadsShifter0, LoadsShifter1, LoadsShifter2, LoadsLatcher0, LoadsLatcher1,
     LoadsHits0, LoadsHits1, Restarts, Restarted, Enabled, Accesses, Awaits, Loaded
<1>3. QED
  BY <1>1, <1>2 DEF Always, Parts

LEMMA StagePasses ==
  ASSUME ProgramsFit, Always, Passes, Waits, Stage
  PROVE  Stage' /\ Loopless' /\ Column
<1>1. CASE Idles
  BY <1>1, IdlesPasses DEF Stage
<1>2. CASE LoadsShifter0
  BY <1>2, LoadsShifter0Passes DEF Stage
<1>3. CASE LoadsShifter1
  BY <1>3, LoadsShifter1Passes DEF Stage
<1>4. CASE LoadsShifter2
  BY <1>4, LoadsShifter2Passes DEF Stage
<1>5. CASE LoadsLatcher0
  BY <1>5, LoadsLatcher0Passes DEF Stage
<1>6. CASE LoadsLatcher1
  BY <1>6, LoadsLatcher1Passes DEF Stage
<1>7. CASE LoadsHits0
  BY <1>7, LoadsHits0Passes DEF Stage
<1>8. CASE LoadsHits1
  BY <1>8, LoadsHits1Passes DEF Stage
<1>9. CASE Restarts
  BY <1>9, RestartsPasses DEF Stage
<1>10. CASE Restarted
  BY <1>10, RestartedPasses DEF Stage
<1>11. CASE Enabled
  BY <1>11, EnabledPasses DEF Stage
<1>12. CASE Accesses
  BY <1>12, AccessesPasses DEF Stage
<1>13. CASE Awaits
  BY <1>13, AwaitsPasses DEF Stage
<1>14. QED
  BY <1>1, <1>2, <1>3, <1>4, <1>5, <1>6, <1>7, <1>8, <1>9, <1>10, <1>11, <1>12, <1>13 DEF Stage

LEMMA StageAccesses ==
  ASSUME ProgramsFit, SoftwarePaced, Always, CpuAccess, Stage
  PROVE  Stage' /\ Follows
<1>1. ~Idles
  BY DEF CpuAccess, Due, Idles
<1>2. CASE LoadsShifter0
  BY <1>2, LoadsShifter0Stores DEF Stage
<1>3. CASE LoadsShifter1
  BY <1>3, LoadsShifter1Stores DEF Stage
<1>4. CASE LoadsShifter2
  BY <1>4, LoadsShifter2Stores DEF Stage
<1>5. CASE LoadsLatcher0
  BY <1>5, LoadsLatcher0Stores DEF Stage
<1>6. CASE LoadsLatcher1
  BY <1>6, LoadsLatcher1Stores DEF Stage
<1>7. CASE LoadsHits0
  BY <1>7, LoadsHits0Stores DEF Stage
<1>8. CASE LoadsHits1
  BY <1>8, LoadsHits1Stores DEF Stage
<1>9. CASE Restarts
  <2>1. CASE todo = Restart
    BY <1>9, <2>1, RestartsLoads DEF Stage
  <2>2. CASE todo = Resetting /\ loaded = cr
    BY <1>9, <2>2, RestartsResets DEF Stage
  <2>3. QED
    BY <1>9, <2>1, <2>2 DEF Restarts
<1>10. CASE Restarted
  BY <1>10, RestartedLoads DEF Stage
<1>11. CASE Enabled
  BY <1>11, EnabledEnables DEF Stage
<1>12. CASE Accesses
  <2>1. CASE part = "write"
    BY <1>12, <2>1, AccessesWrites DEF Stage
  <2>2. CASE part = "read"
    BY <1>12, <2>2, AccessesReads DEF Stage
  <2>3. QED
    BY <1>12, <2>1, <2>2 DEF Accesses
<1>13. CASE Awaits
  <2>1. CASE todo \in {Awaiting, Triggering}
    BY <1>13, <2>1, AwaitsReads DEF Stage
  <2>2. CASE todo = Triggers /\ loaded = cr
    BY <1>13, <2>2, AwaitsTriggers DEF Stage
  <2>3. QED
    BY <1>13, <2>1, <2>2 DEF Awaits
<1>14. QED
  BY <1>1, <1>2, <1>3, <1>4, <1>5, <1>6, <1>7, <1>8, <1>9, <1>10, <1>11, <1>12, <1>13 DEF Stage

LEMMA StageCalls ==
  ASSUME ProgramsFit, SoftwarePaced, Always, Stage, CpuCalls
  PROVE  Stage' /\ Follows
<1>1. api = "none" /\ Clock(NoAccess) /\ Observe /\ bit' = 0 /\ result' = <<>>
  BY DEF CpuCalls, Call
<1>2. Idles
  BY <1>1, StagesBusy
<1>3. Passes
  BY <1>1, ClockPasses
<1>4. Free' /\ Loopless' /\ (Still \/ ShiftsIn)
  BY <1>2, <1>3, FreePasses DEF Idles, Always
<1>5. Types
  BY <1>3 DEF Types, Always, Passes, Sane
<1>6. /\ todo' = WholeShifter' /\ part' \in {"write", "read"} /\ api' # "none"
      /\ ~(part' = "read" /\ api' = "calibrate")
      /\ Parts' /\ target' \in Word /\ (part' = "read" => target' = target)
  <2>1. CASE \E value \in Word :
               /\ \/ Call("load_pixels_configs", Begin("write"))
                  \/ Call("calibrate", Begin("write"))
               /\ target' = value
               /\ part' = "write"
    BY <2>1, ShifterScript DEF Call, Parts, WholeShifter, Shifter0, Shifter1, Shifter2
  <2>2. CASE Call("read_counters", Begin("read")) /\ part' = "read" /\ UNCHANGED target
    BY <2>2, ShifterScript DEF Call, Parts, WholeShifter, Shifter0, Shifter1, Shifter2, Always
  <2>3. QED
    BY <2>1, <2>2 DEF CpuCalls
<1>7. LoadsShifter0'
  BY <1>1, <1>4, <1>6 DEF LoadsShifter0
<1>8. Proceeds
  BY <1>1, <1>2, <1>6 DEF Proceeds, Idles
<1>9. QED
  BY <1>4, <1>5, <1>7, <1>8 DEF Stage, Follows, Column

LEMMA StepFollows ==
  ASSUME ProgramsFit, SoftwarePaced, Inv, Next
  PROVE  Stage' /\ Follows /\ Observe /\ \E access : Clock(access)
<1>1. CASE CpuIdle
  <2>1. Clock(NoAccess) /\ Waits
    BY <1>1 DEF CpuIdle, Waits
  <2>2. Passes
    BY <2>1, ClockPasses DEF Inv
  <2>3. Stage' /\ Loopless' /\ Column
    BY <2>1, <2>2, StagePasses DEF Inv
  <2>4. Proceeds
    BY <2>1, CallStays DEF Inv, Waits
  <2>5. Types
    BY <2>2 DEF Types, Always, Inv, Passes, Sane
  <2>6. QED
    BY <2>1, <2>3, <2>4, <2>5 DEF Follows, Waits
<1>2. CASE CpuAccess
  BY <1>2, StageAccesses DEF Inv, CpuAccess
<1>3. CASE CpuCalls
  BY <1>3, StageCalls DEF Inv, CpuCalls
<1>4. QED
  BY <1>1, <1>2, <1>3 DEF Next

LEMMA InvStays ==
  ASSUME Inv, UNCHANGED vars
  PROVE  Inv'
<1>1. /\ UNCHANGED <<pc_id, active_loop, loop_execution, lifo_readout, lifo_mem, elements_counter,
                     lifo_rdata, lifo_full, lifo_empty, matrix_ctrl>>
      /\ UNCHANGED <<mem, instr, cr, sr_wtt, din_0, dout_0, pixels, config>>
      /\ UNCHANGED <<api, todo, gap, part, bit, loaded, result, target, counted>>
  BY DEF vars, pmcVars, pmccVars, loopVars, lifoVars, matrixVars, callVars, driverVars
<1>2. Always'
  BY <1>1 DEF Inv, Always, Parts, ReadsCounters
<1>3. Idles => Idles'
  BY <1>1 DEF Idles, Free, Off, Latched, HoldsLatcher, HoldsShifter, HoldsBytes,
     Shifting, Triggered, Is, On
<1>4. LoadsShifter0 => LoadsShifter0'
  BY <1>1 DEF LoadsShifter0, WholeShifter, Free, Off, Latched, HoldsLatcher,
     HoldsShifter, HoldsHits, HoldsBytes, Shifting, Hitting, Triggered, Is, On
<1>5. (LoadsShifter1 => LoadsShifter1') /\ (LoadsShifter2 => LoadsShifter2')
  BY <1>1 DEF LoadsShifter1, LoadsShifter2, ShifterFrom1, ShifterFrom2, Off, Rests,
     Calm, Kept, HoldsBytes, On
<1>6. LoadsLatcher0 => LoadsLatcher0'
  BY <1>1 DEF LoadsLatcher0, WholeLatcher, HoldsShifter, HoldsBytes, Shifting,
     Triggered, Is, On, Written, Shifted, Pending
<1>7. (LoadsLatcher1 => LoadsLatcher1') /\ (LoadsHits0 => LoadsHits0') /\ (LoadsHits1 => LoadsHits1')
  BY <1>1 DEF LoadsLatcher1, LoadsHits0, LoadsHits1, LatcherFrom1, WholeHits,
     HitsFrom1, Latched, HoldsLatcher, HoldsBytes, Is, On
<1>8. Restarts => Restarts'
  BY <1>1 DEF Restarts, Restart, Resetting, Loaded, Kept, HoldsShifter,
     HoldsLatcher, HoldsHits, HoldsBytes, Off, Rests, Calm, On
<1>9. (Restarted => Restarted') /\ (Enabled => Enabled')
  BY <1>1 DEF Restarted, Enabled, Enabling, Enables, Loaded, Kept, HoldsShifter,
     HoldsLatcher, HoldsHits, HoldsBytes, Off, Held, Latching, Is, On
<1>10. Accesses => Accesses'
  BY <1>1 DEF Accesses, Writing, Reading, HoldsShifter, HoldsBytes, Shifting,
     Triggered, Is, On, Written, Shifted, Moving, Moved, Pending, Fresh
<1>11. Awaits => Awaits'
  BY <1>1 DEF Awaits, Awaiting, Triggering, Triggers, HoldsShifter, HoldsHits,
     HoldsBytes, Is, On, Shifted, Moved
<1>12. QED
  BY <1>2, <1>3, <1>4, <1>5, <1>6, <1>7, <1>8, <1>9, <1>10, <1>11 DEF Inv, Stage

LEMMA InvNext ==
  ASSUME ProgramsFit, SoftwarePaced, Inv, [Next]_vars
  PROVE  Inv'
<1>1. CASE Next
  <2>1. Stage' /\ Follows /\ Observe /\ \E access : Clock(access)
    BY <1>1, StepFollows
  <2>2. PICK access : Clock(access)
    BY <2>1
  <2>3. Always'
    BY <2>1, <2>2, AlwaysKept DEF Follows, Types, Inv
  <2>4. QED
    BY <2>1, <2>3 DEF Inv
<1>2. CASE UNCHANGED vars
  BY <1>2, InvStays
<1>3. QED
  BY <1>1, <1>2

LEMMA InvInit ==
  ASSUME ProgramsFit, Init
  PROVE  Inv
<1>1. /\ pc_id = 0 /\ matrix_ctrl = 0 /\ loop_execution = FALSE /\ lifo_readout = FALSE
      /\ mem = [a \in Addr |-> Unwritten] /\ din_0 = 0 /\ dout_0 = 0
      /\ cr = [en |-> FALSE, rst |-> FALSE, trg |-> FALSE]
      /\ pixels \in Word /\ config \in Word /\ target = config /\ counted = pixels
      /\ api = "none" /\ todo = <<>> /\ gap = AccessGap
      /\ part = "none" /\ bit = 0 /\ result = <<>>
  BY DEF Init, PmcInit, PmccInit, MatrixInit, DriverInit
<1>2. Stage
  BY <1>1 DEF Stage, Idles, Free, Off
<1>3. ReadsCounters /\ Len(result) <= PixelBits /\ result \in Seq({0, 1})
  BY <1>1, Constants DEF ReadsCounters
<1>4. Parts
  BY <1>1 DEF Parts
<1>5. Always
  BY <1>1, <1>3, <1>4, GapAssumption DEF Always
<1>6. QED
  BY <1>2, <1>5 DEF Inv

-----------------------------------------------------------------------------
(* The properties. *)

\* Where the coprocessor is, the lines and the program apart.
Stands ==
  \/ InReset(cr) /\ ~cr.trg
  \/ On /\ instr.op \in {"WAITT", "STORE", "JUMP"}
  \/ cr.en /\ ~cr.rst /\ cr.trg /\ instr = Wait

LEMMA PlacesStand ==
  /\ Off \/ Held => Stands
  /\ \A a : Rests(a) => Stands
  /\ \A a, v, lines : Is(a, Stores(v), lines) \/ Is(a, Wait, lines) \/ Is(a, Back, lines) => Stands
  /\ \A L : Triggered(L) => Stands
  /\ On /\ instr = Back => Stands
<1>1. Wait.op = "WAITT" /\ Back.op = "JUMP" /\ \A v : Stores(v).op = "STORE"
  BY DEF Wait, Back, Stores
<1>2. Off \/ Held => Stands
  BY DEF Off, Held, Stands, InReset
<1>3. \A a : Rests(a) => Stands
  BY <1>1 DEF Rests, Stands
<1>4. \A a, v, lines : Is(a, Stores(v), lines) \/ Is(a, Wait, lines) \/ Is(a, Back, lines) => Stands
  BY <1>1 DEF Is, Stands
<1>5. \A L : Triggered(L) => Stands
  BY DEF Triggered, Stands
<1>6. On /\ instr = Back => Stands
  BY <1>1 DEF Stands
<1>7. QED
  BY <1>2, <1>3, <1>4, <1>5, <1>6

LEMMA StageStands ==
  ASSUME Stage
  PROVE  Stands
<1>1. Shifting \/ Hitting \/ Latching \/ Free => Stands
  BY PlacesStand DEF Shifting, Hitting, Latching, Free, Latched
<1>2. CASE Idles
  BY <1>1, <1>2 DEF Idles
<1>3. CASE LoadsShifter0
  BY <1>1, <1>3 DEF LoadsShifter0
<1>4. CASE LoadsShifter1
  BY <1>4, PlacesStand DEF LoadsShifter1
<1>5. CASE LoadsShifter2
  BY <1>5, PlacesStand DEF LoadsShifter2
<1>6. CASE LoadsLatcher0
  BY <1>1, <1>6 DEF LoadsLatcher0
<1>7. CASE LoadsLatcher1
  BY <1>7, PlacesStand DEF LoadsLatcher1
<1>8. CASE LoadsHits0
  BY <1>8, PlacesStand DEF LoadsHits0, Latched
<1>9. CASE LoadsHits1
  BY <1>9, PlacesStand DEF LoadsHits1
<1>10. CASE Restarts
  BY <1>10, PlacesStand DEF Restarts
<1>11. CASE Restarted
  BY <1>1, <1>11, PlacesStand DEF Restarted
<1>12. CASE Enabled
  BY <1>12, PlacesStand DEF Enabled
<1>13. CASE Accesses
  BY <1>1, <1>13, PlacesStand DEF Accesses
<1>14. CASE Awaits
  BY <1>14, PlacesStand DEF Awaits
<1>15. QED
  BY <1>2, <1>3, <1>4, <1>5, <1>6, <1>7, <1>8, <1>9, <1>10, <1>11, <1>12, <1>13, <1>14 DEF Stage

(* The coprocessor never runs into bytes nobody wrote, though every program*)
(* is loaded over the one before while that one runs: word for word, what  *)
(* is half overwritten still decodes to instructions, and the coprocessor  *)
(* comes to rest at a WAITT among them.                                    *)
THEOREM PmcExecutes ==
  ASSUME ProgramsFit, SoftwarePaced
  PROVE  Spec => []ExecutesWrittenCode
<1>1. Init => Inv
  BY InvInit
<1>2. Inv /\ [Next]_vars => Inv'
  BY InvNext
<1>3. Inv => ExecutesWrittenCode
  <2>1. Stands => ExecutesWrittenCode
    BY DEF Stands, On, Wait, InReset, ExecutesWrittenCode
  <2>2. QED
    BY <2>1, StageStands DEF Inv
<1>4. QED
  BY <1>1, <1>2, <1>3, PTL DEF Spec

(* Every trigger finds the coprocessor at its WAITT: the status bit the    *)
(* software polls is late, but never by more than the software's own pace. *)
THEOREM PmcTakesTriggers ==
  ASSUME ProgramsFit, SoftwarePaced
  PROVE  Spec => []TriggerTaken
<1>1. Init => Inv
  BY InvInit
<1>2. Inv /\ [Next]_vars => Inv'
  BY InvNext
<1>3. Inv => TriggerTaken
  <2>1. Stands => TriggerTaken
    BY DEF Stands, On, Wait, Waitt, InReset, TriggerTaken
  <2>2. QED
    BY <2>1, StageStands DEF Inv
<1>4. QED
  BY <1>1, <1>2, <1>3, PTL DEF Spec

(* Whatever calls came before, with none in progress the pixels hold the   *)
(* configuration last asked for: load_pixels_configs() may return without  *)
(* waiting, because the latch program has run before the call that follows *)
(* the reset loads the control register to enable the coprocessor.         *)
THEOREM PmcConfigures ==
  ASSUME ProgramsFit, SoftwarePaced
  PROVE  Spec => []ConfiguredOnReturn
<1>1. Init => Inv
  BY InvInit
<1>2. Inv /\ [Next]_vars => Inv'
  BY InvNext
<1>3. Inv => ConfiguredOnReturn
  BY DEF Inv, Always, Parts, ConfiguredOnReturn
<1>4. QED
  BY <1>1, <1>2, <1>3, PTL DEF Spec

(* For a column of any length, the bits read are what the pixels counted,  *)
(* each in its place.                                                      *)
THEOREM PmcReads ==
  ASSUME ProgramsFit, SoftwarePaced
  PROVE  Spec => []ReadsCounters
<1>1. Init => Inv
  BY InvInit
<1>2. Inv /\ [Next]_vars => Inv'
  BY InvNext
<1>3. Inv => ReadsCounters
  BY DEF Inv, Always
<1>4. QED
  BY <1>1, <1>2, <1>3, PTL DEF Spec

LEMMA ColumnTold ==
  ASSUME ProgramsFit, SoftwarePaced, Inv, [Next]_vars
  PROVE  \/ ~Latches(matrix_ctrl, matrix_ctrl') /\ ~Counts(matrix_ctrl, matrix_ctrl')
         \/ LatchesConfig /\ pixels = target
         \/ CountsHits /\ api = "calibrate" /\ config = target
<1>1. CASE Next
  <2>1. Column
    BY <1>1, StepFollows DEF Follows
  <2>2. QED
    BY <2>1 DEF Column, Still, ShiftsIn, Inv, Always
<1>2. CASE UNCHANGED vars
  <2>1. matrix_ctrl' = matrix_ctrl
    BY <1>2 DEF vars, pmcVars, pmccVars
  <2>2. QED
    BY <2>1 DEF Latches, Counts
<1>3. QED
  BY <1>1, <1>2

(* The column is latched only when it holds the whole of the configuration *)
(* being loaded.  It is latched twice: once while the latch program is only*)
(* half loaded, and again, with the same column, when it is restarted.     *)
THEOREM PmcLatches ==
  ASSUME ProgramsFit, SoftwarePaced
  PROVE  Spec => LatchesWholeConfig
<1>1. Init => Inv
  BY InvInit
<1>2. Inv /\ [Next]_vars => Inv'
  BY InvNext
<1>3. Inv /\ [Next]_vars => [Latches(matrix_ctrl, matrix_ctrl') => pixels = target]_vars
  BY ColumnTold DEF CountsHits
<1>4. QED
  BY <1>1, <1>2, <1>3, PTL DEF Spec, LatchesWholeConfig

(* The pixels count only in a round of the calibration that has configured *)
(* them, whatever is left of the programs before.                          *)
THEOREM PmcCounts ==
  ASSUME ProgramsFit, SoftwarePaced
  PROVE  Spec => CountsWhenCalibrating
<1>1. Init => Inv
  BY InvInit
<1>2. Inv /\ [Next]_vars => Inv'
  BY InvNext
<1>3. Inv /\ [Next]_vars
        => [Counts(matrix_ctrl, matrix_ctrl') => api = "calibrate" /\ config = target]_vars
  BY ColumnTold DEF LatchesConfig
<1>4. QED
  BY <1>1, <1>2, <1>3, PTL DEF Spec, CountsWhenCalibrating

-----------------------------------------------------------------------------
(* A call gets on. *)

\* The accesses a call makes in all.
AccessesOf(call) ==
  CASE call = "load_pixels_configs" -> 13 + 4 * PixelBits
    [] call = "calibrate" -> 29 + 8 * PixelBits
    [] call = "read_counters" -> 7 + 4 * PixelBits

\* Those of the rounds the part has not begun.
RoundsToMake ==
  CASE part \in {"write", "read"} -> 4 * (PixelBits - bit)
    [] part = "hit" -> 3 * (1 - bit)
    [] part = "latch" -> 0

\* Those of the parts after it.
PartsToMake ==
  CASE part = "write" /\ api = "calibrate" -> 22 + 4 * PixelBits
    [] part = "write" /\ api # "calibrate" -> 6
    [] part = "latch" /\ api = "calibrate" -> 16 + 4 * PixelBits
    [] part = "latch" /\ api # "calibrate" -> 0
    [] part = "hit" -> 7 + 4 * PixelBits
    [] part = "read" -> 0

AccessesToMake ==
  IF api = "none" THEN 0 ELSE Len(todo) + RoundsToMake + PartsToMake

\* The status register has caught up with the coprocessor by the time it is
\* polled.
StatusTold == todo = Awaiting /\ gap > 1 => sr_wtt

AccessCounts ==
  /\ CpuAccess => AccessesToMake' = AccessesToMake - 1
  /\ CpuIdle => AccessesToMake' = AccessesToMake
  /\ CpuCalls => AccessesToMake' = AccessesOf(api')

CallsCounted ==
  /\ AccessesToMake \in 0 .. 29 + 8 * PixelBits
  /\ AccessesToMake = 0 <=> api = "none"

Scripts ==
  {WholeShifter, ShifterFrom1, ShifterFrom2, WholeLatcher, LatcherFrom1, WholeHits, HitsFrom1,
   Restart, Resetting, Enabling, Enables, Awaiting, Triggering, Triggers, Writing, Reading}

Sized(s, n) ==
  /\ Len(s) = n
  /\ n > 1 => Len(Tail(s)) = n - 1

LEMMA ScriptsSized ==
  /\ Sized(WholeShifter, 7) /\ Sized(ShifterFrom1, 6) /\ Sized(ShifterFrom2, 5)
  /\ Sized(WholeLatcher, 6) /\ Sized(LatcherFrom1, 5)
  /\ Sized(WholeHits, 6) /\ Sized(HitsFrom1, 5)
  /\ Sized(Restart, 4) /\ Sized(Resetting, 3) /\ Sized(Enabling, 2) /\ Sized(Enables, 1)
  /\ Sized(Writing, 4) /\ Sized(Reading, 4)
  /\ Sized(Awaiting, 3) /\ Sized(Triggering, 2) /\ Sized(Triggers, 1)
<1>1. Sized(WholeShifter, 7) /\ Sized(ShifterFrom1, 6) /\ Sized(ShifterFrom2, 5)
  BY DEF Sized, WholeShifter, ShifterFrom1, ShifterFrom2
<1>2. /\ Sized(WholeLatcher, 6) /\ Sized(LatcherFrom1, 5)
      /\ Sized(WholeHits, 6) /\ Sized(HitsFrom1, 5)
  BY DEF Sized, WholeLatcher, LatcherFrom1, WholeHits, HitsFrom1
<1>3. Sized(Restart, 4) /\ Sized(Resetting, 3) /\ Sized(Enabling, 2) /\ Sized(Enables, 1)
  BY DEF Sized, Restart, Resetting, Enabling, Enables
<1>4. Sized(Writing, 4) /\ Sized(Reading, 4)
  BY DEF Sized, Writing, Reading
<1>5. Sized(Awaiting, 3) /\ Sized(Triggering, 2) /\ Sized(Triggers, 1)
  BY DEF Sized, Awaiting, Triggering, Triggers
<1>6. QED
  BY <1>1, <1>2, <1>3, <1>4, <1>5

LEMMA ScriptsMeasured ==
  ASSUME NEW s \in Scripts
  PROVE  /\ Len(s) \in 1 .. 7
         /\ Len(s) > 1 => Len(Tail(s)) = Len(s) - 1
         /\ Len(s) = 1 => s \in {Enables, Triggers}
<1>1. \/ Sized(s, 7) \/ Sized(s, 6) \/ Sized(s, 5) \/ Sized(s, 4) \/ Sized(s, 3) \/ Sized(s, 2)
      \/ Sized(s, 1) /\ s \in {Enables, Triggers}
  BY ScriptsSized, Zenon DEF Scripts
<1>2. \A n \in {1, 2, 3, 4, 5, 6, 7} : n \in 1 .. 7 
  BY SMT
<1>3. PICK n \in {1, 2, 3, 4, 5, 6, 7} : Sized(s, n) /\ (n = 1 => s \in {Enables, Triggers})
  <2>1. 7 # 1 /\ 6 # 1 /\ 5 # 1 /\ 4 # 1 /\ 3 # 1 /\ 2 # 1
    BY SMT
  <2>2. QED
    BY <1>1, <2>1, Zenon
<1>4. Len(s) = n /\ (n > 1 => Len(Tail(s)) = n - 1)
  BY <1>3, Zenon DEF Sized
<1>5. QED
  BY <1>2, <1>3, <1>4, Zenon

LEMMA ScriptsOpen ==
  ASSUME NEW s \in Scripts
  PROVE  \/ \E reg, data : Head(s) = StoreTo(reg, data)
         \/ \E reg \in {"PMC_CR", "PMC_DOUT_0"} : Head(s) = LoadFrom(reg)
         \/ \E field : Head(s) = Sets(field)
         \/ s = Awaiting /\ Head(s) = Polls
<1>1. CASE s \in {WholeShifter, ShifterFrom1, ShifterFrom2, WholeLatcher, LatcherFrom1,
                  WholeHits, HitsFrom1, Writing}
  <2>1. Head(s) \in {Shifter0, Shifter1, Shifter2, Latcher0, Latcher1, Hits0, Hits1,
                     StoreTo("PMC_DIN_0", target[PixelBits + 1 - bit])}
    BY <1>1, Heads
  <2>2. \A w, b0, b1, b2, b3 : \E reg, data : StoreWord(w, b0, b1, b2, b3) = StoreTo(reg, data)
    BY Zenon DEF StoreWord
  <2>3. CASE Head(s) \in {Shifter0, Shifter1, Shifter2}
    <3>1. \E w, b0, b1, b2, b3 : Head(s) = StoreWord(w, b0, b1, b2, b3)
      BY <2>3, SMT DEF Shifter0, Shifter1, Shifter2
    <3>2. PICK w, b0, b1, b2, b3 : Head(s) = StoreWord(w, b0, b1, b2, b3)
      BY <3>1
    <3>3. PICK reg, data : StoreWord(w, b0, b1, b2, b3) = StoreTo(reg, data)
      BY <2>2
    <3>4. Head(s) = StoreTo(reg, data)
      BY <3>2, <3>3
    <3>5. QED
      BY <3>4
  <2>4. CASE Head(s) \in {Latcher0, Latcher1, Hits0, Hits1}
    <3>1. \E w, b0, b1, b2, b3 : Head(s) = StoreWord(w, b0, b1, b2, b3)
      BY <2>4, SMT DEF Latcher0, Latcher1, Hits0, Hits1
    <3>2. PICK w, b0, b1, b2, b3 : Head(s) = StoreWord(w, b0, b1, b2, b3)
      BY <3>1
    <3>3. PICK reg, data : StoreWord(w, b0, b1, b2, b3) = StoreTo(reg, data)
      BY <2>2
    <3>4. Head(s) = StoreTo(reg, data)
      BY <3>2, <3>3
    <3>5. QED
      BY <3>4
  <2>5. QED
    BY <2>1, <2>3, <2>4, Zenon
<1>2. CASE s \in {Restart, Enabling, Triggering, Reading}
  BY <1>2, Heads DEF Loads
<1>3. CASE s \in {Resetting, Enables, Triggers}
  BY <1>3, Heads
<1>4. CASE s = Awaiting
  BY <1>4, Heads
<1>5. QED
  BY <1>1, <1>2, <1>3, <1>4 DEF Scripts

(* Only Awaiting polls. *)
LEMMA ScriptsApart ==
  /\ \A s \in {WholeShifter, ShifterFrom1, ShifterFrom2, WholeLatcher, LatcherFrom1,
              WholeHits, HitsFrom1} : s # Awaiting
  /\ Restart # Awaiting /\ Resetting # Awaiting /\ Enabling # Awaiting /\ Enables # Awaiting
  /\ Writing # Awaiting /\ Reading # Awaiting
<1>1. /\ \A s, n : Sized(s, n) => Len(s) = n
      /\ 7 # 3 /\ 6 # 3 /\ 5 # 3 /\ 4 # 3 /\ 2 # 3 /\ 1 # 3
  BY DEF Sized
<1>2. Resetting # Awaiting
  <2>1. Head(Resetting) = Sets("rst") /\ Head(Awaiting) = Polls
    BY Heads
  <2>2. Sets("rst").op = "store_back" /\ Polls.op = "poll"
    BY DEF Sets, Polls, PollOf
  <2>3. QED
    BY <2>1, <2>2
<1>3. QED
  BY <1>1, <1>2, ScriptsSized, Zenon

(* Only Enables and Triggers end a script. *)
LEMMA ScriptsEnd ==
  /\ \A s \in {WholeShifter, ShifterFrom1, ShifterFrom2, WholeLatcher, LatcherFrom1,
              WholeHits, HitsFrom1} : Len(s) # 1
  /\ Len(Restart) # 1 /\ Len(Resetting) # 1 /\ Len(Enabling) # 1
  /\ Len(Writing) # 1 /\ Len(Reading) # 1 /\ Len(Awaiting) # 1 /\ Len(Triggering) # 1
<1>1. /\ \A s, n : Sized(s, n) => Len(s) = n
      /\ 7 # 1 /\ 6 # 1 /\ 5 # 1 /\ 4 # 1 /\ 3 # 1 /\ 2 # 1
  BY DEF Sized
<1>2. QED
  BY <1>1, ScriptsSized, Zenon

LEMMA StageScripted ==
  ASSUME Always, Stage, todo # <<>>
  PROVE  /\ todo \in Scripts
         /\ todo = Awaiting => Awaits
         /\ Len(todo) = 1 => Enabled \/ (Awaits /\ todo = Triggers)
<1>1. CASE LoadsShifter0 \/ LoadsShifter1 \/ LoadsShifter2
  BY <1>1, ScriptsApart, ScriptsEnd, Zenon DEF LoadsShifter0, LoadsShifter1, LoadsShifter2, Scripts
<1>2. CASE LoadsLatcher0 \/ LoadsLatcher1 \/ LoadsHits0 \/ LoadsHits1
  BY <1>2, ScriptsApart, ScriptsEnd, Zenon DEF LoadsLatcher0, LoadsLatcher1, LoadsHits0,
     LoadsHits1, Scripts
<1>3. CASE Restarts
  BY <1>3, ScriptsApart, ScriptsEnd, Zenon DEF Restarts, Scripts
<1>4. CASE Restarted
  BY <1>4, ScriptsApart, ScriptsEnd, Zenon DEF Restarted, Scripts
<1>5. CASE Enabled
  BY <1>5, ScriptsApart, Zenon DEF Enabled, Scripts
<1>6. CASE Accesses
  BY <1>6, ScriptsApart, ScriptsEnd, Zenon DEF Accesses, Scripts
<1>7. CASE Awaits
  BY <1>7, ScriptsEnd, Zenon DEF Awaits, Scripts
<1>8. QED
  BY <1>1, <1>2, <1>3, <1>4, <1>5, <1>6, <1>7 DEF Stage, Idles

LEMMA AccessRestarts ==
  ASSUME ProgramsFit, Always, Stage, CpuAccess
  PROVE  gap' = 1
<1>1. gap \in Nat \ {0} /\ AccessGap \in Nat
  BY Constants DEF Always
<1>2. todo \in Scripts
  BY StageScripted DEF CpuAccess, Due
<1>3. CASE \E reg, data : Head(todo) = StoreTo(reg, data)
  BY <1>1, <1>3, StoreMade DEF Made
<1>4. CASE \E reg \in {"PMC_CR", "PMC_DOUT_0"} : Head(todo) = LoadFrom(reg)
  BY <1>1, <1>4, LoadMade DEF Made
<1>5. CASE \E field : Head(todo) = Sets(field)
  BY <1>1, <1>5, SetMade DEF Made
<1>6. CASE Head(todo) = Polls
  BY <1>1, <1>6, PollMade DEF Made
<1>7. QED
  BY <1>2, <1>3, <1>4, <1>5, <1>6, ScriptsOpen

LEMMA StatusToldNext ==
  ASSUME ProgramsFit, SoftwarePaced, Inv, StatusTold, [Next]_vars
  PROVE  StatusTold'
<1> SUFFICES ASSUME todo' = Awaiting, gap' > 1
             PROVE  sr_wtt'
  BY DEF StatusTold, Awaiting
<1>1. CASE CpuIdle
  <2>1. todo = Awaiting /\ Clock(NoAccess)
    BY <1>1 DEF CpuIdle
  <2>2. Awaits
    BY <2>1, StageScripted, ScriptsTold DEF Inv
  <2>3. instr = Wait
    BY <2>2 DEF Awaits, Is
  <2>4. sr_wtt' = Waitt(instr)
    BY <2>1 DEF Clock, PmcClock
  <2>5. QED
    BY <2>3, <2>4 DEF Waitt, Wait
<1>2. CASE CpuAccess
  BY <1>2, AccessRestarts DEF Inv
<1>3. CASE CpuCalls
  <2>1. todo' = WholeShifter
    BY <1>3, ShifterScript DEF CpuCalls, Call
  <2>2. QED
    BY <2>1, ScriptsApart, Zenon
<1>4. CASE UNCHANGED vars
  <2>1. todo' = todo /\ gap' = gap /\ sr_wtt' = sr_wtt
    BY <1>4 DEF vars, pmcVars, callVars, driverVars
  <2>2. QED
    BY <2>1 DEF StatusTold
<1>5. QED
  BY <1>1, <1>2, <1>3, <1>4 DEF Next

(* No poll is made again. *)
LEMMA AccessGoesOn ==
  ASSUME ProgramsFit, SoftwarePaced, Inv, StatusTold, CpuAccess
  PROVE  GoesOn(FALSE)
<1>1. gap \in Nat \ {0} /\ AccessGap \in Nat /\ AccessGap >= 4
  BY Constants DEF Inv, Always, SoftwarePaced
<1>2. todo \in Scripts
  BY StageScripted DEF CpuAccess, Due, Inv
<1>3. CASE \E reg, data : Head(todo) = StoreTo(reg, data)
  BY <1>1, <1>3, StoreMade
<1>4. CASE \E reg \in {"PMC_CR", "PMC_DOUT_0"} : Head(todo) = LoadFrom(reg)
  BY <1>1, <1>4, LoadMade
<1>5. CASE \E field : Head(todo) = Sets(field)
  BY <1>1, <1>5, SetMade
<1>6. CASE todo = Awaiting /\ Head(todo) = Polls
  <2>1. gap >= AccessGap
    BY <1>1, <1>6, PollMade
  <2>2. sr_wtt
    BY <1>1, <1>6, <2>1 DEF StatusTold
  <2>3. (Head(todo).op = "poll" /\ ~sr_wtt) = FALSE
    BY <2>2
  <2>4. QED
    BY <2>3 DEF CpuAccess
<1>7. QED
  BY <1>2, <1>3, <1>4, <1>5, <1>6, ScriptsOpen

LEMMA PartsMeasured ==
  ASSUME ProgramsFit, Always, Stage, api # "none"
  PROVE  /\ part \in {"write", "latch", "hit", "read"}
         /\ todo # <<>>
         /\ part \in {"write", "read"} => bit \in 0 .. PixelBits
         /\ part = "hit" => bit \in {0, 1} /\ api = "calibrate"
         /\ part = "latch" => bit = 0 /\ api \in {"load_pixels_configs", "calibrate"}
         /\ part = "write" => api \in {"load_pixels_configs", "calibrate"}
         /\ part = "read" => api \in {"read_counters", "calibrate"}
<1>1. part \in {"write", "latch", "hit", "read"} /\ PixelBits \in Nat
  BY Constants DEF Always, Parts
<1>2. ~Idles
  BY <1>1 DEF Idles
<1>3. todo # <<>>
  BY <1>2, StagesBusy
<1>4. /\ part \in {"write", "read"} => bit \in 0 .. PixelBits
      /\ part = "hit" => bit \in {0, 1}
      /\ part = "latch" => bit = 0
  <2>1. CASE Restarts \/ Restarted \/ Enabled
    BY <1>1, <2>1 DEF Restarts, Restarted, Enabled
  <2>2. CASE Accesses
    BY <1>1, <2>2 DEF Accesses
  <2>3. CASE Awaits
    BY <1>1, <2>3 DEF Awaits
  <2>4. CASE \/ LoadsShifter0 \/ LoadsShifter1 \/ LoadsShifter2
             \/ LoadsLatcher0 \/ LoadsLatcher1 \/ LoadsHits0 \/ LoadsHits1
    BY <1>1, <2>4 DEF LoadsShifter0, LoadsShifter1, LoadsShifter2, LoadsLatcher0, LoadsLatcher1,
       LoadsHits0, LoadsHits1
  <2>5. QED
    BY <1>2, <2>1, <2>2, <2>3, <2>4 DEF Stage
<1>5. QED
  BY <1>1, <1>3, <1>4 DEF Always, Parts

(* What is to be made, part by part. *)
Measured ==
  /\ api = "none" => AccessesToMake = 0
  /\ api # "none" =>
       /\ part = "write" /\ api = "calibrate" =>
            AccessesToMake = Len(todo) + 4 * (PixelBits - bit) + (22 + 4 * PixelBits)
       /\ part = "write" /\ api # "calibrate" =>
            AccessesToMake = Len(todo) + 4 * (PixelBits - bit) + 6
       /\ part = "latch" /\ api = "calibrate" =>
            AccessesToMake = Len(todo) + 0 + (16 + 4 * PixelBits)
       /\ part = "latch" /\ api # "calibrate" =>
            AccessesToMake = Len(todo) + 0 + 0
       /\ part = "hit" =>
            AccessesToMake = Len(todo) + 3 * (1 - bit) + (7 + 4 * PixelBits)
       /\ part = "read" =>
            AccessesToMake = Len(todo) + 4 * (PixelBits - bit) + 0

LEMMA AccessesMeasured == Measured
<1>1. /\ part = "write" => RoundsToMake = 4 * (PixelBits - bit)
      /\ part = "read" => RoundsToMake = 4 * (PixelBits - bit)
      /\ part = "hit" => RoundsToMake = 3 * (1 - bit)
      /\ part = "latch" => RoundsToMake = 0
  BY Zenon DEF RoundsToMake
<1>2. /\ part = "write" /\ api = "calibrate" => PartsToMake = 22 + 4 * PixelBits
      /\ part = "write" /\ api # "calibrate" => PartsToMake = 6
      /\ part = "latch" /\ api = "calibrate" => PartsToMake = 16 + 4 * PixelBits
      /\ part = "latch" /\ api # "calibrate" => PartsToMake = 0
      /\ part = "hit" => PartsToMake = 7 + 4 * PixelBits
      /\ part = "read" => PartsToMake = 0
  BY SMT DEF PartsToMake
<1> HIDE DEF RoundsToMake, PartsToMake
<1>3. QED
  BY <1>1, <1>2, Zenon DEF AccessesToMake, Measured

LEMMA MakeNumbers ==
  ASSUME ProgramsFit, Always, Stage, api # "none"
  PROVE  RoundsToMake \in 0 .. 4 * PixelBits /\ PartsToMake \in 0 .. 22 + 4 * PixelBits
<1>1. PixelBits \in Nat /\ PixelBits >= 1
  BY Constants
<1>2. CASE part = "write"
  BY <1>1, <1>2, PartsMeasured DEF RoundsToMake, PartsToMake
<1>3. CASE part = "latch"
  BY <1>1, <1>3, PartsMeasured DEF RoundsToMake, PartsToMake
<1>4. CASE part = "hit"
  BY <1>1, <1>4, PartsMeasured DEF RoundsToMake, PartsToMake
<1>5. CASE part = "read"
  BY <1>1, <1>5, PartsMeasured DEF RoundsToMake, PartsToMake
<1>6. QED
  BY <1>2, <1>3, <1>4, <1>5, PartsMeasured

LEMMA RoundCounts ==
  ASSUME ProgramsFit, Always, Stage, api # "none", Len(todo) = 1, NextRound, bit < Rounds
  PROVE  AccessesToMake' = AccessesToMake - 1
<1>1. PixelBits \in Nat /\ bit \in Nat
  BY Constants DEF Always
<1>2. api' = api /\ part' = part /\ bit' = bit + 1
  BY <1>1, RoundScripts
<1>3. part \in {"write", "hit", "read"}
  <2>1. part # "latch"
    BY <1>1 DEF Rounds
  <2>2. QED
    BY <2>1, PartsMeasured
<1>4. PartsToMake' = PartsToMake
  BY <1>2 DEF PartsToMake
<1>5. RoundsToMake' = RoundsToMake - Len(todo')
  <2>1. CASE part \in {"write", "read"}
    <3>1. Len(todo') = 4
      BY <1>1, <2>1, RoundScripts, Heads
    <3>2. RoundsToMake = 4 * (PixelBits - bit) /\ RoundsToMake' = 4 * (PixelBits - (bit + 1))
      BY <1>2, <2>1, Zenon DEF RoundsToMake
    <3>3. QED
      BY <1>1, <3>1, <3>2
  <2>2. CASE part = "hit"
    <3>1. Len(todo') = 3
      BY <1>1, <2>2, RoundScripts, Heads
    <3>2. RoundsToMake = 3 * (1 - bit) /\ RoundsToMake' = 3 * (1 - (bit + 1))
      BY <1>2, <2>2, Zenon DEF RoundsToMake
    <3>3. QED
      BY <1>1, <3>1, <3>2
  <2>3. QED
    BY <1>3, <2>1, <2>2
<1>6. /\ AccessesToMake = Len(todo) + RoundsToMake + PartsToMake
      /\ AccessesToMake' = Len(todo') + RoundsToMake' + PartsToMake'
  BY <1>2, Zenon DEF AccessesToMake
<1>7. Len(todo') \in Nat /\ RoundsToMake \in Nat /\ PartsToMake \in Nat
  BY <1>1, <1>3, MakeNumbers, RoundScripts, Heads
<1> HIDE DEF AccessesToMake, RoundsToMake, PartsToMake
<1>8. QED
  BY <1>4, <1>5, <1>6, <1>7

LEMMA PartCounts ==
  ASSUME ProgramsFit, Always, Stage, api # "none", Len(todo) = 1, NextPart,
         part \in {"write", "read"} => bit = PixelBits, part = "hit" => bit = 1
  PROVE  AccessesToMake' = AccessesToMake - 1
<1>1. PixelBits \in Nat
  BY Constants
<1>2. Measured /\ Measured'
  <2>1. Measured
    BY AccessesMeasured
  <2>2. Measured'
    BY AccessesMeasured, PTL
  <2>3. QED
    BY <2>1, <2>2
<1>3. /\ Len(WholeLatcher) = 6 /\ Len(WholeHits) = 6 /\ Len(WholeShifter) = 7
      /\ bit' = 0
  BY Heads DEF NextPart
<1>4. CASE part = "write" /\ api = "calibrate"
  <2>1. part' = "latch" /\ Len(todo') = 6 /\ api' = "calibrate"
    BY <1>3, <1>4, PartScripts
  <2>2. AccessesToMake = 1 + 4 * (PixelBits - PixelBits) + (22 + 4 * PixelBits)
    BY <1>2, <1>4 DEF Measured
  <2>3. AccessesToMake' = 6 + 0 + (16 + 4 * PixelBits)
    BY <1>2, <2>1 DEF Measured
  <2>4. QED
    BY <1>1, <2>2, <2>3
<1>5. CASE part = "write" /\ api # "calibrate"
  <2>1. part' = "latch" /\ Len(todo') = 6 /\ api' # "calibrate" /\ api' # "none"
    BY <1>3, <1>5, PartScripts
  <2>2. AccessesToMake = 1 + 4 * (PixelBits - PixelBits) + 6
    BY <1>2, <1>5 DEF Measured
  <2>3. AccessesToMake' = 6 + 0 + 0
    BY <1>2, <2>1 DEF Measured
  <2>4. QED
    BY <1>1, <2>2, <2>3
<1>6. CASE part = "latch" /\ api = "calibrate"
  <2>1. part' = "hit" /\ Len(todo') = 6 /\ api' = "calibrate"
    BY <1>3, <1>6, PartScripts
  <2>2. AccessesToMake = 1 + 0 + (16 + 4 * PixelBits)
    BY <1>2, <1>6 DEF Measured
  <2>3. AccessesToMake' = 6 + 3 * (1 - 0) + (7 + 4 * PixelBits)
    BY <1>2, <1>3, <2>1 DEF Measured
  <2>4. QED
    BY <1>1, <2>2, <2>3
<1>7. CASE part = "hit"
  <2>1. part' = "read" /\ Len(todo') = 7 /\ api' = api
    BY <1>3, <1>7, PartScripts
  <2>2. AccessesToMake = 1 + 3 * (1 - 1) + (7 + 4 * PixelBits)
    BY <1>2, <1>7 DEF Measured
  <2>3. AccessesToMake' = 7 + 4 * (PixelBits - 0) + 0
    BY <1>2, <1>3, <2>1 DEF Measured
  <2>4. QED
    BY <1>1, <2>2, <2>3
<1>8. CASE part = "read" \/ (part = "latch" /\ api # "calibrate")
  <2>1. api' = "none"
    BY <1>8, PartScripts
  <2>2. AccessesToMake \in {1 + 4 * (PixelBits - PixelBits) + 0, 1 + 0 + 0}
    BY <1>2, <1>8 DEF Measured
  <2>3. AccessesToMake' = 0
    BY <1>2, <2>1 DEF Measured
  <2>4. QED
    BY <1>1, <2>2, <2>3
<1>9. QED
  BY <1>4, <1>5, <1>6, <1>7, <1>8, PartsMeasured

LEMMA AccessCountsDown ==
  ASSUME ProgramsFit, SoftwarePaced, Inv, StatusTold, CpuAccess
  PROVE  AccessesToMake' = AccessesToMake - 1
<1>1. /\ GoesOn(FALSE) /\ todo # <<>> /\ todo \in Scripts
      /\ PixelBits \in Nat /\ PixelBits >= 1 /\ bit \in Nat
      /\ Always /\ Stage
  BY AccessGoesOn, StageScripted, Constants DEF CpuAccess, Due, Inv, Always
<1>2. api # "none"
  BY <1>1, StagesBusy DEF Idles
<1>3. CASE Len(todo) > 1
  <2>1. Len(todo) \in 2 .. 7 /\ Len(Tail(todo)) = Len(todo) - 1
    <3>1. Len(todo) \in 1 .. 7 /\ (Len(todo) > 1 => Len(Tail(todo)) = Len(todo) - 1)
      BY <1>1, ScriptsMeasured
    <3>2. \A n : n \in 1 .. 7 /\ n > 1 => n \in 2 .. 7
      BY SMT
    <3>3. QED
      BY <1>3, <3>1, <3>2, Zenon
  <2>2. todo' = Tail(todo) /\ UNCHANGED <<api, part, bit>>
    BY <1>1, <2>1, GoesOnWithin
  <2>3. RoundsToMake' = RoundsToMake /\ PartsToMake' = PartsToMake
    BY <2>2 DEF RoundsToMake, PartsToMake
  <2>4. /\ AccessesToMake = Len(todo) + RoundsToMake + PartsToMake
        /\ AccessesToMake' = Len(todo') + RoundsToMake' + PartsToMake'
    BY <1>2, <2>2, Zenon DEF AccessesToMake
  <2>5. Len(todo') = Len(todo) - 1
    BY <2>1, <2>2
  <2>6. RoundsToMake \in Nat /\ PartsToMake \in Nat
    BY <1>1, <1>2, MakeNumbers
  <2> HIDE DEF AccessesToMake, RoundsToMake, PartsToMake
  <2>7. QED
    BY <2>1, <2>3, <2>4, <2>5, <2>6
<1>4. CASE Len(todo) = 1
  <2>1. /\ part \in {"write", "latch", "hit", "read"}
        /\ part \in {"write", "read"} => bit \in 0 .. PixelBits
        /\ part = "hit" => bit \in {0, 1}
        /\ part = "latch" => bit = 0
    BY <1>1, <1>2, PartsMeasured
  <2>2. /\ part = "write" \/ part = "read" => Rounds = PixelBits
        /\ part = "hit" => Rounds = 1
        /\ part = "latch" => Rounds = 0
    BY Zenon DEF Rounds
  <2>3. Rounds \in Nat
    BY <1>1, <2>1, <2>2
  <2>4. CASE bit < Rounds /\ NextRound
    BY <1>1, <1>2, <1>4, <2>4, RoundCounts
  <2>5. CASE bit >= Rounds /\ NextPart
    BY <1>1, <1>2, <1>4, <2>1, <2>2, <2>5, PartCounts
  <2>6. QED
    BY <1>1, <1>4, <2>3, <2>4, <2>5, GoesOnBeyond
<1>5. Len(todo) > 1 \/ Len(todo) = 1
  <2>1. \A n : n \in 1 .. 7 => n > 1 \/ n = 1
    BY SMT
  <2>2. Len(todo) \in 1 .. 7
    BY <1>1, ScriptsMeasured, Zenon
  <2>3. QED
    BY <2>1, <2>2, Zenon
<1>6. QED
  BY <1>3, <1>4, <1>5

LEMMA CallCounts ==
  ASSUME ProgramsFit, CpuCalls
  PROVE  AccessesToMake' = AccessesOf(api')
<1>1. PixelBits \in Nat /\ Len(WholeShifter) = 7
  BY Constants, Heads
<1>2. /\ todo' = WholeShifter /\ bit' = 0
      /\ \/ api' = "load_pixels_configs" /\ part' = "write"
         \/ api' = "calibrate" /\ part' = "write"
         \/ api' = "read_counters" /\ part' = "read"
  BY ShifterScript DEF CpuCalls, Call
<1>3. Len(todo') = 7
  BY <1>1, <1>2
<1>4. Measured'
  <2>1. Measured
    BY AccessesMeasured
  <2>2. QED
    BY AccessesMeasured, PTL
<1>5. CASE api' = "load_pixels_configs" /\ part' = "write"
  <2>1. AccessesToMake' = 7 + 4 * (PixelBits - 0) + 6
    BY <1>2, <1>3, <1>4, <1>5 DEF Measured
  <2>2. AccessesOf(api') = 13 + 4 * PixelBits
    BY <1>5 DEF AccessesOf
  <2>3. QED
    BY <1>1, <2>1, <2>2
<1>6. CASE api' = "calibrate" /\ part' = "write"
  <2>1. AccessesToMake' = 7 + 4 * (PixelBits - 0) + (22 + 4 * PixelBits)
    BY <1>2, <1>3, <1>4, <1>6 DEF Measured
  <2>2. AccessesOf(api') = 29 + 8 * PixelBits
    BY <1>6 DEF AccessesOf
  <2>3. QED
    BY <1>1, <2>1, <2>2
<1>7. CASE api' = "read_counters" /\ part' = "read"
  <2>1. AccessesToMake' = 7 + 4 * (PixelBits - 0) + 0
    BY <1>2, <1>3, <1>4, <1>7 DEF Measured
  <2>2. AccessesOf(api') = 7 + 4 * PixelBits
    BY <1>7 DEF AccessesOf
  <2>3. QED
    BY <1>1, <2>1, <2>2
<1>8. QED
  BY <1>2, <1>5, <1>6, <1>7

LEMMA AccessesCounted ==
  ASSUME ProgramsFit, SoftwarePaced, Inv, StatusTold, [Next]_vars
  PROVE  [AccessCounts]_vars
<1>1. CpuAccess => AccessesToMake' = AccessesToMake - 1
  BY AccessCountsDown
<1>2. CpuIdle => AccessesToMake' = AccessesToMake
  BY DEF CpuIdle, AccessesToMake, RoundsToMake, PartsToMake
<1>3. CpuCalls => AccessesToMake' = AccessesOf(api')
  BY CallCounts
<1>4. QED
  BY <1>1, <1>2, <1>3 DEF AccessCounts

LEMMA InvCounts ==
  ASSUME ProgramsFit, Inv
  PROVE  CallsCounted
<1>1. PixelBits \in Nat /\ Always /\ Stage
  BY Constants DEF Inv
<1>2. CASE api = "none"
  <2>1. AccessesToMake = 0
    BY <1>2 DEF AccessesToMake
  <2>2. QED
    BY <1>1, <1>2, <2>1 DEF CallsCounted
<1>3. CASE api # "none"
  <2>1. todo # <<>>
    BY <1>1, <1>3, PartsMeasured
  <2>2. Len(todo) \in 1 .. 7
    BY <1>1, <2>1, StageScripted, ScriptsMeasured
  <2>3. RoundsToMake \in 0 .. 4 * PixelBits /\ PartsToMake \in 0 .. 22 + 4 * PixelBits
    BY <1>1, <1>3, MakeNumbers
  <2>4. AccessesToMake = Len(todo) + RoundsToMake + PartsToMake
    BY <1>3, Zenon DEF AccessesToMake
  <2>5. AccessesToMake \in 1 .. 29 + 8 * PixelBits
    <3>1. \A n \in 1 .. 7, r \in 0 .. 4 * PixelBits, p \in 0 .. 22 + 4 * PixelBits :
            n + r + p \in 1 .. 29 + 8 * PixelBits
      BY <1>1, SMT
    <3>2. QED
      BY <2>2, <2>3, <2>4, <3>1, Zenon
  <2>6. QED
    BY <1>1, <1>3, <2>5 DEF CallsCounted
<1>4. QED
  BY <1>2, <1>3

(* No call of Pixel_matrix ever polls the controller twice over, so each   *)
(* makes a number of accesses that only the length of the column tells:    *)
(* load_pixels_configs() 13 and 4 for each bit, read_counters() 7 and 4,   *)
(* a round of the calibration 29 and 8.  Every access made leaves one less *)
(* to make, none but a new call adds any, and with none left the call has  *)
(* returned.                                                               *)
THEOREM CallsMakeTheirAccesses ==
  ASSUME ProgramsFit, SoftwarePaced
  PROVE  Spec => []CallsCounted /\ [][AccessCounts]_vars
<1>1. Init => Inv /\ StatusTold
  <2>1. Init => todo = <<>>
    BY DEF Init, DriverInit
  <2>2. Init => StatusTold
    BY <2>1, ScriptsTold DEF StatusTold
  <2>3. QED
    BY <2>2, InvInit
<1>2. Inv /\ StatusTold /\ [Next]_vars => Inv' /\ StatusTold'
  BY InvNext, StatusToldNext
<1>3. Inv => CallsCounted
  BY InvCounts
<1>4. Inv /\ StatusTold /\ [Next]_vars => [AccessCounts]_vars
  BY AccessesCounted
<1>5. QED
  BY <1>1, <1>2, <1>3, <1>4, PTL DEF Spec

=============================================================================
