----------------------------- MODULE UartProofs -----------------------------
(***************************************************************************)
(* The UART, its driver, the bootloader and the peer together, for any     *)
(* divider, any number of edges to a bit, any bytes and any pace of the    *)
(* software and of the peer that the assumptions below allow:              *)
(*   UartIsLink        the receiver implements a link of bytes;            *)
(*   PromptsAreHeard   what the software writes is heard before it reads;  *)
(*   NothingIsLost     what the peer sends is read, all and in order;      *)
(*   UartTakesItsTime, ReadsWaitForThePeer                                 *)
(*                     a call makes so many accesses, and what it polls    *)
(*                     for comes.                                          *)
(* Each is for a peer whose bit is not shorter than ours and not much      *)
(* longer (RatesAgree), the second also for one that samples our frames in *)
(* their bits (PeerHears), the third for software in time (KeepsUp), and   *)
(* so the last.                                                            *)
(***************************************************************************)
EXTENDS UartBoot, SequenceTheorems, TLAPS

HalfPeriod == ClockDivider + 1
Period     == 2 * HalfPeriod           \* cycles of the serial clock
BitTime    == EdgesPerBit * Period     \* cycles of a bit
Mid        == EdgesPerBit \div 2

(* The peer is as fast as we are or slower, by no more than the receiver   *)
(* can fall behind from the start bit to the stop bit without sampling the *)
(* bit before.  (A faster peer that never pauses is misread sooner or      *)
(* later: the receiver waits for the end of its own stop bit.)             *)
RatesAgree ==
  /\ BitTime <= PeerBit
  /\ (ByteBits + 1) * (PeerBit - BitTime) <= (Mid - 1) * Period + 1

\* The cycles since the last edge that was counted.
Phase ==
  IF ~generator.level THEN HalfPeriod + generator.counter - 1
  ELSE IF generator.counter = 0 THEN Period - 1 ELSE generator.counter - 1

Idle(f) == f.state = "IDLE"

\* The cycles since a frame began, as the receiver and the transmitter count.
Index(f) ==
  IF f.state = "ACTIVE" THEN f.bits + 1 ELSE IF f.state = "STOP" THEN ByteBits + 1 ELSE 0
Time(f, phase) == Index(f) * BitTime + f.edges * Period + phase

\* The same as the peer counts.
PeerIndex == ByteBits + 2 - Len(frame)
PeerTime  == PeerIndex * PeerBit + (PeerBit - held)

-----------------------------------------------------------------------------
(* Products, and times within a frame. *)

LEMMA Distributes ==
  ASSUME NEW a \in Int, NEW b \in Int, NEW c \in Int
  PROVE  (a + b) * c = a * c + b * c
  OBVIOUS

LEMMA Grows ==
  ASSUME NEW a \in Nat, NEW b \in Nat, NEW c \in Nat, a <= b
  PROVE  /\ a * c \in Nat /\ b * c \in Nat /\ a * c <= b * c
         /\ (a + 1) * c = a * c + c
         /\ a < b => a * c + c <= b * c
<1> DEFINE d == b - a
<1>1. d \in Nat /\ d \in Int /\ a \in Int /\ b \in Int /\ 1 \in Int /\ c \in Int /\ d + a = b
  OBVIOUS
<1> HIDE DEF d
<1>2. (d + a) * c = d * c + a * c
  <2>1. d \in Int /\ a \in Int /\ c \in Int
    BY <1>1
  <2>2. QED
    BY <2>1, Distributes, ZenonT(40)
<1>3. (a + 1) * c = a * c + 1 * c
  <2>1. a \in Int /\ 1 \in Int /\ c \in Int
    BY <1>1
  <2>2. QED
    BY <2>1, Distributes, ZenonT(40)
<1>4. d * c \in Nat /\ a * c \in Nat /\ 1 * c = c
  BY <1>1
<1>5. d >= 1 => d * c >= c
  <2> DEFINE p == d - 1
  <2>1. {p, 1} \subseteq Int /\ p + 1 = d /\ (d >= 1 => p \in Nat)
    BY <1>1
  <2> HIDE DEF p
  <2>2. p \in Int /\ 1 \in Int /\ c \in Int
    BY <2>1
  <2>3. (p + 1) * c = p * c + 1 * c
    BY <2>2, Distributes, ZenonT(40)
  <2>4. p \in Nat => p * c \in Nat
    BY <1>1
  <2>5. QED
    BY <1>1, <1>4, <2>1, <2>3, <2>4
<1>6. QED
  BY <1>1, <1>2, <1>3, <1>4, <1>5

LEMMA Rates ==
  /\ {HalfPeriod, Period, BitTime, Mid, ByteBits, EdgesPerBit, PeerBit} \subseteq Nat
  /\ HalfPeriod >= 1 /\ Period = HalfPeriod + HalfPeriod
  /\ Mid >= 1 /\ Mid + 1 <= EdgesPerBit
  /\ ByteBits >= 1 /\ PeerBit >= 2
<1>1. ClockDivider \in Nat
  BY UartBootAssumption, DividerModAssumption DEF Divider
<1>2. EdgesPerBit \in Nat /\ EdgesPerBit > 1 /\ ByteBits \in Nat \ {0}
  BY UartAssumption
<1>3. Mid \in Nat /\ Mid >= 1 /\ Mid + 1 <= EdgesPerBit
  BY <1>2 DEF Mid
<1>4. HalfPeriod \in Nat /\ HalfPeriod >= 1 /\ Period \in Nat /\ Period = HalfPeriod + HalfPeriod
  BY <1>1 DEF HalfPeriod, Period
<1>5. BitTime \in Nat
  BY <1>2, <1>4 DEF BitTime
<1>6. QED
  BY <1>2, <1>3, <1>4, <1>5, PeerAssumption

LEMMA InBit ==
  ASSUME NEW e \in 0 .. EdgesPerBit - 1, NEW phase \in 0 .. Period - 1
  PROVE  /\ e * Period + phase \in 0 .. BitTime - 1
         /\ e * Period \in Nat /\ (e + 1) * Period = e * Period + Period
         /\ e * Period + phase >= BitTime - 1 => e = EdgesPerBit - 1 /\ phase = Period - 1
         /\ e = EdgesPerBit - 1 => e * Period + Period = BitTime
         /\ e >= Mid => e * Period >= Mid * Period
         /\ e < Mid => e * Period + Period <= Mid * Period
         /\ Mid * Period \in Nat /\ Mid * Period + Period <= BitTime
         /\ (Mid - 1) * Period + Period = Mid * Period
<1>1. {e, EdgesPerBit, Period, Mid, e + 1, Mid - 1, phase} \subseteq Nat /\ e + 1 <= EdgesPerBit
      /\ Mid + 1 <= EdgesPerBit /\ Mid >= 1
  BY Rates
<1>2. e * Period \in Nat /\ (e + 1) * Period = e * Period + Period
      /\ e * Period + Period <= EdgesPerBit * Period
  BY <1>1, Grows
<1>3. e + 1 < EdgesPerBit => (e + 1) * Period + Period <= EdgesPerBit * Period
  BY <1>1, Grows
<1>4. Mid <= e => Mid * Period <= e * Period
  BY <1>1, Grows
<1>5. Mid * Period \in Nat /\ Mid * Period + Period <= EdgesPerBit * Period
  BY <1>1, Grows
<1>6. e < Mid => e * Period + Period <= Mid * Period
  BY <1>1, Grows
<1>7. ((Mid - 1) + 1) * Period = (Mid - 1) * Period + Period
  BY <1>1, Grows
<1>8. (Mid - 1) + 1 = Mid /\ (e = EdgesPerBit - 1 => e + 1 = EdgesPerBit)
  BY <1>1
<1>9. Mid * Period = (Mid - 1) * Period + Period
  BY <1>7, <1>8
<1>10. (Mid - 1) * Period \in Nat
  BY <1>1
<1>11. BitTime = EdgesPerBit * Period /\ phase <= Period - 1 /\ BitTime \in Nat
  BY Rates DEF BitTime
<1> DEFINE eP == e * Period  mP == Mid * Period  nP == (Mid - 1) * Period
<1>12. eP \in Nat /\ mP \in Nat /\ nP \in Nat
  BY <1>2, <1>5, <1>10
<1>13. eP + phase >= BitTime - 1 => e = EdgesPerBit - 1 /\ phase = Period - 1
  BY <1>1, <1>2, <1>3, <1>11, <1>12
<1>14. e = EdgesPerBit - 1 => eP + Period = BitTime
  BY <1>2, <1>8, <1>11
<1>15. QED
  BY <1>1, <1>2, <1>4, <1>5, <1>6, <1>9, <1>11, <1>12, <1>13, <1>14

FrameOK(f) ==
  /\ f \in Frame
  /\ f.state # "ACTIVE" => f.bits = 0
  /\ f.state = "IDLE" => f.edges = 0

Ticked(phase) == IF phase = Period - 1 THEN 0 ELSE phase + 1

LEMMA FrameTimes ==
  ASSUME NEW f, FrameOK(f), NEW phase \in 0 .. Period - 1
  PROVE  /\ Index(f) \in 0 .. ByteBits + 1
         /\ Index(f) * BitTime \in Nat /\ Time(f, phase) \in Nat
         /\ Index(f) * BitTime <= Time(f, phase)
         /\ Time(f, phase) + 1 <= Index(f) * BitTime + BitTime
         /\ Time(f, phase) + 1 <= (ByteBits + 2) * BitTime
         /\ (ByteBits + 2) * BitTime \in Nat
         /\ Time(f, phase) + 1 >= (ByteBits + 2) * BitTime =>
              f.state = "STOP" /\ f.edges = EdgesPerBit - 1 /\ phase = Period - 1
<1>1. /\ f.state \in {"IDLE", "START", "ACTIVE", "STOP"}
      /\ f.bits \in 0 .. ByteBits - 1 /\ f.edges \in 0 .. EdgesPerBit - 1
  BY DEF FrameOK, Frame
<1>2. BitTime \in Nat /\ ByteBits \in Nat /\ ByteBits >= 1
  BY Rates
<1>3. Index(f) \in 0 .. ByteBits + 1 /\ (Index(f) = ByteBits + 1 => f.state = "STOP")
  BY <1>1, <1>2 DEF Index
<1> DEFINE i == Index(f)
           t == f.edges * Period + phase
<1>4. t \in 0 .. BitTime - 1
      /\ (t >= BitTime - 1 => f.edges = EdgesPerBit - 1 /\ phase = Period - 1)
  BY <1>1, InBit
<1>5. Time(f, phase) = i * BitTime + t
  <2>1. f.edges * Period \in Nat /\ i * BitTime \in Nat
    BY <1>1, <1>2, <1>3, InBit
  <2>2. QED
    BY <2>1 DEF Time
<1> HIDE DEF i, t
<1>6. i \in Nat /\ i <= ByteBits + 1
  BY <1>3 DEF i
<1>7. i * BitTime \in Nat /\ i * BitTime <= (ByteBits + 1) * BitTime
      /\ (ByteBits + 1) * BitTime \in Nat
  BY <1>2, <1>6, Grows
<1>8. i < ByteBits + 1 => i * BitTime + BitTime <= (ByteBits + 1) * BitTime
  BY <1>2, <1>6, Grows
<1>9. ((ByteBits + 1) + 1) * BitTime = (ByteBits + 1) * BitTime + BitTime
  BY <1>2, Grows
<1>10. (ByteBits + 2) * BitTime = (ByteBits + 1) * BitTime + BitTime
  BY <1>2, <1>9
<1> DEFINE last == (ByteBits + 1) * BitTime
<1> HIDE DEF last
<1>11. (ByteBits + 2) * BitTime = last + BitTime /\ last \in Nat
       /\ i * BitTime <= last /\ (i < ByteBits + 1 => i * BitTime + BitTime <= last)
  BY <1>7, <1>8, <1>10 DEF last
<1>12. i * BitTime + t + 1 >= last + BitTime => i = ByteBits + 1 /\ t >= BitTime - 1
  <2>1. BitTime >= 1
    BY <1>4, <1>2
  <2>2. QED
    BY <1>2, <1>4, <1>6, <1>7, <1>11, <2>1
<1>13. QED
  BY <1>2, <1>3, <1>4, <1>5, <1>7, <1>11, <1>12 DEF i

\* A frame under way is a cycle further on after every cycle, to its end.
LEMMA FrameTicks ==
  ASSUME NEW f, FrameOK(f), NEW begins \in BOOLEAN, NEW phase \in 0 .. Period - 1,
         SerialEdge <=> phase = Period - 1,
         NEW g, g = FrameNxt(f, begins)
  PROVE  /\ FrameOK(g)
         /\ Idle(f) => g = IF begins THEN [f EXCEPT !.state = "START"] ELSE f
         /\ f.state = "STOP" /\ LastEdge(f) => Idle(g)
         /\ ~Idle(f) /\ ~(f.state = "STOP" /\ LastEdge(f)) =>
              ~Idle(g) /\ Time(g, Ticked(phase)) = Time(f, phase) + 1
<1>1. /\ f \in Frame /\ f.state \in {"IDLE", "START", "ACTIVE", "STOP"}
      /\ f.bits \in 0 .. ByteBits - 1 /\ f.edges \in 0 .. EdgesPerBit - 1
  BY DEF FrameOK, Frame
<1>2. /\ BitTime \in Nat /\ ByteBits \in Nat /\ ByteBits >= 1 /\ Period \in Nat /\ Period >= 2
      /\ EdgesPerBit \in Nat /\ EdgesPerBit >= 2
  BY Rates
<1>3. CASE Idle(f)
  BY <1>1, <1>3 DEF FrameNxt, FrameOK, Frame, Idle
<1>4. CASE ~Idle(f) /\ ~LastEdge(f) /\ ~SerialEdge
  <2>1. g = f
    BY <1>1, <1>4 DEF FrameNxt, Idle
  <2>2. Ticked(phase) = phase + 1
    BY <1>4 DEF Ticked
  <2>3. Index(f) * BitTime \in Nat /\ f.edges * Period \in Nat
    BY <1>1, FrameTimes, InBit
  <2>4. QED
    BY <1>4, <2>1, <2>2, <2>3 DEF Time
<1>5. CASE ~Idle(f) /\ ~LastEdge(f) /\ SerialEdge
  <2>1. g = [f EXCEPT !.edges = @ + 1] /\ f.edges + 1 \in 0 .. EdgesPerBit - 1
    BY <1>1, <1>2, <1>5 DEF FrameNxt, Idle, LastEdge
  <2>2. g.state = f.state /\ g.bits = f.bits /\ g.edges = f.edges + 1 /\ g \in Frame
    BY <1>1, <2>1 DEF Frame
  <2>3. FrameOK(g) /\ ~Idle(g) /\ Index(g) = Index(f)
    BY <1>5, <2>2 DEF FrameOK, Idle, Index
  <2>4. Ticked(phase) = 0 /\ phase = Period - 1
    BY <1>5 DEF Ticked
  <2>5. Index(f) * BitTime \in Nat /\ f.edges * Period \in Nat
        /\ (f.edges + 1) * Period = f.edges * Period + Period
    BY <1>1, FrameTimes, InBit
  <2>6. Time(g, 0) = Index(f) * BitTime + (f.edges + 1) * Period + 0
    BY <2>2, <2>3 DEF Time
  <2>7. Time(f, phase) = Index(f) * BitTime + f.edges * Period + phase
    BY DEF Time
  <2>8. Time(g, 0) = Time(f, phase) + 1
    BY <1>2, <2>4, <2>5, <2>6, <2>7
  <2>9. QED
    BY <1>5, <2>3, <2>4, <2>8
<1>6. CASE f.state = "STOP" /\ LastEdge(f)
  <2>1. g = [f EXCEPT !.state = "IDLE", !.edges = 0]
    BY <1>6 DEF FrameNxt
  <2>2. g.state = "IDLE" /\ g.bits = f.bits /\ g.edges = 0 /\ 0 \in 0 .. EdgesPerBit - 1
    BY <1>1, <1>2, <2>1 DEF Frame
  <2>3. g \in Frame
    BY <1>1, <2>1, <2>2 DEF Frame
  <2>4. QED
    BY <1>6, <2>2, <2>3 DEF FrameOK, Idle
<1>7. CASE f.state \in {"START", "ACTIVE"} /\ LastEdge(f)
  <2>1. /\ g \in Frame /\ FrameOK(g) /\ ~Idle(g) /\ g.edges = 0
        /\ Index(g) = Index(f) + 1
    <3>1. CASE f.state = "START"
      <4>1. g = [f EXCEPT !.state = "ACTIVE", !.edges = 0]
        BY <1>7, <3>1 DEF FrameNxt
      <4>2. g.state = "ACTIVE" /\ g.bits = f.bits /\ g.edges = 0 /\ 0 \in 0 .. EdgesPerBit - 1
        BY <1>1, <1>2, <4>1 DEF Frame
      <4>3. g \in Frame
        BY <1>1, <4>1, <4>2 DEF Frame
      <4>4. f.bits = 0
        BY <3>1 DEF FrameOK
      <4>5. QED
        BY <3>1, <4>2, <4>3, <4>4 DEF FrameOK, Idle, Index
    <3>2. CASE f.state = "ACTIVE" /\ LastBit(f)
      <4>1. g = [state |-> "STOP", bits |-> 0, edges |-> 0]
        BY <1>7, <3>2 DEF FrameNxt
      <4>2. QED
        BY <1>1, <1>2, <3>2, <4>1 DEF FrameOK, Frame, Idle, Index, LastBit
    <3>3. CASE f.state = "ACTIVE" /\ ~LastBit(f)
      <4>1. g = [f EXCEPT !.bits = @ + 1, !.edges = 0]
        BY <1>7, <3>3 DEF FrameNxt
      <4>2. f.bits + 1 \in 0 .. ByteBits - 1
        BY <1>1, <1>2, <3>3 DEF LastBit
      <4>3. g.state = "ACTIVE" /\ g.bits = f.bits + 1 /\ g.edges = 0 /\ 0 \in 0 .. EdgesPerBit - 1
        BY <1>1, <1>2, <3>3, <4>1 DEF Frame
      <4>4. g \in Frame
        BY <1>1, <4>1, <4>2, <4>3 DEF Frame
      <4>5. QED
        BY <1>1, <1>2, <3>3, <4>3, <4>4 DEF FrameOK, Idle, Index
    <3>4. QED
      BY <1>7, <3>1, <3>2, <3>3
  <2>2. Ticked(phase) = 0 /\ phase = Period - 1 /\ f.edges = EdgesPerBit - 1
    BY <1>7 DEF Ticked, LastEdge
  <2>3. Index(f) \in Nat /\ Index(f) * BitTime \in Nat /\ f.edges * Period \in Nat
        /\ f.edges * Period + Period = BitTime
    BY <1>1, <2>2, FrameTimes, InBit
  <2>4. (Index(f) + 1) * BitTime = Index(f) * BitTime + BitTime
    BY <1>2, <2>3, Grows
  <2>5. Time(g, 0) = (Index(f) + 1) * BitTime + 0 * Period + 0
    BY <2>1 DEF Time
  <2>6. Time(f, phase) = Index(f) * BitTime + f.edges * Period + phase
    BY DEF Time
  <2>7. 0 * Period = 0
    BY <1>2
  <2>8. Time(g, 0) = Time(f, phase) + 1
    BY <1>2, <2>2, <2>3, <2>4, <2>5, <2>6, <2>7
  <2>9. QED
    BY <1>7, <2>1, <2>2, <2>8 DEF Idle
<1>8. QED
  BY <1>1, <1>3, <1>4, <1>5, <1>6, <1>7 DEF Idle

-----------------------------------------------------------------------------
(* The serial clock, once it has its divider. *)

ClockRuns ==
  /\ cr \in [en : BOOLEAN]
  /\ generator \in Generator
  /\ generator.counter <= generator.target
  /\ generator.rising <=> generator.level /\ generator.counter = 0
  /\ clk_divider_valid \in BOOLEAN
  /\ cr.en => generator.target = ClockDivider /\ ~clk_divider_valid

LEMMA Unwrapped ==
  ASSUME NEW n \in Nat, NEW m \in Nat, n < m
  PROVE  n % m = n
  OBVIOUS

LEMMA GeneratorTicks ==
  ASSUME ClockRuns, NEW divider \in Divider,
         NEW gen, gen = GeneratorNxt(generator, cr.en, clk_divider_valid, divider)
  PROVE  /\ gen \in Generator /\ gen.counter <= gen.target
         /\ gen.rising <=> gen.level /\ gen.counter = 0
         /\ gen.target = IF clk_divider_valid THEN divider ELSE generator.target
         /\ cr.en /\ generator.counter = generator.target =>
              gen.counter = 0 /\ (gen.level <=> ~generator.level)
         /\ cr.en /\ generator.counter # generator.target =>
              gen.counter = generator.counter + 1 /\ (gen.level <=> generator.level)
<1> DEFINE running == cr.en /\ ~clk_divider_valid
           toggles == running /\ generator.counter = generator.target
<1>1. /\ generator.counter \in Divider /\ generator.target \in Divider
      /\ generator.level \in BOOLEAN /\ generator.rising \in BOOLEAN
      /\ cr.en \in BOOLEAN /\ clk_divider_valid \in BOOLEAN
      /\ generator.counter <= generator.target
      /\ cr.en => ~clk_divider_valid
  BY DEF ClockRuns, Generator
<1>2. DividerMod \in Nat /\ DividerMod >= 1 /\ 0 \in Divider
      /\ generator.counter \in Nat /\ generator.target \in Nat /\ generator.target < DividerMod
  BY <1>1, DividerModAssumption DEF Divider
<1>3. running /\ ~toggles =>
        /\ generator.counter + 1 <= generator.target
        /\ (generator.counter + 1) % DividerMod = generator.counter + 1
        /\ generator.counter + 1 \in Divider
  <2> SUFFICES ASSUME running, ~toggles
               PROVE  /\ generator.counter + 1 <= generator.target
                      /\ (generator.counter + 1) % DividerMod = generator.counter + 1
                      /\ generator.counter + 1 \in Divider
    OBVIOUS
  <2>1. generator.counter + 1 <= generator.target
    BY <1>1, <1>2
  <2>2. generator.counter + 1 \in Nat /\ generator.counter + 1 < DividerMod
    BY <1>2, <2>1
  <2>3. QED
    BY <1>2, <2>1, <2>2, Unwrapped DEF Divider
<1>4. /\ gen.level = (running /\ (generator.level # toggles))
      /\ gen.rising = (toggles /\ ~generator.level)
      /\ gen.falling = (toggles /\ generator.level)
      /\ gen.target = IF clk_divider_valid THEN divider ELSE generator.target
      /\ gen.counter = IF running /\ ~toggles THEN (generator.counter + 1) % DividerMod ELSE 0
  BY DEF GeneratorNxt
<1>5. gen = [level |-> gen.level, rising |-> gen.rising, falling |-> gen.falling,
             target |-> gen.target, counter |-> gen.counter]
  BY DEF GeneratorNxt
<1>6. gen.target \in Divider /\ gen.counter \in Divider /\ gen.counter <= gen.target
  BY <1>1, <1>2, <1>3, <1>4 DEF Divider
<1>7. gen.level \in BOOLEAN /\ gen.rising \in BOOLEAN /\ gen.falling \in BOOLEAN
  BY <1>4
<1>8. gen \in Generator
  BY <1>5, <1>6, <1>7 DEF Generator
<1>9. gen.rising <=> gen.level /\ gen.counter = 0
  <2>1. CASE toggles
    BY <1>1, <1>4, <2>1
  <2>2. CASE ~toggles /\ running
    <3>1. gen.counter = generator.counter + 1 /\ gen.counter # 0
      BY <1>2, <1>3, <1>4, <2>2
    <3>2. QED
      BY <1>4, <2>2, <3>1
  <2>3. CASE ~running
    BY <1>4, <2>3
  <2>4. QED
    BY <2>1, <2>2, <2>3
<1>10. cr.en /\ generator.counter = generator.target =>
         gen.counter = 0 /\ (gen.level <=> ~generator.level)
  BY <1>1, <1>4
<1>11. cr.en /\ generator.counter # generator.target =>
         gen.counter = generator.counter + 1 /\ (gen.level <=> generator.level)
  BY <1>1, <1>3, <1>4
<1>12. QED
  BY <1>4, <1>6, <1>8, <1>9, <1>10, <1>11

LEMMA PhaseTicks ==
  ASSUME ClockRuns, cr.en, cdr \in Divider,
         generator' = GeneratorNxt(generator, cr.en, clk_divider_valid, cdr)
  PROVE  /\ Phase \in 0 .. Period - 1
         /\ SerialEdge <=> Phase = Period - 1
         /\ Phase' = Ticked(Phase)
<1>1. /\ generator.counter \in Nat /\ generator.counter < HalfPeriod
      /\ generator.target + 1 = HalfPeriod /\ generator.target \in Nat
      /\ generator.level \in BOOLEAN
      /\ generator.rising <=> generator.level /\ generator.counter = 0
  BY UartBootAssumption, DividerModAssumption DEF ClockRuns, Generator, Divider, HalfPeriod
<1>2. /\ generator.counter = generator.target =>
           generator'.counter = 0 /\ (generator'.level <=> ~generator.level)
      /\ generator.counter # generator.target =>
           generator'.counter = generator.counter + 1 /\ (generator'.level <=> generator.level)
  BY GeneratorTicks
<1>3. Period \in Nat /\ HalfPeriod \in Nat /\ HalfPeriod >= 1 /\ Period = HalfPeriod + HalfPeriod
  BY Rates
<1>4. Phase = IF ~generator.level THEN HalfPeriod + generator.counter - 1
              ELSE IF generator.counter = 0 THEN Period - 1 ELSE generator.counter - 1
  BY DEF Phase
<1>5. Phase' = IF ~generator'.level THEN HalfPeriod + generator'.counter - 1
               ELSE IF generator'.counter = 0 THEN Period - 1 ELSE generator'.counter - 1
  BY DEF Phase, Period, HalfPeriod
<1>6. SerialEdge <=> generator.level /\ generator.counter = 0
  BY <1>1 DEF SerialEdge
<1>7. Phase \in 0 .. Period - 1 /\ (Phase = Period - 1 <=> generator.level /\ generator.counter = 0)
  BY <1>1, <1>3, <1>4
<1>8. Phase' = Ticked(Phase)
  <2> DEFINE c == generator.counter  n == generator'.counter
             up == generator.level  rises == generator'.level
  <2>1. /\ c = HalfPeriod - 1 => n = 0 /\ (up => ~rises) /\ (~up => rises)
        /\ c # HalfPeriod - 1 => n = c + 1 /\ (up => rises) /\ (~up => ~rises)
    <3>1. c = HalfPeriod - 1 <=> generator.counter = generator.target
      BY <1>1, <1>3
    <3>2. QED
      BY <1>1, <1>2, <3>1
  <2>2. /\ (~up => Phase = HalfPeriod + c - 1)
        /\ (up /\ c = 0 => Phase = Period - 1)
        /\ (up /\ c # 0 => Phase = c - 1)
    BY <1>4
  <2>3. /\ (~rises => Phase' = HalfPeriod + n - 1)
        /\ (rises /\ n = 0 => Phase' = Period - 1)
        /\ (rises /\ n # 0 => Phase' = n - 1)
    BY <1>5
  <2>4. Ticked(Phase) = IF Phase = Period - 1 THEN 0 ELSE Phase + 1
    BY DEF Ticked
  <2>5. c \in Nat /\ c < HalfPeriod
    BY <1>1
  <2> HIDE DEF c, n, up, rises
  <2>6. CASE up /\ c = HalfPeriod - 1
    BY <1>3, <2>1, <2>2, <2>3, <2>4, <2>5, <2>6
  <2>7. CASE up /\ c # HalfPeriod - 1
    BY <1>3, <2>1, <2>2, <2>3, <2>4, <2>5, <2>7
  <2>8. CASE ~up /\ c = HalfPeriod - 1
    BY <1>3, <2>1, <2>2, <2>3, <2>4, <2>5, <2>8
  <2>9. CASE ~up /\ c # HalfPeriod - 1
    BY <1>3, <2>1, <2>2, <2>3, <2>4, <2>5, <2>9
  <2>10. QED
    BY <2>6, <2>7, <2>8, <2>9
<1>9. QED
  BY <1>6, <1>7, <1>8

-----------------------------------------------------------------------------
(* The two clocks. *)

\* i bits of the peer last as long as i of ours and the i-fold difference.
LEMMA Drift ==
  ASSUME RatesAgree, NEW i \in Nat
  PROVE  /\ i * PeerBit \in Nat /\ i * BitTime \in Nat
         /\ i * BitTime <= i * PeerBit
         /\ i <= ByteBits + 1 => i * PeerBit <= i * BitTime + (Mid - 1) * Period + 1
<1> DEFINE g == PeerBit - BitTime
<1>1. /\ PeerBit \in Nat /\ BitTime \in Nat /\ BitTime <= PeerBit
      /\ ByteBits \in Nat /\ Mid \in Nat /\ Mid >= 1 /\ Period \in Nat
  BY Rates DEF RatesAgree
<1>2. g \in Nat /\ BitTime + g = PeerBit
  BY <1>1
<1>3. (ByteBits + 1) * g <= (Mid - 1) * Period + 1
  BY DEF RatesAgree
<1> HIDE DEF g
<1>4. BitTime \in Int /\ g \in Int /\ i \in Int
  BY <1>1, <1>2
<1>5. (BitTime + g) * i = BitTime * i + g * i
  BY <1>4, Distributes, ZenonT(40)
<1>6. i * g \in Nat /\ i * BitTime \in Nat /\ (Mid - 1) * Period \in Nat
  BY <1>1, <1>2
<1>7. i * PeerBit = i * BitTime + i * g
  BY <1>1, <1>2, <1>5
<1>8. i <= ByteBits + 1 => i * g <= (ByteBits + 1) * g
  BY <1>1, <1>2, Grows
<1>9. (ByteBits + 1) * g \in Nat
  BY <1>1, <1>2
<1>10. QED
  BY <1>3, <1>6, <1>7, <1>8, <1>9

\* In the second half of bit i, as we count, the peer has come to it.
LEMMA NotBehind ==
  ASSUME RatesAgree, NEW i \in 0 .. ByteBits + 1, NEW p \in Nat, NEW h \in 1 .. PeerBit,
         NEW t \in Nat, t + 1 >= i * BitTime + Mid * Period,
         t + 2 <= p * PeerBit + (PeerBit - h) + Period
  PROVE  p >= i
<1> SUFFICES ASSUME p < i PROVE FALSE
  BY Rates
<1>1. /\ PeerBit \in Nat /\ BitTime \in Nat /\ ByteBits \in Nat /\ Mid \in Nat /\ Mid >= 1
      /\ Period \in Nat /\ i \in Nat /\ i <= ByteBits + 1
  BY Rates
<1>2. p * PeerBit + PeerBit <= i * PeerBit /\ p * PeerBit \in Nat
  BY <1>1, Grows
<1>3. i * PeerBit <= i * BitTime + (Mid - 1) * Period + 1 /\ i * BitTime \in Nat
  BY <1>1, Drift
<1>4. Mid * Period = (Mid - 1) * Period + Period /\ (Mid - 1) * Period \in Nat
  <2>1. Mid - 1 \in Nat /\ (Mid - 1) + 1 = Mid
    BY <1>1
  <2>2. ((Mid - 1) + 1) * Period = (Mid - 1) * Period + Period
    BY <1>1, <2>1, Grows
  <2>3. QED
    BY <1>1, <2>1, <2>2
<1>5. QED
  BY <1>1, <1>2, <1>3, <1>4

\* Before bit i is over, as we count, the peer is not beyond it.
LEMMA NotAhead ==
  ASSUME RatesAgree, NEW i \in Nat, NEW p \in Nat, NEW h \in 1 .. PeerBit,
         NEW t \in Nat, t + 1 < i * BitTime + BitTime,
         p * PeerBit + (PeerBit - h) <= t + 1
  PROVE  p <= i
<1> SUFFICES ASSUME i + 1 <= p PROVE FALSE
  OBVIOUS
<1>1. PeerBit \in Nat /\ BitTime \in Nat
  BY Rates
<1>2. (i + 1) * PeerBit <= p * PeerBit /\ p * PeerBit \in Nat
  BY <1>1, Grows
<1>3. (i + 1) * BitTime <= (i + 1) * PeerBit
  BY Drift
<1>4. (i + 1) * BitTime = i * BitTime + BitTime /\ i * BitTime \in Nat
  BY <1>1, Grows
<1>5. (i + 1) * PeerBit \in Nat
  BY <1>1
<1>6. QED
  BY <1>1, <1>2, <1>3, <1>4, <1>5

-----------------------------------------------------------------------------
(* Bytes and frames as sequences of bits. *)

\* The level of the line in position j of a frame, from 1.
Level(byte, j) == IF j = 1 THEN 0 ELSE IF j = ByteBits + 2 THEN 1 ELSE byte[j - 1]

LEMMA ByteIsSequence ==
  ASSUME NEW b \in Bytes
  PROVE  b \in Seq(Bit) /\ Len(b) = ByteBits /\ DOMAIN b = 1 .. ByteBits
         /\ \A k \in 1 .. ByteBits : b[k] \in Bit
<1>1. ByteBits \in Nat /\ b \in [1 .. ByteBits -> Bit]
  BY Rates DEF Bytes
<1>2. b \in Seq(Bit)
  BY <1>1, SeqDef
<1>3. QED
  BY <1>1, <1>2, LenProperties

LEMMA SequenceIsByte ==
  ASSUME NEW s \in Seq(Bit), Len(s) = ByteBits
  PROVE  s \in Bytes
  BY LenProperties DEF Bytes

LEMMA WholeFrame ==
  ASSUME NEW b \in Bytes
  PROVE  /\ <<0>> \o b \o <<1>> \in Seq(Bit)
         /\ Len(<<0>> \o b \o <<1>>) = ByteBits + 2
         /\ \A j \in 1 .. ByteBits + 2 : (<<0>> \o b \o <<1>>)[j] = Level(b, j)
<1> DEFINE start == <<0>>
           stop == <<1>>
           s == start \o b
<1>1. /\ start \in Seq(Bit) /\ Len(start) = 1 /\ start[1] = 0
      /\ stop \in Seq(Bit) /\ Len(stop) = 1 /\ stop[1] = 1
  BY DEF Bit
<1>2. b \in Seq(Bit) /\ Len(b) = ByteBits /\ ByteBits \in Nat /\ ByteBits >= 1
  BY ByteIsSequence, Rates
<1> HIDE DEF start, stop
<1>3. /\ s \in Seq(Bit) /\ Len(s) = ByteBits + 1
      /\ \A j \in 1 .. ByteBits + 1 : s[j] = IF j <= 1 THEN start[j] ELSE b[j - 1]
  BY <1>1, <1>2, ConcatProperties, SMTT(30)
<1> HIDE DEF s
<1>4. /\ s \o stop \in Seq(Bit) /\ Len(s \o stop) = ByteBits + 2
      /\ \A j \in 1 .. ByteBits + 2 :
           (s \o stop)[j] = IF j <= ByteBits + 1 THEN s[j] ELSE stop[j - (ByteBits + 1)]
  <2>1. Len(s) + Len(stop) = ByteBits + 2
    BY <1>1, <1>2, <1>3
  <2>2. /\ s \o stop \in Seq(Bit) /\ Len(s \o stop) = Len(s) + Len(stop)
        /\ \A j \in 1 .. Len(s) + Len(stop) :
             (s \o stop)[j] = IF j <= Len(s) THEN s[j] ELSE stop[j - Len(s)]
    BY <1>1, <1>3, ConcatProperties
  <2>3. QED
    BY <1>1, <1>3, <2>1, <2>2
<1>5. \A j \in 1 .. ByteBits + 2 : (s \o stop)[j] = Level(b, j)
  <2> SUFFICES ASSUME NEW j \in 1 .. ByteBits + 2
               PROVE  (s \o stop)[j] = Level(b, j)
    OBVIOUS
  <2>1. CASE j = 1
    BY <1>1, <1>2, <1>3, <1>4, <2>1 DEF Level
  <2>2. CASE j = ByteBits + 2
    BY <1>1, <1>2, <1>4, <2>2 DEF Level
  <2>3. CASE j # 1 /\ j # ByteBits + 2
    BY <1>2, <1>3, <1>4, <2>3 DEF Level
  <2>4. QED
    BY <2>1, <2>2, <2>3
<1>6. QED
  BY <1>4, <1>5 DEF s, start, stop

LEMMA Shifted ==
  ASSUME NEW buffer \in Bytes, NEW bit \in Bit
  PROVE  /\ ShiftIn(buffer, bit) \in Bytes
         /\ \A k \in 1 .. ByteBits - 1 : ShiftIn(buffer, bit)[k] = buffer[k + 1]
         /\ ShiftIn(buffer, bit)[ByteBits] = bit
         /\ Head(buffer) = buffer[1]
<1>1. buffer \in Seq(Bit) /\ Len(buffer) = ByteBits /\ ByteBits \in Nat /\ ByteBits >= 1
  BY ByteIsSequence, Rates
<1>2. buffer # <<>>
  BY <1>1, EmptySeq
<1>3. /\ Tail(buffer) \in Seq(Bit) /\ Len(Tail(buffer)) = ByteBits - 1
      /\ \A k \in 1 .. ByteBits - 1 : Tail(buffer)[k] = buffer[k + 1]
      /\ Head(buffer) = buffer[1]
  BY <1>1, <1>2, HeadTailProperties
<1>4. /\ Append(Tail(buffer), bit) \in Seq(Bit) /\ Len(Append(Tail(buffer), bit)) = ByteBits
      /\ \A k \in 1 .. ByteBits - 1 : Append(Tail(buffer), bit)[k] = Tail(buffer)[k]
      /\ Append(Tail(buffer), bit)[ByteBits] = bit
  BY <1>1, <1>3, AppendProperties
<1>5. QED
  BY <1>3, <1>4, SequenceIsByte DEF ShiftIn

-----------------------------------------------------------------------------
(* What is on the line, and what the receiver makes of it. *)

\* The stop bit of the frame has been sampled.
Sampled == rx.state = "STOP" /\ rx.edges >= Mid

\* A frame was begun and its byte not handed on yet.
InFlight ==
  \/ Idle(rx) /\ Len(frame) = ByteBits + 2
  \/ ~Idle(rx) /\ ~Sampled
  \/ rx_data_valid

\* Bits sampled.
Got ==
  IF rx.state = "ACTIVE" THEN rx.bits + (IF rx.edges >= Mid THEN 1 ELSE 0)
  ELSE IF rx.state = "STOP" THEN ByteBits ELSE 0

LineTypes ==
  /\ FrameOK(rx)
  /\ rx_buffer \in Bytes
  /\ rx_data_valid \in BOOLEAN /\ rx_error = FALSE
  /\ frame \in Seq(Bit) /\ Len(frame) <= ByteBits + 2
  /\ frame = <<>> => held = 0
  /\ frame # <<>> => held \in 1 .. PeerBit
  /\ arriving \in Seq(PeerBytes)

(* The receiver begins with the peer.  While both are in a frame they are  *)
(* as far apart as the serial clock happened to be when it began.          *)
InStep ==
  /\ Idle(rx) => \/ frame = <<>> \/ Len(frame) = 1
                 \/ Len(frame) = ByteBits + 2 /\ held = PeerBit
  /\ ~Idle(rx) /\ frame = <<>> => Time(rx, Phase) + 1 >= (ByteBits + 2) * BitTime
  /\ ~Idle(rx) /\ frame # <<>> => /\ Time(rx, Phase) + 1 >= PeerTime
                                  /\ Time(rx, Phase) + 2 <= PeerTime + Period
  /\ rx_data_valid => rx.state = "STOP" /\ rx.edges = Mid /\ Phase = 0

\* The byte in flight is on the line, and in the buffer as far as it was sampled.
Carries ==
  /\ IF InFlight THEN Len(arriving) = 1 ELSE arriving = <<>>
  /\ \A j \in 1 .. Len(frame) : frame[j] = Level(arriving[1], PeerIndex + j)
  /\ ~Idle(rx) /\ ~Sampled => \A k \in 1 .. Got : rx_buffer[ByteBits - Got + k] = arriving[1][k]
  /\ rx_data_valid => rx_data = arriving[1]

LineInv == LineTypes /\ InStep /\ Carries

Waits ==
  /\ KeepsSending
  /\ arriving' = IF rx_data_valid THEN Tail(arriving) ELSE arriving

Begins(byte) ==
  /\ BeginsFrame(byte)
  /\ arriving' = Append(IF rx_data_valid THEN Tail(arriving) ELSE arriving, byte)

\* The line stays as it is, or goes on to the rest of the frame.
LEMMA LineWaits ==
  ASSUME LineTypes, KeepsSending
  PROVE  /\ frame' \in Seq(Bit) /\ Len(frame') <= Len(frame)
         /\ frame' = <<>> => held' = 0
         /\ frame' # <<>> => frame # <<>> /\ held' \in 1 .. PeerBit /\ PeerTime' = PeerTime + 1
         /\ frame' = <<>> /\ frame # <<>> =>
              Len(frame) = 1 /\ PeerTime + 1 = (ByteBits + 2) * PeerBit
         /\ frame # <<>> /\ held > 1 => frame' = frame /\ held' = held - 1
         /\ \A j \in 1 .. Len(frame') :
              /\ j + (Len(frame) - Len(frame')) \in 1 .. Len(frame)
              /\ frame'[j] = frame[j + (Len(frame) - Len(frame'))]
<1>1. /\ frame \in Seq(Bit) /\ Len(frame) \in Nat /\ Len(frame) <= ByteBits + 2
      /\ frame # <<>> => held \in 1 .. PeerBit /\ Len(frame) >= 1
      /\ frame = <<>> => held = 0 /\ Len(frame) = 0
      /\ ByteBits \in Nat /\ PeerBit \in Nat /\ PeerBit >= 2
  BY Rates, LenProperties, EmptySeq DEF LineTypes
<1>2. CASE frame = <<>>
  BY <1>1, <1>2 DEF KeepsSending
<1>3. CASE frame # <<>> /\ held > 1
  <2>1. frame' = frame /\ held' = held - 1
    BY <1>3 DEF KeepsSending
  <2>2. PeerIndex \in Nat /\ PeerIndex' = PeerIndex /\ PeerIndex * PeerBit \in Nat
    BY <1>1, <2>1 DEF PeerIndex
  <2>3. PeerTime' = PeerTime + 1
    BY <1>1, <1>3, <2>1, <2>2 DEF PeerTime
  <2>4. QED
    BY <1>1, <1>3, <2>1, <2>3
<1>4. CASE frame # <<>> /\ ~(held > 1)
  <2>1. frame' = Tail(frame) /\ held' = (IF Len(frame) = 1 THEN 0 ELSE PeerBit) /\ held = 1
    BY <1>1, <1>4 DEF KeepsSending
  <2>2. /\ frame' \in Seq(Bit) /\ Len(frame') = Len(frame) - 1
        /\ \A j \in 1 .. Len(frame') : frame'[j] = frame[j + 1]
    BY <1>1, <1>4, <2>1, HeadTailProperties
  <2>3. frame' = <<>> <=> Len(frame) = 1
    BY <1>1, <1>4, <2>2, EmptySeq
  <2>4. PeerIndex \in Nat /\ PeerIndex' = PeerIndex + 1
    BY <1>1, <1>4, <2>2 DEF PeerIndex
  <2>5. (PeerIndex + 1) * PeerBit = PeerIndex * PeerBit + PeerBit /\ PeerIndex * PeerBit \in Nat
    BY <1>1, <2>4, Grows
  <2>6. PeerTime + 1 = (PeerIndex + 1) * PeerBit
    BY <1>1, <2>1, <2>5 DEF PeerTime
  <2>7. frame' # <<>> => PeerTime' = PeerTime + 1
    BY <1>1, <2>1, <2>3, <2>4, <2>5, <2>6 DEF PeerTime
  <2>8. Len(frame) = 1 => PeerIndex + 1 = ByteBits + 2
    BY <1>1 DEF PeerIndex
  <2>9. QED
    BY <1>1, <1>4, <2>1, <2>2, <2>3, <2>6, <2>7, <2>8
<1>5. QED
  BY <1>2, <1>3, <1>4

LEMMA LineFacts ==
  ASSUME LineInv
  PROVE  /\ Len(frame) \in Nat /\ Len(frame) <= ByteBits + 2 /\ ByteBits \in Nat /\ ByteBits >= 1
         /\ frame = <<>> <=> Len(frame) = 0
         /\ frame # <<>> => PeerLine = frame[1] /\ PeerLine \in Bit
         /\ frame = <<>> => PeerLine = 1
         /\ PeerIndex \in Nat
         /\ frame # <<>> => PeerIndex <= ByteBits + 1
         /\ Len(frame) = 1 => PeerLine = 1
         /\ InFlight => arriving[1] \in PeerBytes /\ arriving = <<arriving[1]>>
                        /\ arriving[1] \in Bytes
<1>1. /\ frame \in Seq(Bit) /\ Len(frame) \in Nat /\ Len(frame) <= ByteBits + 2
      /\ ByteBits \in Nat /\ ByteBits >= 1
  BY Rates, LenProperties DEF LineInv, LineTypes
<1>2. frame = <<>> <=> Len(frame) = 0
  BY <1>1, EmptySeq
<1>3. frame # <<>> => PeerLine = frame[1] /\ frame[1] \in Bit
  BY <1>1, <1>2, HeadTailProperties, LenProperties DEF PeerLine
<1>4. Len(frame) = 1 => frame[1] = 1
  <2>1. Len(frame) = 1 => frame[1] = Level(arriving[1], PeerIndex + 1) /\ PeerIndex + 1 = ByteBits + 2
    BY <1>1 DEF LineInv, Carries, PeerIndex
  <2>2. QED
    BY <1>1, <2>1 DEF Level
<1>5. InFlight => arriving[1] \in PeerBytes /\ arriving = <<arriving[1]>>
  <2> SUFFICES ASSUME InFlight PROVE arriving[1] \in PeerBytes /\ arriving = <<arriving[1]>>
    OBVIOUS
  <2>1. arriving \in Seq(PeerBytes) /\ Len(arriving) = 1
    BY DEF LineInv, LineTypes, Carries
  <2>2. arriving \in [1 .. 1 -> PeerBytes]
    BY <2>1, LenProperties
  <2>3. QED
    BY <2>1, <2>2
<1>6. PeerBytes \subseteq Bytes
  BY UartBootAssumption
<1>7. QED
  BY <1>1, <1>2, <1>3, <1>4, <1>5, <1>6 DEF PeerIndex, PeerLine

\* The rest of the frame is still that of its byte.
LEMMA FrameGoesOn ==
  ASSUME LineInv, KeepsSending, arriving'[1] = arriving[1] \/ Len(frame) <= 1
  PROVE  /\ frame' \in Seq(Bit) /\ Len(frame') \in Nat /\ Len(frame') <= Len(frame)
         /\ frame' = <<>> <=> Len(frame') = 0
         /\ frame' = <<>> => held' = 0
         /\ frame' # <<>> => held' \in 1 .. PeerBit
         /\ \A j \in 1 .. Len(frame') : frame'[j] = Level(arriving'[1], PeerIndex' + j)
<1>1. /\ frame' \in Seq(Bit) /\ Len(frame') <= Len(frame)
      /\ frame' = <<>> => held' = 0
      /\ frame' # <<>> => held' \in 1 .. PeerBit
  BY LineWaits DEF LineInv
<1>2. Len(frame') \in Nat /\ (frame' = <<>> <=> Len(frame') = 0)
  BY <1>1, LenProperties, EmptySeq
<1>3. Len(frame) \in Nat /\ Len(frame) <= ByteBits + 2 /\ ByteBits \in Nat
  BY LineFacts
<1>4. ASSUME NEW j \in 1 .. Len(frame')
      PROVE  frame'[j] = Level(arriving'[1], PeerIndex' + j)
  <2> DEFINE i == j + (Len(frame) - Len(frame'))
  <2>1. i \in 1 .. Len(frame) /\ frame'[j] = frame[i]
    BY LineWaits DEF LineInv
  <2>2. frame[i] = Level(arriving[1], PeerIndex + i)
    BY <2>1 DEF LineInv, Carries
  <2>3. PeerIndex + i = PeerIndex' + j
    BY <1>2, <1>3 DEF PeerIndex
  <2>4. CASE arriving'[1] = arriving[1]
    BY <2>1, <2>2, <2>3, <2>4
  <2>5. CASE Len(frame) <= 1
    <3>1. PeerIndex + i = ByteBits + 2
      <4>1. i = 1 /\ Len(frame) = 1
        BY <1>3, <2>1, <2>5, SMTT(30)
      <4>2. QED
        BY <1>3, <4>1 DEF PeerIndex
    <3>2. QED
      BY <2>1, <2>2, <2>3, <3>1, <1>3 DEF Level
  <2>6. QED
    BY <2>4, <2>5
<1>5. QED
  BY <1>1, <1>2, <1>4

\* A new frame, begun where no byte is in flight.
LEMMA FrameBegins ==
  ASSUME LineInv, NEW byte \in PeerBytes, Begins(byte), ~InFlight
  PROVE  /\ arriving' = <<byte>> /\ arriving' \in Seq(PeerBytes) /\ Len(arriving') = 1
         /\ frame' \in Seq(Bit) /\ Len(frame') = ByteBits + 2 /\ held' = PeerBit
         /\ frame' # <<>> /\ frame = <<>>
         /\ \A j \in 1 .. Len(frame') : frame'[j] = Level(arriving'[1], PeerIndex' + j)
<1>1. byte \in Bytes /\ ~rx_data_valid
  BY UartBootAssumption DEF InFlight
<1>2. arriving = <<>>
  BY DEF LineInv, Carries
<1>3. arriving' = <<byte>>
  <2>1. arriving' = Append(<<>>, byte)
    BY <1>1, <1>2 DEF Begins
  <2>2. QED
    BY <2>1
<1>4. arriving' \in Seq(PeerBytes) /\ Len(arriving') = 1 /\ arriving'[1] = byte
  BY <1>3
<1>5. frame' = <<0>> \o byte \o <<1>> /\ held' = PeerBit /\ frame = <<>>
  BY DEF Begins, BeginsFrame
<1>6. /\ frame' \in Seq(Bit) /\ Len(frame') = ByteBits + 2
      /\ \A j \in 1 .. ByteBits + 2 : frame'[j] = Level(byte, j)
  BY <1>1, <1>5, WholeFrame
<1>7. ByteBits \in Nat
  BY Rates
<1>8. frame' # <<>>
  BY <1>6, <1>7, EmptySeq
<1>9. PeerIndex' = 0
  BY <1>6, <1>7 DEF PeerIndex
<1>10. QED
  BY <1>3, <1>4, <1>5, <1>6, <1>7, <1>8, <1>9

\* What all steps of the receiver have in common.
Receives ==
  /\ Receiver(PeerLine)
  /\ Phase \in 0 .. Period - 1 /\ (SerialEdge <=> Phase = Period - 1)
  /\ Phase' = Ticked(Phase)
  /\ Waits \/ \E byte \in PeerBytes : Begins(byte)

LEMMA ReceiverTypes ==
  ASSUME LineInv, Receives
  PROVE  /\ FrameOK(rx') /\ rx' = FrameNxt(rx, PeerLine = 0)
         /\ rx_buffer' \in Bytes
         /\ rx_data_valid' <=> rx.state = "STOP" /\ SerialEdge /\ rx.edges = Mid - 1
         /\ rx_data_valid' \in BOOLEAN
         /\ rx_data_valid' => rx_data' = rx_buffer
         /\ rx_data_valid' => (rx_error' <=> PeerLine = 0)
         /\ ~rx_data_valid' => rx_error' = FALSE
         /\ ~rx_data_valid' => rx_data' = rx_data
<1>1. FrameOK(rx) /\ rx_buffer \in Bytes /\ rx_error = FALSE
  BY DEF LineInv, LineTypes
<1>2. PeerLine \in Bit
  BY LineFacts DEF Bit
<1>3. rx' = FrameNxt(rx, PeerLine = 0) /\ FrameOK(rx')
  <2>1. rx' = FrameNxt(rx, PeerLine = 0)
    BY DEF Receives, Receiver
  <2>2. (PeerLine = 0) \in BOOLEAN
    OBVIOUS
  <2>3. QED
    BY <1>1, <2>1, <2>2, FrameTicks DEF Receives
<1>4. rx_buffer' \in Bytes
  <2>1. Zero \in Bytes
    BY DEF Zero, Bytes, Bit
  <2>2. ShiftIn(rx_buffer, PeerLine) \in Bytes
    BY <1>1, <1>2, Shifted
  <2>3. rx_buffer' \in {Zero, ShiftIn(rx_buffer, PeerLine), rx_buffer}
    BY DEF Receives, Receiver
  <2>4. QED
    BY <1>1, <2>1, <2>2, <2>3
<1>5. rx_data_valid' = (rx.state = "STOP" /\ MidEdge(rx))
      /\ rx_data' = (IF rx.state = "STOP" /\ MidEdge(rx) THEN rx_buffer ELSE rx_data)
      /\ rx_error' = IF rx.state = "STOP" /\ MidEdge(rx) THEN PeerLine = 0
                     ELSE rx_error /\ rx.state # "START"
  BY DEF Receives, Receiver
<1>6. MidEdge(rx) <=> SerialEdge /\ rx.edges = Mid - 1
  BY DEF MidEdge, Mid
<1>7. QED
  BY <1>1, <1>3, <1>4, <1>5, <1>6

\* The receiver is idle after the step, and no byte is in flight before it.
LEMMA IdleAfter ==
  ASSUME LineInv, Receives, ~InFlight, Len(frame) <= 1, Idle(rx'), ~rx_data_valid'
  PROVE  LineInv'
<1>1. rx'.state = "IDLE" /\ ~rx_data_valid
  BY DEF Idle, InFlight
<1>2. /\ rx_error' = FALSE /\ FrameOK(rx)' /\ rx_buffer' \in Bytes /\ rx_data_valid' \in BOOLEAN
  BY ReceiverTypes
<1>3. arriving = <<>>
  BY DEF LineInv, Carries
<1>4. Idle(rx') /\ ~Sampled'
  BY <1>1 DEF Sampled, Idle
<1>5. Len(frame) \in Nat /\ ByteBits \in Nat /\ ByteBits >= 1
  BY LineFacts
<1>6. CASE Waits
  <2>1. arriving' = <<>> /\ arriving' \in Seq(PeerBytes)
    BY <1>1, <1>3, <1>6 DEF Waits
  <2>2. /\ frame' \in Seq(Bit) /\ Len(frame') <= Len(frame) /\ Len(frame') \in Nat
        /\ frame' = <<>> <=> Len(frame') = 0
        /\ frame' = <<>> => held' = 0
        /\ frame' # <<>> => held' \in 1 .. PeerBit
        /\ \A j \in 1 .. Len(frame') : frame'[j] = Level(arriving'[1], PeerIndex' + j)
    BY <1>6, FrameGoesOn DEF Waits
  <2>3. Len(frame') \in {0, 1} /\ Len(frame') # ByteBits + 2 /\ Len(frame') <= ByteBits + 2
    <3> DEFINE n == Len(frame)
               m == Len(frame')
    <3>1. m <= n /\ m \in Nat /\ n \in Nat /\ n <= 1
      BY <1>5, <2>2
    <3> HIDE DEF m, n
    <3>2. m \in {0, 1} /\ m # ByteBits + 2 /\ m <= ByteBits + 2
      BY <1>5, <3>1
    <3>3. QED
      BY <3>2 DEF m
  <2>4. LineTypes'
    BY <1>2, <2>1, <2>2, <2>3 DEF LineTypes
  <2>5. InStep'
    <3>1. frame' = <<>> \/ Len(frame') = 1
      BY <2>2, <2>3
    <3>2. QED
      BY <1>4, <3>1 DEF InStep
  <2>6. ~InFlight'
    BY <1>4, <2>3 DEF InFlight
  <2>7. Carries'
    BY <1>4, <2>1, <2>2, <2>6 DEF Carries
  <2>8. QED
    BY <2>4, <2>5, <2>7 DEF LineInv
<1>7. ASSUME NEW byte \in PeerBytes, Begins(byte) PROVE LineInv'
  <2>1. /\ arriving' = <<byte>> /\ arriving' \in Seq(PeerBytes) /\ Len(arriving') = 1
        /\ frame' \in Seq(Bit) /\ Len(frame') = ByteBits + 2 /\ held' = PeerBit
        /\ frame' # <<>>
        /\ \A j \in 1 .. Len(frame') : frame'[j] = Level(arriving'[1], PeerIndex' + j)
    BY <1>7, FrameBegins
  <2>2. PeerBit \in 1 .. PeerBit
    BY Rates
  <2>3. LineTypes'
    <3>1. Len(frame') <= ByteBits + 2
      BY <1>5, <2>1
    <3>2. QED
      BY <1>2, <2>1, <2>2, <3>1 DEF LineTypes
  <2>4. InStep'
    BY <1>4, <2>1 DEF InStep
  <2>5. InFlight'
    BY <1>4, <2>1 DEF InFlight
  <2>6. Carries'
    BY <1>4, <2>1, <2>5 DEF Carries
  <2>7. QED
    BY <2>3, <2>4, <2>6 DEF LineInv
<1>8. QED
  BY <1>6, <1>7 DEF Receives

\* Between two frames.
LEMMA LineIsIdle ==
  ASSUME LineInv, Receives, Idle(rx), Len(frame) # ByteBits + 2
  PROVE  LineInv'
<1>1. rx.state = "IDLE" /\ ~rx_data_valid
  BY DEF LineInv, InStep, Idle
<1>2. frame = <<>> \/ Len(frame) = 1
  BY DEF LineInv, InStep
<1>3. ~InFlight
  BY <1>1 DEF InFlight
<1>4. Len(frame) <= 1
  <2> DEFINE n == Len(frame)
  <2>1. n = 0 \/ n = 1
    BY <1>2, LineFacts
  <2> HIDE DEF n
  <2>2. n <= 1
    BY <2>1
  <2>3. QED
    BY <2>2 DEF n
<1>5. PeerLine = 1
  BY <1>2, LineFacts
<1>6. rx' = rx
  <2>1. rx' = FrameNxt(rx, PeerLine = 0)
    BY ReceiverTypes
  <2>2. QED
    BY <1>1, <1>5, <2>1 DEF FrameNxt
<1>7. Idle(rx') /\ ~rx_data_valid'
  BY <1>1, <1>6, ReceiverTypes DEF Idle
<1>8. QED
  BY <1>3, <1>4, <1>7, IdleAfter

\* The receiver begins as it sees the start bit.
LEMMA LineStarts ==
  ASSUME LineInv, Receives, Idle(rx), Len(frame) = ByteBits + 2
  PROVE  LineInv'
<1>1. rx.state = "IDLE" /\ ~rx_data_valid /\ rx.edges = 0 /\ rx.bits = 0
  BY DEF LineInv, LineTypes, FrameOK, InStep, Idle
<1>2. /\ ByteBits \in Nat /\ ByteBits >= 1 /\ Len(frame) \in Nat /\ frame # <<>>
      /\ PeerBit \in Nat /\ PeerBit >= 2 /\ BitTime \in Nat
      /\ Period \in Nat /\ Period >= 2 /\ Mid \in Nat /\ Mid >= 1
  BY LineFacts, Rates
<1>3. held = PeerBit
  BY <1>2 DEF LineInv, InStep
<1>4. PeerIndex = 0
  BY <1>2 DEF PeerIndex
<1>5. PeerLine = 0
  <2>1. 1 \in 1 .. Len(frame) /\ PeerIndex + 1 = 1
    BY <1>2, <1>4
  <2>2. frame[1] = Level(arriving[1], PeerIndex + 1)
    BY <2>1 DEF LineInv, Carries
  <2>3. frame[1] = 0
    BY <2>1, <2>2 DEF Level
  <2>4. QED
    BY <1>2, <2>3, LineFacts
<1>6. rx' = [rx EXCEPT !.state = "START"]
  <2>1. rx' = FrameNxt(rx, PeerLine = 0)
    BY ReceiverTypes
  <2>2. QED
    BY <1>1, <1>5, <2>1 DEF FrameNxt
<1>7. rx'.state = "START" /\ rx'.edges = 0
  BY <1>1, <1>6 DEF LineInv, LineTypes, FrameOK, Frame
<1>8. ~rx_data_valid' /\ rx_error' = FALSE /\ FrameOK(rx)' /\ rx_buffer' \in Bytes
  BY <1>1, ReceiverTypes
<1>9. Waits
  BY <1>2 DEF Receives, Begins, BeginsFrame
<1>10. InFlight
  BY DEF InFlight
<1>11. Len(arriving) = 1 /\ arriving' = arriving /\ arriving' \in Seq(PeerBytes)
  BY <1>1, <1>9, <1>10 DEF Waits, LineInv, LineTypes, Carries
<1>12. frame' = frame /\ held' = PeerBit - 1
  <2>1. held > 1
    BY <1>2, <1>3
  <2>2. QED
    BY <1>2, <1>3, <1>9, <2>1, LineWaits DEF LineInv, Waits
<1>13. LineTypes'
  <2>1. held' \in 1 .. PeerBit
    BY <1>2, <1>12
  <2>2. frame' \in Seq(Bit) /\ Len(frame') <= ByteBits + 2 /\ frame' # <<>>
    BY <1>2, <1>12 DEF LineTypes, LineInv
  <2>3. rx_data_valid' \in BOOLEAN
    BY ReceiverTypes
  <2>4. QED
    BY <1>8, <1>11, <2>1, <2>2, <2>3 DEF LineTypes
<1>14. Time(rx', Phase') = Phase' /\ Phase' \in 0 .. Period - 1
  <2>1. Index(rx') = 0
    BY <1>7 DEF Index
  <2>2. Phase' \in 0 .. Period - 1
    BY <1>2 DEF Receives, Ticked
  <2>3. 0 * BitTime = 0 /\ 0 * Period = 0
    BY <1>2
  <2>4. Time(rx', Phase') = 0 * BitTime + 0 * Period + Phase'
    BY <1>7, <2>1 DEF Time
  <2> DEFINE phase == Phase'
  <2>5. phase \in Nat
    BY <1>2, <2>2
  <2> HIDE DEF phase
  <2>6. 0 + 0 + phase = phase
    BY <2>5
  <2>7. QED
    BY <2>2, <2>3, <2>4, <2>6 DEF phase
<1>15. PeerTime' = 1
  <2>1. PeerIndex' = 0
    BY <1>4, <1>12 DEF PeerIndex
  <2>2. QED
    BY <1>2, <1>12, <2>1 DEF PeerTime
<1>16. ~Idle(rx') /\ ~Sampled'
  BY <1>7 DEF Idle, Sampled
<1>17. InStep'
  <2>1. Time(rx', Phase') + 1 >= PeerTime' /\ Time(rx', Phase') + 2 <= PeerTime' + Period
    <3> DEFINE phase == Phase'
               t == Time(rx', Phase')
    <3>1. phase \in 0 .. Period - 1 /\ t = phase
      BY <1>14
    <3> HIDE DEF phase, t
    <3>2. t + 1 >= 1 /\ t + 2 <= 1 + Period
      <4>1. Period \in Nat
        BY <1>2
      <4>2. QED
        BY <3>1, <4>1
    <3>3. QED
      BY <1>15, <3>2 DEF t
  <2>2. QED
    BY <1>2, <1>8, <1>12, <1>16, <2>1 DEF InStep, Period, HalfPeriod
<1>18. Carries'
  <2>1. InFlight'
    BY <1>16 DEF InFlight
  <2>2. \A j \in 1 .. Len(frame') : frame'[j] = Level(arriving'[1], PeerIndex' + j)
    BY <1>9, <1>11, FrameGoesOn DEF Waits
  <2>3. Got' = 0
    BY <1>7 DEF Got
  <2>4. \A k \in 1 .. Got' : rx_buffer'[ByteBits - Got' + k] = arriving'[1][k]
    BY <2>3
  <2>5. QED
    BY <1>8, <1>11, <1>16, <2>1, <2>2, <2>4 DEF Carries
<1>19. QED
  BY <1>13, <1>17, <1>18 DEF LineInv

-----------------------------------------------------------------------------
(* Where the peer is as the receiver samples. *)

\* From the edge the stop bit is sampled at, the peer sends its stop bit, or nothing.
LEMMA StopBit ==
  ASSUME RatesAgree, LineInv, Phase \in 0 .. Period - 1, rx.state = "STOP",
         rx.edges >= Mid \/ (rx.edges = Mid - 1 /\ Phase = Period - 1)
  PROVE  Len(frame) <= 1 /\ PeerLine = 1
<1>1. rx.edges \in 0 .. EdgesPerBit - 1
  BY DEF LineInv, LineTypes, FrameOK, Frame
<1>2. /\ Index(rx) = ByteBits + 1 /\ ~Idle(rx)
  BY DEF Index, Idle
<1>3. /\ ByteBits \in Nat /\ BitTime \in Nat /\ Period \in Nat /\ Mid \in Nat /\ Mid >= 1
      /\ Len(frame) \in Nat /\ Len(frame) <= ByteBits + 2
      /\ frame = <<>> <=> Len(frame) = 0
  BY Rates, LineFacts
<1>4. CASE frame = <<>>
  BY <1>3, <1>4, LineFacts
<1>5. CASE frame # <<>>
  <2> DEFINE t == Time(rx, Phase)
  <2>1. held \in 1 .. PeerBit /\ t + 2 <= PeerTime + Period
    BY <1>2, <1>5 DEF LineInv, LineTypes, InStep
  <2>2. t \in Nat
    BY FrameTimes DEF LineInv, LineTypes
  <2>3. t = (ByteBits + 1) * BitTime + rx.edges * Period + Phase
    BY <1>2 DEF Time
  <2>4. rx.edges * Period + Phase + 1 >= Mid * Period
    <3>1. CASE rx.edges >= Mid
      BY <1>1, <1>3, <3>1, InBit, SMTT(30)
    <3>2. CASE rx.edges = Mid - 1 /\ Phase = Period - 1
      <4>1. (rx.edges + 1) * Period = rx.edges * Period + Period /\ rx.edges * Period \in Nat
        BY <1>1, InBit
      <4>2. rx.edges + 1 = Mid
        BY <1>3, <3>2
      <4>3. QED
        BY <1>3, <3>2, <4>1, <4>2
    <3>3. QED
      BY <3>1, <3>2
  <2>5. rx.edges * Period \in Nat /\ Mid * Period \in Nat /\ (ByteBits + 1) * BitTime \in Nat
    BY <1>1, <1>3, InBit
  <2>6. t + 1 >= (ByteBits + 1) * BitTime + Mid * Period
    BY <2>3, <2>4, <2>5
  <2>7. PeerIndex \in Nat /\ ByteBits + 1 \in 0 .. ByteBits + 1
    BY <1>3 DEF PeerIndex
  <2>8. t + 2 <= PeerIndex * PeerBit + (PeerBit - held) + Period
    BY <2>1 DEF PeerTime
  <2> HIDE DEF t
  <2>9. PeerIndex >= ByteBits + 1
    BY <2>1, <2>2, <2>6, <2>7, <2>8, NotBehind
  <2>10. Len(frame) = 1
    BY <1>3, <1>5, <2>9 DEF PeerIndex
  <2>11. QED
    BY <2>10, LineFacts
<1>6. QED
  BY <1>4, <1>5

\* A bit is sampled while the peer sends it.
LEMMA RightBit ==
  ASSUME RatesAgree, LineInv, Phase = Period - 1, rx.state = "ACTIVE", rx.edges = Mid - 1
  PROVE  PeerLine = arriving[1][rx.bits + 1]
<1>1. rx.edges \in 0 .. EdgesPerBit - 1 /\ rx.bits \in 0 .. ByteBits - 1
  BY DEF LineInv, LineTypes, FrameOK, Frame
<1>2. Index(rx) = rx.bits + 1 /\ ~Idle(rx)
  BY DEF Index, Idle
<1>3. /\ ByteBits \in Nat /\ BitTime \in Nat /\ Period \in Nat /\ Period >= 2
      /\ Mid \in Nat /\ Mid >= 1
      /\ Phase \in 0 .. Period - 1
      /\ Len(frame) \in Nat /\ Len(frame) <= ByteBits + 2
      /\ frame = <<>> <=> Len(frame) = 0
  BY Rates, LineFacts, SMTT(30)
<1> DEFINE t == Time(rx, Phase)
<1>4. t \in Nat /\ (t + 1 >= (ByteBits + 2) * BitTime => rx.state = "STOP")
  BY <1>3, FrameTimes DEF LineInv, LineTypes
<1>5. frame # <<>>
  BY <1>2, <1>4 DEF LineInv, InStep
<1>6. /\ held \in 1 .. PeerBit /\ t + 2 <= PeerTime + Period /\ t + 1 >= PeerTime
  BY <1>2, <1>5 DEF LineInv, LineTypes, InStep
<1>7. t = (rx.bits + 1) * BitTime + rx.edges * Period + Phase
  BY <1>2 DEF Time
<1>8. /\ (rx.edges + 1) * Period = rx.edges * Period + Period /\ rx.edges * Period \in Nat
      /\ Mid * Period \in Nat /\ Mid * Period + Period <= BitTime
  BY <1>1, <1>3, InBit
<1>9. rx.edges + 1 = Mid
  BY <1>3
<1>10. (rx.bits + 1) * BitTime \in Nat
  BY <1>1, <1>3
<1>11. t + 1 = (rx.bits + 1) * BitTime + Mid * Period
  BY <1>3, <1>7, <1>8, <1>9, <1>10, SMTT(30)
<1>12. PeerIndex \in Nat /\ rx.bits + 1 \in 0 .. ByteBits + 1 /\ rx.bits + 1 \in Nat
  BY <1>1, <1>3 DEF PeerIndex
<1>13. /\ t + 2 <= PeerIndex * PeerBit + (PeerBit - held) + Period
       /\ PeerIndex * PeerBit + (PeerBit - held) <= t + 1
  <2>1. PeerTime = PeerIndex * PeerBit + (PeerBit - held)
    BY DEF PeerTime
  <2>2. PeerIndex * PeerBit \in Nat /\ PeerBit \in Nat
    BY <1>12, Rates
  <2>3. QED
    BY <1>3, <1>4, <1>6, <2>1, <2>2
<1>14. t + 1 >= (rx.bits + 1) * BitTime + Mid * Period
       /\ t + 1 < (rx.bits + 1) * BitTime + BitTime
  BY <1>3, <1>8, <1>10, <1>11
<1> HIDE DEF t
<1>15. PeerIndex >= rx.bits + 1
  BY <1>4, <1>6, <1>12, <1>13, <1>14, NotBehind
<1>16. PeerIndex <= rx.bits + 1
  BY <1>4, <1>6, <1>12, <1>13, <1>14, NotAhead
<1>17. PeerIndex + 1 = rx.bits + 2
  BY <1>1, <1>12, <1>15, <1>16
<1>18. frame[1] = Level(arriving[1], PeerIndex + 1)
  BY <1>3, <1>5 DEF LineInv, Carries
<1>19. Level(arriving[1], rx.bits + 2) = arriving[1][rx.bits + 1]
  BY <1>1, <1>3 DEF Level
<1>20. QED
  BY <1>5, <1>17, <1>18, <1>19, LineFacts

\* The end of a frame.
LEMMA LineEnds ==
  ASSUME RatesAgree, LineInv, Receives, rx.state = "STOP", LastEdge(rx)
  PROVE  LineInv'
<1>1. /\ Phase = Period - 1 /\ Phase \in 0 .. Period - 1 /\ rx.edges = EdgesPerBit - 1
  BY DEF Receives, LastEdge
<1>2. /\ Mid \in Nat /\ Mid >= 1 /\ EdgesPerBit \in Nat /\ Mid + 1 <= EdgesPerBit
      /\ Period \in Nat /\ Period >= 2
  BY Rates
<1>3. rx.edges >= Mid /\ rx.edges # Mid - 1 /\ Phase # 0
  BY <1>1, <1>2
<1>4. Len(frame) <= 1
  BY <1>1, <1>3, StopBit
<1>5. ~rx_data_valid
  BY <1>3 DEF LineInv, InStep
<1>6. ~InFlight
  BY <1>3, <1>5 DEF InFlight, Sampled, Idle
<1>7. ~rx_data_valid'
  BY <1>3, ReceiverTypes
<1>8. Idle(rx')
  <2>1. rx' = FrameNxt(rx, PeerLine = 0) /\ rx \in Frame
    BY ReceiverTypes DEF LineInv, LineTypes, FrameOK
  <2>2. rx' = [rx EXCEPT !.state = "IDLE", !.edges = 0]
    BY <2>1 DEF FrameNxt
  <2>3. QED
    BY <2>1, <2>2 DEF Frame, Idle
<1>9. QED
  BY <1>4, <1>6, <1>7, <1>8, IdleAfter

\* How far a frame under way is sampled, and what is in the buffer then.
LEMMA Sampling ==
  ASSUME LineInv, Receives, ~Idle(rx), ~(rx.state = "STOP" /\ LastEdge(rx))
  PROVE  /\ Sampled' <=> Sampled \/ rx_data_valid'
         /\ rx_data_valid' => rx'.state = "STOP" /\ rx'.edges = Mid /\ Phase' = 0 /\ ~Sampled
         /\ ~Sampled' /\ ~(rx.state = "ACTIVE" /\ MidEdge(rx)) => Got' = 0 \/ (Got' = Got /\ rx_buffer' = rx_buffer)
         /\ rx.state = "ACTIVE" /\ MidEdge(rx) =>
              Got = rx.bits /\ Got' = rx.bits + 1 /\ rx_buffer' = ShiftIn(rx_buffer, PeerLine)
<1>1. /\ rx \in Frame /\ rx.state \in {"START", "ACTIVE", "STOP"}
      /\ rx.bits \in 0 .. ByteBits - 1 /\ rx.edges \in 0 .. EdgesPerBit - 1
      /\ rx.state # "ACTIVE" => rx.bits = 0
  BY DEF LineInv, LineTypes, FrameOK, Frame, Idle
<1>2. /\ Mid \in Nat /\ Mid >= 1 /\ Mid + 1 <= EdgesPerBit /\ EdgesPerBit \in Nat
      /\ ByteBits \in Nat /\ ByteBits >= 1 /\ Period \in Nat
  BY Rates
<1>3. rx' = FrameNxt(rx, PeerLine = 0)
      /\ (rx_data_valid' <=> rx.state = "STOP" /\ SerialEdge /\ rx.edges = Mid - 1)
  BY ReceiverTypes
<1>4. /\ rx.state = "START" => rx_buffer' = Zero
      /\ rx.state = "ACTIVE" /\ MidEdge(rx) => rx_buffer' = ShiftIn(rx_buffer, PeerLine)
      /\ rx.state # "START" /\ ~(rx.state = "ACTIVE" /\ MidEdge(rx)) => rx_buffer' = rx_buffer
  BY DEF Receives, Receiver
<1>5. MidEdge(rx) <=> SerialEdge /\ rx.edges = Mid - 1
  BY DEF MidEdge, Mid
<1>6. LastEdge(rx) <=> SerialEdge /\ rx.edges = EdgesPerBit - 1
  BY DEF LastEdge
<1>7. CASE ~LastEdge(rx) /\ ~SerialEdge
  <2>1. rx' = rx
    BY <1>1, <1>3, <1>7 DEF FrameNxt
  <2>2. ~rx_data_valid' /\ ~MidEdge(rx)
    BY <1>3, <1>5, <1>7
  <2>3. (Sampled' <=> Sampled) /\ Got' = Got
    BY <2>1 DEF Sampled, Got
  <2>4. rx.state = "START" => Got' = 0
    BY <2>1 DEF Got
  <2>5. rx.state # "START" => rx_buffer' = rx_buffer
    BY <1>4, <2>2
  <2>6. Got' = 0 \/ (Got' = Got /\ rx_buffer' = rx_buffer)
    BY <2>3, <2>4, <2>5
  <2>7. QED
    BY <2>2, <2>3, <2>6
<1>8. CASE ~LastEdge(rx) /\ SerialEdge
  <2>1. rx' = [rx EXCEPT !.edges = @ + 1]
    BY <1>1, <1>3, <1>8 DEF FrameNxt
  <2>2. rx'.state = rx.state /\ rx'.bits = rx.bits /\ rx'.edges = rx.edges + 1
    BY <1>1, <2>1 DEF Frame
  <2>3. rx.edges + 1 = Mid <=> rx.edges = Mid - 1
    BY <1>1, <1>2
  <2>4. rx.edges + 1 >= Mid <=> rx.edges >= Mid \/ rx.edges = Mid - 1
    BY <1>1, <1>2
  <2>5. rx.edges = Mid - 1 => ~(rx.edges >= Mid) /\ rx.edges + 1 = Mid
    BY <1>1, <1>2
  <2>6. Sampled' <=> rx.state = "STOP" /\ rx.edges + 1 >= Mid
    BY <2>2 DEF Sampled, Mid
  <2>7. Sampled <=> rx.state = "STOP" /\ rx.edges >= Mid
    BY DEF Sampled
  <2>8. rx_data_valid' <=> rx.state = "STOP" /\ rx.edges = Mid - 1
    BY <1>3, <1>8
  <2>9. Phase' = 0
    BY <1>8 DEF Receives, Ticked
  <2>10. rx_data_valid' => rx'.state = "STOP" /\ rx'.edges = Mid /\ Phase' = 0 /\ ~Sampled
    BY <2>2, <2>5, <2>7, <2>8, <2>9
  <2>11. CASE rx.state = "START"
    <3>1. Got' = 0
      BY <2>2, <2>11 DEF Got
    <3>2. rx.state # "STOP" /\ rx.state # "ACTIVE"
      BY <2>11
    <3>3. QED
      BY <2>6, <2>7, <2>8, <2>10, <3>1, <3>2
  <2>12. CASE rx.state = "STOP"
    <3>1. Got' = Got
      BY <2>2, <2>12 DEF Got
    <3>2. QED
      BY <1>4, <2>4, <2>6, <2>7, <2>8, <2>10, <2>12, <3>1
  <2>13. CASE rx.state = "ACTIVE" /\ rx.edges = Mid - 1
    <3>1. Got = rx.bits
      BY <1>1, <2>5, <2>13 DEF Got
    <3>2. Got' = rx.bits + 1
      BY <1>2, <2>2, <2>4, <2>13 DEF Got, Mid
    <3>3. MidEdge(rx)
      BY <1>5, <1>8, <2>13
    <3>4. QED
      BY <1>4, <2>4, <2>6, <2>7, <2>8, <2>10, <2>13, <3>1, <3>2, <3>3
  <2>14. CASE rx.state = "ACTIVE" /\ rx.edges # Mid - 1
    <3>1. Got' = Got
      BY <2>2, <2>4, <2>14 DEF Got, Mid
    <3>2. ~MidEdge(rx)
      BY <1>5, <2>14
    <3>3. QED
      BY <1>4, <2>4, <2>6, <2>7, <2>8, <2>10, <2>14, <3>1, <3>2
  <2>15. QED
    BY <1>1, <2>11, <2>12, <2>13, <2>14
<1>9. CASE LastEdge(rx)
  <2>1. rx.state \in {"START", "ACTIVE"} /\ rx.edges = EdgesPerBit - 1
    BY <1>1, <1>6, <1>9
  <2>2. rx.edges >= Mid /\ rx.edges # Mid - 1 /\ ~(0 >= Mid)
    BY <1>2, <2>1
  <2>3. ~MidEdge(rx) /\ ~rx_data_valid' /\ ~Sampled
    BY <1>3, <1>5, <2>1, <2>2 DEF Sampled
  <2>4. CASE rx.state = "START"
    <3>1. rx' = [rx EXCEPT !.state = "ACTIVE", !.edges = 0]
      BY <1>3, <1>9, <2>4 DEF FrameNxt
    <3>2. rx'.state = "ACTIVE" /\ rx'.bits = 0 /\ rx'.edges = 0
      BY <1>1, <2>4, <3>1 DEF Frame
    <3>3. ~Sampled'
      BY <3>2 DEF Sampled
    <3>4. Got' = 0
      BY <2>2, <3>2 DEF Got, Mid
    <3>5. rx.state # "ACTIVE"
      BY <2>4
    <3>6. QED
      BY <2>3, <3>3, <3>4, <3>5
  <2>5. CASE rx.state = "ACTIVE" /\ LastBit(rx)
    <3>1. rx' = [state |-> "STOP", bits |-> 0, edges |-> 0]
      BY <1>3, <1>9, <2>5 DEF FrameNxt
    <3>2. rx'.state = "STOP" /\ rx'.edges = 0
      BY <3>1
    <3>3. ~Sampled'
      BY <2>2, <3>2 DEF Sampled, Mid
    <3>4. Got' = ByteBits /\ Got = rx.bits + 1
      BY <2>2, <2>5, <3>2 DEF Got
    <3>5. rx.bits + 1 = ByteBits
      BY <1>1, <1>2, <2>5 DEF LastBit
    <3>6. QED
      BY <1>4, <2>3, <2>5, <3>3, <3>4, <3>5
  <2>6. CASE rx.state = "ACTIVE" /\ ~LastBit(rx)
    <3>1. rx' = [rx EXCEPT !.bits = @ + 1, !.edges = 0]
      BY <1>3, <1>9, <2>6 DEF FrameNxt
    <3>2. rx'.state = "ACTIVE" /\ rx'.bits = rx.bits + 1 /\ rx'.edges = 0
      BY <1>1, <2>6, <3>1 DEF Frame
    <3>3. ~Sampled'
      BY <3>2 DEF Sampled
    <3>4. Got' = rx.bits + 1 + 0 /\ Got = rx.bits + 1
      BY <2>2, <2>6, <3>2 DEF Got, Mid
    <3>5. Got' = Got
      BY <1>1, <3>4
    <3>6. QED
      BY <1>4, <2>3, <2>6, <3>3, <3>5
  <2>7. QED
    BY <2>1, <2>4, <2>5, <2>6
<1>10. QED
  BY <1>7, <1>8, <1>9

\* What is sampled is the byte in flight.
LEMMA BufferCarries ==
  ASSUME RatesAgree, LineInv, Receives, ~Idle(rx), ~(rx.state = "STOP" /\ LastEdge(rx)),
         ~Sampled'
  PROVE  \A k \in 1 .. Got' : rx_buffer'[ByteBits - Got' + k] = arriving[1][k]
<1>1. ~Sampled
  BY Sampling
<1>2. \A k \in 1 .. Got : rx_buffer[ByteBits - Got + k] = arriving[1][k]
  BY <1>1 DEF LineInv, Carries
<1>3. CASE ~(rx.state = "ACTIVE" /\ MidEdge(rx))
  <2>1. CASE Got' = 0
    BY <2>1
  <2>2. CASE Got' = Got /\ rx_buffer' = rx_buffer
    BY <1>2, <2>2
  <2>3. QED
    BY <1>3, <2>1, <2>2, Sampling
<1>4. CASE rx.state = "ACTIVE" /\ MidEdge(rx)
  <2>1. Got = rx.bits /\ Got' = rx.bits + 1 /\ rx_buffer' = ShiftIn(rx_buffer, PeerLine)
    BY <1>4, Sampling
  <2>2. rx.bits \in 0 .. ByteBits - 1 /\ rx_buffer \in Bytes
    BY DEF LineInv, LineTypes, FrameOK, Frame
  <2>3. PeerLine = arriving[1][rx.bits + 1]
    <3>1. Phase = Period - 1 /\ rx.edges = Mid - 1
      BY <1>4 DEF Receives, MidEdge, Mid
    <3>2. QED
      BY <1>4, <3>1, RightBit
  <2>4. PeerLine \in Bit /\ ByteBits \in Nat
    BY LineFacts DEF Bit
  <2>5. /\ \A k \in 1 .. ByteBits - 1 : rx_buffer'[k] = rx_buffer[k + 1]
        /\ rx_buffer'[ByteBits] = PeerLine
    BY <2>1, <2>2, <2>4, Shifted
  <2> SUFFICES ASSUME NEW k \in 1 .. rx.bits + 1
               PROVE  rx_buffer'[ByteBits - (rx.bits + 1) + k] = arriving[1][k]
    BY <2>1
  <2>6. CASE k = rx.bits + 1
    <3>1. ByteBits - (rx.bits + 1) + k = ByteBits
      BY <2>2, <2>4, <2>6
    <3>2. QED
      BY <2>3, <2>5, <2>6, <3>1
  <2>7. CASE k # rx.bits + 1
    <3> DEFINE i == ByteBits - (rx.bits + 1) + k
    <3>1. i \in 1 .. ByteBits - 1 /\ i + 1 = ByteBits - rx.bits + k /\ k \in 1 .. rx.bits
      BY <2>2, <2>4, <2>7
    <3> HIDE DEF i
    <3>2. rx_buffer'[i] = rx_buffer[i + 1]
      BY <2>5, <3>1
    <3>3. rx_buffer[ByteBits - rx.bits + k] = arriving[1][k]
      BY <1>2, <2>1, <3>1
    <3>4. rx_buffer'[i] = arriving[1][k]
      BY <3>1, <3>2, <3>3
    <3>5. QED
      BY <3>4 DEF i
  <2>8. QED
    BY <2>6, <2>7
<1>5. QED
  BY <1>3, <1>4

\* In the middle of a frame.
LEMMA LineGoes ==
  ASSUME RatesAgree, LineInv, Receives, ~Idle(rx), ~(rx.state = "STOP" /\ LastEdge(rx))
  PROVE  LineInv'
<1> DEFINE t == Time(rx, Phase)
           after == Time(rx', Phase')
<1>1. /\ ByteBits \in Nat /\ PeerBit \in Nat /\ BitTime \in Nat /\ Period \in Nat
      /\ Len(frame) \in Nat
  BY Rates, LineFacts
<1>2. Phase \in 0 .. Period - 1 /\ FrameOK(rx) /\ (SerialEdge <=> Phase = Period - 1)
  BY DEF LineInv, LineTypes, Receives
<1>3. t \in Nat /\ (t + 1 >= (ByteBits + 2) * BitTime => rx.state = "STOP" /\ LastEdge(rx))
  BY <1>2, FrameTimes DEF LastEdge
<1>4. frame # <<>> /\ t + 1 >= PeerTime /\ t + 2 <= PeerTime + Period /\ held \in 1 .. PeerBit
  <2>1. frame # <<>>
    BY <1>3 DEF LineInv, InStep
  <2>2. QED
    BY <2>1 DEF LineInv, LineTypes, InStep
<1>5. ~Idle(rx') /\ after = t + 1
  <2>1. rx' = FrameNxt(rx, PeerLine = 0) /\ Phase' = Ticked(Phase)
    BY ReceiverTypes DEF Receives
  <2>2. (PeerLine = 0) \in BOOLEAN
    OBVIOUS
  <2> DEFINE begins == PeerLine = 0
  <2>3. begins \in BOOLEAN /\ rx' = FrameNxt(rx, begins)
    BY <2>1
  <2> HIDE DEF begins
  <2>4. QED
    BY <1>2, <2>1, <2>3, FrameTicks
<1>6. Waits
  BY <1>4 DEF Receives, Begins, BeginsFrame
<1>7. rx_data_valid => Sampled
  <2>1. Mid \in Nat
    BY Rates
  <2>2. QED
    BY <2>1 DEF LineInv, InStep, Sampled
<1>8. ~Sampled => InFlight /\ Len(arriving) = 1 /\ arriving' = arriving
  BY <1>6, <1>7 DEF LineInv, Carries, InFlight, Waits
<1>9. Sampled => arriving' = <<>>
  <2>1. CASE rx_data_valid
    <3>1. arriving = <<arriving[1]>> /\ arriving' = Tail(arriving)
      BY <1>6, <2>1, LineFacts DEF InFlight, Waits
    <3>2. QED
      BY <3>1
  <2>2. CASE ~rx_data_valid
    BY <1>6, <2>2 DEF LineInv, Carries, InFlight, Waits
  <2>3. QED
    BY <2>1, <2>2
<1>10. arriving' \in Seq(PeerBytes)
  <2>1. arriving \in Seq(PeerBytes) /\ <<>> \in Seq(PeerBytes)
    BY DEF LineInv, LineTypes
  <2>2. QED
    BY <1>8, <1>9, <2>1
<1>11. Sampled => Len(frame) <= 1
  <2> SUFFICES ASSUME Sampled PROVE Len(frame) <= 1
    OBVIOUS
  <2>1. rx.state = "STOP" /\ rx.edges >= Mid
    BY DEF Sampled
  <2>2. Phase \in 0 .. Period - 1
    BY <1>2
  <2>3. QED
    BY <2>1, <2>2, StopBit
<1>12. rx_data_valid' => ~Sampled /\ rx'.state = "STOP" /\ rx'.edges = Mid /\ Phase' = 0
  BY Sampling
<1>13. Sampled' <=> Sampled \/ rx_data_valid'
  BY Sampling
<1>14. rx_error' = FALSE
  <2>1. CASE rx_data_valid'
    <3>1. rx.state = "STOP" /\ SerialEdge /\ rx.edges = Mid - 1
      BY <2>1, ReceiverTypes
    <3>2. PeerLine = 1
      BY <1>2, <3>1, StopBit
    <3>3. rx_error' \in BOOLEAN
      BY <2>1, <3>1 DEF Receives, Receiver, MidEdge, Mid
    <3>4. QED
      BY <2>1, <3>2, <3>3, ReceiverTypes
  <2>2. QED
    BY <2>1, ReceiverTypes
<1>15. /\ frame' \in Seq(Bit) /\ Len(frame') \in Nat /\ Len(frame') <= Len(frame)
       /\ frame' = <<>> <=> Len(frame') = 0
       /\ frame' = <<>> => held' = 0
       /\ frame' # <<>> => held' \in 1 .. PeerBit
       /\ \A j \in 1 .. Len(frame') : frame'[j] = Level(arriving'[1], PeerIndex' + j)
  BY <1>6, <1>8, <1>11, FrameGoesOn DEF Waits
<1>16. LineTypes'
  <2>1. FrameOK(rx)' /\ rx_buffer' \in Bytes /\ rx_data_valid' \in BOOLEAN
    BY ReceiverTypes
  <2>2. Len(frame') <= ByteBits + 2
    <3>1. Len(frame) <= ByteBits + 2
      BY LineFacts
    <3>2. QED
      BY <1>1, <1>15, <3>1
  <2>3. QED
    BY <1>10, <1>14, <1>15, <2>1, <2>2 DEF LineTypes
<1>17. InStep'
  <2>1. ~Idle(rx)' /\ Time(rx, Phase)' = t + 1
    BY <1>5 DEF Idle, Time, Index, BitTime, Period, HalfPeriod
  <2>2. PeerTime \in Nat
    <3>1. PeerIndex \in Nat
      BY LineFacts
    <3>2. PeerIndex * PeerBit \in Nat
      BY <1>1, <3>1
    <3>3. QED
      BY <1>1, <1>4, <3>2 DEF PeerTime
  <2>3. frame' # <<>> => Time(rx, Phase)' + 1 >= PeerTime' /\ Time(rx, Phase)' + 2 <= PeerTime' + Period
    <3> SUFFICES ASSUME frame' # <<>>
                 PROVE  Time(rx, Phase)' + 1 >= PeerTime' /\ Time(rx, Phase)' + 2 <= PeerTime' + Period
      OBVIOUS
    <3>1. PeerTime' = PeerTime + 1
      BY <1>6, LineWaits DEF LineInv, Waits
    <3> DEFINE p == PeerTime
               last == PeerTime'
               now == Time(rx, Phase)'
    <3>2. p \in Nat /\ last = p + 1 /\ now = t + 1 /\ t \in Nat /\ t + 1 >= p /\ t + 2 <= p + Period
      BY <1>3, <1>4, <2>1, <2>2, <3>1
    <3> HIDE DEF p, last, now, t
    <3>3. now + 1 >= last /\ now + 2 <= last + Period
      BY <1>1, <3>2
    <3>4. QED
      BY <3>3 DEF last, now
  <2>4. frame' = <<>> => Time(rx, Phase)' + 1 >= (ByteBits + 2) * BitTime
    <3> SUFFICES ASSUME frame' = <<>>
                 PROVE  Time(rx, Phase)' + 1 >= (ByteBits + 2) * BitTime
      OBVIOUS
    <3>1. PeerTime + 1 = (ByteBits + 2) * PeerBit
      BY <1>4, <1>6, LineWaits DEF LineInv, Waits
    <3>2. (ByteBits + 2) * BitTime <= (ByteBits + 2) * PeerBit
          /\ (ByteBits + 2) * BitTime \in Nat /\ (ByteBits + 2) * PeerBit \in Nat
      BY <1>1, Drift
    <3> DEFINE now == Time(rx, Phase)'
    <3>3. now = t + 1 /\ t \in Nat /\ t + 1 >= PeerTime
      BY <1>3, <1>4, <2>1
    <3> HIDE DEF now, t
    <3>4. now + 1 >= (ByteBits + 2) * BitTime
      BY <2>2, <3>1, <3>2, <3>3
    <3>5. QED
      BY <3>4 DEF now
  <2>5. rx_data_valid' => rx'.state = "STOP" /\ rx'.edges = Mid /\ Phase' = 0
    BY <1>12
  <2>6. QED
    BY <2>1, <2>3, <2>4, <2>5 DEF InStep, BitTime, Period, HalfPeriod, Mid
<1>18. Carries'
  <2>1. InFlight' <=> ~Sampled
    BY <1>5, <1>12, <1>13 DEF InFlight, Idle
  <2>2. IF InFlight' THEN Len(arriving') = 1 ELSE arriving' = <<>>
    BY <1>8, <1>9, <2>1
  <2>3. ~Idle(rx)' /\ ~Sampled' => \A k \in 1 .. Got' : rx_buffer'[ByteBits - Got' + k] = arriving'[1][k]
    BY <1>8, <1>13, BufferCarries
  <2>4. rx_data_valid' => rx_data' = arriving'[1]
    <3> SUFFICES ASSUME rx_data_valid' PROVE rx_data' = arriving'[1]
      OBVIOUS
    <3>1. rx_data' = rx_buffer /\ arriving' = arriving /\ InFlight /\ rx.state = "STOP"
      BY <1>8, <1>12, ReceiverTypes
    <3>2. Got = ByteBits
      BY <3>1 DEF Got
    <3>3. \A k \in 1 .. ByteBits : rx_buffer[ByteBits - ByteBits + k] = arriving[1][k]
      BY <1>12, <3>1, <3>2 DEF LineInv, Carries, Idle
    <3>4. \A k \in 1 .. ByteBits : rx_buffer[k] = arriving[1][k]
      <4>1. \A k \in 1 .. ByteBits : ByteBits - ByteBits + k = k
        BY <1>1
      <4>2. QED
        BY <3>3, <4>1
    <3>5. rx_buffer \in [1 .. ByteBits -> Bit] /\ arriving[1] \in [1 .. ByteBits -> Bit]
      BY <3>1, LineFacts DEF LineInv, LineTypes, Bytes
    <3>6. rx_buffer = arriving[1]
      <4> DEFINE byte == arriving[1]
      <4>1. /\ rx_buffer \in [1 .. ByteBits -> Bit] /\ byte \in [1 .. ByteBits -> Bit]
            /\ \A k \in 1 .. ByteBits : rx_buffer[k] = byte[k]
        BY <3>4, <3>5
      <4> HIDE DEF byte
      <4>2. rx_buffer = [k \in 1 .. ByteBits |-> rx_buffer[k]]
            /\ byte = [k \in 1 .. ByteBits |-> byte[k]]
        BY <4>1
      <4>3. rx_buffer = byte
        BY <4>1, <4>2
      <4>4. QED
        BY <4>3 DEF byte
    <3>7. QED
      BY <3>1, <3>6
  <2>5. QED
    BY <1>15, <2>2, <2>3, <2>4 DEF Carries
<1>19. QED
  BY <1>16, <1>17, <1>18 DEF LineInv

\* The receiver and the line together.
LEMMA LineNext ==
  ASSUME RatesAgree, LineInv, Receives
  PROVE  LineInv'
<1>1. CASE Idle(rx) /\ Len(frame) # ByteBits + 2
  BY <1>1, LineIsIdle
<1>2. CASE Idle(rx) /\ Len(frame) = ByteBits + 2
  BY <1>2, LineStarts
<1>3. CASE ~Idle(rx) /\ rx.state = "STOP" /\ LastEdge(rx)
  BY <1>3, LineEnds
<1>4. CASE ~Idle(rx) /\ ~(rx.state = "STOP" /\ LastEdge(rx))
  BY <1>4, LineGoes
<1>5. QED
  BY <1>1, <1>2, <1>3, <1>4

-----------------------------------------------------------------------------
(* The software. *)

\* The accesses of a call, from the last back.
Access(n) ==
  CASE n = 1 -> LoadFrom("UART_RDR")
    [] n = 2 -> PollOf("rxne")
    [] n = 3 -> PollOf("txact")
    [] n = 4 -> StoreTo("UART_TDR", Prompt)
    [] n = 5 -> [op |-> "store_back", reg |-> "UART_CR", field |-> "en", data |-> TRUE]
    [] n = 6 -> LoadFrom("UART_CR")
    [] n = 7 -> StoreTo("UART_CDR", ClockDivider)

AnyAccess == {Access(n) : n \in 1 .. 7}

\* Accesses of a call, from the n-th last.
Part(s, n) == s \in Seq(AnyAccess) /\ \A k \in 1 .. Len(s) : s[k] = Access(n + 1 - k)

\* The rest of a call.
Rest(s) == Part(s, Len(s)) /\ Len(s) <= 7

LEMMA Chained ==
  ASSUME NEW s, NEW t, NEW n \in Nat, Part(s, n), Part(t, n - Len(s))
  PROVE  Part(s \o t, n) /\ Len(s \o t) = Len(s) + Len(t)
<1>1. /\ s \in Seq(AnyAccess) /\ t \in Seq(AnyAccess)
      /\ \A k \in 1 .. Len(s) : s[k] = Access(n + 1 - k)
      /\ \A k \in 1 .. Len(t) : t[k] = Access(n - Len(s) + 1 - k)
  BY DEF Part
<1>2. Len(s) \in Nat /\ Len(t) \in Nat
  BY <1>1, LenProperties
<1>3. /\ s \o t \in Seq(AnyAccess) /\ Len(s \o t) = Len(s) + Len(t)
      /\ \A k \in 1 .. Len(s) + Len(t) : (s \o t)[k] = IF k <= Len(s) THEN s[k] ELSE t[k - Len(s)]
  BY <1>1, ConcatProperties
<1>4. ASSUME NEW k \in 1 .. Len(s \o t)
      PROVE  (s \o t)[k] = Access(n + 1 - k)
  <2>1. CASE k <= Len(s)
    BY <1>1, <1>2, <1>3, <2>1
  <2>2. CASE ~(k <= Len(s))
    <3>1. k - Len(s) \in 1 .. Len(t) /\ n - Len(s) + 1 - (k - Len(s)) = n + 1 - k
      BY <1>2, <1>3, <2>2
    <3>2. t[k - Len(s)] = Access(n - Len(s) + 1 - (k - Len(s)))
      BY <1>1, <3>1
    <3>3. (s \o t)[k] = t[k - Len(s)]
      BY <1>2, <1>3, <2>2
    <3>4. QED
      BY <3>1, <3>2, <3>3
  <2>3. QED
    BY <2>1, <2>2
<1>5. QED
  BY <1>3, <1>4 DEF Part

LEMMA TheCalls ==
  /\ Rest(Read) /\ Len(Read) = 2
  /\ Rest(ReadLine) /\ Len(ReadLine) = 4
  /\ Rest(LoadCodeThroughUart) /\ Len(LoadCodeThroughUart) = 7
<1> DEFINE a == Access(7)  b == Access(6)  c == Access(5)  d == Access(4)
           e == Access(3)  f == Access(2)  g == Access(1)
<1>1. {a, b, c, d, e, f, g} \subseteq AnyAccess
  BY DEF AnyAccess
<1>2. /\ Construct = <<a>> \o <<b, c>>
      /\ Write(Prompt) = <<d, e>> /\ Read = <<f, g>>
  <2>1. StoreTo("UART_CDR", ClockDivider) = a /\ Update("UART_CR", "en", TRUE) = <<b, c>>
    BY DEF Access, Update
  <2>2. Construct = <<a>> \o <<b, c>>
    BY <2>1 DEF Construct
  <2>3. Write(Prompt) = <<d, e>>
    BY DEF Access, Write
  <2>4. Read = <<f, g>>
    BY DEF Access, Read
  <2>5. QED
    BY <2>2, <2>3, <2>4
<1>3. Part(<<a>>, 7) /\ Len(<<a>>) = 1
  <2> HIDE DEF a
  <2>1. <<a>> \in Seq(AnyAccess) /\ Len(<<a>>) = 1 /\ <<a>>[1] = a
    BY <1>1
  <2>2. \A k \in 1 .. Len(<<a>>) : <<a>>[k] = Access(7 + 1 - k)
    <3> SUFFICES ASSUME NEW k \in 1 .. 1 PROVE <<a>>[k] = Access(7 + 1 - k)
      BY <2>1
    <3>1. k = 1 /\ 7 + 1 - k = 7
      OBVIOUS
    <3>2. QED
      BY <2>1, <3>1 DEF a
  <2>3. QED
    BY <2>1, <2>2 DEF Part
<1> DEFINE Pair(x, y, n) == /\ Part(<<x, y>>, n) /\ Len(<<x, y>>) = 2
<1>4. ASSUME NEW x \in AnyAccess, NEW y \in AnyAccess, NEW n \in 2 .. 7,
             x = Access(n), y = Access(n - 1)
      PROVE  Pair(x, y, n)
  <2>1. <<x, y>> \in Seq(AnyAccess) /\ Len(<<x, y>>) = 2 /\ <<x, y>>[1] = x /\ <<x, y>>[2] = y
    OBVIOUS
  <2>2. \A k \in 1 .. Len(<<x, y>>) : <<x, y>>[k] = Access(n + 1 - k)
    <3> SUFFICES ASSUME NEW k \in 1 .. 2 PROVE <<x, y>>[k] = Access(n + 1 - k)
      BY <2>1
    <3>1. (k = 1 /\ n + 1 - k = n) \/ (k = 2 /\ n + 1 - k = n - 1)
      OBVIOUS
    <3>2. QED
      BY <1>4, <2>1, <3>1
  <2>3. QED
    BY <2>1, <2>2 DEF Part
<1>5. Pair(b, c, 6) /\ Pair(d, e, 4) /\ Pair(f, g, 2)
  <2>1. Pair(b, c, 6)
    BY <1>1, <1>4
  <2>2. Pair(d, e, 4)
    BY <1>1, <1>4
  <2>3. Pair(f, g, 2)
    BY <1>1, <1>4
  <2>4. QED
    BY <2>1, <2>2, <2>3
<1> HIDE DEF a, b, c, d, e, f, g
<1>6. Part(Read, 2) /\ Len(Read) = 2
  BY <1>2, <1>5
<1>7. Part(Write(Prompt), 4) /\ Len(Write(Prompt)) = 2
  BY <1>2, <1>5
<1>8. Part(Construct, 7) /\ Len(Construct) = 3
  <2>1. Part(<<b, c>>, 7 - Len(<<a>>)) /\ Len(<<b, c>>) = 2
    BY <1>3, <1>5
  <2>2. Part(<<a>> \o <<b, c>>, 7) /\ Len(<<a>> \o <<b, c>>) = Len(<<a>>) + Len(<<b, c>>)
    BY <1>3, <2>1, Chained
  <2>3. QED
    BY <1>2, <1>3, <2>1, <2>2
<1>9. Part(ReadLine, 4) /\ Len(ReadLine) = 4
  <2>1. Part(Read, 4 - Len(Write(Prompt)))
    BY <1>6, <1>7
  <2>2. Part(Write(Prompt) \o Read, 4) /\ Len(Write(Prompt) \o Read) = Len(Write(Prompt)) + Len(Read)
    BY <1>7, <2>1, Chained
  <2>3. QED
    BY <1>6, <1>7, <2>2 DEF ReadLine
<1>10. Part(LoadCodeThroughUart, 7) /\ Len(LoadCodeThroughUart) = 7
  <2>1. Part(Write(Prompt), 7 - Len(Construct))
    BY <1>7, <1>8
  <2>2. /\ Part(Construct \o Write(Prompt), 7)
        /\ Len(Construct \o Write(Prompt)) = Len(Construct) + Len(Write(Prompt))
    BY <1>8, <2>1, Chained
  <2>3. Part(Read, 7 - Len(Construct \o Write(Prompt)))
    BY <1>6, <1>7, <1>8, <2>2
  <2>4. /\ Part((Construct \o Write(Prompt)) \o Read, 7)
        /\ Len((Construct \o Write(Prompt)) \o Read) = Len(Construct \o Write(Prompt)) + Len(Read)
    BY <2>2, <2>3, Chained
  <2>5. QED
    BY <1>6, <1>7, <1>8, <2>2, <2>4 DEF LoadCodeThroughUart
<1>11. QED
  BY <1>6, <1>9, <1>10 DEF Rest

\* The next access, and the rest without it.
LEMMA Turn ==
  ASSUME Rest(todo), todo # <<>>
  PROVE  /\ Len(todo) \in 1 .. 7 /\ Head(todo) = Access(Len(todo))
         /\ Rest(Tail(todo)) /\ Len(Tail(todo)) = Len(todo) - 1
         /\ Tail(todo) = <<>> <=> Len(todo) = 1
<1> DEFINE n == Len(todo)
<1>1. /\ todo \in Seq(AnyAccess) /\ n <= 7 /\ \A k \in 1 .. n : todo[k] = Access(n + 1 - k)
  BY DEF Rest, Part
<1>2. n \in 1 .. 7
  <2>1. n \in Nat /\ n # 0 /\ n <= 7
    BY <1>1, LenProperties, EmptySeq
  <2> HIDE DEF n
  <2>2. QED
    BY <2>1
<1>3. /\ Tail(todo) \in Seq(AnyAccess) /\ Len(Tail(todo)) = n - 1 /\ Head(todo) = todo[1]
      /\ \A k \in 1 .. n - 1 : Tail(todo)[k] = todo[k + 1]
  BY <1>1, HeadTailProperties
<1> HIDE DEF n
<1>4. Head(todo) = Access(n)
  <2>1. 1 \in 1 .. n /\ n + 1 - 1 = n
    BY <1>2
  <2>2. QED
    BY <1>1, <1>3, <2>1
<1>5. ASSUME NEW k \in 1 .. n - 1
      PROVE  Tail(todo)[k] = Access((n - 1) + 1 - k)
  <2>1. k + 1 \in 1 .. n /\ n + 1 - (k + 1) = (n - 1) + 1 - k
    BY <1>2
  <2>2. todo[k + 1] = Access(n + 1 - (k + 1))
    BY <1>1, <2>1
  <2>3. QED
    BY <1>3, <2>1, <2>2
<1>6. Rest(Tail(todo))
  <2>1. n - 1 <= 7
    BY <1>2
  <2>2. QED
    BY <1>3, <1>5, <2>1 DEF Rest, Part
<1>7. Tail(todo) = <<>> <=> n = 1
  <2>1. Tail(todo) = <<>> <=> n - 1 = 0
    BY <1>3, EmptySeq
  <2>2. QED
    BY <1>2, <2>1
<1>8. QED
  BY <1>2, <1>3, <1>4, <1>6, <1>7 DEF n


LEMMA Accesses ==
  /\ Access(1).op = "load" /\ Access(1).reg = "UART_RDR"
  /\ Access(2).op = "poll" /\ Access(2).reg = "rxne"
  /\ Access(3).op = "poll" /\ Access(3).reg = "txact"
  /\ Access(4).op = "store" /\ Access(4).reg = "UART_TDR" /\ Access(4).data = Prompt
  /\ Access(5).op = "store_back" /\ Access(5).reg = "UART_CR"
  /\ Access(5).field = "en" /\ Access(5).data = TRUE
  /\ Access(6).op = "load" /\ Access(6).reg = "UART_CR"
  /\ Access(7).op = "store" /\ Access(7).reg = "UART_CDR" /\ Access(7).data = ClockDivider
<1>1. Access(1) = LoadFrom("UART_RDR") /\ Access(2) = PollOf("rxne") /\ Access(3) = PollOf("txact")
  BY DEF Access
<1>2. Access(4) = StoreTo("UART_TDR", Prompt) /\ Access(6) = LoadFrom("UART_CR")
  BY DEF Access
<1>3. /\ Access(5) = [op |-> "store_back", reg |-> "UART_CR", field |-> "en", data |-> TRUE]
      /\ Access(7) = StoreTo("UART_CDR", ClockDivider)
  BY DEF Access
<1>4. QED
  BY <1>1, <1>2, <1>3 DEF LoadFrom, PollOf, StoreTo

\* What an access of a call does on the bus, and whether it has to be made again.
LEMMA OnTheBus ==
  ASSUME Rest(todo), todo # <<>>,
         NEW access, access = AccessDue(loaded), NEW n, n = Len(todo), NEW a, a = Head(todo)
  PROVE  /\ n \in 1 .. 7
         /\ n = 1 => access = ReadOf("UART_RDR")
         /\ n = 2 => access = ReadOf("rxne")
         /\ n = 3 => access = ReadOf("txact")
         /\ n = 4 => access = WriteOf("UART_TDR", Prompt)
         /\ n = 5 => access = WriteOf("UART_CR", [loaded EXCEPT !["en"] = TRUE])
         /\ n = 6 => access = ReadOf("UART_CR")
         /\ n = 7 => access = WriteOf("UART_CDR", ClockDivider)
         /\ a.reg # "CODE_RAM"
         /\ a = LoadFrom("UART_RDR") <=> n = 1
         /\ a = LoadFrom("UART_CR") <=> n = 6
         /\ NotYet(a) <=> (n = 2 /\ ~sr.rxne) \/ (n = 3 /\ sr.txact)
<1>1. n \in 1 .. 7 /\ a = Access(n)
  BY Turn
<1>2. access = CASE a.op \in {"load", "poll"} -> ReadOf(a.reg)
                 [] a.op = "store" -> WriteOf(a.reg, a.data)
                 [] a.op = "store_back" -> WriteOf(a.reg, [loaded EXCEPT ![a.field] = a.data])
  BY DEF AccessDue
<1>3. LoadFrom("UART_RDR") = Access(1) /\ LoadFrom("UART_CR") = Access(6)
      /\ PollOf("rxne") = Access(2) /\ PollOf("txact") = Access(3)
  BY DEF Access
<1>4. CASE n = 1
  BY <1>1, <1>2, <1>3, <1>4, Accesses DEF NotYet
<1>5. CASE n = 2
  BY <1>1, <1>2, <1>3, <1>5, Accesses DEF NotYet
<1>6. CASE n = 3
  BY <1>1, <1>2, <1>3, <1>6, Accesses DEF NotYet
<1>7. CASE n = 4
  BY <1>1, <1>2, <1>3, <1>7, Accesses DEF NotYet
<1>8. CASE n = 5
  BY <1>1, <1>2, <1>3, <1>8, Accesses, ZenonT(40) DEF NotYet
<1>9. CASE n = 6
  BY <1>1, <1>2, <1>3, <1>9, Accesses DEF NotYet
<1>10. CASE n = 7
  BY <1>1, <1>2, <1>3, <1>10, Accesses DEF NotYet
<1>11. n = 1 \/ n = 2 \/ n = 3 \/ n = 4 \/ n = 5 \/ n = 6 \/ n = 7
  BY <1>1, SMTT(30)
<1>12. QED
  BY <1>4, <1>5, <1>6, <1>7, <1>8, <1>9, <1>10, <1>11

\* An access that leaves the call under way.
LEMMA Proceeds ==
  ASSUME CpuAccess, Rest(todo), NEW n, n = Len(todo), n # 1
  PROVE  /\ n \in 2 .. 7 /\ todo # <<>>
         /\ UNCHANGED <<api, bytes, code_ram>>
         /\ loaded' = IF n = 6 THEN cr ELSE loaded
         /\ IF (n = 2 /\ ~sr.rxne) \/ (n = 3 /\ sr.txact) THEN todo' = todo
            ELSE Rest(todo') /\ Len(todo') = n - 1
         /\ UartClock(AccessDue(loaded), PeerLine) /\ Listens(sout) /\ Peer
<1> DEFINE a == Head(todo)
<1>1. todo # <<>>
  BY DEF CpuAccess, Due
<1>2. n \in 1 .. 7 /\ a = Head(todo) /\ a # LoadFrom("UART_RDR") /\ a.reg # "CODE_RAM"
      /\ (a = LoadFrom("UART_CR") <=> n = 6)
      /\ (NotYet(a) <=> (n = 2 /\ ~sr.rxne) \/ (n = 3 /\ sr.txact))
  <2> DEFINE access == AccessDue(loaded)
  <2>1. access = AccessDue(loaded) /\ n = Len(todo) /\ a = Head(todo)
    OBVIOUS
  <2> HIDE DEF access, a
  <2>2. (n = 1 <=> a = LoadFrom("UART_RDR")) /\ n \in 1 .. 7 /\ a.reg # "CODE_RAM"
        /\ (a = LoadFrom("UART_CR") <=> n = 6)
        /\ (NotYet(a) <=> (n = 2 /\ ~sr.rxne) \/ (n = 3 /\ sr.txact))
    BY <1>1, <2>1, OnTheBus
  <2>3. QED
    BY <2>1, <2>2
<1>3. n \in 2 .. 7
  BY <1>2, SMTT(30)
<1>4. ~ReadsOn(a) /\ ~StoresWord(a)
  BY <1>2 DEF ReadsOn, StoresWord
<1>5. Retire(NotYet(a))
  BY <1>4 DEF CpuAccess
<1>6. Rest(Tail(todo)) /\ Len(Tail(todo)) = n - 1 /\ todo' \in {todo, Tail(todo)}
      /\ Tail(todo) # <<>>
  BY <1>1, <1>5, Turn DEF Retire
<1>7. todo' # <<>> /\ api' = api
  BY <1>1, <1>5, <1>6 DEF Retire
<1>8. IF NotYet(a) THEN todo' = todo ELSE todo' = Tail(todo)
  BY <1>5 DEF Retire
<1>9. /\ loaded' = IF a = LoadFrom("UART_CR") THEN cr ELSE loaded
      /\ bytes' = bytes /\ code_ram' = code_ram
  BY <1>2 DEF CpuAccess
<1>10. UartClock(AccessDue(loaded), PeerLine) /\ Listens(sout) /\ Peer
  BY DEF CpuAccess
<1>11. QED
  BY <1>1, <1>2, <1>3, <1>6, <1>7, <1>8, <1>9, <1>10

\* A byte is read.
LEMMA TakesByte ==
  ASSUME CpuAccess, Rest(todo), Len(todo) = 1
  PROVE  /\ todo # <<>>
         /\ bytes' = Append(bytes, rdr) /\ UNCHANGED <<code_ram, loaded>>
         /\ \/ /\ api = "read_line" /\ rdr # Newline /\ Len(bytes) + 1 < LineLength
               /\ todo' = Read /\ api' = api
            \/ /\ api = "load_code" /\ Len(bytes) + 1 < BytesPerWord
               /\ todo' = Read /\ api' = api
            \/ /\ api = "load_code" /\ Len(bytes) + 1 = BytesPerWord
               /\ todo' = <<StoreTo("CODE_RAM", Len(code_ram))>> /\ api' = api
            \/ /\ ~(api = "read_line" /\ rdr # Newline /\ Len(bytes) + 1 < LineLength)
               /\ ~(api = "load_code" /\ Len(bytes) + 1 < BytesPerWord)
               /\ ~(api = "load_code" /\ Len(bytes) + 1 = BytesPerWord)
               /\ todo' = <<>> /\ api' = "none"
         /\ UartClock(ReadOf("UART_RDR"), PeerLine) /\ Listens(sout) /\ Peer
<1> DEFINE a == Head(todo)
<1>1. todo # <<>>
  BY DEF CpuAccess, Due
<1>2. /\ a = LoadFrom("UART_RDR") /\ a # LoadFrom("UART_CR") /\ a.reg # "CODE_RAM"
      /\ AccessDue(loaded) = ReadOf("UART_RDR") /\ ~NotYet(a)
  <2> DEFINE n == Len(todo)
             access == AccessDue(loaded)
  <2>1. n = 1 /\ n = Len(todo) /\ access = AccessDue(loaded)
    OBVIOUS
  <2> HIDE DEF n
  <2>2. QED
    BY <1>1, <2>1, OnTheBus
<1>3. Tail(todo) = <<>>
  BY <1>1, Turn
<1>4. \/ ReadsOn(a) /\ todo' = Read /\ api' = api
      \/ StoresWord(a) /\ todo' = <<StoreTo("CODE_RAM", Len(code_ram))>> /\ api' = api
      \/ ~ReadsOn(a) /\ ~StoresWord(a) /\ todo' = <<>> /\ api' = "none"
  BY <1>2, <1>3 DEF CpuAccess, Retire
<1>5. /\ ReadsOn(a) <=> \/ (api = "read_line" /\ rdr # Newline /\ Len(bytes) + 1 < LineLength)
                       \/ (api = "load_code" /\ Len(bytes) + 1 < BytesPerWord)
      /\ StoresWord(a) <=> api = "load_code" /\ Len(bytes) + 1 = BytesPerWord
  BY <1>2 DEF ReadsOn, StoresWord
<1>6. bytes' = Append(bytes, rdr) /\ code_ram' = code_ram /\ loaded' = loaded
  BY <1>2 DEF CpuAccess
<1>7. UartClock(ReadOf("UART_RDR"), PeerLine) /\ Listens(sout) /\ Peer
  BY <1>2 DEF CpuAccess
<1>8. QED
  BY <1>1, <1>4, <1>5, <1>6, <1>7

\* The word of the code RAM.
Word == StoreTo("CODE_RAM", Len(code_ram))

\* A word is stored.
LEMMA StoresTheWord ==
  ASSUME CpuAccess, todo = <<Word>>
  PROVE  /\ bytes' = <<>> /\ code_ram' = Append(code_ram, bytes) /\ loaded' = loaded
         /\ \/ Len(code_ram) + 1 < CodeWords /\ todo' = Read /\ api' = api
            \/ ~(Len(code_ram) + 1 < CodeWords) /\ todo' = <<>> /\ api' = "none"
         /\ UartClock(WriteOf("CODE_RAM", Len(code_ram)), PeerLine) /\ Listens(sout) /\ Peer
<1> DEFINE a == Head(todo)
<1>1. a = Word /\ Tail(todo) = <<>>
  OBVIOUS
<1>2. a.op = "store" /\ a.reg = "CODE_RAM" /\ a.data = Len(code_ram)
  BY <1>1 DEF Word, StoreTo
<1>3. a # LoadFrom("UART_RDR") /\ a # LoadFrom("UART_CR") /\ ~NotYet(a)
  <2>1. LoadFrom("UART_RDR").op = "load" /\ LoadFrom("UART_CR").op = "load"
        /\ PollOf("rxne").op = "poll" /\ PollOf("txact").op = "poll"
    BY DEF LoadFrom, PollOf
  <2>2. QED
    BY <1>2, <2>1 DEF NotYet
<1>4. AccessDue(loaded) = WriteOf("CODE_RAM", Len(code_ram))
  BY <1>2 DEF AccessDue
<1>5. (ReadsOn(a) <=> Len(code_ram) + 1 < CodeWords) /\ ~StoresWord(a)
  BY <1>2, <1>3 DEF ReadsOn, StoresWord
<1>6. \/ ReadsOn(a) /\ todo' = Read /\ api' = api
      \/ ~ReadsOn(a) /\ todo' = <<>> /\ api' = "none"
  BY <1>1, <1>3, <1>5 DEF CpuAccess, Retire
<1>7. bytes' = <<>> /\ code_ram' = Append(code_ram, bytes) /\ loaded' = loaded
  BY <1>2, <1>3 DEF CpuAccess
<1>8. UartClock(WriteOf("CODE_RAM", Len(code_ram)), PeerLine) /\ Listens(sout) /\ Peer
  BY <1>4 DEF CpuAccess
<1>9. QED
  BY <1>5, <1>6, <1>7, <1>8

-----------------------------------------------------------------------------
(* The link: the receiver, the software and the peer together. *)

SoftwareTypes ==
  /\ cdr \in Divider /\ rdr \in Bytes
  /\ sr \in [rxne : BOOLEAN, txact : BOOLEAN, rxerr : BOOLEAN]
  /\ bytes \in Seq(Bytes) /\ code_ram \in Seq(Seq(Bytes)) /\ stream \in Seq(PeerBytes)

\* Before the UART is enabled nothing moves but the clock divider.
Silent ==
  /\ frame = <<>> /\ held = 0 /\ Idle(rx)
  /\ Idle(tx) /\ ~tx_data_valid /\ sout = 1
  /\ wait = 0 /\ heard = NoByte

StartsUp ==
  /\ ~cr.en => Silent
  /\ Len(todo) = 6 => cdr = ClockDivider /\ (clk_divider_valid \/ generator.target = ClockDivider)
  /\ Len(todo) = 5 => /\ loaded \in [en : BOOLEAN]
                      /\ generator.target = ClockDivider /\ ~clk_divider_valid

Room ==
  IF api = "load_code" THEN Len(bytes) < BytesPerWord /\ Len(code_ram) < CodeWords
  ELSE Len(bytes) < LineLength

\* Where the software is.
Program ==
  /\ api \in {"none", "load_code", "read_line"}
  /\ api = "none" <=> todo = <<>>
  /\ \/ Rest(todo)
     \/ /\ todo = <<Word>> /\ api = "load_code"
        /\ Len(bytes) = BytesPerWord /\ Len(code_ram) < CodeWords
  /\ api = "read_line" => code_ram = <<>>
  /\ todo # <<>> /\ Len(todo) <= 4 => cr.en
  /\ Len(todo) > 4 => api = "load_code" /\ ~cr.en
  /\ Len(todo) > 2 => bytes = <<>> /\ code_ram = <<>>
  /\ todo # <<>> /\ todo # <<Word>> /\ Len(todo) <= 2 => Room
  /\ Rest(todo) /\ Len(todo) = 1 => sr.rxne

Taken    == Len(code_ram) * BytesPerWord + Len(bytes)
Received == Len(stream) - Len(arriving)
Limit    == IF api = "load_code" THEN CodeWords * BytesPerWord ELSE LineLength

(* The software never takes more than has come, and the peer never sends   *)
(* more than will be taken: as a call ends, nothing is on the way.         *)
Counts ==
  /\ api = "none" => arriving = <<>> /\ ~sr.rxne
  /\ api # "none" =>
       /\ Taken + (IF sr.rxne THEN 1 ELSE 0) <= Received
       /\ Len(stream) <= Limit
       /\ sr.rxne => rdr = stream[Received]
       /\ arriving # <<>> => Len(stream) >= 1 /\ arriving[1] = stream[Len(stream)]
       /\ api = "read_line" => \A k \in 1 .. Len(stream) - 1 : stream[k] # Newline

LinkInv == ClockRuns /\ LineInv /\ SoftwareTypes /\ StartsUp /\ Program /\ Counts

\* Accesses of the software do not write SR or RDR.
Harmless(access) == ~Writes(access, "UART_SR") /\ ~Writes(access, "UART_RDR")

LEMMA RegistersKeep ==
  ASSUME LineInv, SoftwareTypes, NEW access, Harmless(access), UartClock(access, PeerLine)
  PROVE  /\ sr' \in [rxne : BOOLEAN, txact : BOOLEAN, rxerr : BOOLEAN]
         /\ sr'.rxne <=> rx_data_valid \/ (sr.rxne /\ access.reg # "UART_RDR")
         /\ rdr' = IF rx_data_valid THEN rx_data ELSE rdr
         /\ rdr' \in Bytes
<1>1. Registers(access)
  BY DEF UartClock
<1>2. /\ sr \in [rxne : BOOLEAN, txact : BOOLEAN, rxerr : BOOLEAN] /\ rdr \in Bytes
      /\ rx_data_valid \in BOOLEAN /\ rx_error = FALSE
  BY DEF SoftwareTypes, LineInv, LineTypes
<1>3. sr' = [rxne  |-> rx_data_valid \/ (sr.rxne /\ ~(sr.rxne /\ access.reg = "UART_RDR")),
             rxerr |-> rx_error \/ sr.rxerr,
             txact |-> tx.state # "IDLE"]
  BY <1>1 DEF Registers, Harmless
<1>4. rdr' = IF rx_data_valid THEN rx_data ELSE rdr
  BY <1>1 DEF Registers, Harmless
<1>5. rx_data_valid => rx_data \in Bytes
  BY LineFacts DEF LineInv, Carries, InFlight
<1>6. sr' \in [rxne : BOOLEAN, txact : BOOLEAN, rxerr : BOOLEAN]
  BY <1>2, <1>3
<1>7. sr'.rxne <=> rx_data_valid \/ (sr.rxne /\ access.reg # "UART_RDR")
  BY <1>2, <1>3
<1>8. QED
  BY <1>2, <1>4, <1>5, <1>6, <1>7

\* A frame begins only where no byte is in flight.
LEMMA NothingInFlight ==
  ASSUME LineInv, Phase \in 0 .. Period - 1, frame = <<>>
  PROVE  ~InFlight /\ arriving = <<>> /\ ~rx_data_valid
<1>1. /\ FrameOK(rx) /\ Mid \in Nat /\ Mid + 1 <= EdgesPerBit /\ EdgesPerBit \in Nat
      /\ Period \in Nat /\ Period >= 2 /\ ByteBits \in Nat
  BY Rates DEF LineInv, LineTypes
<1>2. CASE Idle(rx)
  <2>1. Len(frame) # ByteBits + 2
    BY <1>1, LineFacts
  <2>2. ~rx_data_valid
    BY <1>2 DEF LineInv, InStep, Idle
  <2>3. QED
    BY <1>2, <2>1, <2>2 DEF InFlight, LineInv, Carries
<1>3. CASE ~Idle(rx)
  <2>1. rx.state = "STOP" /\ rx.edges = EdgesPerBit - 1 /\ Phase = Period - 1
    BY <1>1, <1>3, FrameTimes DEF LineInv, InStep
  <2>2. rx.edges >= Mid /\ Phase # 0
    BY <1>1, <2>1
  <2>3. ~rx_data_valid /\ Sampled
    BY <2>1, <2>2 DEF LineInv, InStep, Sampled
  <2>4. QED
    BY <1>3, <2>3 DEF InFlight, LineInv, Carries
<1>4. QED
  BY <1>2, <1>3

\* The line is quiet while the UART is not enabled.
LEMMA LineSilent ==
  ASSUME LineInv, Silent, UNCHANGED <<frame, held, arriving>>, Receiver(PeerLine)
  PROVE  LineInv' /\ Idle(rx') /\ arriving = <<>> /\ ~rx_data_valid
<1>1. rx.state = "IDLE" /\ frame = <<>> /\ FrameOK(rx) /\ rx_buffer \in Bytes /\ rx_error = FALSE
  BY DEF Silent, Idle, LineInv, LineTypes
<1>2. PeerLine = 1 /\ ByteBits \in Nat /\ Len(frame) = 0
  BY <1>1, LineFacts
<1>3. rx' = rx /\ rx_buffer' = rx_buffer /\ rx_data_valid' = FALSE /\ rx_error' = FALSE
  <2>1. rx' = FrameNxt(rx, PeerLine = 0)
    BY DEF Receiver
  <2>2. rx' = rx
    BY <1>1, <1>2, <2>1 DEF FrameNxt
  <2>3. rx_buffer' = rx_buffer /\ rx_data_valid' = FALSE /\ rx_error' = FALSE
    BY <1>1 DEF Receiver
  <2>4. QED
    BY <2>2, <2>3
<1>4. ~rx_data_valid
  BY <1>1 DEF LineInv, InStep
<1>5. Len(frame) # ByteBits + 2
  BY <1>2
<1>6. ~InFlight /\ arriving = <<>>
  BY <1>1, <1>4, <1>5 DEF InFlight, Idle, LineInv, Carries
<1>7. frame' = <<>> /\ held' = 0 /\ arriving' = <<>> /\ Idle(rx')
  BY <1>1, <1>3, <1>6 DEF Silent, Idle
<1>8. LineTypes'
  BY <1>3, <1>7 DEF LineTypes, LineInv
<1>9. InStep'
  BY <1>3, <1>7 DEF InStep, Idle
<1>10. Carries'
  <2>1. ~InFlight'
    <3>1. Len(frame') # ByteBits + 2
      BY <1>1, <1>5, <1>7
    <3>2. QED
      BY <1>3, <1>7, <3>1 DEF InFlight, Idle
  <2>2. Len(frame') = 0
    BY <1>7
  <2>3. \A j \in 1 .. Len(frame') : frame'[j] = Level(arriving'[1], PeerIndex' + j)
    BY <2>2
  <2>4. QED
    BY <1>3, <1>7, <2>1, <2>3 DEF Carries, Idle
<1>11. QED
  BY <1>4, <1>6, <1>7, <1>8, <1>9, <1>10 DEF LineInv

Sends(byte) == PeerMaySend /\ Begins(byte) /\ stream' = Append(stream, byte)

PeerActs == (Waits /\ UNCHANGED stream) \/ \E byte \in PeerBytes : Sends(byte)

LineActs == Waits \/ \E byte \in PeerBytes : PeerMaySend /\ Begins(byte)

\* The line and the receiver in any step.
LEMMA LineStep ==
  ASSUME RatesAgree, LinkInv, NEW access, UartClock(access, PeerLine), LineActs
  PROVE  /\ LineInv'
         /\ \A byte \in PeerBytes : Begins(byte) => arriving = <<>> /\ ~rx_data_valid
         /\ cr.en => Phase \in 0 .. Period - 1
         /\ ~cr.en => /\ UNCHANGED <<frame, held, arriving>> /\ Idle(rx')
                      /\ arriving = <<>> /\ ~rx_data_valid
<1>1. Receiver(PeerLine) /\ generator' = GeneratorNxt(generator, cr.en, clk_divider_valid, cdr)
  BY DEF UartClock
<1>2. LineInv /\ ClockRuns /\ cdr \in Divider
  BY DEF LinkInv, SoftwareTypes
<1>3. ASSUME cr.en
      PROVE  LineInv' /\ Phase \in 0 .. Period - 1
  <2>1. /\ Phase \in 0 .. Period - 1 /\ (SerialEdge <=> Phase = Period - 1)
        /\ Phase' = Ticked(Phase)
    BY <1>1, <1>2, <1>3, PhaseTicks
  <2>2. Waits \/ \E byte \in PeerBytes : Begins(byte)
    BY DEF LineActs
  <2>3. Receives
    BY <1>1, <2>1, <2>2 DEF Receives
  <2>4. QED
    BY <1>2, <2>1, <2>3, LineNext
<1>4. ASSUME ~cr.en
      PROVE  /\ LineInv' /\ UNCHANGED <<frame, held, arriving>> /\ Idle(rx')
             /\ arriving = <<>> /\ ~rx_data_valid
  <2>1. Silent
    BY <1>4 DEF LinkInv, StartsUp
  <2>2. heard # Prompt
    <3>1. Prompt \in Bytes
      BY UartBootAssumption
    <3>2. Len(Prompt) = ByteBits /\ ByteBits # 0
      BY <3>1, ByteIsSequence, Rates
    <3>3. Len(NoByte) = 0
      BY DEF NoByte
    <3>4. QED
      BY <2>1, <3>2, <3>3 DEF Silent
  <2>3. Waits
    BY <2>2 DEF LineActs, PeerMaySend
  <2>4. frame' = frame /\ held' = held
    BY <2>1, <2>3 DEF Waits, KeepsSending, Silent
  <2>5. ~rx_data_valid
    BY <1>2, <2>1 DEF Silent, Idle, LineInv, InStep
  <2>6. arriving' = arriving
    BY <2>3, <2>5 DEF Waits
  <2>7. QED
    BY <1>1, <1>2, <2>1, <2>3, <2>4, <2>6, LineSilent
<1>5. ASSUME NEW byte \in PeerBytes, Begins(byte)
      PROVE  arriving = <<>> /\ ~rx_data_valid
  <2>1. frame = <<>>
    BY <1>5 DEF Begins, BeginsFrame
  <2>2. QED
    BY <1>2, <1>3, <1>4, <2>1, NothingInFlight
<1>6. QED
  BY <1>3, <1>4, <1>5

\* The bytes of a call, in any step of it.
LEMMA StreamStep ==
  ASSUME RatesAgree, LinkInv, NEW access, Harmless(access), UartClock(access, PeerLine), PeerActs,
         api # "none"
  PROVE  /\ Received \in Nat /\ Received <= Len(stream) /\ Len(stream) \in Nat
         /\ Received' = Received + (IF rx_data_valid THEN 1 ELSE 0)
         /\ stream' \in Seq(PeerBytes) /\ Len(stream') <= Limit
         /\ sr.rxne => 1 <= Received
         /\ sr'.rxne => rdr' = stream'[Received']
         /\ arriving' # <<>> => Len(stream') >= 1 /\ arriving'[1] = stream'[Len(stream')]
         /\ api = "read_line" => \A k \in 1 .. Len(stream') - 1 : stream'[k] # Newline
         /\ Received = Len(stream) => arriving = <<>> /\ ~rx_data_valid
<1>1. /\ LineInv /\ SoftwareTypes /\ stream \in Seq(PeerBytes) /\ arriving \in Seq(PeerBytes)
      /\ Len(stream) \in Nat /\ Len(arriving) \in Nat
  BY LenProperties DEF LinkInv, SoftwareTypes, LineInv, LineTypes
<1>2. /\ Taken + (IF sr.rxne THEN 1 ELSE 0) <= Received
      /\ Len(stream) <= Limit
      /\ sr.rxne => rdr = stream[Received]
      /\ arriving # <<>> => Len(stream) >= 1 /\ arriving[1] = stream[Len(stream)]
      /\ api = "read_line" => \A k \in 1 .. Len(stream) - 1 : stream[k] # Newline
  BY DEF LinkInv, Counts
<1>3. (arriving = <<>> <=> Len(arriving) = 0) /\ (Len(arriving) = 0 \/ Len(arriving) = 1)
      /\ (rx_data_valid => Len(arriving) = 1 /\ arriving = <<arriving[1]>> /\ rx_data = arriving[1])
  <2>1. arriving = <<>> <=> Len(arriving) = 0
    BY <1>1, EmptySeq
  <2>2. Len(arriving) = 0 \/ Len(arriving) = 1
    BY <1>1, <2>1 DEF LineInv, Carries
  <2>3. rx_data_valid => Len(arriving) = 1 /\ arriving = <<arriving[1]>> /\ rx_data = arriving[1]
    BY <1>1, LineFacts DEF LineInv, Carries, InFlight
  <2>4. QED
    BY <2>1, <2>2, <2>3
<1>4. Taken \in Nat
  <2>1. Len(code_ram) \in Nat /\ Len(bytes) \in Nat /\ BytesPerWord \in Nat
    BY <1>1, LenProperties, UartBootAssumption DEF SoftwareTypes
  <2>2. Len(code_ram) * BytesPerWord \in Nat
    BY <2>1
  <2>3. QED
    BY <2>1, <2>2 DEF Taken
<1>5. Received = Len(stream) - Len(arriving) /\ (rx_data_valid => Len(arriving) = 1)
  BY <1>3 DEF Received
<1>6. Received \in Nat /\ Received <= Len(stream) /\ (sr.rxne => 1 <= Received)
      /\ (Len(arriving) = 1 => Received + 1 = Len(stream))
  <2>1. sr.rxne => Taken + 1 <= Received
    BY <1>2
  <2>2. ~sr.rxne => Taken + 0 <= Received
    BY <1>2
  <2> DEFINE r == Received  s == Len(stream)  t == Len(arriving)
  <2>3. r = s - t /\ s \in Nat /\ t \in Nat /\ (sr.rxne => Taken + 1 <= r) /\ (~sr.rxne => Taken + 0 <= r)
    BY <1>1, <1>5, <2>1, <2>2
  <2> HIDE DEF r, s, t
  <2>4. r \in Nat /\ r <= s /\ (t = 1 => r + 1 = s)
    BY <1>4, <2>3
  <2>5. sr.rxne => 1 <= r
    BY <1>4, <2>3
  <2>6. QED
    BY <2>4, <2>5 DEF r, s, t
<1>7. Received = Len(stream) => arriving = <<>> /\ ~rx_data_valid
  <2>1. Received = Len(stream) => Len(arriving) # 1
    BY <1>1, <1>6
  <2>2. QED
    BY <1>3, <2>1
<1>8. rdr' = (IF rx_data_valid THEN rx_data ELSE rdr)
      /\ (sr'.rxne => rx_data_valid \/ sr.rxne)
  BY <1>1, RegistersKeep
<1>9. rx_data_valid => rx_data = stream[Received + 1]
  <2>1. rx_data_valid => arriving # <<>> /\ Len(arriving) = 1
    BY <1>3
  <2>2. QED
    BY <1>2, <1>3, <1>6, <2>1
<1>10. CASE Waits /\ UNCHANGED stream
  <2>1. rx_data_valid => arriving' = <<>>
    <3> SUFFICES ASSUME rx_data_valid PROVE arriving' = <<>>
      OBVIOUS
    <3>1. arriving' = Tail(<<arriving[1]>>)
      BY <1>3, <1>10 DEF Waits
    <3>2. QED
      BY <3>1
  <2>2. ~rx_data_valid => arriving' = arriving
    BY <1>10 DEF Waits
  <2>3. Received' = Received + (IF rx_data_valid THEN 1 ELSE 0)
    <3>1. CASE rx_data_valid
      <4>1. Len(arriving') = 0 /\ stream' = stream
        BY <1>10, <2>1, <3>1
      <4>2. Received' = Len(stream) - 0
        BY <4>1 DEF Received
      <4>3. Received' = Len(stream) /\ Received + 1 = Len(stream)
        BY <1>1, <1>3, <1>6, <3>1, <4>2
      <4>4. QED
        BY <3>1, <4>3
    <3>2. CASE ~rx_data_valid
      <4>1. Received' = Received
        BY <1>10, <2>2, <3>2 DEF Received
      <4>2. QED
        BY <1>6, <3>2, <4>1
    <3>3. QED
      BY <3>1, <3>2
  <2>4. sr'.rxne => rdr' = stream'[Received']
    <3>1. CASE rx_data_valid
      BY <1>8, <1>9, <1>10, <2>3, <3>1
    <3>2. CASE ~rx_data_valid
      <4>1. Received' = Received
        BY <1>6, <2>3, <3>2
      <4>2. QED
        BY <1>2, <1>8, <1>10, <3>2, <4>1
    <3>3. QED
      BY <3>1, <3>2
  <2>5. arriving' # <<>> => Len(stream') >= 1 /\ arriving'[1] = stream'[Len(stream')]
    BY <1>2, <1>10, <2>1, <2>2
  <2>6. QED
    BY <1>1, <1>2, <1>6, <1>7, <1>10, <2>3, <2>4, <2>5
<1>11. ASSUME NEW byte \in PeerBytes, Sends(byte)
       PROVE  /\ Received' = Received + (IF rx_data_valid THEN 1 ELSE 0)
              /\ stream' \in Seq(PeerBytes) /\ Len(stream') <= Limit
              /\ sr'.rxne => rdr' = stream'[Received']
              /\ arriving' # <<>> => Len(stream') >= 1 /\ arriving'[1] = stream'[Len(stream')]
              /\ api = "read_line" => \A k \in 1 .. Len(stream') - 1 : stream'[k] # Newline
  <2>1. PeerMaySend /\ Begins(byte) /\ stream' = Append(stream, byte)
    BY <1>11 DEF Sends
  <2>2. arriving = <<>> /\ ~rx_data_valid
    <3>1. LineActs
      BY <2>1 DEF LineActs
    <3>2. QED
      BY <2>1, <3>1, LineStep
  <2>3. arriving' = <<byte>>
    <3>1. arriving' = Append(<<>>, byte)
      BY <2>1, <2>2 DEF Begins
    <3>2. QED
      BY <3>1
  <2>4. /\ stream' \in Seq(PeerBytes) /\ Len(stream') = Len(stream) + 1
        /\ \A k \in 1 .. Len(stream) : stream'[k] = stream[k]
        /\ stream'[Len(stream) + 1] = byte
    BY <1>1, <2>1, AppendProperties
  <2>5. Len(stream) < Limit
        /\ (api = "read_line" => \A k \in 1 .. Len(stream) : stream[k] # Newline)
    <3>1. DOMAIN stream = 1 .. Len(stream)
      BY <1>1, LenProperties
    <3>2. api \in {"load_code", "read_line"}
      BY <2>1 DEF PeerMaySend
    <3>3. Len(stream) < Limit
      BY <2>1, <3>2 DEF PeerMaySend, Limit
    <3>4. api = "read_line" => Newline \notin {stream[k] : k \in 1 .. Len(stream)}
      BY <2>1, <3>1 DEF PeerMaySend
    <3>5. QED
      BY <3>3, <3>4
  <2>6. Limit \in Nat
    BY UartBootAssumption DEF Limit
  <2>7. Len(stream') <= Limit
    BY <1>1, <2>4, <2>5, <2>6
  <2>8. Len(arriving') = 1 /\ Len(arriving) = 0
    BY <2>2, <2>3
  <2>9. Received' = Received /\ Received = Len(stream)
    <3>1. Received' = Len(stream') - Len(arriving')
      BY DEF Received
    <3>2. QED
      BY <1>1, <1>5, <2>4, <2>8, <3>1
  <2>10. sr'.rxne => rdr' = stream'[Received']
    <3> SUFFICES ASSUME sr'.rxne PROVE rdr' = stream'[Received']
      OBVIOUS
    <3>1. rdr' = rdr /\ rdr = stream[Received] /\ 1 <= Received
      BY <1>2, <1>6, <1>8, <2>2
    <3>2. Received \in 1 .. Len(stream)
      BY <1>1, <1>6, <3>1
    <3>3. QED
      BY <2>4, <2>9, <3>1, <3>2
  <2>11. Len(stream') >= 1 /\ arriving'[1] = stream'[Len(stream')]
    <3>1. arriving'[1] = byte
      BY <2>3
    <3>2. QED
      BY <1>1, <2>4, <3>1
  <2>12. api = "read_line" => \A k \in 1 .. Len(stream') - 1 : stream'[k] # Newline
    <3>1. Len(stream') - 1 = Len(stream)
      BY <1>1, <2>4
    <3>2. QED
      BY <2>4, <2>5, <3>1
  <2>13. Received' = Received + (IF rx_data_valid THEN 1 ELSE 0)
    BY <1>6, <2>2, <2>9
  <2>14. QED
    BY <2>4, <2>7, <2>10, <2>11, <2>12, <2>13
<1>12. QED
  BY <1>1, <1>6, <1>7, <1>10, <1>11 DEF PeerActs

-----------------------------------------------------------------------------
(* What a step does to the parts of the invariant, whatever the software   *)
(* does in it.                                                             *)

\* An access that configures nothing.
Plain(access) ==
  Harmless(access) /\ ~Writes(access, "UART_CR") /\ ~Writes(access, "UART_CDR")

LEMMA ClockStep ==
  ASSUME LinkInv, NEW access, UartClock(access, PeerLine)
  PROVE  /\ cr' = IF Writes(access, "UART_CR") THEN access.wdata ELSE cr
         /\ cdr' = IF Writes(access, "UART_CDR") THEN access.wdata ELSE cdr
         /\ clk_divider_valid' = Writes(access, "UART_CDR")
         /\ generator'.target = IF clk_divider_valid THEN cdr ELSE generator.target
         /\ (/\ cr' \in [en : BOOLEAN]
             /\ clk_divider_valid' \in BOOLEAN
             /\ cr'.en => generator'.target = ClockDivider /\ ~clk_divider_valid') => ClockRuns'
<1>1. /\ ClockRuns /\ cdr \in Divider
      /\ Registers(access) /\ generator' = GeneratorNxt(generator, cr.en, clk_divider_valid, cdr)
  BY DEF LinkInv, SoftwareTypes, UartClock
<1>2. /\ generator' \in Generator /\ generator'.counter <= generator'.target
      /\ generator'.rising <=> generator'.level /\ generator'.counter = 0
      /\ generator'.target = IF clk_divider_valid THEN cdr ELSE generator.target
  BY <1>1, GeneratorTicks
<1>3. /\ cr' = IF Writes(access, "UART_CR") THEN access.wdata ELSE cr
      /\ cdr' = IF Writes(access, "UART_CDR") THEN access.wdata ELSE cdr
      /\ clk_divider_valid' = Writes(access, "UART_CDR")
  BY <1>1 DEF Registers
<1>4. QED
  BY <1>2, <1>3 DEF ClockRuns

LEMMA PlainStep ==
  ASSUME LinkInv, NEW access, Plain(access), UartClock(access, PeerLine)
  PROVE  ClockRuns' /\ UNCHANGED <<cr, cdr>> /\ ~clk_divider_valid' /\ cdr' \in Divider
<1>1. /\ cr' = cr /\ cdr' = cdr /\ clk_divider_valid' = FALSE
      /\ generator'.target = IF clk_divider_valid THEN cdr ELSE generator.target
  BY ClockStep DEF Plain
<1>2. /\ cr \in [en : BOOLEAN] /\ cdr \in Divider
      /\ cr.en => generator.target = ClockDivider /\ ~clk_divider_valid
  BY DEF LinkInv, ClockRuns, SoftwareTypes
<1>3. /\ cr' \in [en : BOOLEAN] /\ clk_divider_valid' \in BOOLEAN
      /\ cr'.en => generator'.target = ClockDivider /\ ~clk_divider_valid'
  BY <1>1, <1>2
<1>4. ClockRuns'
  BY <1>3, ClockStep
<1>5. QED
  BY <1>1, <1>2, <1>4

LEMMA SilentStep ==
  ASSUME RatesAgree, LinkInv, ~cr.en, NEW access, Harmless(access), ~Writes(access, "UART_TDR"),
         UartClock(access, PeerLine), LineActs, Listens(sout) \/ (heard' = NoByte /\ wait' = wait)
  PROVE  Silent'
<1>1. Silent
  BY DEF LinkInv, StartsUp
<1>2. frame' = frame /\ held' = held /\ Idle(rx')
  BY LineStep
<1>3. tx.state = "IDLE" /\ ~tx_data_valid
  BY <1>1 DEF Silent, Idle
<1>4. tx' = tx /\ sout' = sout
  <2>1. Transmitter
    BY DEF UartClock
  <2>2. tx' = tx
    BY <1>3, <2>1 DEF Transmitter, FrameNxt
  <2>3. sout' = sout
    BY <1>3, <2>1 DEF Transmitter
  <2>4. QED
    BY <2>2, <2>3
<1>5. ~tx_data_valid'
  BY DEF UartClock, Registers, Harmless
<1>6. wait' = 0 /\ heard' = NoByte
  BY <1>1 DEF Silent, Listens
<1>7. QED
  BY <1>1, <1>2, <1>3, <1>4, <1>5, <1>6 DEF Silent, Idle

\* The counts in a step that leaves the call under way and takes no byte.
LEMMA CountsOn ==
  ASSUME RatesAgree, LinkInv, NEW access, Harmless(access), UartClock(access, PeerLine), PeerActs,
         api # "none", api' = api, Taken' = Taken
  PROVE  Counts'
<1>1. /\ Received' = Received + (IF rx_data_valid THEN 1 ELSE 0) /\ Received \in Nat
      /\ Len(stream') <= Limit
      /\ sr'.rxne => rdr' = stream'[Received']
      /\ arriving' # <<>> => Len(stream') >= 1 /\ arriving'[1] = stream'[Len(stream')]
      /\ api = "read_line" => \A k \in 1 .. Len(stream') - 1 : stream'[k] # Newline
  BY StreamStep
<1>2. Taken + (IF sr.rxne THEN 1 ELSE 0) <= Received
  BY DEF LinkInv, Counts
<1>3. sr'.rxne => rx_data_valid \/ sr.rxne
  BY RegistersKeep DEF LinkInv
<1>4. Taken' + (IF sr'.rxne THEN 1 ELSE 0) <= Received'
  <2>1. Taken \in Nat
    <3>1. Len(code_ram) \in Nat /\ Len(bytes) \in Nat /\ BytesPerWord \in Nat
      BY LenProperties, UartBootAssumption DEF LinkInv, SoftwareTypes
    <3>2. Len(code_ram) * BytesPerWord \in Nat
      BY <3>1
    <3>3. QED
      BY <3>1, <3>2 DEF Taken
  <2>2. Taken' = Taken
    OBVIOUS
  <2> DEFINE r == Received  s == Received'  t == Taken
  <2>3. r \in Nat /\ t \in Nat /\ s = r + (IF rx_data_valid THEN 1 ELSE 0)
        /\ t + (IF sr.rxne THEN 1 ELSE 0) <= r
    BY <1>1, <1>2, <2>1
  <2> HIDE DEF r, s, t
  <2>4. t + (IF sr'.rxne THEN 1 ELSE 0) <= s
    BY <1>3, <2>3
  <2>5. QED
    BY <2>2, <2>4 DEF s, t
<1>5. Limit' = Limit
  BY DEF Limit
<1>6. QED
  BY <1>1, <1>4, <1>5 DEF Counts

\* The counts between calls, and as a call ends.
LEMMA CountsEnd ==
  ASSUME RatesAgree, LinkInv, NEW access, Harmless(access), UartClock(access, PeerLine), LineActs,
         arriving = <<>>, ~PeerMaySend, api' = "none", ~sr.rxne \/ access.reg = "UART_RDR"
  PROVE  Counts'
<1>1. LineInv
  BY DEF LinkInv
<1>2. ~rx_data_valid
  BY <1>1, EmptySeq DEF LineInv, Carries, InFlight
<1>3. arriving' = <<>>
  BY <1>2 DEF LineActs, Waits
<1>4. ~sr'.rxne
  BY <1>2, RegistersKeep DEF LinkInv
<1>5. QED
  BY <1>3, <1>4 DEF Counts

-----------------------------------------------------------------------------
(* The steps. *)

LEMMA WordFacts ==
  /\ Len(<<Word>>) = 1 /\ <<Word>> # <<>> /\ ~Rest(<<Word>>)
<1>1. Word.reg = "CODE_RAM"
  BY DEF Word, StoreTo
<1>2. <<Word>>[1] = Word /\ Len(<<Word>>) = 1
  OBVIOUS
<1>3. Rest(<<Word>>) => <<Word>>[1] = Access(1)
  <2> DEFINE w == Word
  <2>1. <<w>>[1] = w /\ Len(<<w>>) = 1
    OBVIOUS
  <2> HIDE DEF w
  <2> SUFFICES ASSUME Rest(<<w>>) PROVE <<w>>[1] = Access(1)
    BY DEF w
  <2>2. \A k \in 1 .. 1 : <<w>>[k] = Access(1 + 1 - k)
    BY <2>1 DEF Rest, Part
  <2>3. 1 + 1 - 1 = 1 /\ 1 \in 1 .. 1
    OBVIOUS
  <2>4. QED
    BY <2>2, <2>3
<1>4. QED
  BY <1>1, <1>2, <1>3, Accesses

LEMMA Basics ==
  ASSUME LinkInv
  PROVE  /\ cr \in [en : BOOLEAN] /\ cdr \in Divider /\ rdr \in Bytes
         /\ sr \in [rxne : BOOLEAN, txact : BOOLEAN, rxerr : BOOLEAN]
         /\ bytes \in Seq(Bytes) /\ Len(bytes) \in Nat
         /\ code_ram \in Seq(Seq(Bytes)) /\ Len(code_ram) \in Nat
         /\ stream \in Seq(PeerBytes) /\ Len(stream) \in Nat
         /\ Len(code_ram) * BytesPerWord \in Nat
         /\ Taken \in Nat /\ Taken = Len(code_ram) * BytesPerWord + Len(bytes)
         /\ {CodeWords, BytesPerWord, LineLength} \subseteq Nat \ {0} /\ ClockDivider \in Divider
<1>1. /\ cr \in [en : BOOLEAN] /\ cdr \in Divider /\ rdr \in Bytes
      /\ sr \in [rxne : BOOLEAN, txact : BOOLEAN, rxerr : BOOLEAN]
      /\ bytes \in Seq(Bytes) /\ code_ram \in Seq(Seq(Bytes)) /\ stream \in Seq(PeerBytes)
  BY DEF LinkInv, ClockRuns, SoftwareTypes
<1>2. Len(bytes) \in Nat /\ Len(code_ram) \in Nat /\ Len(stream) \in Nat
  BY <1>1, LenProperties
<1>3. {CodeWords, BytesPerWord, LineLength} \subseteq Nat \ {0} /\ ClockDivider \in Divider
  BY UartBootAssumption
<1>4. Len(code_ram) * BytesPerWord \in Nat
  BY <1>2, <1>3
<1>5. QED
  BY <1>1, <1>2, <1>3, <1>4 DEF Taken

LEMMA PeerIsPeerActs ==
  ASSUME Peer
  PROVE  PeerActs /\ LineActs
  BY DEF Peer, PeerWaits, PeerSends, PeerActs, LineActs, Sends, Waits, Begins

LEMMA IdleStep ==
  ASSUME RatesAgree, LinkInv, CpuIdle
  PROVE  LinkInv'
<1>1. /\ UartClock(NoAccess, PeerLine) /\ Listens(sout) /\ PeerActs /\ LineActs
      /\ UNCHANGED <<api, todo, loaded, bytes, code_ram>>
  BY PeerIsPeerActs DEF CpuIdle
<1>2. Plain(NoAccess) /\ ~Writes(NoAccess, "UART_TDR") /\ NoAccess.reg # "UART_RDR" /\ Harmless(NoAccess)
  BY DEF NoAccess, Plain, Harmless, Writes
<1>3. ClockRuns' /\ cr' = cr /\ cdr' = cdr /\ ~clk_divider_valid' /\ cdr' \in Divider
  BY <1>1, <1>2, PlainStep
<1>4. LineInv'
  BY <1>1, LineStep
<1>5. /\ sr' \in [rxne : BOOLEAN, txact : BOOLEAN, rxerr : BOOLEAN] /\ rdr' \in Bytes
      /\ sr'.rxne <=> rx_data_valid \/ sr.rxne
  BY <1>1, <1>2, RegistersKeep DEF LinkInv
<1>6. Program'
  <2>1. Rest(todo) /\ Len(todo) = 1 => sr'.rxne
    BY <1>5 DEF LinkInv, Program
  <2>2. Word' = Word /\ Room' = Room
    BY <1>1 DEF Word, Room
  <2>3. QED
    BY <1>1, <1>3, <2>1, <2>2 DEF LinkInv, Program, Rest, Part
<1>7. StartsUp'
  <2>1. ~cr'.en => Silent'
    BY <1>1, <1>2, <1>3, SilentStep
  <2>2. generator'.target = IF clk_divider_valid THEN cdr ELSE generator.target
    BY <1>1, ClockStep
  <2>3. QED
    BY <1>1, <1>3, <2>1, <2>2 DEF LinkInv, StartsUp
<1>8. CASE api = "none"
  <2>1. ~PeerMaySend /\ arriving = <<>> /\ ~sr.rxne
    BY <1>8 DEF PeerMaySend, LinkInv, Counts
  <2>2. stream' \in Seq(PeerBytes)
    BY <1>1, <2>1, Basics DEF PeerActs, Sends
  <2>3. Counts'
    BY <1>1, <1>2, <1>8, <2>1, CountsEnd
  <2>4. SoftwareTypes'
    BY <1>1, <1>3, <1>5, <2>2, Basics DEF SoftwareTypes
  <2>5. QED
    BY <1>3, <1>4, <1>6, <1>7, <2>3, <2>4 DEF LinkInv
<1>9. CASE api # "none"
  <2>1. Taken' = Taken
    BY <1>1 DEF Taken
  <2>2. Counts'
    BY <1>1, <1>2, <1>9, <2>1, CountsOn
  <2>3. stream' \in Seq(PeerBytes)
    BY <1>1, <1>2, <1>9, StreamStep
  <2>4. SoftwareTypes'
    BY <1>1, <1>3, <1>5, <2>3, Basics DEF SoftwareTypes
  <2>5. QED
    BY <1>3, <1>4, <1>6, <1>7, <2>2, <2>4 DEF LinkInv
<1>10. QED
  BY <1>8, <1>9

LEMMA CallsStep ==
  ASSUME RatesAgree, LinkInv, CpuCalls
  PROVE  LinkInv'
<1>1. /\ UartClock(NoAccess, PeerLine) /\ KeepsSending
      /\ heard' = NoByte /\ bytes' = <<>> /\ code_ram' = <<>> /\ stream' = <<>>
      /\ UNCHANGED <<loaded, wait, samples, arriving>>
      /\ api = "none"
      /\ \/ ~cr.en /\ api' = "load_code" /\ todo' = LoadCodeThroughUart
         \/ cr.en /\ api' = "read_line" /\ todo' = ReadLine
  BY DEF CpuCalls, Call
<1>2. Plain(NoAccess) /\ ~Writes(NoAccess, "UART_TDR") /\ NoAccess.reg # "UART_RDR" /\ Harmless(NoAccess)
  BY DEF NoAccess, Plain, Harmless, Writes
<1>3. ClockRuns' /\ cr' = cr /\ cdr' = cdr /\ ~clk_divider_valid' /\ cdr' \in Divider
  BY <1>1, <1>2, PlainStep
<1>4. arriving = <<>> /\ ~sr.rxne /\ ~rx_data_valid
  <2>1. arriving = <<>> /\ ~sr.rxne
    BY <1>1 DEF LinkInv, Counts
  <2>2. ~rx_data_valid
    BY <2>1, EmptySeq DEF LinkInv, LineInv, Carries, InFlight
  <2>3. QED
    BY <2>1, <2>2
<1>5. LineActs
  BY <1>1, <1>4 DEF LineActs, Waits
<1>6. LineInv'
  BY <1>1, <1>5, LineStep
<1>7. /\ sr' \in [rxne : BOOLEAN, txact : BOOLEAN, rxerr : BOOLEAN] /\ rdr' \in Bytes
      /\ ~sr'.rxne
  BY <1>1, <1>2, <1>4, RegistersKeep DEF LinkInv
<1>8. SoftwareTypes'
  BY <1>1, <1>3, <1>7 DEF SoftwareTypes
<1>9. /\ Rest(todo') /\ todo' # <<>> /\ Len(todo') \in {4, 7}
      /\ (cr.en <=> Len(todo') = 4) /\ (~cr.en <=> Len(todo') = 7)
  <2>1. Len(todo') = 4 \/ Len(todo') = 7
    BY <1>1, TheCalls
  <2>2. Rest(todo') /\ (cr.en <=> Len(todo') = 4) /\ (~cr.en <=> Len(todo') = 7)
    BY <1>1, TheCalls
  <2>3. Len(<<>>) = 0
    OBVIOUS
  <2>4. QED
    BY <2>1, <2>2, <2>3
<1>10. Program'
  <2>1. api' \in {"load_code", "read_line"} /\ (api' = "load_code" <=> ~cr.en)
    BY <1>1
  <2>2. Len(todo') > 2 /\ ~(Len(todo') <= 2) /\ Len(todo') # 1
        /\ (Len(todo') > 4 => ~cr.en) /\ (Len(todo') <= 4 => cr.en)
    <3> DEFINE m == Len(todo')
    <3>1. (m = 4 \/ m = 7) /\ (cr.en <=> m = 4) /\ (~cr.en <=> m = 7)
      BY <1>9
    <3> HIDE DEF m
    <3>2. m > 2 /\ ~(m <= 2) /\ m # 1 /\ (m > 4 => m = 7) /\ (m <= 4 => m = 4)
      BY <3>1
    <3>3. (m > 4 => ~cr.en) /\ (m <= 4 => cr.en)
      BY <3>1, <3>2
    <3>4. QED
      BY <3>2, <3>3 DEF m
  <2>3. QED
    BY <1>1, <1>3, <1>9, <2>1, <2>2 DEF Program, Rest, Part
<1>11. StartsUp'
  <2>1. ~cr'.en => Silent'
    BY <1>1, <1>2, <1>3, <1>5, SilentStep
  <2>2. Len(todo') # 6 /\ Len(todo') # 5
    <3> DEFINE m == Len(todo')
    <3>1. m = 4 \/ m = 7
      BY <1>9
    <3> HIDE DEF m
    <3>2. m # 6 /\ m # 5
      BY <3>1
    <3>3. QED
      BY <3>2 DEF m
  <2>3. QED
    BY <2>1, <2>2 DEF StartsUp
<1>12. Counts'
  <2>1. arriving' = <<>> /\ Len(stream') = 0 /\ Len(arriving') = 0 /\ Len(bytes') = 0 /\ Len(code_ram') = 0
    BY <1>1, <1>4
  <2>2. 0 * BytesPerWord = 0 /\ {CodeWords * BytesPerWord, LineLength} \subseteq Nat
    BY UartBootAssumption
  <2>3. Taken' = 0 * BytesPerWord + 0 /\ Received' = 0 - 0
    BY <2>1 DEF Taken, Received
  <2>4. Taken' = 0 /\ Received' = 0
    BY <2>2, <2>3
  <2>5. Taken' + (IF sr'.rxne THEN 1 ELSE 0) <= Received'
    BY <1>7, <2>4
  <2>6. Limit' \in Nat
    BY <2>2 DEF Limit
  <2>7. Len(stream') <= Limit'
    BY <2>1, <2>6
  <2>8. \A k \in 1 .. Len(stream') - 1 : stream'[k] # Newline
    BY <2>1
  <2>9. QED
    BY <1>1, <1>7, <2>1, <2>5, <2>7, <2>8 DEF Counts
<1>13. QED
  BY <1>3, <1>6, <1>8, <1>10, <1>11, <1>12 DEF LinkInv

\* An access that leaves the call under way.
LEMMA ProceedsStep ==
  ASSUME RatesAgree, LinkInv, CpuAccess, Rest(todo), Len(todo) # 1
  PROVE  LinkInv'
<1> DEFINE n == Len(todo)
           access == AccessDue(loaded)
           again == (n = 2 /\ ~sr.rxne) \/ (n = 3 /\ sr.txact)
<1>1. /\ n \in 2 .. 7 /\ todo # <<>>
      /\ UNCHANGED <<api, bytes, code_ram>>
      /\ loaded' = IF n = 6 THEN cr ELSE loaded
      /\ IF again THEN todo' = todo ELSE Rest(todo') /\ Len(todo') = n - 1
      /\ UartClock(access, PeerLine) /\ Listens(sout) /\ Peer
  BY Proceeds
<1>2. PeerActs /\ LineActs
  BY <1>1, PeerIsPeerActs
<1>3. /\ n = 2 => access = ReadOf("rxne")
      /\ n = 3 => access = ReadOf("txact")
      /\ n = 4 => access = WriteOf("UART_TDR", Prompt)
      /\ n = 5 => access = WriteOf("UART_CR", [loaded EXCEPT !["en"] = TRUE])
      /\ n = 6 => access = ReadOf("UART_CR")
      /\ n = 7 => access = WriteOf("UART_CDR", ClockDivider)
  BY <1>1, OnTheBus
<1>4. n = 2 \/ n = 3 \/ n = 4 \/ n = 5 \/ n = 6 \/ n = 7
  BY <1>1
<1>5. Harmless(access) /\ access.reg # "UART_RDR"
      /\ (Writes(access, "UART_TDR") => n = 4)
      /\ (Writes(access, "UART_CR") => n = 5)
      /\ (Writes(access, "UART_CDR") => n = 7)
  BY <1>3, <1>4 DEF Harmless, Writes, ReadOf, WriteOf
<1>6. LineInv'
  BY <1>1, <1>2, LineStep
<1>7. /\ sr' \in [rxne : BOOLEAN, txact : BOOLEAN, rxerr : BOOLEAN] /\ rdr' \in Bytes
      /\ sr'.rxne <=> rx_data_valid \/ sr.rxne
  BY <1>1, <1>5, RegistersKeep DEF LinkInv
<1>8. /\ api # "none" /\ api' = api
      /\ n <= 4 => cr.en
      /\ n > 4 => api = "load_code" /\ ~cr.en
  BY <1>1 DEF LinkInv, Program
<1>9. stream' \in Seq(PeerBytes) /\ Counts'
  <2>1. Taken' = Taken
    BY <1>1 DEF Taken
  <2>2. Counts'
    BY <1>1, <1>2, <1>5, <1>8, <2>1, CountsOn
  <2>3. stream' \in Seq(PeerBytes)
    BY <1>1, <1>2, <1>5, <1>8, StreamStep
  <2>4. QED
    BY <2>2, <2>3
<1>10. /\ cr' = IF Writes(access, "UART_CR") THEN access.wdata ELSE cr
       /\ cdr' = IF Writes(access, "UART_CDR") THEN access.wdata ELSE cdr
       /\ clk_divider_valid' = Writes(access, "UART_CDR")
       /\ generator'.target = IF clk_divider_valid THEN cdr ELSE generator.target
  BY <1>1, ClockStep
<1>11. n = 5 => loaded \in [en : BOOLEAN] /\ generator.target = ClockDivider /\ ~clk_divider_valid
  BY DEF LinkInv, StartsUp
<1>12. n = 6 => cdr = ClockDivider /\ (clk_divider_valid \/ generator.target = ClockDivider)
  BY DEF LinkInv, StartsUp
<1>13. CASE n # 5 /\ n # 7
  <2>1. Plain(access)
    BY <1>5, <1>13 DEF Plain
  <2>2. ClockRuns' /\ cr' = cr /\ cdr' = cdr /\ ~clk_divider_valid' /\ cdr' \in Divider
    BY <1>1, <2>1, PlainStep
  <2>3. SoftwareTypes'
    BY <1>1, <1>7, <1>9, <2>2, Basics DEF SoftwareTypes
  <2>4. ~cr'.en => Silent'
    <3> SUFFICES ASSUME ~cr.en PROVE Silent'
      BY <2>2
    <3>1. n # 4
      <4>1. n <= 4 => cr.en
        BY <1>8
      <4> HIDE DEF n
      <4>2. QED
        BY <4>1
    <3>2. ~Writes(access, "UART_TDR")
      BY <1>5, <3>1
    <3> HIDE DEF access, n
    <3>3. QED
      BY <1>1, <1>2, <1>5, <3>2, SilentStep
  <2>5. Rest(todo') /\ Len(todo') \in {n, n - 1} /\ (n = 6 => Len(todo') = 5)
        /\ (again => Len(todo') = n) /\ (~again => Len(todo') = n - 1)
    <3>1. again => Rest(todo') /\ Len(todo') = n
      BY <1>1
    <3>2. ~again => Rest(todo') /\ Len(todo') = n - 1
      BY <1>1
    <3>3. n = 6 => ~again
      OBVIOUS
    <3>4. n = 6 => Len(todo') = 5
      <4>1. n = 6 => Len(todo') = n - 1
        BY <3>2, <3>3
      <4>2. QED
        BY <4>1
    <3>5. QED
      BY <3>1, <3>2, <3>4
  <2> DEFINE m == Len(todo')
  <2>6. /\ m # 0 /\ m # 6 /\ (m = 5 => n = 6) /\ (m <= 4 => n <= 4) /\ (m > 4 => n > 4)
        /\ (m > 2 => n > 2) /\ (m = 1 => n = 2 /\ ~again)
    <3>1. /\ n \in 2 .. 7 /\ n # 5 /\ n # 7 /\ m \in {n, n - 1} /\ (n = 6 => m = 5)
          /\ (again => m = n)
      BY <1>1, <1>13, <2>5
    <3> HIDE DEF m, n, again
    <3>2. m # 0 /\ m # 6 /\ (m = 5 => n = 6) /\ (m <= 4 => n <= 4) /\ (m > 4 => n > 4)
          /\ (m > 2 => n > 2) /\ (m = 1 => n = 2)
      BY <3>1
    <3>3. m = 1 => ~again
      BY <3>1, <3>2
    <3>4. QED
      BY <3>2, <3>3
  <2>7. StartsUp'
    <3>1. Len(todo') # 6
      BY <2>6
    <3>2. Len(todo') = 5 => n = 6
      BY <2>6
    <3>3. n = 6 => generator'.target = ClockDivider /\ loaded' = cr
      BY <1>1, <1>10, <1>12
    <3>4. cr \in [en : BOOLEAN]
      BY Basics
    <3>5. QED
      BY <2>2, <2>4, <3>1, <3>2, <3>3, <3>4 DEF StartsUp
  <2>8. Program'
    <3>1. todo' # <<>>
      <4>1. Len(todo') # 0
        BY <2>6
      <4>2. Len(<<>>) = 0
        OBVIOUS
      <4>3. QED
        BY <4>1, <4>2
    <3>2. Len(todo') <= 4 => cr'.en
      <4>1. Len(todo') <= 4 => n <= 4
        BY <2>6
      <4>2. QED
        BY <1>8, <2>2, <4>1
    <3>3. Len(todo') > 4 => api' = "load_code" /\ ~cr'.en
      <4>1. Len(todo') > 4 => n > 4
        BY <2>6
      <4>2. QED
        BY <1>8, <2>2, <4>1
    <3>4. Len(todo') > 2 => bytes' = <<>> /\ code_ram' = <<>>
      <4>1. Len(todo') > 2 => n > 2
        BY <2>6
      <4>2. QED
        BY <1>1, <4>1 DEF LinkInv, Program
    <3>5. Len(todo') <= 2 => Room'
      <4>1. Room' <=> Room
        BY <1>1 DEF Room
      <4>2. n > 2 => Room
        <5> SUFFICES ASSUME n > 2 PROVE Room
          OBVIOUS
        <5>1. bytes = <<>> /\ code_ram = <<>>
          BY DEF LinkInv, Program
        <5>2. Len(bytes) = 0 /\ Len(code_ram) = 0
          BY <5>1
        <5>3. 0 < BytesPerWord /\ 0 < CodeWords /\ 0 < LineLength
          BY Basics
        <5>4. QED
          BY <5>2, <5>3 DEF Room
      <4>3. n <= 2 => Room
        <5>1. todo # <<Word>>
          BY WordFacts
        <5>2. QED
          BY <1>1, <5>1 DEF LinkInv, Program
      <4>4. n > 2 \/ n <= 2
        BY <1>1
      <4>5. QED
        BY <4>1, <4>2, <4>3, <4>4
    <3>6. Len(todo') = 1 => sr'.rxne
      <4>1. Len(todo') = 1 => n = 2 /\ ~again
        BY <2>6
      <4>2. QED
        BY <1>7, <4>1
    <3>7. api' \in {"load_code", "read_line"} /\ (api' = "read_line" => code_ram' = <<>>)
      BY <1>1, <1>8 DEF LinkInv, Program
    <3>8. QED
      BY <1>8, <2>5, <3>1, <3>2, <3>3, <3>4, <3>5, <3>6, <3>7 DEF Program, Rest, Part
  <2>9. QED
    BY <1>6, <1>9, <2>2, <2>3, <2>7, <2>8 DEF LinkInv
<1>14. CASE n = 5 \/ n = 7
  <2>1. ~cr.en /\ api = "load_code" /\ ~Writes(access, "UART_TDR") /\ ~again
    <3> HIDE DEF n
    <3>1. n > 4
      BY <1>14
    <3>2. n # 4 /\ n # 2 /\ n # 3
      BY <1>14
    <3> USE DEF n
    <3>3. QED
      BY <1>5, <1>8, <3>1, <3>2
  <2>2. Rest(todo') /\ Len(todo') = n - 1
    BY <1>1, <2>1
  <2>3. Silent'
    <3> HIDE DEF access, n
    <3>1. QED
      BY <1>1, <1>2, <1>5, <2>1, SilentStep
  <2>4. bytes' = <<>> /\ code_ram' = <<>>
    BY <1>1, <1>14 DEF LinkInv, Program
  <2>5. CASE n = 5
    <3>1. access = WriteOf("UART_CR", [loaded EXCEPT !["en"] = TRUE]) /\ Len(todo') = 4
      BY <1>3, <2>2, <2>5
    <3>2. Writes(access, "UART_CR") /\ ~Writes(access, "UART_CDR")
      BY <3>1 DEF Writes, WriteOf
    <3>3. cr' = [loaded EXCEPT !["en"] = TRUE] /\ cdr' = cdr /\ clk_divider_valid' = FALSE
      BY <1>10, <3>1, <3>2 DEF WriteOf
    <3>4. cr' \in [en : BOOLEAN] /\ cr'.en
      BY <1>11, <2>5, <3>3
    <3>5. generator'.target = ClockDivider
      BY <1>10, <1>11, <2>5
    <3>6. ClockRuns'
      <4> HIDE DEF access
      <4>1. QED
        BY <1>1, <3>3, <3>4, <3>5, ClockStep
    <3>7. SoftwareTypes'
      BY <1>1, <1>7, <1>9, <3>3, Basics DEF SoftwareTypes
    <3>8. StartsUp'
      BY <3>1, <3>4 DEF StartsUp
    <3>9. Program'
      <4>1. todo' # <<>>
        BY <3>1
      <4>2. ~(Len(todo') > 4) /\ ~(Len(todo') <= 2) /\ Len(todo') # 1
        BY <3>1
      <4>3. api' = "load_code"
        BY <1>8, <2>1
      <4>4. QED
        BY <2>2, <2>4, <3>4, <4>1, <4>2, <4>3 DEF Program, Rest, Part
    <3>10. QED
      BY <1>6, <1>9, <3>6, <3>7, <3>8, <3>9 DEF LinkInv
  <2>6. CASE n = 7
    <3>1. access = WriteOf("UART_CDR", ClockDivider) /\ Len(todo') = 6
      BY <1>3, <2>2, <2>6
    <3>2. Writes(access, "UART_CDR") /\ ~Writes(access, "UART_CR")
      BY <3>1 DEF Writes, WriteOf
    <3>3. cr' = cr /\ cdr' = ClockDivider /\ clk_divider_valid' = TRUE
      BY <1>10, <3>1, <3>2 DEF WriteOf
    <3>4. cr' \in [en : BOOLEAN] /\ ~cr'.en
      BY <2>1, <3>3, Basics
    <3>5. ClockRuns'
      <4> HIDE DEF access
      <4>1. QED
        BY <1>1, <3>3, <3>4, ClockStep
    <3>6. SoftwareTypes'
      BY <1>1, <1>7, <1>9, <3>3, Basics DEF SoftwareTypes
    <3>7. StartsUp'
      BY <2>3, <3>1, <3>3 DEF StartsUp
    <3>8. Program'
      <4>1. todo' # <<>>
        BY <3>1
      <4>2. Len(todo') > 4 /\ ~(Len(todo') <= 4) /\ ~(Len(todo') <= 2) /\ Len(todo') # 1
        BY <3>1
      <4>3. api' = "load_code"
        BY <1>8, <2>1
      <4>4. QED
        BY <2>2, <2>4, <3>4, <4>1, <4>2, <4>3 DEF Program, Rest, Part
    <3>9. QED
      BY <1>6, <1>9, <3>5, <3>6, <3>7, <3>8 DEF LinkInv
  <2>7. QED
    BY <1>14, <2>5, <2>6
<1>15. QED
  BY <1>13, <1>14

\* As the last byte that was asked for is taken, nothing is on the way.
LEMMA LastTaken ==
  ASSUME RatesAgree, LinkInv, NEW access, Harmless(access), UartClock(access, PeerLine), PeerActs,
         Listens(sout), api # "none", Received >= Limit \/ (sr.rxne /\ api = "read_line" /\ rdr = Newline)
  PROVE  arriving = <<>> /\ ~PeerMaySend
<1>1. /\ Received \in Nat /\ Received <= Len(stream) /\ Len(stream) \in Nat
      /\ sr.rxne => 1 <= Received
      /\ Received = Len(stream) => arriving = <<>>
  BY StreamStep
<1>2. /\ Len(stream) <= Limit
      /\ sr.rxne => rdr = stream[Received]
      /\ api = "read_line" => \A k \in 1 .. Len(stream) - 1 : stream[k] # Newline
      /\ api \in {"load_code", "read_line"}
  BY DEF LinkInv, Counts, Program
<1>3. Limit \in Nat
  BY UartBootAssumption DEF Limit
<1>4. CASE Received >= Limit
  <2>1. Received = Len(stream) /\ ~(Len(stream) < Limit)
    BY <1>1, <1>2, <1>3, <1>4
  <2>2. ~PeerMaySend
    BY <1>2, <2>1 DEF PeerMaySend, Limit
  <2>3. QED
    BY <1>1, <2>1, <2>2
<1>5. CASE sr.rxne /\ api = "read_line" /\ rdr = Newline
  <2>1. Received \in 1 .. Len(stream) /\ stream[Received] = Newline
    BY <1>1, <1>2, <1>5
  <2>2. Received = Len(stream)
    <3> SUFFICES ASSUME Received # Len(stream) PROVE FALSE
      OBVIOUS
    <3>1. Received \in 1 .. Len(stream) - 1
      BY <1>1, <2>1
    <3>2. QED
      BY <1>2, <1>5, <2>1, <3>1
  <2>3. DOMAIN stream = 1 .. Len(stream)
    BY Basics, LenProperties
  <2>4. ~PeerMaySend
    BY <1>5, <2>1, <2>3 DEF PeerMaySend
  <2>5. QED
    BY <1>1, <2>2, <2>4
<1>6. QED
  BY <1>4, <1>5

\* What all accesses to RDR and to the code RAM have in common.
LEMMA TakingStep ==
  ASSUME RatesAgree, LinkInv, cr.en, NEW access, Plain(access),
         UartClock(access, PeerLine), Peer, Listens(sout)
  PROVE  /\ ClockRuns' /\ LineInv' /\ cr' = cr
         /\ cdr' \in Divider /\ rdr' \in Bytes
         /\ sr' \in [rxne : BOOLEAN, txact : BOOLEAN, rxerr : BOOLEAN]
         /\ sr'.rxne <=> rx_data_valid \/ (sr.rxne /\ access.reg # "UART_RDR")
<1>1. Harmless(access) /\ LineActs
  BY PeerIsPeerActs DEF Plain
<1>2. QED
  BY <1>1, PlainStep, LineStep, RegistersKeep DEF LinkInv

LEMMA TakesByteStep ==
  ASSUME RatesAgree, LinkInv, CpuAccess, Rest(todo), Len(todo) = 1
  PROVE  LinkInv'
<1> DEFINE access == ReadOf("UART_RDR")
<1>1. /\ todo # <<>> /\ bytes' = Append(bytes, rdr) /\ UNCHANGED <<code_ram, loaded>>
      /\ \/ /\ api = "read_line" /\ rdr # Newline /\ Len(bytes) + 1 < LineLength
            /\ todo' = Read /\ api' = api
         \/ /\ api = "load_code" /\ Len(bytes) + 1 < BytesPerWord
            /\ todo' = Read /\ api' = api
         \/ /\ api = "load_code" /\ Len(bytes) + 1 = BytesPerWord
            /\ todo' = <<Word>> /\ api' = api
         \/ /\ ~(api = "read_line" /\ rdr # Newline /\ Len(bytes) + 1 < LineLength)
            /\ ~(api = "load_code" /\ Len(bytes) + 1 < BytesPerWord)
            /\ ~(api = "load_code" /\ Len(bytes) + 1 = BytesPerWord)
            /\ todo' = <<>> /\ api' = "none"
      /\ UartClock(access, PeerLine) /\ Listens(sout) /\ Peer
  BY TakesByte DEF Word
<1>2. PeerActs /\ LineActs
  BY <1>1, PeerIsPeerActs
<1>3. Plain(access) /\ Harmless(access) /\ access.reg = "UART_RDR"
  BY DEF Plain, Harmless, Writes, ReadOf
<1>4. todo # <<Word>>
  BY WordFacts
<1>5. /\ api \in {"load_code", "read_line"} /\ cr.en /\ sr.rxne
      /\ IF api = "load_code" THEN Len(bytes) < BytesPerWord /\ Len(code_ram) < CodeWords
         ELSE Len(bytes) < LineLength
      /\ api = "read_line" => code_ram = <<>>
  BY <1>1, <1>4 DEF LinkInv, Program, Room
<1>6. /\ ClockRuns' /\ LineInv' /\ cr' = cr
      /\ cdr' \in Divider /\ rdr' \in Bytes
      /\ sr' \in [rxne : BOOLEAN, txact : BOOLEAN, rxerr : BOOLEAN]
      /\ sr'.rxne <=> rx_data_valid
  <2> HIDE DEF access
  <2>1. QED
    BY <1>1, <1>3, <1>5, TakingStep
<1>7. /\ Received' = Received + (IF rx_data_valid THEN 1 ELSE 0)
      /\ stream' \in Seq(PeerBytes) /\ Len(stream') <= Limit
      /\ sr'.rxne => rdr' = stream'[Received']
      /\ arriving' # <<>> => Len(stream') >= 1 /\ arriving'[1] = stream'[Len(stream')]
      /\ api = "read_line" => \A k \in 1 .. Len(stream') - 1 : stream'[k] # Newline
      /\ Received \in Nat
  <2> HIDE DEF access
  <2>1. api # "none"
    BY <1>5
  <2>2. QED
    BY <1>1, <1>2, <1>3, <2>1, StreamStep
<1>8. /\ bytes' \in Seq(Bytes) /\ Len(bytes') = Len(bytes) + 1
  BY <1>1, Basics, AppendProperties
<1>9. SoftwareTypes'
  BY <1>1, <1>6, <1>7, <1>8, Basics DEF SoftwareTypes
<1>10. Taken' = Taken + 1 /\ Taken + 1 <= Received /\ Taken \in Nat
  <2>1. Taken + 1 <= Received
    BY <1>5 DEF LinkInv, Counts
  <2>2. Taken' = Len(code_ram) * BytesPerWord + (Len(bytes) + 1)
    BY <1>1, <1>8 DEF Taken
  <2>3. /\ Taken = Len(code_ram) * BytesPerWord + Len(bytes) /\ Taken \in Nat
        /\ Len(code_ram) * BytesPerWord \in Nat /\ Len(bytes) \in Nat
    BY Basics
  <2>4. QED
    BY <2>1, <2>2, <2>3
<1>11. CASE api' = api
  <2>1. /\ \/ todo' = Read
           \/ todo' = <<Word>> /\ api = "load_code" /\ Len(bytes) + 1 = BytesPerWord
        /\ todo' = Read => Room'
    <3>1. \/ todo' = Read
          \/ todo' = <<Word>> /\ api = "load_code" /\ Len(bytes) + 1 = BytesPerWord
      BY <1>1, <1>5, <1>11
    <3>2. todo' = Read =>
            \/ api = "read_line" /\ Len(bytes) + 1 < LineLength
            \/ api = "load_code" /\ Len(bytes) + 1 < BytesPerWord
      <4>1. Len(Read) # Len(<<Word>>)
        BY TheCalls, WordFacts
      <4>2. Read # <<Word>>
        BY <4>1
      <4>3. QED
        BY <1>1, <1>5, <1>11, <4>2
    <3>3. todo' = Read => Room'
      BY <1>1, <1>5, <1>8, <1>11, <3>2 DEF Room
    <3>4. QED
      BY <3>1, <3>3
  <2>2. Word' = Word
    BY <1>1 DEF Word
  <2>3. Program'
    <3>1. CASE todo' = Read
      <4>1. Rest(todo') /\ Len(todo') = 2 /\ todo' # <<>>
        BY <3>1, TheCalls
      <4>2. Len(todo') <= 4 /\ ~(Len(todo') > 4) /\ ~(Len(todo') > 2) /\ Len(todo') # 1
        BY <4>1
      <4>3. Room' /\ cr'.en /\ api' \in {"load_code", "read_line"}
            /\ (api' = "read_line" => code_ram' = <<>>)
        BY <1>1, <1>5, <1>6, <1>11, <2>1, <3>1
      <4>4. QED
        BY <4>1, <4>2, <4>3 DEF Program, Rest, Part
    <3>2. CASE todo' = <<Word>> /\ api = "load_code" /\ Len(bytes) + 1 = BytesPerWord
      <4>1. ~Rest(todo') /\ Len(todo') = 1 /\ todo' # <<>> /\ todo' = <<Word'>>
        BY <2>2, <3>2, WordFacts
      <4>2. Len(todo') <= 4 /\ ~(Len(todo') > 4) /\ ~(Len(todo') > 2)
        BY <4>1
      <4>3. Len(bytes') = BytesPerWord /\ Len(code_ram') < CodeWords /\ api' = "load_code" /\ cr'.en
        BY <1>1, <1>5, <1>6, <1>8, <1>11, <3>2
      <4>4. QED
        BY <4>1, <4>2, <4>3 DEF Program, Rest, Part
    <3>3. QED
      BY <2>1, <3>1, <3>2
  <2>4. StartsUp'
    <3>1. Len(todo') # 6 /\ Len(todo') # 5
      <4>1. Len(todo') = 2 \/ Len(todo') = 1
        BY <2>1, TheCalls, WordFacts
      <4> DEFINE m == Len(todo')
      <4>2. m = 2 \/ m = 1
        BY <4>1
      <4> HIDE DEF m
      <4>3. m # 6 /\ m # 5
        BY <4>2
      <4>4. QED
        BY <4>3 DEF m
    <3>2. QED
      BY <1>5, <1>6, <3>1 DEF StartsUp
  <2>5. Counts'
    <3>1. Taken' + (IF sr'.rxne THEN 1 ELSE 0) <= Received'
      <4> DEFINE r == Received  s == Received'  t == Taken  u == Taken'
      <4>1. r \in Nat /\ t \in Nat /\ s = r + (IF rx_data_valid THEN 1 ELSE 0) /\ u = t + 1 /\ t + 1 <= r
        BY <1>7, <1>10
      <4> HIDE DEF r, s, t, u
      <4>2. u + (IF sr'.rxne THEN 1 ELSE 0) <= s
        BY <1>6, <4>1
      <4>3. QED
        BY <4>2 DEF s, u
    <3>2. Limit' = Limit /\ api' # "none"
      BY <1>5, <1>11 DEF Limit
    <3>3. QED
      BY <1>7, <1>11, <3>1, <3>2 DEF Counts
  <2>6. QED
    BY <1>6, <1>9, <2>3, <2>4, <2>5 DEF LinkInv
<1>12. CASE api' # api
  <2>1. /\ todo' = <<>> /\ api' = "none"
        /\ ~(api = "read_line" /\ rdr # Newline /\ Len(bytes) + 1 < LineLength)
        /\ ~(api = "load_code" /\ Len(bytes) + 1 < BytesPerWord)
        /\ ~(api = "load_code" /\ Len(bytes) + 1 = BytesPerWord)
    BY <1>1, <1>12
  <2>2. api = "read_line"
    <3>1. Len(bytes) < BytesPerWord => Len(bytes) + 1 < BytesPerWord \/ Len(bytes) + 1 = BytesPerWord
      BY Basics
    <3>2. QED
      BY <1>5, <2>1, <3>1
  <2>3. code_ram = <<>> /\ Len(bytes) < LineLength
    BY <1>5, <2>2
  <2>4. Received >= Limit \/ (sr.rxne /\ api = "read_line" /\ rdr = Newline)
    <3>1. CASE rdr = Newline
      BY <1>5, <2>2, <3>1
    <3>2. CASE rdr # Newline
      <4>1. ~(Len(bytes) + 1 < LineLength)
        BY <2>1, <2>2, <3>2
      <4>2. Len(code_ram) = 0 /\ 0 * BytesPerWord = 0
        BY <2>3, Basics
      <4>3. Taken = Len(bytes)
        BY <4>2, Basics
      <4>4. Len(bytes) + 1 <= Received
        BY <1>10, <4>3
      <4>5. Limit = LineLength /\ LineLength \in Nat /\ Len(bytes) \in Nat
        BY <2>2, Basics DEF Limit
      <4>6. QED
        BY <1>7, <4>1, <4>4, <4>5
    <3>3. QED
      BY <3>1, <3>2
  <2>5. arriving = <<>> /\ ~PeerMaySend
    <3> HIDE DEF access
    <3>1. QED
      BY <1>1, <1>2, <1>3, <1>5, <2>2, <2>4, LastTaken
  <2>6. Counts'
    <3> HIDE DEF access
    <3>1. QED
      BY <1>1, <1>2, <1>3, <2>1, <2>5, CountsEnd
  <2>7. Program'
    <3>1. Len(todo') = 0 /\ Rest(todo')
      <4>1. <<>> \in Seq(AnyAccess) /\ Len(<<>>) = 0
        OBVIOUS
      <4>2. QED
        BY <2>1, <4>1 DEF Rest, Part
    <3>2. ~(Len(todo') > 4) /\ ~(Len(todo') > 2) /\ Len(todo') # 1
      BY <3>1
    <3>3. QED
      BY <2>1, <3>1, <3>2 DEF Program, Rest, Part
  <2>8. StartsUp'
    <3>1. Len(todo') = 0
      BY <2>1
    <3>2. Len(todo') # 6 /\ Len(todo') # 5
      BY <3>1
    <3>3. QED
      BY <1>5, <1>6, <3>2 DEF StartsUp
  <2>9. QED
    BY <1>6, <1>9, <2>6, <2>7, <2>8 DEF LinkInv
<1>13. QED
  BY <1>11, <1>12

LEMMA StoresWordStep ==
  ASSUME RatesAgree, LinkInv, CpuAccess, todo = <<Word>>
  PROVE  LinkInv'
<1> DEFINE access == WriteOf("CODE_RAM", Len(code_ram))
<1>1. /\ bytes' = <<>> /\ code_ram' = Append(code_ram, bytes) /\ loaded' = loaded
      /\ \/ Len(code_ram) + 1 < CodeWords /\ todo' = Read /\ api' = api
         \/ ~(Len(code_ram) + 1 < CodeWords) /\ todo' = <<>> /\ api' = "none"
      /\ UartClock(access, PeerLine) /\ Listens(sout) /\ Peer
  BY StoresTheWord
<1>2. PeerActs /\ LineActs
  BY <1>1, PeerIsPeerActs
<1>3. Plain(access) /\ Harmless(access) /\ access.reg # "UART_RDR"
  BY DEF Plain, Harmless, Writes, WriteOf
<1>4. api = "load_code" /\ cr.en /\ Len(bytes) = BytesPerWord /\ Len(code_ram) < CodeWords
  <2>1. todo # <<>> /\ Len(todo) = 1 /\ ~Rest(todo)
    BY WordFacts
  <2>2. Len(todo) <= 4
    BY <2>1
  <2>3. QED
    BY <2>1, <2>2 DEF LinkInv, Program
<1>5. /\ ClockRuns' /\ LineInv' /\ cr' = cr
      /\ cdr' \in Divider /\ rdr' \in Bytes
      /\ sr' \in [rxne : BOOLEAN, txact : BOOLEAN, rxerr : BOOLEAN]
  <2> HIDE DEF access
  <2>1. QED
    BY <1>1, <1>3, <1>4, TakingStep
<1>6. /\ stream' \in Seq(PeerBytes) /\ Received \in Nat /\ Received <= Len(stream) /\ Len(stream) \in Nat
  <2> HIDE DEF access
  <2>1. api # "none"
    BY <1>4
  <2>2. QED
    BY <1>1, <1>2, <1>3, <2>1, StreamStep
<1>7. /\ code_ram' \in Seq(Seq(Bytes)) /\ Len(code_ram') = Len(code_ram) + 1
  BY <1>1, Basics, AppendProperties
<1>8. bytes' \in Seq(Bytes) /\ Len(bytes') = 0
  BY <1>1
<1>9. SoftwareTypes'
  BY <1>1, <1>5, <1>6, <1>7, <1>8 DEF SoftwareTypes
<1>10. Taken' = Taken /\ Taken = (Len(code_ram) + 1) * BytesPerWord
  <2>1. Len(code_ram) \in Nat /\ BytesPerWord \in Nat
    BY Basics
  <2>2. (Len(code_ram) + 1) * BytesPerWord = Len(code_ram) * BytesPerWord + BytesPerWord
    BY <2>1, SMTT(30)
  <2>3. Taken = (Len(code_ram) + 1) * BytesPerWord
    BY <1>4, <2>2 DEF Taken
  <2>4. Taken' = (Len(code_ram) + 1) * BytesPerWord + 0
    BY <1>7, <1>8 DEF Taken
  <2>5. (Len(code_ram) + 1) * BytesPerWord \in Nat
    BY <2>2, Basics
  <2>6. QED
    BY <2>3, <2>4, <2>5
<1>11. CASE Len(code_ram) + 1 < CodeWords
  <2>1. todo' = Read /\ api' = api
    BY <1>1, <1>11
  <2>2. Program'
    <3>1. Rest(todo') /\ Len(todo') = 2 /\ todo' # <<>>
      <4>1. todo' = Read
        BY <2>1
      <4>2. Rest(Read) /\ Len(Read) = 2 /\ Read # <<>>
        BY TheCalls, SMTT(30)
      <4>3. QED
        BY <4>1, <4>2
    <3>2. Len(todo') <= 4 /\ ~(Len(todo') > 4) /\ ~(Len(todo') > 2) /\ Len(todo') # 1
      BY <3>1
    <3>3. 0 < BytesPerWord
      BY Basics
    <3>4. Room' /\ cr'.en /\ api' = "load_code"
      BY <1>4, <1>5, <1>7, <1>8, <1>11, <2>1, <3>3 DEF Room
    <3>5. QED
      BY <3>1, <3>2, <3>4 DEF Program, Rest, Part
  <2>3. StartsUp'
    <3>1. Len(todo') = 2
      BY <2>1, TheCalls
    <3>2. Len(todo') # 6 /\ Len(todo') # 5
      BY <3>1
    <3>3. QED
      BY <1>4, <1>5, <3>2 DEF StartsUp
  <2>4. Counts'
    <3> HIDE DEF access
    <3>1. api # "none"
      BY <1>4
    <3>2. QED
      BY <1>1, <1>2, <1>3, <1>10, <2>1, <3>1, CountsOn
  <2>5. QED
    BY <1>5, <1>9, <2>2, <2>3, <2>4 DEF LinkInv
<1>12. CASE ~(Len(code_ram) + 1 < CodeWords)
  <2>1. todo' = <<>> /\ api' = "none"
    BY <1>1, <1>12
  <2>2. Len(code_ram) + 1 = CodeWords
    BY <1>4, <1>12, Basics
  <2>3. Taken = Limit /\ Limit \in Nat
    BY <1>4, <1>10, <2>2, Basics DEF Limit
  <2>4. Taken + (IF sr.rxne THEN 1 ELSE 0) <= Received /\ Len(stream) <= Limit
    BY <1>4 DEF LinkInv, Counts
  <2>5. Received >= Limit /\ ~sr.rxne
    <3> DEFINE r == Received  t == Taken  l == Limit  s == Len(stream)
    <3>1. r \in Nat /\ l \in Nat /\ s \in Nat /\ r <= s /\ s <= l /\ t = l
          /\ t + (IF sr.rxne THEN 1 ELSE 0) <= r
      BY <1>6, <2>3, <2>4
    <3> HIDE DEF r, t, l, s
    <3>2. r >= l /\ ~sr.rxne
      BY <3>1
    <3>3. QED
      BY <3>2 DEF r, l
  <2>6. arriving = <<>> /\ ~PeerMaySend
    <3> HIDE DEF access
    <3>1. api # "none"
      BY <1>4
    <3>2. QED
      BY <1>1, <1>2, <1>3, <2>5, <3>1, LastTaken
  <2>7. Counts'
    <3> HIDE DEF access
    <3>1. QED
      BY <1>1, <1>2, <1>3, <2>1, <2>5, <2>6, CountsEnd
  <2>8. Program'
    <3>1. Len(todo') = 0 /\ Rest(todo')
      <4>1. <<>> \in Seq(AnyAccess) /\ Len(<<>>) = 0
        OBVIOUS
      <4>2. QED
        BY <2>1, <4>1 DEF Rest, Part
    <3>2. ~(Len(todo') > 4) /\ ~(Len(todo') > 2) /\ Len(todo') # 1
      BY <3>1
    <3>3. QED
      BY <2>1, <3>1, <3>2 DEF Program, Rest, Part
  <2>9. StartsUp'
    <3>1. Len(todo') = 0
      BY <2>1
    <3>2. Len(todo') # 6 /\ Len(todo') # 5
      BY <3>1
    <3>3. QED
      BY <1>4, <1>5, <3>2 DEF StartsUp
  <2>10. QED
    BY <1>5, <1>9, <2>7, <2>8, <2>9 DEF LinkInv
<1>13. QED
  BY <1>11, <1>12

-----------------------------------------------------------------------------
(* The invariant holds, and every step is one of the link. *)

LEMMA LinkStarts ==
  ASSUME Init
  PROVE  LinkInv /\ Link!LinkInit
<1>1. /\ cr = [en |-> FALSE] /\ sr = [rxne |-> FALSE, txact |-> FALSE, rxerr |-> FALSE]
      /\ rdr = Zero /\ cdr = 0 /\ ~tx_data_valid /\ clk_divider_valid = FALSE
      /\ generator = GeneratorReset /\ tx = FrameReset /\ sout = 1
      /\ rx = FrameReset /\ rx_buffer = Zero /\ rx_data_valid = FALSE /\ rx_error = FALSE
      /\ frame = <<>> /\ held = 0 /\ wait = 0 /\ heard = NoByte
      /\ api = "none" /\ todo = <<>>
      /\ bytes = <<>> /\ code_ram = <<>> /\ stream = <<>> /\ arriving = <<>>
  BY DEF Init, UartInit, PeerInit, DriverInit
<1>2. Zero \in Bytes
  BY DEF Zero, Bytes, Bit
<1>3. 0 \in Divider /\ ByteBits \in Nat /\ ByteBits >= 1 /\ EdgesPerBit \in Nat /\ EdgesPerBit >= 1
  BY DividerModAssumption, Rates DEF Divider
<1>4. ClockRuns
  <2>1. generator \in Generator
    BY <1>1, <1>3 DEF GeneratorReset, Generator
  <2>2. QED
    <3>1. generator.counter = 0 /\ generator.target = 0 /\ generator.rising = FALSE
          /\ generator.level = FALSE
      BY <1>1 DEF GeneratorReset
    <3>2. generator.counter <= generator.target
      BY <3>1
    <3>3. generator.rising <=> generator.level /\ generator.counter = 0
      BY <3>1
    <3>4. cr \in [en : BOOLEAN] /\ ~cr.en /\ clk_divider_valid \in BOOLEAN
      BY <1>1
    <3>5. QED
      BY <2>1, <3>2, <3>3, <3>4 DEF ClockRuns
<1>5. FrameOK(rx) /\ Idle(rx) /\ Idle(tx)
  <2>1. rx = [state |-> "IDLE", bits |-> 0, edges |-> 0]
    BY <1>1 DEF FrameReset
  <2>2. rx \in Frame /\ rx.state = "IDLE" /\ rx.bits = 0 /\ rx.edges = 0
    BY <1>3, <2>1 DEF Frame
  <2>3. tx.state = "IDLE"
    BY <1>1 DEF FrameReset
  <2>4. QED
    BY <2>2, <2>3 DEF FrameOK, Idle
<1>6. LineInv
  <2>1. Len(frame) = 0 /\ Len(frame) # ByteBits + 2
    BY <1>1, <1>3
  <2>2. LineTypes
    <3>1. frame \in Seq(Bit) /\ arriving \in Seq(PeerBytes) /\ Len(frame) <= ByteBits + 2
      BY <1>1, <1>3, <2>1
    <3>2. QED
      BY <1>1, <1>2, <1>5, <3>1 DEF LineTypes
  <2>3. InStep
    BY <1>1, <1>5 DEF InStep
  <2>4. ~InFlight
    BY <1>1, <1>5, <2>1 DEF InFlight
  <2>5. \A j \in 1 .. Len(frame) : frame[j] = Level(arriving[1], PeerIndex + j)
    BY <2>1
  <2>6. Carries
    BY <1>1, <1>5, <2>4, <2>5 DEF Carries
  <2>7. QED
    BY <2>2, <2>3, <2>6 DEF LineInv
<1>7. SoftwareTypes
  BY <1>1, <1>2, <1>3 DEF SoftwareTypes
<1>8. Len(todo) = 0 /\ Rest(todo)
  <2>1. <<>> \in Seq(AnyAccess) /\ Len(<<>>) = 0
    OBVIOUS
  <2>2. QED
    BY <1>1, <2>1 DEF Rest, Part
<1>9. Len(todo) # 6 /\ Len(todo) # 5 /\ ~(Len(todo) > 4) /\ ~(Len(todo) > 2) /\ Len(todo) # 1
  BY <1>8
<1>10. StartsUp
  BY <1>1, <1>5, <1>9 DEF StartsUp, Silent
<1>11. Program
  BY <1>1, <1>8, <1>9 DEF Program
<1>12. Counts
  BY <1>1 DEF Counts
<1>13. Link!LinkInit
  BY <1>1 DEF Link!LinkInit
<1>14. QED
  BY <1>4, <1>6, <1>7, <1>10, <1>11, <1>12, <1>13 DEF LinkInv

LEMMA LinkStands ==
  ASSUME LinkInv, UNCHANGED vars
  PROVE  LinkInv' /\ UNCHANGED Link!linkVars
<1>1. /\ UNCHANGED <<cr, sr, tdr, rdr, cdr, tx_data_valid, clk_divider_valid>>
      /\ UNCHANGED <<generator, tx, tx_buffer, sout>>
      /\ UNCHANGED <<rx, rx_buffer, rx_data, rx_data_valid, rx_error>>
      /\ UNCHANGED <<frame, held, wait, samples, heard, api, todo, gap>>
      /\ UNCHANGED <<loaded, bytes, code_ram, stream, arriving>>
  BY DEF vars, uartVars, registerVars, txVars, rxVars, peerVars, driverVars
<1>2. ClockRuns' = ClockRuns /\ Phase' = Phase
  BY <1>1 DEF ClockRuns, Phase
<1>3. LineTypes' = LineTypes
  BY <1>1 DEF LineTypes
<1>4. InStep' = InStep
  BY <1>1, <1>2 DEF InStep, PeerTime, PeerIndex
<1>5. Carries' = Carries
  BY <1>1 DEF Carries, InFlight, Sampled, Got, PeerIndex
<1>6. SoftwareTypes' = SoftwareTypes
  BY <1>1 DEF SoftwareTypes
<1>7. StartsUp' = StartsUp
  BY <1>1 DEF StartsUp, Silent
<1>8. Program' = Program
  BY <1>1 DEF Program, Word, Room
<1>9. Counts' = Counts
  BY <1>1 DEF Counts, Taken, Received, Limit
<1>10. UNCHANGED Link!linkVars
  BY <1>1 DEF Link!linkVars
<1>11. QED
  BY <1>2, <1>3, <1>4, <1>5, <1>6, <1>7, <1>8, <1>9, <1>10 DEF LinkInv, LineInv

LEMMA LinkNext ==
  ASSUME RatesAgree, LinkInv, [Next]_vars
  PROVE  LinkInv'
<1>1. CASE CpuIdle
  BY <1>1, IdleStep
<1>2. CASE CpuAccess
  <2>1. Rest(todo) \/ todo = <<Word>>
    BY DEF LinkInv, Program
  <2>2. QED
    BY <1>2, <2>1, ProceedsStep, TakesByteStep, StoresWordStep
<1>3. CASE CpuCalls
  BY <1>3, CallsStep
<1>4. CASE UNCHANGED vars
  BY <1>4, LinkStands
<1>5. QED
  BY <1>1, <1>2, <1>3, <1>4 DEF Next

\* A cycle of the UART is a step of the link: a byte may be sent in it, another
\* arrive, and the software take a third.
LEMMA LinkTurns ==
  ASSUME RatesAgree, LinkInv, NEW access, Harmless(access), UartClock(access, PeerLine), LineActs
  PROVE  Link!LinkNext
<1> DEFINE takes == access.reg = "UART_RDR"
<1>1. LineInv /\ arriving \in Seq(PeerBytes) /\ rx_data_valid \in BOOLEAN
  BY DEF LinkInv, LineInv, LineTypes
<1>2. /\ sr' \in [rxne : BOOLEAN, txact : BOOLEAN, rxerr : BOOLEAN]
      /\ sr'.rxne <=> rx_data_valid \/ (sr.rxne /\ ~takes)
      /\ rdr' = IF rx_data_valid THEN rx_data ELSE rdr
  BY RegistersKeep DEF LinkInv
<1>3. rx_data_valid => arriving # <<>> /\ rx_data = Head(arriving)
  <2>1. rx_data_valid => arriving = <<arriving[1]>> /\ rx_data = arriving[1]
    BY <1>1, LineFacts DEF LineInv, Carries, InFlight
  <2>2. QED
    BY <2>1
<1>4. rdr' = IF rx_data_valid THEN Head(arriving) ELSE rdr
  BY <1>2, <1>3
<1>5. sr'.rxne = (rx_data_valid \/ (sr.rxne /\ ~takes))
  <2>1. sr'.rxne \in BOOLEAN
    BY <1>2
  <2>2. QED
    BY <1>2, <2>1
<1>6. CASE Waits
  <2> DEFINE rest == IF rx_data_valid THEN Tail(arriving) ELSE arriving
  <2>1. rest \in Seq(PeerBytes)
    BY <1>1, <1>3, HeadTailProperties
  <2>2. rest \o <<>> = rest
    BY <2>1, ConcatEmptySeq
  <2>3. arriving' = rest \o <<>>
    BY <1>6, <2>2 DEF Waits
  <2>4. Link!LinkStep(<<>>, rx_data_valid, takes)
    BY <1>3, <1>4, <1>5, <2>3 DEF Link!LinkStep
  <2>5. QED
    BY <1>1, <2>4 DEF Link!LinkNext
<1>7. ASSUME NEW byte \in PeerBytes, Begins(byte)
      PROVE  Link!LinkNext
  <2>1. arriving = <<>> /\ ~rx_data_valid
    BY <1>7, LineStep
  <2>2. arriving' = Append(<<>>, byte)
    BY <1>7, <2>1 DEF Begins
  <2>3. Append(<<>>, byte) = <<>> \o <<byte>>
    OBVIOUS
  <2>4. arriving' = (IF rx_data_valid THEN Tail(arriving) ELSE arriving) \o <<byte>>
    BY <2>1, <2>2, <2>3
  <2>5. Link!LinkStep(<<byte>>, rx_data_valid, takes)
    BY <1>3, <1>4, <1>5, <2>4 DEF Link!LinkStep
  <2>6. QED
    BY <1>1, <1>7, <2>5 DEF Link!LinkNext
<1>8. QED
  BY <1>6, <1>7 DEF LineActs

LEMMA ProceedsHarmless ==
  ASSUME CpuAccess, Rest(todo), Len(todo) # 1
  PROVE  /\ UartClock(AccessDue(loaded), PeerLine) /\ Peer
         /\ Harmless(AccessDue(loaded))
<1> DEFINE n == Len(todo)
           access == AccessDue(loaded)
<1>1. /\ n \in 2 .. 7 /\ todo # <<>>
      /\ UNCHANGED <<api, bytes, code_ram>>
      /\ loaded' = IF n = 6 THEN cr ELSE loaded
      /\ IF (n = 2 /\ ~sr.rxne) \/ (n = 3 /\ sr.txact) THEN todo' = todo
         ELSE Rest(todo') /\ Len(todo') = n - 1
      /\ UartClock(access, PeerLine) /\ Listens(sout) /\ Peer
  BY Proceeds
<1>2. /\ n = 2 => access = ReadOf("rxne")
      /\ n = 3 => access = ReadOf("txact")
      /\ n = 4 => access = WriteOf("UART_TDR", Prompt)
      /\ n = 5 => access = WriteOf("UART_CR", [loaded EXCEPT !["en"] = TRUE])
      /\ n = 6 => access = ReadOf("UART_CR")
      /\ n = 7 => access = WriteOf("UART_CDR", ClockDivider)
  BY <1>1, OnTheBus
<1>3. n = 2 \/ n = 3 \/ n = 4 \/ n = 5 \/ n = 6 \/ n = 7
  BY <1>1
<1>4. Harmless(access)
  BY <1>2, <1>3 DEF Harmless, Writes, ReadOf, WriteOf
<1>5. QED
  BY <1>1, <1>4

LEMMA LinkGoes ==
  ASSUME RatesAgree, LinkInv, [Next]_vars
  PROVE  [Link!LinkNext]_Link!linkVars
<1>1. Harmless(NoAccess)
  BY DEF NoAccess, Harmless, Writes
<1>2. CASE CpuIdle
  BY <1>1, <1>2, PeerIsPeerActs, LinkTurns DEF CpuIdle
<1>3. CASE CpuAccess
  <2>1. ASSUME Rest(todo), Len(todo) # 1
        PROVE  Link!LinkNext
    <3> DEFINE access == AccessDue(loaded)
    <3>1. UartClock(access, PeerLine) /\ Peer /\ Harmless(access)
      BY <1>3, <2>1, ProceedsHarmless
    <3> HIDE DEF access
    <3>2. QED
      BY <3>1, PeerIsPeerActs, LinkTurns
  <2>2. CASE Rest(todo) /\ Len(todo) = 1
    <3> DEFINE access == ReadOf("UART_RDR")
    <3>1. UartClock(access, PeerLine) /\ Peer
      BY <1>3, <2>2, TakesByte
    <3>2. Harmless(access)
      BY DEF Harmless, Writes, ReadOf
    <3> HIDE DEF access
    <3>3. QED
      BY <3>1, <3>2, PeerIsPeerActs, LinkTurns
  <2>3. CASE todo = <<Word>>
    <3> DEFINE access == WriteOf("CODE_RAM", Len(code_ram))
    <3>1. UartClock(access, PeerLine) /\ Peer
      BY <1>3, <2>3, StoresTheWord
    <3>2. Harmless(access)
      BY DEF Harmless, Writes, WriteOf
    <3> HIDE DEF access
    <3>3. QED
      BY <3>1, <3>2, PeerIsPeerActs, LinkTurns
  <2>4. QED
    BY <2>1, <2>2, <2>3 DEF LinkInv, Program
<1>4. CASE CpuCalls
  <2>1. UartClock(NoAccess, PeerLine) /\ KeepsSending /\ arriving' = arriving /\ api = "none"
    BY <1>4 DEF CpuCalls, Call
  <2>2. arriving = <<>>
    BY <2>1 DEF LinkInv, Counts
  <2>3. ~rx_data_valid
    BY <2>2, EmptySeq DEF LinkInv, LineInv, Carries, InFlight
  <2>4. LineActs
    BY <2>1, <2>3 DEF LineActs, Waits
  <2>5. QED
    BY <1>1, <2>1, <2>4, LinkTurns
<1>5. CASE UNCHANGED vars
  BY <1>5, LinkStands
<1>6. QED
  BY <1>2, <1>3, <1>4, <1>5 DEF Next

(* The receiver is a link of bytes to the software, whatever the divider,  *)
(* the number of edges to a bit and of bits to a byte, the bytes sent, the *)
(* phase of the two clocks and the pace of the processor and of the peer,  *)
(* wherever an arrival and a read of RDR meet: every frame of the peer is  *)
(* received, once, in order and unchanged, and rxne rises with it and      *)
(* falls only as its byte is taken.  The rates have to agree.              *)
THEOREM UartIsLink ==
  ASSUME RatesAgree
  PROVE  Spec => RefinesByteLink
<1>1. Init => LinkInv /\ Link!LinkInit
  BY LinkStarts
<1>2. LinkInv /\ [Next]_vars => LinkInv'
  BY LinkNext
<1>3. LinkInv /\ [Next]_vars => [Link!LinkNext]_Link!linkVars
  BY LinkGoes
<1>4. QED
  BY <1>1, <1>2, <1>3, PTL DEF Spec, RefinesByteLink, Link!LinkSpec

-----------------------------------------------------------------------------
(* The other direction: the prompt.  The peer samples in the middle of its *)
(* own bits, from the edge of the start bit on.                            *)

\* The peer is no slower than lets it sample the stop bit before it is over.
PeerHears == (ByteBits + 1) * (PeerBit - BitTime) + PeerBit \div 2 + Period <= BitTime

\* After a write to TDR it takes two cycles until txact is up.
PollsInTime == AccessGap >= 3

\* The cycles the peer has listened to a frame, without those before the
\* middle of the start bit.
Heard == (Len(samples) + 1) * PeerBit + PeerBit \div 2 - 1 - wait

\* What the transmitter has still to send of the prompt.
Shifts ==
  /\ tx_buffer \in Bytes
  /\ sout = Level(Prompt, Index(tx) + 1)
  /\ \A k \in 1 .. ByteBits - Index(tx) : tx_buffer[k] = Prompt[Index(tx) + k]

\* Neither side is in a frame.
Still == Idle(tx) /\ sout = 1 /\ wait = 0 /\ samples = <<>>

(* The stages of a write: TDR is written; the transmitter starts; the line *)
(* falls; the peer listens; it has heard; the transmitter is idle again.   *)
HandsOver == Still /\ tx_data_valid /\ tdr = Prompt /\ heard = NoByte /\ gap <= 1
Starts ==
  /\ tx.state = "START" /\ tx.edges = 0 /\ sout = 1 /\ wait = 0 /\ samples = <<>>
  /\ ~tx_data_valid /\ tdr = Prompt /\ heard = NoByte /\ gap <= 2
Falls ==
  /\ tx.state = "START" /\ Time(tx, Phase) \in 1 .. Period /\ Shifts /\ wait = 0 /\ samples = <<>>
  /\ ~tx_data_valid /\ tdr = Prompt /\ heard = NoByte /\ sr.txact
Goes ==
  /\ ~Idle(tx) /\ Shifts /\ wait # 0 /\ Len(samples) <= ByteBits
  /\ \A k \in 1 .. Len(samples) : samples[k] = Prompt[k]
  /\ Heard + 2 <= Time(tx, Phase) /\ Time(tx, Phase) <= Heard + Period + 1
  /\ ~tx_data_valid /\ tdr = Prompt /\ heard = NoByte /\ sr.txact
Ends ==
  /\ tx.state = "STOP" /\ sout = 1 /\ wait = 0 /\ samples = <<>>
  /\ ~tx_data_valid /\ heard = Prompt /\ sr.txact
Done == Still /\ ~tx_data_valid /\ heard = Prompt

Writing == HandsOver \/ Starts \/ Falls \/ Goes \/ Ends \/ Done

Transmits ==
  /\ FrameOK(tx) /\ samples \in Seq(Bit) /\ wait \in Nat /\ gap \in Nat
  /\ heard \in {NoByte, Prompt}
  /\ Len(todo) = 3 => Writing
  /\ Len(todo) # 3 => Still /\ ~tx_data_valid
  /\ Len(todo) > 3 => heard = NoByte
  /\ Len(todo) \in {1, 2} => heard = Prompt
  /\ api # "none" /\ heard = NoByte => stream = <<>>

-----------------------------------------------------------------------------
(* And in time.                                                            *)

\* The software takes three accesses to a byte, no further apart than its
\* speed has it, and that is less than a frame.
KeepsUp == AccessGap <= SlowestGap /\ 3 * SlowestGap < (ByteBits + 2) * BitTime

\* The cycles since the middle of the last stop bit (or fewer, if the line has
\* been idle).
SinceOf(f, phase) ==
  IF f.state = "STOP" /\ f.edges >= Mid THEN (f.edges - Mid) * Period + phase
  ELSE (EdgesPerBit - Mid) * Period + Time(f, phase)
Since == SinceOf(rx, Phase)

Timely ==
  /\ gap \in 1 .. SlowestGap
  /\ Len(todo) > 2 => ~sr.rxne /\ ~rx_data_valid
  /\ Len(todo) = 3 /\ ~Idle(rx) /\ ~Sampled =>
       IF Idle(tx) THEN Time(rx, Phase) <= BitTime + (IF sr.txact THEN 0 ELSE gap)
       ELSE tx.state = "STOP" /\ rx.state = "START" /\ rx.edges <= tx.edges
  /\ sr.rxne /\ Len(todo) = 2 => Since <= SlowestGap + gap
  /\ sr.rxne /\ Len(todo) = 1 /\ Rest(todo) => Since <= 2 * SlowestGap + gap
  /\ sr.rxne /\ todo = <<Word>> => Since <= gap
  /\ rx_data_valid => ~sr.rxne

Ordered ==
  /\ api # "none" => Taken + (IF sr.rxne THEN 1 ELSE 0) = Received
  /\ NothingOverrun
  /\ LineIsRead

-----------------------------------------------------------------------------
(* The prompt is heard. *)

\* In the middle of bit i, as the peer counts, we are in it, for i below the
\* stop bit and in it.
LEMMA Slack ==
  ASSUME BitTime <= PeerBit, PeerHears, NEW i \in Nat, i <= ByteBits + 1
  PROVE  /\ i * PeerBit \in Nat /\ i * BitTime \in Nat /\ i * BitTime <= i * PeerBit
         /\ i * PeerBit + PeerBit \div 2 + Period <= i * BitTime + BitTime
<1> DEFINE g == PeerBit - BitTime  half == PeerBit \div 2
<1>1. PeerBit \in Nat /\ BitTime \in Nat /\ ByteBits \in Nat /\ Period \in Nat /\ half \in Nat
  BY Rates
<1>2. g \in Nat /\ BitTime + g = PeerBit
  BY <1>1
<1>3. (ByteBits + 1) * g + half + Period <= BitTime
  BY DEF PeerHears
<1> HIDE DEF g, half
<1>4. BitTime \in Int /\ g \in Int /\ i \in Int
  BY <1>1, <1>2
<1>5. (BitTime + g) * i = BitTime * i + g * i
  BY <1>4, Distributes, ZenonT(40)
<1>6. i * g \in Nat /\ i * BitTime \in Nat /\ (ByteBits + 1) * g \in Nat
  BY <1>1, <1>2
<1>7. i * PeerBit = i * BitTime + i * g
  BY <1>1, <1>2, <1>5
<1>8. i * g <= (ByteBits + 1) * g
  BY <1>1, <1>2, Grows
<1> DEFINE ig == i * g  bg == (ByteBits + 1) * g  ib == i * BitTime  ip == i * PeerBit
<1>9. /\ ig \in Nat /\ ib \in Nat /\ bg \in Nat /\ ip = ib + ig /\ ig <= bg
      /\ bg + half + Period <= BitTime
  BY <1>3, <1>6, <1>7, <1>8
<1> HIDE DEF ig, bg, ib, ip
<1>10. ip \in Nat /\ ib <= ip /\ ip + half + Period <= ib + BitTime
  BY <1>1, <1>9
<1>11. QED
  BY <1>9, <1>10 DEF ib, ip, half

\* A frame ends with the last edge of its stop bit.
LEMMA FrameEnd ==
  ASSUME NEW f, f.state = "STOP", f.edges = EdgesPerBit - 1
  PROVE  Time(f, Period - 1) + 1 = (ByteBits + 2) * BitTime
<1>1. Index(f) = ByteBits + 1
  BY DEF Index
<1>2. /\ ByteBits \in Nat /\ BitTime \in Nat /\ Period \in Nat /\ Period >= 2
      /\ EdgesPerBit \in Nat /\ EdgesPerBit >= 1
  BY Rates
<1>3. f.edges * Period + Period = BitTime /\ f.edges * Period \in Nat
  <2>1. f.edges \in 0 .. EdgesPerBit - 1 /\ 0 \in 0 .. Period - 1
    BY <1>2
  <2>2. QED
    BY <2>1, InBit
<1>4. (ByteBits + 1) * BitTime + BitTime = (ByteBits + 2) * BitTime /\ (ByteBits + 1) * BitTime \in Nat
  <2>1. ByteBits + 1 \in Nat /\ (ByteBits + 1) + 1 = ByteBits + 2
    BY <1>2
  <2>2. ((ByteBits + 1) + 1) * BitTime = (ByteBits + 1) * BitTime + BitTime
        /\ (ByteBits + 1) * BitTime \in Nat
    BY <1>2, <2>1, Grows
  <2>3. QED
    BY <2>1, <2>2
<1>5. QED
  BY <1>1, <1>2, <1>3, <1>4 DEF Time

\* An access that does not start the transmitter.
LEMMA StillStep ==
  ASSUME Still, ~tx_data_valid, NEW access, Harmless(access), ~Writes(access, "UART_TDR"),
         UartClock(access, PeerLine),
         Listens(sout) \/ (wait' = wait /\ samples' = samples)
  PROVE  Still' /\ ~tx_data_valid' /\ tx' = tx /\ (Listens(sout) => heard' = heard)
<1>1. tx.state = "IDLE" /\ sout = 1 /\ wait = 0 /\ samples = <<>>
  BY DEF Still, Idle
<1>2. tx' = tx /\ sout' = sout
  <2>1. Transmitter
    BY DEF UartClock
  <2>2. tx' = tx
    BY <1>1, <2>1 DEF Transmitter, FrameNxt
  <2>3. sout' = sout
    BY <1>1, <2>1 DEF Transmitter
  <2>4. QED
    BY <2>2, <2>3
<1>3. ~tx_data_valid'
  BY DEF UartClock, Registers, Harmless
<1>4. Listens(sout) => wait' = 0 /\ samples' = samples /\ heard' = heard
  BY <1>1 DEF Listens
<1>5. QED
  BY <1>1, <1>2, <1>3, <1>4 DEF Still, Idle

\* The transmitter counts as the receiver does.
LEMMA TransmitterTicks ==
  ASSUME LinkInv, cr.en, FrameOK(tx), ~Idle(tx), NEW access, UartClock(access, PeerLine)
  PROVE  /\ Phase \in 0 .. Period - 1 /\ (SerialEdge <=> Phase = Period - 1) /\ Phase' \in 0 .. Period - 1
         /\ FrameOK(tx')
         /\ tx.state = "STOP" /\ LastEdge(tx) => Idle(tx')
         /\ ~(tx.state = "STOP" /\ LastEdge(tx)) =>
              ~Idle(tx') /\ Time(tx', Phase') = Time(tx, Phase) + 1
         /\ tx' = FrameNxt(tx, tx_data_valid)
<1>1. generator' = GeneratorNxt(generator, cr.en, clk_divider_valid, cdr) /\ Transmitter
  BY DEF UartClock
<1>2. ClockRuns /\ cdr \in Divider
  BY DEF LinkInv, SoftwareTypes
<1>3. /\ Phase \in 0 .. Period - 1 /\ (SerialEdge <=> Phase = Period - 1)
      /\ Phase' = Ticked(Phase)
  BY <1>1, <1>2, PhaseTicks
<1>4. tx' = FrameNxt(tx, tx_data_valid)
  BY <1>1 DEF Transmitter
<1>5. tx' = FrameNxt(tx, FALSE)
  BY <1>4 DEF FrameNxt, Idle
<1>6. Phase' \in 0 .. Period - 1
  BY <1>3, Rates DEF Ticked
<1>7. /\ FrameOK(tx')
      /\ tx.state = "STOP" /\ LastEdge(tx) => Idle(tx')
      /\ ~(tx.state = "STOP" /\ LastEdge(tx)) =>
           ~Idle(tx') /\ Time(tx', Ticked(Phase)) = Time(tx, Phase) + 1
  <2> DEFINE phase == Phase
  <2>1. phase \in 0 .. Period - 1 /\ (SerialEdge <=> phase = Period - 1)
    BY <1>3
  <2> HIDE DEF phase
  <2>2. /\ FrameOK(tx')
        /\ tx.state = "STOP" /\ LastEdge(tx) => Idle(tx')
        /\ ~(tx.state = "STOP" /\ LastEdge(tx)) =>
             ~Idle(tx') /\ Time(tx', Ticked(phase)) = Time(tx, phase) + 1
    BY <1>5, <2>1, FrameTicks
  <2>3. QED
    BY <2>2 DEF phase
<1>8. QED
  BY <1>3, <1>4, <1>6, <1>7

LEMMA PromptBits ==
  /\ Prompt \in Bytes /\ Prompt \in Seq(Bit) /\ Len(Prompt) = ByteBits
  /\ Level(Prompt, 1) = 0 /\ Level(Prompt, ByteBits + 2) = 1
  /\ \A i \in 1 .. ByteBits : Level(Prompt, i + 1) = Prompt[i]
  /\ Prompt # NoByte
<1>1. Prompt \in Bytes
  BY UartBootAssumption
<1>2. Prompt \in Seq(Bit) /\ Len(Prompt) = ByteBits /\ ByteBits \in Nat /\ ByteBits >= 1
  BY <1>1, ByteIsSequence, Rates
<1>3. Level(Prompt, 1) = 0 /\ Level(Prompt, ByteBits + 2) = 1
  BY <1>2 DEF Level
<1>4. ASSUME NEW i \in 1 .. ByteBits
      PROVE  Level(Prompt, i + 1) = Prompt[i]
  <2>1. i + 1 # 1 /\ i + 1 # ByteBits + 2 /\ (i + 1) - 1 = i
    BY <1>2
  <2>2. QED
    BY <2>1 DEF Level
<1>5. Prompt # NoByte
  <2>1. Len(NoByte) = 0
    BY DEF NoByte
  <2>2. QED
    BY <1>2, <2>1
<1>6. QED
  BY <1>1, <1>2, <1>3, <1>4, <1>5

\* As long as the start bit lasts the buffer is loaded.
LEMMA Loads ==
  ASSUME FrameOK(tx), tx.state = "START", ~LastEdge(tx), Transmitter, tdr = Prompt
  PROVE  Shifts' /\ tx'.state = "START" /\ Index(tx') = 0
         /\ tx'.edges = IF SerialEdge THEN tx.edges + 1 ELSE tx.edges
<1>1. tx \in Frame
  BY DEF FrameOK
<1>2. tx'.state = "START" /\ tx'.edges = IF SerialEdge THEN tx.edges + 1 ELSE tx.edges
  <2>1. tx' = IF SerialEdge THEN [tx EXCEPT !.edges = @ + 1] ELSE tx
    BY DEF Transmitter, FrameNxt
  <2>2. QED
    BY <1>1, <2>1 DEF Frame
<1>3. sout' = 0 /\ tx_buffer' = Prompt
  BY DEF Transmitter
<1>4. Index(tx') = 0
  BY <1>2 DEF Index
<1>5. ByteBits \in Nat
  BY Rates
<1>6. Shifts'
  <2>1. Index(tx') + 1 = 1 /\ \A k \in 1 .. ByteBits - Index(tx') : Index(tx') + k = k
    BY <1>4, <1>5
  <2>2. tx_buffer' \in Bytes /\ sout' = Level(Prompt, Index(tx') + 1)
    BY <1>3, <2>1, PromptBits
  <2>3. \A k \in 1 .. ByteBits - Index(tx') : tx_buffer'[k] = Prompt[Index(tx') + k]
    BY <1>3, <2>1
  <2>4. QED
    BY <2>2, <2>3 DEF Shifts
<1>7. QED
  BY <1>2, <1>4, <1>6

\* One bit after the other.
LEMMA ShiftsOn ==
  ASSUME FrameOK(tx), ~Idle(tx), ~(tx.state = "STOP" /\ LastEdge(tx)), Shifts, Transmitter,
         tdr = Prompt
  PROVE  Shifts'
<1> DEFINE i == Index(tx)
<1>1. /\ tx \in Frame /\ tx.state \in {"START", "ACTIVE", "STOP"}
      /\ tx.bits \in 0 .. ByteBits - 1 /\ (tx.state # "ACTIVE" => tx.bits = 0)
  BY DEF FrameOK, Frame, Idle
<1>2. ByteBits \in Nat /\ ByteBits >= 1 /\ i \in 0 .. ByteBits + 1
  BY <1>1, Rates DEF Index
<1>3. /\ tx_buffer \in Bytes /\ sout = Level(Prompt, i + 1)
      /\ \A k \in 1 .. ByteBits - i : tx_buffer[k] = Prompt[i + k]
  BY DEF Shifts
<1>4. tx' = FrameNxt(tx, tx_data_valid)
  BY DEF Transmitter
<1>5. CASE tx.state = "START" /\ ~LastEdge(tx)
  BY <1>5, Loads
<1>6. CASE LastEdge(tx) /\ (tx.state = "START" \/ (tx.state = "ACTIVE" /\ ~LastBit(tx)))
  <2>1. Index(tx') = i + 1 /\ i < ByteBits
    <3>1. CASE tx.state = "START"
      <4>1. tx' = [tx EXCEPT !.state = "ACTIVE", !.edges = 0]
        BY <1>4, <1>6, <3>1 DEF FrameNxt
      <4>2. tx'.state = "ACTIVE" /\ tx'.bits = 0
        BY <1>1, <3>1, <4>1 DEF Frame
      <4>3. QED
        BY <1>2, <3>1, <4>2 DEF Index
    <3>2. CASE tx.state = "ACTIVE" /\ ~LastBit(tx)
      <4>1. tx' = [tx EXCEPT !.bits = @ + 1, !.edges = 0]
        BY <1>4, <1>6, <3>2 DEF FrameNxt
      <4>2. tx'.state = "ACTIVE" /\ tx'.bits = tx.bits + 1
        BY <1>1, <3>2, <4>1 DEF Frame
      <4>3. tx.bits # ByteBits - 1
        BY <3>2 DEF LastBit
      <4>4. QED
        BY <1>1, <1>2, <3>2, <4>2, <4>3 DEF Index
    <3>3. QED
      BY <1>6, <3>1, <3>2
  <2>2. sout' = Head(tx_buffer) /\ tx_buffer' = ShiftIn(tx_buffer, 0)
    BY <1>6 DEF Transmitter, SendsBit
  <2>3. /\ tx_buffer' \in Bytes /\ sout' = tx_buffer[1]
        /\ \A k \in 1 .. ByteBits - 1 : tx_buffer'[k] = tx_buffer[k + 1]
    BY <1>3, <2>2, Shifted DEF Bit
  <2>4. sout' = Level(Prompt, (i + 1) + 1)
    <3>1. 1 \in 1 .. ByteBits - i /\ i + 1 \in 1 .. ByteBits
      BY <1>2, <2>1
    <3>2. QED
      BY <1>3, <2>3, <3>1, PromptBits
  <2>5. ASSUME NEW k \in 1 .. ByteBits - (i + 1)
        PROVE  tx_buffer'[k] = Prompt[(i + 1) + k]
    <3>1. k \in 1 .. ByteBits - 1 /\ k + 1 \in 1 .. ByteBits - i /\ i + (k + 1) = (i + 1) + k
      BY <1>2, <2>1
    <3>2. tx_buffer'[k] = tx_buffer[k + 1]
      BY <2>3, <3>1
    <3>3. tx_buffer[k + 1] = Prompt[i + (k + 1)]
      BY <1>3, <3>1
    <3>4. QED
      BY <3>1, <3>2, <3>3
  <2> HIDE DEF i
  <2>6. QED
    BY <2>1, <2>3, <2>4, <2>5 DEF Shifts
<1>7. CASE LastEdge(tx) /\ tx.state = "ACTIVE" /\ LastBit(tx)
  <2>1. tx' = [state |-> "STOP", bits |-> 0, edges |-> 0]
    BY <1>4, <1>7 DEF FrameNxt
  <2>2. Index(tx') = ByteBits + 1
    BY <2>1 DEF Index
  <2>3. sout' = 1 /\ tx_buffer' = tx_buffer
    BY <1>7 DEF Transmitter
  <2>4. Index(tx') + 1 = ByteBits + 2 /\ 1 .. ByteBits - Index(tx') = {}
    BY <1>2, <2>2
  <2>5. QED
    BY <1>3, <2>3, <2>4, PromptBits DEF Shifts
<1>8. CASE ~LastEdge(tx) /\ tx.state # "START"
  <2>1. tx' = IF SerialEdge THEN [tx EXCEPT !.edges = @ + 1] ELSE tx
    BY <1>1, <1>4, <1>8 DEF FrameNxt
  <2>2. tx'.state = tx.state /\ tx'.bits = tx.bits
    BY <1>1, <2>1 DEF Frame
  <2>3. Index(tx') = Index(tx)
    BY <2>2 DEF Index
  <2>4. sout' = sout /\ tx_buffer' = tx_buffer
    BY <1>1, <1>8 DEF Transmitter
  <2>5. QED
    BY <1>3, <2>3, <2>4 DEF Shifts
<1>9. QED
  BY <1>1, <1>5, <1>6, <1>7, <1>8

\* The registers the transmitter knows.
LEMMA TransmitterRegisters ==
  ASSUME SoftwareTypes, NEW access, Harmless(access), UartClock(access, PeerLine)
  PROVE  /\ tx_data_valid' <=> Writes(access, "UART_TDR")
         /\ tdr' = IF Writes(access, "UART_TDR") THEN access.wdata ELSE tdr
         /\ sr'.txact <=> ~Idle(tx)
         /\ Transmitter
<1>1. Registers(access) /\ Transmitter
  BY DEF UartClock
<1>2. sr' = [rxne  |-> rx_data_valid \/ (sr.rxne /\ ~(sr.rxne /\ access.reg = "UART_RDR")),
             rxerr |-> rx_error \/ sr.rxerr,
             txact |-> tx.state # "IDLE"]
  BY <1>1 DEF Registers, Harmless
<1>3. sr'.txact = (tx.state # "IDLE")
  BY <1>2
<1>4. tx_data_valid' = (Writes(access, "UART_TDR") \/ Writes(access, "UART_RDR"))
      /\ tdr' = IF Writes(access, "UART_TDR") THEN access.wdata ELSE tdr
  BY <1>1 DEF Registers
<1>5. QED
  BY <1>1, <1>3, <1>4 DEF Harmless, Idle

\* The start bit begins.
LEMMA StartStep ==
  ASSUME LinkInv, cr.en, FrameOK(tx), wait \in Nat, NEW access, UartClock(access, PeerLine),
         ~Writes(access, "UART_TDR"), Harmless(access), Listens(sout), Starts
  PROVE  Falls' /\ FrameOK(tx') /\ samples' = samples /\ wait' \in Nat
<1>1. /\ tx.state = "START" /\ tx.edges = 0 /\ sout = 1 /\ wait = 0 /\ samples = <<>>
      /\ tdr = Prompt /\ heard = NoByte /\ ~Idle(tx)
  BY DEF Starts, Idle
<1>2. /\ ~tx_data_valid' /\ tdr' = Prompt /\ sr'.txact /\ Transmitter
  BY <1>1, TransmitterRegisters DEF LinkInv
<1>3. wait' = 0 /\ samples' = <<>> /\ heard' = NoByte
  BY <1>1 DEF Listens
<1>4. EdgesPerBit \in Nat /\ EdgesPerBit >= 2 /\ Period \in Nat /\ BitTime \in Nat
  BY Rates
<1>5. ~LastEdge(tx)
  BY <1>1, <1>4 DEF LastEdge
<1>6. Shifts' /\ tx'.state = "START"
  BY <1>1, <1>2, <1>5, Loads
<1>7. /\ Phase \in 0 .. Period - 1 /\ FrameOK(tx')
      /\ Time(tx', Phase') = Time(tx, Phase) + 1
  BY <1>1, TransmitterTicks
<1>8. Time(tx, Phase) = Phase
  <2>1. Index(tx) = 0
    BY <1>1 DEF Index
  <2>2. 0 * BitTime = 0 /\ 0 * Period = 0
    BY <1>4
  <2>3. Time(tx, Phase) = 0 * BitTime + 0 * Period + Phase
    BY <1>1, <2>1 DEF Time
  <2>4. QED
    BY <1>7, <2>2, <2>3
<1>9. Time(tx', Phase') \in 1 .. Period
  BY <1>4, <1>7, <1>8
<1>10. QED
  BY <1>1, <1>2, <1>3, <1>6, <1>7, <1>9 DEF Falls

\* The peer sees the line fall.
LEMMA FallStep ==
  ASSUME LinkInv, cr.en, FrameOK(tx), wait \in Nat, NEW access, UartClock(access, PeerLine),
         ~Writes(access, "UART_TDR"), Harmless(access), Listens(sout), Falls
  PROVE  Goes' /\ FrameOK(tx') /\ samples' = samples /\ wait' \in Nat
<1>1. /\ tx.state = "START" /\ wait = 0 /\ samples = <<>> /\ Shifts
      /\ tdr = Prompt /\ heard = NoByte /\ ~Idle(tx) /\ Time(tx, Phase) \in 1 .. Period
  BY DEF Falls, Idle
<1>2. /\ ~tx_data_valid' /\ tdr' = Prompt /\ sr'.txact /\ Transmitter
  BY <1>1, TransmitterRegisters DEF LinkInv
<1>3. PeerBit \in Nat /\ PeerBit >= 2 /\ PeerBit \div 2 \in Nat /\ PeerBit \div 2 >= 1 /\ Period \in Nat
      /\ ByteBits \in Nat
  BY Rates
<1>4. sout = 0
  <2>1. Index(tx) + 1 = 1
    BY <1>1 DEF Index
  <2>2. QED
    BY <1>1, <2>1, PromptBits DEF Shifts
<1>5. wait' = PeerBit + PeerBit \div 2 - 1 /\ samples' = <<>> /\ heard' = NoByte
  BY <1>1, <1>4 DEF Listens
<1>6. wait' # 0 /\ wait' \in Nat /\ Len(samples') = 0
  BY <1>3, <1>5
<1>7. Heard' = 0
  <2>1. (0 + 1) * PeerBit = PeerBit
    BY <1>3
  <2>2. Heard' = (0 + 1) * PeerBit + PeerBit \div 2 - 1 - wait'
    BY <1>6 DEF Heard
  <2> DEFINE half == PeerBit \div 2
  <2>3. half \in Nat /\ wait' = PeerBit + half - 1 /\ Heard' = PeerBit + half - 1 - wait'
    BY <1>3, <1>5, <2>1, <2>2
  <2> HIDE DEF half
  <2>4. QED
    BY <1>3, <2>3
<1>8. Shifts'
  BY <1>1, <1>2, ShiftsOn
<1>9. ~Idle(tx') /\ FrameOK(tx') /\ Time(tx', Phase') = Time(tx, Phase) + 1
  BY <1>1, TransmitterTicks
<1>10. Heard' + 2 <= Time(tx', Phase') /\ Time(tx', Phase') <= Heard' + Period + 1
  BY <1>1, <1>3, <1>7, <1>9
<1>11. \A k \in 1 .. Len(samples') : samples'[k] = Prompt[k]
  BY <1>6
<1>12. QED
  BY <1>1, <1>2, <1>3, <1>5, <1>6, <1>8, <1>9, <1>10, <1>11 DEF Goes

LEMMA StopGoes ==
  ASSUME FrameOK(tx), tx.state = "STOP", Transmitter
  PROVE  tx'.state = "STOP" \/ Idle(tx')
<1>1. tx \in Frame /\ tx' = FrameNxt(tx, tx_data_valid)
  BY DEF FrameOK, Transmitter
<1>2. CASE LastEdge(tx)
  <2>1. tx' = [tx EXCEPT !.state = "IDLE", !.edges = 0]
    BY <1>1, <1>2 DEF FrameNxt
  <2>2. QED
    BY <1>1, <2>1 DEF Frame, Idle
<1>3. CASE ~LastEdge(tx)
  <2>1. tx' = IF SerialEdge THEN [tx EXCEPT !.edges = @ + 1] ELSE tx
    BY <1>1, <1>3 DEF FrameNxt
  <2>2. QED
    BY <1>1, <2>1 DEF Frame
<1>4. QED
  BY <1>2, <1>3

\* The peer listens and samples.
LEMMA GoStep ==
  ASSUME BitTime <= PeerBit, PeerHears, LinkInv, cr.en, FrameOK(tx), wait \in Nat, samples \in Seq(Bit),
         NEW access, UartClock(access, PeerLine),
         ~Writes(access, "UART_TDR"), Harmless(access), Listens(sout), Goes
  PROVE  (Goes' \/ Ends' \/ Done') /\ FrameOK(tx') /\ samples' \in Seq(Bit) /\ wait' \in Nat
<1> DEFINE t == Time(tx, Phase)  half == PeerBit \div 2  l == Len(samples)  i == l + 1
           after == Time(tx', Phase')
<1>1. /\ ~Idle(tx) /\ Shifts /\ wait # 0 /\ l <= ByteBits
      /\ \A k \in 1 .. l : samples[k] = Prompt[k]
      /\ Heard + 2 <= t /\ t <= Heard + Period + 1
      /\ tdr = Prompt /\ heard = NoByte
  BY DEF Goes
<1>2. /\ ~tx_data_valid' /\ tdr' = Prompt /\ sr'.txact /\ Transmitter
  BY <1>1, TransmitterRegisters DEF LinkInv
<1>3. /\ PeerBit \in Nat /\ PeerBit >= 2 /\ half \in Nat /\ Period \in Nat /\ ByteBits \in Nat
      /\ BitTime \in Nat /\ l \in Nat /\ i \in Nat /\ i <= ByteBits + 1 /\ wait >= 1
  <2>1. /\ PeerBit \in Nat /\ PeerBit >= 2 /\ Period \in Nat /\ ByteBits \in Nat /\ BitTime \in Nat
        /\ l \in Nat
    BY Rates, LenProperties
  <2>2. wait \in Nat /\ wait # 0 /\ l <= ByteBits
    BY <1>1
  <2> HIDE DEF l
  <2>3. QED
    BY <2>1, <2>2
<1>4. /\ Phase \in 0 .. Period - 1 /\ Phase' \in 0 .. Period - 1 /\ FrameOK(tx')
      /\ SerialEdge <=> Phase = Period - 1
      /\ tx.state = "STOP" /\ LastEdge(tx) => Idle(tx')
      /\ ~(tx.state = "STOP" /\ LastEdge(tx)) => ~Idle(tx') /\ after = t + 1
      /\ tx' = FrameNxt(tx, tx_data_valid)
  BY <1>1, TransmitterTicks
<1>5. Heard = i * PeerBit + half - 1 - wait
  BY DEF Heard
<1>6. /\ i * PeerBit \in Nat /\ i * BitTime \in Nat /\ i * BitTime <= i * PeerBit
      /\ i * PeerBit + half + Period <= i * BitTime + BitTime
  BY <1>3, Slack
<1>7. /\ Index(tx) \in 0 .. ByteBits + 1 /\ Index(tx) * BitTime \in Nat /\ t \in Nat
      /\ Index(tx) * BitTime <= t /\ t + 1 <= Index(tx) * BitTime + BitTime
  <2>1. FrameOK(tx) /\ Phase \in 0 .. Period - 1
    BY <1>4
  <2>2. QED
    BY <2>1, FrameTimes
<1>8. tx.state = "STOP" /\ LastEdge(tx) => t + 1 = (ByteBits + 2) * BitTime
  <2>1. tx.state = "STOP" /\ LastEdge(tx) => tx.edges = EdgesPerBit - 1 /\ Phase = Period - 1
    BY <1>4 DEF LastEdge
  <2>2. QED
    BY <2>1, FrameEnd
<1>9. i * BitTime + BitTime <= (ByteBits + 2) * BitTime /\ (ByteBits + 2) * BitTime \in Nat
  <2>1. ByteBits + 2 \in Nat /\ i + 1 <= ByteBits + 2 /\ i < ByteBits + 2
    BY <1>3
  <2>2. QED
    BY <1>3, <2>1, Grows
<1> DEFINE ip == i * PeerBit  ib == i * BitTime  whole == (ByteBits + 2) * BitTime
<1>10. /\ ip \in Nat /\ ib \in Nat /\ whole \in Nat /\ ib <= ip
       /\ ip + half + Period <= ib + BitTime /\ ib + BitTime <= whole
       /\ Heard = ip + half - 1 - wait
  BY <1>5, <1>6, <1>9
<1>11. CASE wait > 1
  <2>1. wait' = wait - 1 /\ samples' = samples /\ heard' = heard
    BY <1>1, <1>11 DEF Listens
  <2>2. Heard' = ip + half - 1 - wait'
    BY <2>1 DEF Heard
  <2>3. t + 1 < whole
    <3> DEFINE h == Heard
    <3>1. t <= h + Period + 1 /\ h = ip + half - 1 - wait /\ t \in Nat
      BY <1>1, <1>7, <1>10
    <3> HIDE DEF ip, ib, whole, half, t, h
    <3>2. h <= ip + half - 3
      BY <1>3, <1>10, <1>11, <3>1
    <3>3. ip + half + Period <= whole
      BY <1>3, <1>10
    <3>4. QED
      BY <1>3, <1>10, <3>1, <3>2, <3>3
  <2>4. ~(tx.state = "STOP" /\ LastEdge(tx))
    <3> HIDE DEF t
    <3>1. QED
      BY <1>7, <1>8, <1>10, <2>3
  <2>5. ~Idle(tx') /\ after = t + 1
    BY <1>4, <2>4
  <2>6. Heard' + 2 <= after /\ after <= Heard' + Period + 1
    <3> HIDE DEF ip, ib, whole, half, t, after
    <3>1. Heard' = Heard + 1 /\ Heard \in Int
      BY <1>3, <1>10, <1>11, <2>1, <2>2
    <3>2. QED
      BY <1>1, <1>3, <1>7, <2>5, <3>1
  <2>7. Shifts'
    BY <1>1, <1>2, <2>4, ShiftsOn
  <2>8. wait' # 0 /\ wait' \in Nat
    BY <1>11, <2>1
  <2>9. Goes'
    BY <1>1, <1>2, <2>1, <2>5, <2>6, <2>7, <2>8 DEF Goes
  <2>10. QED
    BY <1>4, <2>1, <2>8, <2>9
<1>12. CASE wait = 1
  <2>1. ib <= t /\ t < ib + BitTime
    <3> HIDE DEF ip, ib, whole, half, t
    <3>1. QED
      BY <1>1, <1>3, <1>7, <1>10, <1>12
  <2>2. Index(tx) = i
    <3> DEFINE n == Index(tx)
    <3>1. n \in Nat /\ n * BitTime <= t /\ t + 1 <= n * BitTime + BitTime /\ n * BitTime \in Nat
      BY <1>7
    <3> HIDE DEF n, t
    <3>2. n < i => n * BitTime + BitTime <= ib
      <4> SUFFICES ASSUME n < i PROVE n * BitTime + BitTime <= i * BitTime
        OBVIOUS
      <4>1. n <= i
        BY <1>3, <3>1
      <4>2. QED
        BY <1>3, <3>1, <4>1, Grows
    <3>3. i < n => ib + BitTime <= n * BitTime
      <4> SUFFICES ASSUME i < n PROVE i * BitTime + BitTime <= n * BitTime
        OBVIOUS
      <4>1. i <= n
        BY <1>3, <3>1
      <4>2. QED
        BY <1>3, <3>1, <4>1, Grows
    <3> DEFINE nb == n * BitTime
    <3>4. /\ nb \in Nat /\ nb <= t /\ t + 1 <= nb + BitTime
          /\ n < i => nb + BitTime <= ib
          /\ i < n => ib + BitTime <= nb
      BY <3>1, <3>2, <3>3
    <3> HIDE DEF nb, ib
    <3>5. ib \in Nat /\ t \in Nat /\ BitTime \in Nat
      BY <1>3, <1>7, <1>10
    <3>6. ~(n < i) /\ ~(i < n)
      BY <2>1, <3>4, <3>5
    <3>7. QED
      BY <1>3, <3>1, <3>6 DEF n
  <2>3. sout = Level(Prompt, i + 1)
    BY <1>1, <2>2 DEF Shifts
  <2>4. CASE l < ByteBits
    <3>1. samples' = Append(samples, sout) /\ wait' = PeerBit /\ heard' = heard
      BY <1>12, <2>4, UartBootAssumption DEF Listens
    <3>2. sout = Prompt[i] /\ i \in 1 .. ByteBits /\ sout \in Bit
      <4>1. i \in 1 .. ByteBits
        BY <1>3, <2>4
      <4>2. QED
        BY <2>3, <4>1, PromptBits, ByteIsSequence
    <3>3. /\ samples' \in Seq(Bit) /\ Len(samples') = i
          /\ \A k \in 1 .. l : samples'[k] = samples[k]
          /\ samples'[i] = sout
      BY <3>1, <3>2, AppendProperties
    <3>4. \A k \in 1 .. Len(samples') : samples'[k] = Prompt[k]
      <4> SUFFICES ASSUME NEW k \in 1 .. i PROVE samples'[k] = Prompt[k]
        BY <3>3
      <4>1. k = i \/ k \in 1 .. l
        BY <1>3
      <4>2. QED
        BY <1>1, <3>2, <3>3, <4>1
    <3>5. Heard' = ip + half - 1
      <4>1. (i + 1) * PeerBit = i * PeerBit + PeerBit
        BY <1>3, Grows
      <4>2. Heard' = (i + 1) * PeerBit + half - 1 - PeerBit
        BY <3>1, <3>3 DEF Heard
      <4>3. Heard' = ip + PeerBit + half - 1 - PeerBit
        BY <4>1, <4>2
      <4> HIDE DEF ip, half
      <4>4. QED
        BY <1>3, <1>10, <4>3
    <3>6. tx.state # "STOP"
      <4>1. i # ByteBits + 1
        BY <1>3, <2>4
      <4>2. QED
        BY <2>2, <4>1 DEF Index
    <3>7. ~Idle(tx') /\ after = t + 1
      BY <1>4, <3>6
    <3>8. Heard' + 2 <= after /\ after <= Heard' + Period + 1
      <4> HIDE DEF ip, ib, whole, half, t, after
      <4>1. QED
        BY <1>1, <1>3, <1>7, <1>10, <1>12, <3>5, <3>7
    <3>9. Shifts'
      BY <1>1, <1>2, <3>6, ShiftsOn
    <3>10. wait' # 0 /\ wait' \in Nat /\ Len(samples') <= ByteBits
      BY <1>3, <3>1, <3>2, <3>3
    <3>11. Goes'
      BY <1>1, <1>2, <3>1, <3>4, <3>7, <3>8, <3>9, <3>10 DEF Goes
    <3>12. QED
      BY <1>4, <3>3, <3>10, <3>11
  <2>5. CASE ~(l < ByteBits)
    <3>1. l = ByteBits /\ i = ByteBits + 1
      BY <1>1, <1>3, <2>5
    <3>2. sout = 1
      <4>1. i + 1 = ByteBits + 2
        BY <1>3, <3>1
      <4>2. QED
        BY <2>3, <4>1, PromptBits
    <3>3. heard' = samples /\ samples' = <<>> /\ wait' = 0
      BY <1>12, <2>5, <3>2, UartBootAssumption DEF Listens
    <3>4. samples = Prompt
      <4>1. samples \in Bytes
        BY <3>1, SequenceIsByte
      <4>2. samples = [k \in 1 .. ByteBits |-> samples[k]]
        BY <4>1 DEF Bytes
      <4>3. Prompt = [k \in 1 .. ByteBits |-> Prompt[k]]
        BY PromptBits DEF Bytes
      <4>4. \A k \in 1 .. ByteBits : samples[k] = Prompt[k]
        BY <1>1, <3>1
      <4>5. [k \in 1 .. ByteBits |-> samples[k]] = [k \in 1 .. ByteBits |-> Prompt[k]]
        BY <4>4
      <4>6. QED
        BY <4>2, <4>3, <4>5
    <3>5. tx.state = "STOP"
      <4>1. Index(tx) = ByteBits + 1
        BY <2>2, <3>1
      <4>2. tx.bits \in 0 .. ByteBits - 1
        BY DEF FrameOK, Frame
      <4>3. QED
        BY <1>3, <4>1, <4>2 DEF Index
    <3>6. sout' = 1
      BY <1>2, <3>2, <3>5 DEF Transmitter
    <3>7. Ends' \/ Done'
      <4>1. tx'.state = "STOP" \/ Idle(tx')
        BY <1>2, <3>5, StopGoes
      <4>2. QED
        BY <1>2, <3>3, <3>4, <3>6, <4>1 DEF Ends, Done, Still
    <3>8. QED
      BY <1>4, <3>3, <3>7
  <2>6. QED
    BY <2>4, <2>5
<1>13. QED
  BY <1>3, <1>11, <1>12

\* The peer has heard the prompt, the stop bit runs out.
LEMMA EndStep ==
  ASSUME LinkInv, cr.en, FrameOK(tx), NEW access, UartClock(access, PeerLine),
         ~Writes(access, "UART_TDR"), Harmless(access), Listens(sout), Ends
  PROVE  (Ends' \/ Done') /\ FrameOK(tx') /\ samples' = samples /\ wait' \in Nat
<1>1. tx.state = "STOP" /\ sout = 1 /\ wait = 0 /\ samples = <<>> /\ heard = Prompt /\ ~Idle(tx)
  BY DEF Ends, Idle
<1>2. ~tx_data_valid' /\ sr'.txact /\ Transmitter
  BY <1>1, TransmitterRegisters DEF LinkInv
<1>3. FrameOK(tx')
  BY <1>1, TransmitterTicks
<1>4. sout' = 1
  BY <1>1, <1>2 DEF Transmitter
<1>5. wait' = 0 /\ samples' = samples /\ heard' = heard
  BY <1>1 DEF Listens
<1>6. tx'.state = "STOP" \/ Idle(tx')
  BY <1>1, StopGoes DEF UartClock
<1>7. QED
  BY <1>1, <1>2, <1>3, <1>4, <1>5, <1>6 DEF Ends, Done, Still

\* The cycles between accesses.
LEMMA Paces ==
  ASSUME NEW access, Pace(access, SlowestGap), gap \in Nat
  PROVE  /\ gap' \in Nat /\ gap' <= gap + 1
         /\ access # NoAccess => gap' = 1
         /\ access = NoAccess /\ gap < SlowestGap => gap' = gap + 1
         /\ access = NoAccess /\ ~(gap < SlowestGap) => gap' = gap
  BY DEF Pace

\* No byte is sent before the prompt is heard.
LEMMA PeerIsAsked ==
  ASSUME Transmits, PeerActs, heard = Prompt => heard' = Prompt, api' # "none" => api # "none"
  PROVE  api' # "none" /\ heard' = NoByte => stream' = <<>>
<1> SUFFICES ASSUME api' # "none", heard' = NoByte
             PROVE  stream' = <<>>
  OBVIOUS
<1>1. heard = NoByte /\ Prompt # NoByte
  BY PromptBits DEF Transmits
<1>2. stream = <<>> /\ ~PeerMaySend
  BY <1>1 DEF Transmits, PeerMaySend
<1>3. QED
  BY <1>2 DEF PeerActs, Sends

\* A step of a write that has to be polled again.
LEMMA WritingStep ==
  ASSUME BitTime <= PeerBit, PeerHears, LinkInv, cr.en, Transmits, Len(todo) = 3, todo' = todo, api' = api,
         NEW access, UartClock(access, PeerLine), ~Writes(access, "UART_TDR"), Harmless(access),
         Listens(sout), PeerActs, gap' \in Nat, gap' <= gap + 1
  PROVE  Transmits'
<1>1. /\ FrameOK(tx) /\ samples \in Seq(Bit) /\ wait \in Nat /\ gap \in Nat /\ Writing
      /\ heard \in {NoByte, Prompt}
  BY DEF Transmits
<1>2. /\ Writing' /\ FrameOK(tx') /\ samples' \in Seq(Bit) /\ wait' \in Nat
      /\ heard = Prompt => heard' = Prompt
      /\ heard' \in {NoByte, Prompt}
  <2>1. CASE HandsOver
    <3>1. /\ tx.state = "IDLE" /\ sout = 1 /\ wait = 0 /\ samples = <<>> /\ tx_data_valid
          /\ tdr = Prompt /\ heard = NoByte /\ gap <= 1
      BY <2>1 DEF HandsOver, Still, Idle
    <3>2. ~tx_data_valid' /\ tdr' = Prompt /\ Transmitter
      BY <3>1, TransmitterRegisters DEF LinkInv
    <3>3. tx' = [tx EXCEPT !.state = "START"] /\ sout' = sout
      BY <3>1, <3>2 DEF Transmitter, FrameNxt
    <3>4. tx'.state = "START" /\ tx'.edges = 0 /\ FrameOK(tx')
      <4>1. tx \in Frame /\ tx.edges = 0 /\ tx.bits = 0
        BY <1>1, <3>1 DEF FrameOK
      <4>2. /\ tx'.state = "START" /\ tx'.edges = 0 /\ tx'.bits = 0
            /\ tx' \in Frame
        BY <3>3, <4>1 DEF Frame
      <4>3. QED
        BY <4>2 DEF FrameOK
    <3>5. wait' = 0 /\ samples' = <<>> /\ heard' = NoByte
      BY <3>1 DEF Listens
    <3>6. gap' <= 2
      BY <1>1, <3>1
    <3>7. Starts'
      BY <3>1, <3>2, <3>3, <3>4, <3>5, <3>6 DEF Starts
    <3>8. QED
      BY <1>1, <3>1, <3>4, <3>5, <3>7, PromptBits DEF Writing
  <2>2. CASE Starts
    <3>1. Falls' /\ FrameOK(tx') /\ samples' = samples /\ wait' \in Nat
      BY <1>1, <2>2, StartStep
    <3>2. heard = NoByte /\ heard' = NoByte
      BY <2>2, <3>1 DEF Starts, Falls
    <3>3. QED
      BY <1>1, <3>1, <3>2, PromptBits DEF Writing
  <2>3. CASE Falls
    <3>1. Goes' /\ FrameOK(tx') /\ samples' = samples /\ wait' \in Nat
      BY <1>1, <2>3, FallStep
    <3>2. heard = NoByte /\ heard' = NoByte
      BY <2>3, <3>1 DEF Falls, Goes
    <3>3. QED
      BY <1>1, <3>1, <3>2, PromptBits DEF Writing
  <2>4. CASE Goes
    <3>1. (Goes' \/ Ends' \/ Done') /\ FrameOK(tx') /\ samples' \in Seq(Bit) /\ wait' \in Nat
      BY <1>1, <2>4, GoStep
    <3>2. heard = NoByte /\ heard' \in {NoByte, Prompt}
      BY <2>4, <3>1 DEF Goes, Ends, Done
    <3>3. QED
      BY <3>1, <3>2, PromptBits DEF Writing
  <2>5. CASE Ends
    <3>1. (Ends' \/ Done') /\ FrameOK(tx') /\ samples' = samples /\ wait' \in Nat
      BY <1>1, <2>5, EndStep
    <3>2. heard' = Prompt
      BY <3>1 DEF Ends, Done
    <3>3. QED
      BY <1>1, <3>1, <3>2 DEF Writing
  <2>6. CASE Done
    <3>1. Still /\ ~tx_data_valid /\ heard = Prompt
      BY <2>6 DEF Done
    <3>2. Still' /\ ~tx_data_valid' /\ tx' = tx /\ heard' = heard
      BY <3>1, StillStep
    <3>3. wait' = 0 /\ samples' = <<>> /\ Done'
      BY <3>1, <3>2 DEF Still, Done
    <3>4. QED
      BY <1>1, <3>1, <3>2, <3>3 DEF Writing
  <2>7. QED
    BY <1>1, <2>1, <2>2, <2>3, <2>4, <2>5, <2>6 DEF Writing
<1>3. api' # "none" /\ heard' = NoByte => stream' = <<>>
  BY <1>2, PeerIsAsked
<1>4. Len(todo') = 3 /\ ~(Len(todo') > 3) /\ Len(todo') \notin {1, 2}
  <2> DEFINE m == Len(todo')
  <2>1. m = 3
    OBVIOUS
  <2> HIDE DEF m
  <2>2. ~(m > 3) /\ m \notin {1, 2}
    BY <2>1
  <2>3. QED
    BY <2>1, <2>2 DEF m
<1>5. QED
  BY <1>2, <1>3, <1>4 DEF Transmits

\* A step outside a write, or one that ends it.
LEMMA QuietStep ==
  ASSUME LinkInv, Transmits, Still, ~tx_data_valid, Len(todo') # 3,
         Len(todo') > 3 => heard = NoByte, Len(todo') \in {1, 2} => heard = Prompt,
         api' # "none" => api # "none",
         NEW access, UartClock(access, PeerLine), ~Writes(access, "UART_TDR"), Harmless(access),
         Listens(sout), PeerActs, gap' \in Nat
  PROVE  Transmits'
<1>1. Still' /\ ~tx_data_valid' /\ tx' = tx /\ heard' = heard
  BY StillStep
<1>2. FrameOK(tx') /\ samples' \in Seq(Bit) /\ wait' \in Nat /\ heard' \in {NoByte, Prompt}
  BY <1>1 DEF Transmits, Still
<1>3. api' # "none" /\ heard' = NoByte => stream' = <<>>
  BY <1>1, PeerIsAsked
<1>4. QED
  BY <1>1, <1>2, <1>3 DEF Transmits

LEMMA TransmitsIdles ==
  ASSUME BitTime <= PeerBit, PeerHears, LinkInv, Transmits, CpuIdle
  PROVE  Transmits'
<1>1. /\ UartClock(NoAccess, PeerLine) /\ Listens(sout) /\ PeerActs /\ Pace(NoAccess, SlowestGap)
      /\ api' = api /\ todo' = todo
  BY PeerIsPeerActs DEF CpuIdle
<1>2. ~Writes(NoAccess, "UART_TDR") /\ Harmless(NoAccess)
  BY DEF NoAccess, Harmless, Writes
<1>3. gap' \in Nat /\ gap' <= gap + 1
  <2>1. gap \in Nat
    BY DEF Transmits
  <2>2. QED
    BY <1>1, <2>1, Paces
<1>4. CASE Len(todo) = 3
  <2>1. cr.en
    <3> DEFINE n == Len(todo)
    <3>1. n = 3
      BY <1>4
    <3> HIDE DEF n
    <3>2. n <= 4 /\ n # 0
      BY <3>1
    <3>3. todo # <<>>
      BY <3>2 DEF n
    <3>4. QED
      BY <3>2, <3>3 DEF n, LinkInv, Program
  <2>2. QED
    BY <1>1, <1>2, <1>3, <1>4, <2>1, WritingStep
<1>5. CASE Len(todo) # 3
  <2>1. /\ Still /\ ~tx_data_valid
        /\ Len(todo) > 3 => heard = NoByte
        /\ Len(todo) \in {1, 2} => heard = Prompt
    BY <1>5 DEF Transmits
  <2>2. Len(todo') = Len(todo)
    BY <1>1
  <2>3. QED
    BY <1>1, <1>2, <1>3, <1>5, <2>1, <2>2, QuietStep
<1>6. QED
  BY <1>4, <1>5

\* TDR is written.
LEMMA PromptGoes ==
  ASSUME LinkInv, Transmits, Len(todo) = 4, Len(todo') = 3, api' = api,
         NEW access, access = WriteOf("UART_TDR", Prompt), UartClock(access, PeerLine),
         Listens(sout), PeerActs, gap' = 1
  PROVE  Transmits'
<1>1. Still /\ ~tx_data_valid /\ heard = NoByte
  <2> DEFINE n == Len(todo)
  <2>1. n = 4
    OBVIOUS
  <2> HIDE DEF n
  <2>2. n # 3 /\ n > 3
    BY <2>1
  <2>3. QED
    BY <2>2 DEF n, Transmits
<1>2. tx.state = "IDLE" /\ sout = 1 /\ wait = 0 /\ samples = <<>>
  BY <1>1 DEF Still, Idle
<1>3. Writes(access, "UART_TDR") /\ access.wdata = Prompt /\ Harmless(access)
  BY DEF WriteOf, Writes, Harmless
<1>4. tx_data_valid' /\ tdr' = Prompt /\ Transmitter
  BY <1>3, TransmitterRegisters DEF LinkInv
<1>5. tx' = tx /\ sout' = sout
  BY <1>1, <1>2, <1>4 DEF Transmitter, FrameNxt
<1>6. wait' = 0 /\ samples' = <<>> /\ heard' = NoByte
  BY <1>1, <1>2 DEF Listens
<1>7. HandsOver' /\ FrameOK(tx') /\ samples' \in Seq(Bit) /\ wait' \in Nat
  <2>1. Still'
    BY <1>2, <1>5, <1>6 DEF Still, Idle
  <2>2. FrameOK(tx') /\ samples' \in Seq(Bit) /\ wait' \in Nat
    BY <1>5, <1>6 DEF Transmits
  <2>3. gap' <= 1
    OBVIOUS
  <2>4. QED
    BY <1>4, <1>6, <2>1, <2>2, <2>3 DEF HandsOver
<1>8. api' # "none" /\ heard' = NoByte => stream' = <<>>
  BY <1>1, PeerIsAsked, PromptBits
<1>9. Len(todo') = 3 /\ ~(Len(todo') > 3) /\ Len(todo') \notin {1, 2}
  <2> DEFINE m == Len(todo')
  <2>1. m = 3
    OBVIOUS
  <2> HIDE DEF m
  <2>2. ~(m > 3) /\ m \notin {1, 2}
    BY <2>1
  <2>3. QED
    BY <2>1, <2>2 DEF m
<1>10. gap' \in Nat
  OBVIOUS
<1>11. QED
  BY <1>6, <1>7, <1>8, <1>9, <1>10 DEF Transmits, Writing

LEMMA TransmitsProceeds ==
  ASSUME BitTime <= PeerBit, PeerHears, PollsInTime, LinkInv, Transmits, CpuAccess, Rest(todo), Len(todo) # 1
  PROVE  Transmits'
<1> DEFINE n == Len(todo)
           m == Len(todo')
           access == AccessDue(loaded)
           again == (n = 2 /\ ~sr.rxne) \/ (n = 3 /\ sr.txact)
<1>1. /\ n \in 2 .. 7 /\ todo # <<>>
      /\ UNCHANGED <<api, bytes, code_ram>>
      /\ loaded' = IF n = 6 THEN cr ELSE loaded
      /\ IF again THEN todo' = todo ELSE Rest(todo') /\ Len(todo') = n - 1
      /\ UartClock(access, PeerLine) /\ Listens(sout) /\ Peer
  BY Proceeds
<1>2. /\ n = 2 => access = ReadOf("rxne")
      /\ n = 3 => access = ReadOf("txact")
      /\ n = 4 => access = WriteOf("UART_TDR", Prompt)
      /\ n = 5 => access = WriteOf("UART_CR", [loaded EXCEPT !["en"] = TRUE])
      /\ n = 6 => access = ReadOf("UART_CR")
      /\ n = 7 => access = WriteOf("UART_CDR", ClockDivider)
  BY <1>1, OnTheBus
<1>3. PeerActs /\ Harmless(access)
  BY <1>1, PeerIsPeerActs, ProceedsHarmless
<1>4. n = 2 \/ n = 3 \/ n = 4 \/ n = 5 \/ n = 6 \/ n = 7
  BY <1>1
<1>5. access # NoAccess /\ (n # 4 => ~Writes(access, "UART_TDR"))
  <2>1. access.reg # "NONE"
    BY <1>2, <1>4 DEF ReadOf, WriteOf
  <2>2. n # 4 => ~Writes(access, "UART_TDR")
    BY <1>2, <1>4 DEF ReadOf, WriteOf, Writes
  <2>3. QED
    BY <2>1, <2>2 DEF NoAccess
<1>6. gap' = 1 /\ gap \in Nat
  <2>1. Pace(access, SlowestGap) /\ gap \in Nat
    BY DEF CpuAccess, Transmits
  <2>2. QED
    BY <1>5, <2>1 DEF Pace
<1>7. UartClock(access, PeerLine) /\ Listens(sout) /\ api' = api
  BY <1>1
<1> HIDE DEF access
<1>8. CASE n = 4
  <2>1. Len(todo') = 3 /\ Len(todo) = 4
    BY <1>1, <1>8
  <2>2. access = WriteOf("UART_TDR", Prompt)
    BY <1>2, <1>8
  <2>3. gap' = 1 /\ PeerActs
    BY <1>3, <1>6
  <2> HIDE DEF n, m
  <2>4. QED
    BY <1>7, <2>1, <2>2, <2>3, PromptGoes
<1>9. CASE n = 3 /\ sr.txact
  <2>1. cr.en
    <3> HIDE DEF n
    <3>1. n <= 4
      BY <1>9
    <3>2. QED
      BY <1>1, <3>1 DEF n, LinkInv, Program
  <2>2. todo' = todo /\ Len(todo) = 3 /\ ~Writes(access, "UART_TDR")
    BY <1>1, <1>5, <1>9
  <2>3. gap' \in Nat /\ gap' <= gap + 1
    BY <1>6
  <2> HIDE DEF n, m
  <2>4. QED
    BY <1>3, <1>7, <2>1, <2>2, <2>3, WritingStep
<1>10. CASE n # 4 /\ ~(n = 3 /\ sr.txact)
  <2>1. /\ Still /\ ~tx_data_valid
        /\ m > 3 => heard = NoByte
        /\ m \in {1, 2} => heard = Prompt
        /\ m # 3
    <3>1. CASE n = 3
      <4>1. Done
        <5>1. Writing
          BY <3>1 DEF Transmits
        <5>2. gap >= AccessGap
          <6>1. Head(todo) = Access(3)
            BY <1>1, <3>1, Turn
          <6>2. Head(todo).op = "poll"
            BY <6>1, Accesses
          <6>3. QED
            BY <6>2 DEF CpuAccess, Due
        <5>3. gap >= 3
          BY <1>6, <5>2, GapAssumption DEF PollsInTime
        <5>4. ~(gap <= 2) /\ ~(gap <= 1)
          BY <1>6, <5>3
        <5>5. ~HandsOver /\ ~Starts
          BY <5>4 DEF HandsOver, Starts
        <5>6. ~Falls /\ ~Goes /\ ~Ends
          BY <1>10, <3>1 DEF Falls, Goes, Ends
        <5>7. QED
          BY <5>1, <5>5, <5>6 DEF Writing
      <4>2. m = 2
        BY <1>1, <1>10, <3>1
      <4> HIDE DEF m
      <4>3. ~(m > 3) /\ m # 3
        BY <4>2
      <4>4. QED
        BY <4>1, <4>3 DEF Done
    <3>2. CASE n # 3
      <4>1. m = n \/ m = n - 1
        BY <1>1
      <4>2. /\ Still /\ ~tx_data_valid
            /\ n > 3 => heard = NoByte
            /\ n \in {1, 2} => heard = Prompt
        BY <3>2 DEF Transmits
      <4> HIDE DEF n, m
      <4>3. (m > 3 => n > 3) /\ (m = 1 \/ m = 2 => n = 2) /\ m # 3
        BY <1>4, <1>10, <3>2, <4>1
      <4>4. QED
        BY <4>2, <4>3
    <3>3. QED
      BY <3>1, <3>2
  <2>2. ~Writes(access, "UART_TDR") /\ gap' \in Nat
    BY <1>5, <1>6, <1>10
  <2>3. /\ Len(todo') # 3
        /\ Len(todo') > 3 => heard = NoByte
        /\ Len(todo') \in {1, 2} => heard = Prompt
        /\ Still /\ ~tx_data_valid
    BY <2>1
  <2> HIDE DEF n, m
  <2>4. QED
    BY <1>3, <1>7, <2>2, <2>3, QuietStep
<1>11. QED
  BY <1>8, <1>9, <1>10

\* A byte is taken or a word stored: nothing is being sent.
LEMMA TransmitsOn ==
  ASSUME LinkInv, Transmits, Len(todo) = 1, Len(todo') \in 0 .. 2,
         api' # "none" => api # "none",
         NEW access, UartClock(access, PeerLine), ~Writes(access, "UART_TDR"), Harmless(access),
         Listens(sout), PeerActs, gap' = 1
  PROVE  Transmits'
<1> DEFINE n == Len(todo)  m == Len(todo')
<1>1. n = 1 /\ m \in 0 .. 2
  OBVIOUS
<1>2. n = 1 => n # 3 /\ n \in {1, 2}
  <2> HIDE DEF n
  <2>1. QED
    OBVIOUS
<1>3. m # 3 /\ ~(m > 3)
  <2> HIDE DEF m
  <2>1. QED
    BY <1>1
<1>4. Still /\ ~tx_data_valid /\ heard = Prompt
  BY <1>1, <1>2 DEF Transmits
<1>5. gap' \in Nat
  OBVIOUS
<1>6. QED
  BY <1>3, <1>4, <1>5, QuietStep

\* An access to RDR or to the code RAM, and what is left after it.
LEMMA AccessPaces ==
  ASSUME LinkInv, CpuAccess, (Rest(todo) /\ Len(todo) = 1) \/ todo = <<Word>>
  PROVE  gap' = 1 /\ Len(todo') \in 0 .. 2
<1>1. Pace(AccessDue(loaded), SlowestGap)
  BY DEF CpuAccess
<1>2. CASE Rest(todo) /\ Len(todo) = 1
  <2> DEFINE due == AccessDue(loaded)  n == Len(todo)
  <2>1. /\ todo # <<>>
        /\ \/ todo' = Read
           \/ todo' = <<StoreTo("CODE_RAM", Len(code_ram))>>
           \/ todo' = <<>>
    <3>1. /\ todo # <<>>
          /\ bytes' = Append(bytes, rdr) /\ UNCHANGED <<code_ram, loaded>>
          /\ \/ /\ api = "read_line" /\ rdr # Newline /\ Len(bytes) + 1 < LineLength
                /\ todo' = Read /\ api' = api
             \/ /\ api = "load_code" /\ Len(bytes) + 1 < BytesPerWord
                /\ todo' = Read /\ api' = api
             \/ /\ api = "load_code" /\ Len(bytes) + 1 = BytesPerWord
                /\ todo' = <<StoreTo("CODE_RAM", Len(code_ram))>> /\ api' = api
             \/ /\ ~(api = "read_line" /\ rdr # Newline /\ Len(bytes) + 1 < LineLength)
                /\ ~(api = "load_code" /\ Len(bytes) + 1 < BytesPerWord)
                /\ ~(api = "load_code" /\ Len(bytes) + 1 = BytesPerWord)
                /\ todo' = <<>> /\ api' = "none"
          /\ UartClock(ReadOf("UART_RDR"), PeerLine) /\ Listens(sout) /\ Peer
      BY <1>2, TakesByte
    <3>2. QED
      BY <3>1
  <2>2. n = 1 /\ due = AccessDue(loaded)
    BY <1>2
  <2> HIDE DEF n, due
  <2>3. due = ReadOf("UART_RDR")
    BY <1>2, <2>1, <2>2, OnTheBus DEF n
  <2>4. due # NoAccess
    BY <2>3 DEF ReadOf, NoAccess
  <2>5. gap' = 1
    BY <1>1, <2>2, <2>4 DEF Pace
  <2>6. Len(todo') = 2 \/ Len(todo') = 1 \/ Len(todo') = 0
    <3>1. Len(Read) = 2 /\ Len(<<>>) = 0 /\ Len(<<StoreTo("CODE_RAM", Len(code_ram))>>) = 1
      BY TheCalls
    <3>2. QED
      BY <2>1, <3>1
  <2>7. QED
    <3> DEFINE m == Len(todo')
    <3>1. m = 2 \/ m = 1 \/ m = 0
      BY <2>6
    <3> HIDE DEF m
    <3>2. m \in 0 .. 2
      BY <3>1
    <3>3. QED
      BY <2>5, <3>2 DEF m
<1>3. CASE todo = <<Word>>
  <2>1. todo' = Read \/ todo' = <<>>
    BY <1>3, StoresTheWord
  <2>2. AccessDue(loaded) = WriteOf("CODE_RAM", Len(code_ram))
    <3>1. Head(todo) = StoreTo("CODE_RAM", Len(code_ram))
      BY <1>3 DEF Word
    <3>2. Head(todo).op = "store" /\ Head(todo).reg = "CODE_RAM" /\ Head(todo).data = Len(code_ram)
      BY <3>1 DEF StoreTo
    <3>3. QED
      BY <3>2 DEF AccessDue
  <2>3. AccessDue(loaded) # NoAccess
    BY <2>2 DEF WriteOf, NoAccess
  <2>4. gap' = 1
    BY <1>1, <2>3 DEF Pace
  <2>5. Len(todo') = 2 \/ Len(todo') = 0
    <3>1. Len(Read) = 2 /\ Len(<<>>) = 0
      BY TheCalls
    <3>2. QED
      BY <2>1, <3>1
  <2>6. QED
    <3> DEFINE m == Len(todo')
    <3>1. m = 2 \/ m = 0
      BY <2>5
    <3> HIDE DEF m
    <3>2. m \in 0 .. 2
      BY <3>1
    <3>3. QED
      BY <2>4, <3>2 DEF m
<1>4. QED
  BY <1>2, <1>3

LEMMA TransmitsTakes ==
  ASSUME LinkInv, Transmits, CpuAccess, Rest(todo), Len(todo) = 1
  PROVE  Transmits'
<1> DEFINE access == ReadOf("UART_RDR")
<1>1. /\ todo # <<>>
      /\ \/ todo' = Read /\ api' = api
         \/ todo' = <<StoreTo("CODE_RAM", Len(code_ram))>> /\ api' = api
         \/ todo' = <<>> /\ api' = "none"
      /\ UartClock(access, PeerLine) /\ Listens(sout) /\ Peer
  <2>1. /\ todo # <<>>
        /\ bytes' = Append(bytes, rdr) /\ UNCHANGED <<code_ram, loaded>>
        /\ \/ /\ api = "read_line" /\ rdr # Newline /\ Len(bytes) + 1 < LineLength
              /\ todo' = Read /\ api' = api
           \/ /\ api = "load_code" /\ Len(bytes) + 1 < BytesPerWord
              /\ todo' = Read /\ api' = api
           \/ /\ api = "load_code" /\ Len(bytes) + 1 = BytesPerWord
              /\ todo' = <<StoreTo("CODE_RAM", Len(code_ram))>> /\ api' = api
           \/ /\ ~(api = "read_line" /\ rdr # Newline /\ Len(bytes) + 1 < LineLength)
              /\ ~(api = "load_code" /\ Len(bytes) + 1 < BytesPerWord)
              /\ ~(api = "load_code" /\ Len(bytes) + 1 = BytesPerWord)
              /\ todo' = <<>> /\ api' = "none"
        /\ UartClock(ReadOf("UART_RDR"), PeerLine) /\ Listens(sout) /\ Peer
    BY TakesByte
  <2>2. QED
    BY <2>1
<1>2. access # NoAccess /\ Harmless(access) /\ ~Writes(access, "UART_TDR")
  BY DEF Harmless, Writes, ReadOf, NoAccess
<1>3. gap' = 1 /\ Len(todo') \in 0 .. 2
  BY AccessPaces
<1>5. PeerActs
  BY <1>1, PeerIsPeerActs
<1>6. api' # "none" => api # "none"
  BY <1>1
<1> HIDE DEF access
<1>7. QED
  BY <1>1, <1>2, <1>3, <1>5, <1>6, TransmitsOn

LEMMA TransmitsStores ==
  ASSUME LinkInv, Transmits, CpuAccess, todo = <<Word>>
  PROVE  Transmits'
<1> DEFINE access == WriteOf("CODE_RAM", Len(code_ram))
<1>1. /\ \/ todo' = Read /\ api' = api
         \/ todo' = <<>> /\ api' = "none"
      /\ UartClock(access, PeerLine) /\ Listens(sout) /\ Peer
  BY StoresTheWord
<1>2. access # NoAccess /\ Harmless(access) /\ ~Writes(access, "UART_TDR")
  BY DEF Harmless, Writes, WriteOf, NoAccess
<1>3. gap' = 1 /\ Len(todo') \in 0 .. 2
  BY AccessPaces
<1>4. Len(todo) = 1
  BY WordFacts
<1>5. PeerActs
  BY <1>1, PeerIsPeerActs
<1>6. api' # "none" => api # "none"
  BY <1>1
<1> HIDE DEF access
<1>7. QED
  BY <1>1, <1>2, <1>3, <1>4, <1>5, <1>6, TransmitsOn

LEMMA TransmitsCalls ==
  ASSUME LinkInv, Transmits, CpuCalls
  PROVE  Transmits'
<1>1. /\ UartClock(NoAccess, PeerLine) /\ heard' = NoByte /\ stream' = <<>>
      /\ wait' = wait /\ samples' = samples /\ api = "none" /\ Pace(NoAccess, SlowestGap)
      /\ todo' = LoadCodeThroughUart \/ todo' = ReadLine
  BY DEF CpuCalls, Call
<1>2. Len(todo) = 0
  BY <1>1 DEF LinkInv, Program
<1>3. Still /\ ~tx_data_valid
  <2>1. Len(todo) # 3
    BY <1>2
  <2>2. QED
    BY <2>1 DEF Transmits
<1>4. ~Writes(NoAccess, "UART_TDR") /\ Harmless(NoAccess)
  BY DEF NoAccess, Harmless, Writes
<1>5. Still' /\ ~tx_data_valid' /\ tx' = tx
  BY <1>1, <1>3, <1>4, StillStep
<1>6. Len(todo') # 3 /\ Len(todo') \notin {1, 2}
  <2> DEFINE m == Len(todo')
  <2>1. m = 4 \/ m = 7
    BY <1>1, TheCalls
  <2> HIDE DEF m
  <2>2. m # 3 /\ m \notin {1, 2}
    BY <2>1
  <2>3. QED
    BY <2>2 DEF m
<1>7. gap' \in Nat
  BY <1>1, Paces DEF Transmits
<1>8. FrameOK(tx') /\ samples' \in Seq(Bit) /\ wait' \in Nat
  BY <1>1, <1>5 DEF Transmits
<1>9. QED
  BY <1>1, <1>5, <1>6, <1>7, <1>8 DEF Transmits

LEMMA TransmitsStands ==
  ASSUME LinkInv, Transmits, UNCHANGED vars
  PROVE  Transmits'
<1>1. /\ UNCHANGED <<tdr, sr, tx_data_valid, generator, tx, tx_buffer, sout>>
      /\ UNCHANGED <<wait, samples, heard, api, todo, gap, stream>>
  BY DEF vars, uartVars, registerVars, txVars, peerVars, driverVars
<1>2. Phase' = Phase /\ Heard' = Heard /\ Shifts' = Shifts /\ Still' = Still
  BY <1>1 DEF Phase, Heard, Shifts, Still
<1>3. Writing' = Writing
  BY <1>1, <1>2 DEF Writing, HandsOver, Starts, Falls, Goes, Ends, Done
<1>4. QED
  BY <1>1, <1>2, <1>3 DEF Transmits

LEMMA TransmitsNext ==
  ASSUME BitTime <= PeerBit, PeerHears, PollsInTime, LinkInv, Transmits, [Next]_vars
  PROVE  Transmits'
<1>1. Rest(todo) \/ todo = <<Word>>
  BY DEF LinkInv, Program
<1>2. CASE CpuAccess
  BY <1>1, <1>2, TransmitsProceeds, TransmitsTakes, TransmitsStores
<1>3. QED
  BY <1>2, TransmitsIdles, TransmitsCalls, TransmitsStands DEF Next

LEMMA TransmitsInit ==
  ASSUME Init
  PROVE  Transmits
<1>1. /\ tx = FrameReset /\ sout = 1 /\ ~tx_data_valid /\ wait = 0 /\ samples = <<>>
      /\ heard = NoByte /\ todo = <<>> /\ api = "none" /\ gap = AccessGap
  BY DEF Init, UartInit, PeerInit, DriverInit
<1>2. FrameOK(tx) /\ Idle(tx)
  <2>1. 0 \in 0 .. ByteBits - 1 /\ 0 \in 0 .. EdgesPerBit - 1
    BY Rates
  <2>2. QED
    BY <1>1, <2>1 DEF FrameReset, FrameOK, Frame, Idle
<1>3. Len(todo) # 3 /\ ~(Len(todo) > 3) /\ Len(todo) \notin {1, 2}
  BY <1>1
<1>4. gap \in Nat
  BY <1>1, GapAssumption
<1>5. samples \in Seq(Bit) /\ wait \in Nat
  BY <1>1
<1>6. QED
  BY <1>1, <1>2, <1>3, <1>4, <1>5 DEF Transmits, Still

LEMMA Delivers ==
  ASSUME LinkInv, Transmits
  PROVE  WriteDelivers
<1>1. api = "none" => wait = 0
  <2>1. api = "none" => Len(todo) = 0
    BY DEF LinkInv, Program
  <2>2. Len(todo) = 0 => Len(todo) # 3
    OBVIOUS
  <2>3. QED
    BY <2>1, <2>2 DEF Transmits, Still
<1>2. ASSUME todo # <<>>, Head(todo) = PollOf("rxne")
      PROVE  heard = Prompt
  <2>1. Head(todo).op = "poll" /\ Head(todo).reg = "rxne"
    BY <1>2 DEF PollOf
  <2>2. todo # <<Word>>
    <3>1. Word.op = "store"
      BY DEF Word, StoreTo
    <3>2. Head(<<Word>>) = Word
      OBVIOUS
    <3>3. QED
      BY <2>1, <3>1, <3>2
  <2>3. Rest(todo)
    BY <2>2 DEF LinkInv, Program
  <2> DEFINE n == Len(todo)
  <2>4. n \in 1 .. 7 /\ Head(todo) = Access(n)
    BY <1>2, <2>3, Turn
  <2> HIDE DEF n
  <2>5. n = 1 \/ n = 2 \/ n = 3 \/ n = 4 \/ n = 5 \/ n = 6 \/ n = 7
    BY <2>4, SMTT(30)
  <2>6. n = 2
    BY <2>1, <2>4, <2>5, Accesses
  <2>7. n \in {1, 2}
    BY <2>6
  <2>8. QED
    BY <2>7 DEF n, Transmits
<1>3. heard \in {NoByte, Prompt}
  BY DEF Transmits
<1>4. QED
  BY <1>1, <1>2, <1>3 DEF WriteDelivers

(* Every prompt is heard before the software reads an answer, unchanged    *)
(* and with its stop bit, wherever in a cycle of the serial clock the      *)
(* write comes, if the peer samples within the bits and the software polls *)
(* txact no earlier than three cycles after the write: it goes up only     *)
(* then, and an earlier poll would return before the byte is sent.         *)
THEOREM PromptsAreHeard ==
  ASSUME RatesAgree, PeerHears, PollsInTime
  PROVE  Spec => []WriteDelivers
<1>1. Init => LinkInv /\ Transmits
  BY LinkStarts, TransmitsInit
<1>2. LinkInv /\ Transmits /\ [Next]_vars => LinkInv' /\ Transmits'
  BY LinkNext, TransmitsNext DEF RatesAgree
<1>3. LinkInv /\ Transmits => WriteDelivers
  BY Delivers
<1>4. QED
  BY <1>1, <1>2, <1>3, PTL DEF Spec

-----------------------------------------------------------------------------
(* Nothing is overrun. *)

LEMMA SinceFacts ==
  ASSUME NEW f, FrameOK(f), NEW phase \in 0 .. Period - 1
  PROVE  /\ SinceOf(f, phase) \in Nat
         /\ {(ByteBits + 1) * BitTime, Mid * Period, (EdgesPerBit - Mid) * Period} \subseteq Nat
         /\ (EdgesPerBit - Mid) * Period + Mid * Period = BitTime
         /\ (ByteBits + 2) * BitTime = (ByteBits + 1) * BitTime + BitTime
         /\ IF f.state = "STOP" /\ f.edges >= Mid
              THEN SinceOf(f, phase) + (ByteBits + 1) * BitTime + Mid * Period = Time(f, phase)
            ELSE SinceOf(f, phase) = (EdgesPerBit - Mid) * Period + Time(f, phase)
         /\ f.state = "STOP" /\ f.edges = Mid /\ phase = 0 => SinceOf(f, phase) = 0
         /\ f.state = "STOP" /\ f.edges = Mid - 1 /\ phase = Period - 1 =>
              /\ Time(f, phase) + 1 = (ByteBits + 1) * BitTime + Mid * Period
              /\ SinceOf(f, phase) + 1 = (ByteBits + 2) * BitTime
         /\ Idle(f) => Time(f, phase) = phase
<1>1. /\ BitTime \in Nat /\ ByteBits \in Nat /\ Period \in Nat /\ EdgesPerBit \in Nat
      /\ Mid \in Nat /\ Mid >= 1 /\ Mid + 1 <= EdgesPerBit /\ phase \in Nat /\ Period >= 2
  BY Rates
<1>2. f.edges \in 0 .. EdgesPerBit - 1 /\ f.bits \in 0 .. ByteBits - 1
  BY DEF FrameOK, Frame
<1> DEFINE last == (ByteBits + 1) * BitTime
           mid  == Mid * Period
           rest == (EdgesPerBit - Mid) * Period
           whole == (ByteBits + 2) * BitTime
           e == f.edges
<1>3. last \in Nat /\ mid \in Nat /\ rest \in Nat /\ whole = last + BitTime
  <2>1. EdgesPerBit - Mid \in Nat /\ ByteBits + 1 \in Nat /\ (ByteBits + 1) + 1 = ByteBits + 2
    BY <1>1
  <2>2. ((ByteBits + 1) + 1) * BitTime = (ByteBits + 1) * BitTime + BitTime
        /\ (ByteBits + 1) * BitTime \in Nat
    BY <1>1, <2>1, Grows
  <2>3. Mid * Period \in Nat /\ (EdgesPerBit - Mid) * Period \in Nat
    BY <1>1, <2>1
  <2>4. QED
    BY <2>1, <2>2, <2>3
<1>4. rest + mid = BitTime
  <2> DEFINE d == EdgesPerBit - Mid
  <2>1. d \in Int /\ Mid \in Int /\ Period \in Int /\ d + Mid = EdgesPerBit
    BY <1>1
  <2> HIDE DEF d
  <2>2. (d + Mid) * Period = d * Period + Mid * Period
    BY <2>1, Distributes, ZenonT(40)
  <2>3. EdgesPerBit * Period = d * Period + Mid * Period
    BY <2>1, <2>2
  <2>4. QED
    BY <2>3 DEF d, BitTime
<1>5. f.state = "STOP" => Time(f, phase) = last + e * Period + phase
  BY DEF Time, Index
<1>6. e * Period \in Nat /\ Time(f, phase) \in Nat
  BY <1>1, <1>2, FrameTimes
<1>7. CASE f.state = "STOP" /\ e >= Mid
  <2> DEFINE d == e - Mid
  <2>1. d \in Nat /\ d \in Int /\ Mid \in Int /\ Period \in Int /\ d + Mid = e
    BY <1>1, <1>2, <1>7
  <2>2. SinceOf(f, phase) = d * Period + phase
    BY <1>7 DEF SinceOf
  <2> HIDE DEF d
  <2>3. (d + Mid) * Period = d * Period + Mid * Period
    BY <2>1, Distributes, ZenonT(40)
  <2>4. e * Period = d * Period + mid /\ d * Period \in Nat
    BY <1>1, <2>1, <2>3
  <2>5. d = 0 => d * Period = 0
    BY <1>1
  <2>6. e = Mid /\ phase = 0 => SinceOf(f, phase) = 0
    BY <1>1, <2>1, <2>2, <2>5
  <2>7. e # Mid - 1 /\ ~Idle(f)
    BY <1>1, <1>2, <1>7 DEF Idle
  <2> DEFINE dp == d * Period  ep == e * Period  s == SinceOf(f, phase)  t == Time(f, phase)
  <2>8. /\ t = last + ep + phase /\ ep = dp + mid /\ dp \in Nat /\ s = dp + phase
        /\ last \in Nat /\ mid \in Nat /\ phase \in Nat
    BY <1>1, <1>3, <1>5, <1>7, <2>2, <2>4
  <2> HIDE DEF dp, ep, s, t, last, mid
  <2>9. s \in Nat /\ s + last + mid = t
    BY <2>8
  <2>10. QED
    BY <1>3, <1>4, <1>7, <2>6, <2>7, <2>9 DEF s, t, last, mid
<1>8. CASE ~(f.state = "STOP" /\ e >= Mid)
  <2>1. SinceOf(f, phase) = rest + Time(f, phase)
    BY <1>8 DEF SinceOf
  <2>2. ~(f.state = "STOP" /\ f.edges = Mid)
    BY <1>1, <1>8
  <2>3. Idle(f) => Time(f, phase) = phase
    <3> SUFFICES ASSUME Idle(f) PROVE Time(f, phase) = phase
      OBVIOUS
    <3>1. Index(f) = 0 /\ f.edges = 0
      BY DEF Idle, Index, FrameOK
    <3>2. 0 * BitTime = 0 /\ 0 * Period = 0
      BY <1>1
    <3>3. Time(f, phase) = 0 * BitTime + 0 * Period + phase
      BY <3>1 DEF Time
    <3>4. QED
      BY <1>1, <3>2, <3>3
  <2>4. ASSUME f.state = "STOP", f.edges = Mid - 1, phase = Period - 1
        PROVE  /\ Time(f, phase) + 1 = last + mid
               /\ SinceOf(f, phase) + 1 = whole
    <3>1. (Mid - 1) * Period + Period = mid /\ (Mid - 1) * Period \in Nat
      <4>1. Mid - 1 \in Nat /\ (Mid - 1) + 1 = Mid
        BY <1>1
      <4>2. ((Mid - 1) + 1) * Period = (Mid - 1) * Period + Period /\ (Mid - 1) * Period \in Nat
        BY <1>1, <4>1, Grows
      <4>3. QED
        BY <4>1, <4>2
    <3> DEFINE ep == (Mid - 1) * Period  t == Time(f, phase)  s == SinceOf(f, phase)
    <3>2. /\ t = last + ep + phase /\ ep + Period = mid /\ ep \in Nat /\ s = rest + t
      BY <1>5, <2>1, <2>4, <3>1
    <3> HIDE DEF ep, t, s, last, mid, rest, whole
    <3>3. t + 1 = last + mid /\ s + 1 = whole
      BY <1>1, <1>3, <1>4, <2>4, <3>2
    <3>4. QED
      BY <3>3 DEF t, s
  <2> DEFINE s == SinceOf(f, phase)  t == Time(f, phase)
  <2>5. s = rest + t /\ t \in Nat /\ rest \in Nat
    BY <1>3, <1>6, <2>1
  <2> HIDE DEF s, t, rest
  <2>6. s \in Nat
    BY <2>5
  <2>7. QED
    BY <1>3, <1>4, <1>8, <2>1, <2>2, <2>3, <2>4, <2>6 DEF s, rest
<1>9. QED
  BY <1>7, <1>8

\* It counts every cycle at most, from the sample of a stop bit, and is a
\* frame by the next.
LEMMA SinceTicks ==
  ASSUME RatesAgree, LinkInv, cr.en, NEW access, UartClock(access, PeerLine), LineActs
  PROVE  /\ Since \in Nat /\ Since' \in Nat /\ Since' <= Since + 1
         /\ rx_data_valid => Since = 0
         /\ rx_data_valid' => /\ Since + 1 = (ByteBits + 2) * BitTime
                              /\ ~Idle(rx) /\ ~Sampled /\ rx.state = "STOP"
                              /\ Time(rx, Phase) + 1 = (ByteBits + 1) * BitTime + Mid * Period
         /\ Sampled => Sampled' \/ Idle(rx')
         /\ Idle(rx) => Idle(rx') \/ (rx'.state = "START" /\ rx'.edges = 0 /\ Time(rx', Phase') <= BitTime)
         /\ ~Idle(rx) /\ ~Sampled => Time(rx', Phase') = Time(rx, Phase) + 1
<1>1. Receiver(PeerLine) /\ generator' = GeneratorNxt(generator, cr.en, clk_divider_valid, cdr)
  BY DEF UartClock
<1>2. LineInv /\ ClockRuns /\ cdr \in Divider /\ FrameOK(rx)
  BY DEF LinkInv, SoftwareTypes, LineInv, LineTypes
<1>3. /\ Phase \in 0 .. Period - 1 /\ (SerialEdge <=> Phase = Period - 1)
      /\ Phase' = Ticked(Phase)
  BY <1>1, <1>2, PhaseTicks
<1>4. Receives
  <2>1. Waits \/ \E byte \in PeerBytes : Begins(byte)
    BY DEF LineActs
  <2>2. QED
    BY <1>1, <1>3, <2>1 DEF Receives
<1>5. /\ FrameOK(rx') /\ rx' = FrameNxt(rx, PeerLine = 0)
      /\ (rx_data_valid' <=> rx.state = "STOP" /\ SerialEdge /\ rx.edges = Mid - 1)
  BY <1>2, <1>4, ReceiverTypes
<1>6. Phase' \in 0 .. Period - 1 /\ Phase' <= Phase + 1 /\ Phase \in Nat /\ Phase' \in Nat
  BY <1>3, Rates DEF Ticked
<1>7. /\ FrameOK(rx')
      /\ Idle(rx) => rx' = IF PeerLine = 0 THEN [rx EXCEPT !.state = "START"] ELSE rx
      /\ rx.state = "STOP" /\ LastEdge(rx) => Idle(rx')
      /\ ~Idle(rx) /\ ~(rx.state = "STOP" /\ LastEdge(rx)) =>
           ~Idle(rx') /\ Time(rx', Ticked(Phase)) = Time(rx, Phase) + 1
  <2> DEFINE phase == Phase  begins == PeerLine = 0
  <2>1. phase \in 0 .. Period - 1 /\ (SerialEdge <=> phase = Period - 1) /\ begins \in BOOLEAN
        /\ rx' = FrameNxt(rx, begins)
    BY <1>3, <1>5
  <2> HIDE DEF phase, begins
  <2>2. /\ FrameOK(rx')
        /\ Idle(rx) => rx' = IF begins THEN [rx EXCEPT !.state = "START"] ELSE rx
        /\ rx.state = "STOP" /\ LastEdge(rx) => Idle(rx')
        /\ ~Idle(rx) /\ ~(rx.state = "STOP" /\ LastEdge(rx)) =>
             ~Idle(rx') /\ Time(rx', Ticked(phase)) = Time(rx, phase) + 1
    BY <1>2, <2>1, FrameTicks
  <2>3. QED
    BY <2>2 DEF phase, begins
<1> DEFINE last == (ByteBits + 1) * BitTime
           mid  == Mid * Period
           rest == (EdgesPerBit - Mid) * Period
           whole == (ByteBits + 2) * BitTime
           t == Time(rx, Phase)
           u == Time(rx', Phase')
<1>8. /\ Since \in Nat /\ last \in Nat /\ mid \in Nat /\ rest \in Nat
      /\ rest + mid = BitTime /\ whole = last + BitTime
      /\ IF Sampled THEN Since + last + mid = t ELSE Since = rest + t
      /\ rx.state = "STOP" /\ rx.edges = Mid /\ Phase = 0 => Since = 0
      /\ rx.state = "STOP" /\ rx.edges = Mid - 1 /\ Phase = Period - 1 =>
           t + 1 = last + mid /\ Since + 1 = whole
      /\ Idle(rx) => t = Phase
  <2> DEFINE phase == Phase
  <2>1. phase \in 0 .. Period - 1
    BY <1>3
  <2> HIDE DEF phase
  <2>2. /\ SinceOf(rx, phase) \in Nat
        /\ {(ByteBits + 1) * BitTime, Mid * Period, (EdgesPerBit - Mid) * Period} \subseteq Nat
        /\ (EdgesPerBit - Mid) * Period + Mid * Period = BitTime
        /\ (ByteBits + 2) * BitTime = (ByteBits + 1) * BitTime + BitTime
        /\ IF rx.state = "STOP" /\ rx.edges >= Mid
             THEN SinceOf(rx, phase) + (ByteBits + 1) * BitTime + Mid * Period = Time(rx, phase)
           ELSE SinceOf(rx, phase) = (EdgesPerBit - Mid) * Period + Time(rx, phase)
        /\ rx.state = "STOP" /\ rx.edges = Mid /\ phase = 0 => SinceOf(rx, phase) = 0
        /\ rx.state = "STOP" /\ rx.edges = Mid - 1 /\ phase = Period - 1 =>
             /\ Time(rx, phase) + 1 = (ByteBits + 1) * BitTime + Mid * Period
             /\ SinceOf(rx, phase) + 1 = (ByteBits + 2) * BitTime
        /\ Idle(rx) => Time(rx, phase) = phase
    BY <1>2, <2>1, SinceFacts
  <2>3. QED
    BY <2>2 DEF phase, Since, Sampled
<1>9. /\ Since' \in Nat
      /\ IF Sampled' THEN Since' + last + mid = u ELSE Since' = rest + u
      /\ rx'.state = "STOP" /\ rx'.edges = Mid /\ Phase' = 0 => Since' = 0
      /\ Idle(rx') => u = Phase'
  <2> DEFINE phase == Phase'  f == rx'
  <2>1. phase \in 0 .. Period - 1 /\ FrameOK(f)
    BY <1>5, <1>6
  <2> HIDE DEF phase, f
  <2>2. /\ SinceOf(f, phase) \in Nat
        /\ {(ByteBits + 1) * BitTime, Mid * Period, (EdgesPerBit - Mid) * Period} \subseteq Nat
        /\ (EdgesPerBit - Mid) * Period + Mid * Period = BitTime
        /\ (ByteBits + 2) * BitTime = (ByteBits + 1) * BitTime + BitTime
        /\ IF f.state = "STOP" /\ f.edges >= Mid
             THEN SinceOf(f, phase) + (ByteBits + 1) * BitTime + Mid * Period = Time(f, phase)
           ELSE SinceOf(f, phase) = (EdgesPerBit - Mid) * Period + Time(f, phase)
        /\ f.state = "STOP" /\ f.edges = Mid /\ phase = 0 => SinceOf(f, phase) = 0
        /\ f.state = "STOP" /\ f.edges = Mid - 1 /\ phase = Period - 1 =>
             /\ Time(f, phase) + 1 = (ByteBits + 1) * BitTime + Mid * Period
             /\ SinceOf(f, phase) + 1 = (ByteBits + 2) * BitTime
        /\ Idle(f) => Time(f, phase) = phase
    BY <2>1, SinceFacts
  <2>3. Since' = SinceOf(f, phase) /\ (Sampled' <=> f.state = "STOP" /\ f.edges >= Mid)
        /\ u = Time(f, phase)
    BY DEF phase, f, Since, Sampled
  <2>4. QED
    BY <2>2, <2>3 DEF phase, f
<1>10. rx_data_valid => Since = 0
  BY <1>2, <1>8 DEF LineInv, InStep
<1>11. rx_data_valid' => /\ Since + 1 = whole /\ t + 1 = last + mid
                         /\ ~Idle(rx) /\ ~Sampled /\ rx.state = "STOP"
  <2>1. ASSUME rx_data_valid'
        PROVE  rx.state = "STOP" /\ rx.edges = Mid - 1 /\ Phase = Period - 1
    BY <1>3, <1>5, <2>1
  <2>2. ~(Mid - 1 >= Mid)
    BY Rates
  <2>3. QED
    BY <1>8, <2>1, <2>2 DEF Idle, Sampled
<1>12. CASE Idle(rx)
  <2>1. rx' = rx \/ rx' = [rx EXCEPT !.state = "START"]
    BY <1>7, <1>12
  <2>2. rx \in Frame /\ rx.edges = 0 /\ rx.state = "IDLE" /\ rx.bits = 0
    BY <1>2, <1>12 DEF FrameOK, Idle
  <2>3. rx'.edges = 0 /\ (rx'.state = "IDLE" \/ rx'.state = "START")
    BY <2>1, <2>2 DEF Frame
  <2>4. ~Sampled /\ ~Sampled'
    BY <2>2, <2>3 DEF Sampled
  <2>5. u = Phase'
    <3>1. Index(rx') = 0
      BY <2>3 DEF Index
    <3>2. 0 * BitTime = 0 /\ 0 * Period = 0
      BY Rates
    <3>3. u = 0 * BitTime + 0 * Period + Phase'
      BY <2>3, <3>1 DEF Time
    <3>4. QED
      BY <1>6, <3>2, <3>3
  <2>6. Since' <= Since + 1
    <3> DEFINE p == Phase  q == Phase'  s == Since  v == Since'
    <3>1. /\ s = rest + p /\ v = rest + q /\ q <= p + 1 /\ rest \in Nat /\ p \in Nat /\ q \in Nat
      BY <1>6, <1>8, <1>9, <1>12, <2>4, <2>5
    <3> HIDE DEF p, q, s, v, rest
    <3>2. v <= s + 1
      BY <3>1
    <3>3. QED
      BY <3>2 DEF s, v
  <2>7. u <= BitTime
    <3>1. 0 \in 0 .. EdgesPerBit - 1 /\ Phase' \in 0 .. Period - 1
      BY <1>6, Rates
    <3>2. 0 * Period + Phase' \in 0 .. BitTime - 1 /\ 0 * Period = 0 /\ BitTime \in Nat
      BY <3>1, InBit, Rates
    <3>3. QED
      BY <1>6, <2>5, <3>2
  <2>8. QED
    BY <1>8, <1>9, <1>10, <1>11, <1>12, <2>3, <2>4, <2>6, <2>7 DEF Idle
<1>13. CASE rx.state = "STOP" /\ LastEdge(rx)
  <2>1. Idle(rx') /\ rx.edges = EdgesPerBit - 1 /\ Phase = Period - 1 /\ ~Idle(rx)
    BY <1>3, <1>7, <1>13 DEF LastEdge, Idle
  <2>2. Sampled /\ ~Sampled'
    <3>1. EdgesPerBit - 1 >= Mid
      BY Rates
    <3>2. QED
      BY <1>13, <2>1, <3>1 DEF Sampled, Idle
  <2>3. t + 1 = whole
    BY <1>13, <2>1, FrameEnd
  <2>4. Phase' = 0
    BY <1>3, <2>1 DEF Ticked
  <2>5. Since' <= Since + 1
    <3> DEFINE s == Since  v == Since'
    <3>1. /\ s + last + mid = t /\ v = rest + u /\ u = 0 /\ rest \in Nat /\ last \in Nat /\ mid \in Nat
          /\ rest + mid = BitTime /\ whole = last + BitTime /\ t + 1 = whole /\ s \in Nat
      BY <1>8, <1>9, <2>1, <2>2, <2>3, <2>4
    <3> HIDE DEF t, u, s, v, rest, last, mid, whole
    <3>2. v <= s + 1
      BY <3>1, Rates
    <3>3. QED
      BY <3>2 DEF s, v
  <2>6. QED
    BY <1>8, <1>9, <1>10, <1>11, <2>1, <2>2, <2>5
<1>14. CASE ~Idle(rx) /\ ~(rx.state = "STOP" /\ LastEdge(rx))
  <2>1. u = t + 1 /\ ~Idle(rx')
    BY <1>3, <1>7, <1>14
  <2>2. /\ Sampled' <=> Sampled \/ rx_data_valid'
        /\ rx_data_valid' => rx'.state = "STOP" /\ rx'.edges = Mid /\ Phase' = 0
    BY <1>2, <1>4, <1>14, Sampling
  <2>3. Since' <= Since + 1
    <3>1. CASE rx_data_valid'
      <4>1. Since' = 0
        BY <1>9, <2>2, <3>1
      <4>2. QED
        BY <1>8, <4>1
    <3>2. CASE ~rx_data_valid'
      <4> DEFINE s == Since  v == Since'
      <4>1. /\ Sampled' <=> Sampled
            /\ IF Sampled THEN s + last + mid = t ELSE s = rest + t
            /\ IF Sampled' THEN v + last + mid = u ELSE v = rest + u
            /\ s \in Nat /\ v \in Nat /\ last \in Nat /\ mid \in Nat /\ rest \in Nat /\ u = t + 1
        BY <1>8, <1>9, <2>1, <2>2, <3>2
      <4>2. t \in Nat
        <5>1. Phase \in 0 .. Period - 1
          BY <1>3
        <5>2. QED
          BY <1>2, <5>1, FrameTimes
      <4> HIDE DEF t, u, s, v, rest, last, mid
      <4>3. CASE Sampled
        <5>1. v + last + mid = s + last + mid + 1
          BY <4>1, <4>3
        <5>2. v <= s + 1
          BY <4>1, <5>1
        <5>3. QED
          BY <5>2 DEF s, v
      <4>4. CASE ~Sampled
        <5>1. v = rest + t + 1 /\ s = rest + t
          BY <4>1, <4>2, <4>4
        <5>2. v <= s + 1
          BY <4>1, <4>2, <5>1
        <5>3. QED
          BY <5>2 DEF s, v
      <4>5. QED
        BY <4>3, <4>4
    <3>3. QED
      BY <3>1, <3>2
  <2>4. QED
    BY <1>8, <1>9, <1>10, <1>11, <1>14, <2>1, <2>2, <2>3
<1>15. QED
  BY <1>12, <1>13, <1>14

LEMMA Speeds ==
  ASSUME KeepsUp
  PROVE  /\ SlowestGap \in Nat /\ SlowestGap >= 1 /\ AccessGap \in Nat /\ AccessGap >= 1
         /\ AccessGap <= SlowestGap
         /\ (ByteBits + 2) * BitTime \in Nat /\ 3 * SlowestGap < (ByteBits + 2) * BitTime
         /\ (ByteBits + 1) * BitTime \in Nat /\ BitTime \in Nat /\ BitTime >= 2
         /\ Mid * Period \in Nat /\ Mid * Period >= 1
         /\ BitTime + SlowestGap < (ByteBits + 1) * BitTime
<1>1. SlowestGap \in Nat /\ SlowestGap >= 1 /\ AccessGap \in Nat /\ AccessGap >= 1
  BY UartBootAssumption, GapAssumption
<1>2. /\ BitTime \in Nat /\ ByteBits \in Nat /\ ByteBits >= 1 /\ Period \in Nat /\ Period >= 2
      /\ Mid \in Nat /\ Mid >= 1
  BY Rates
<1>3. Mid * Period \in Nat /\ Mid * Period >= 1 /\ BitTime >= 2
  <2>1. 1 * Period <= Mid * Period /\ 1 * Period = Period /\ Mid * Period \in Nat
    BY <1>2, Grows
  <2>2. 0 \in 0 .. EdgesPerBit - 1 /\ 0 \in 0 .. Period - 1
    BY <1>2, Rates
  <2>3. Mid * Period + Period <= BitTime
    BY <2>2, InBit
  <2> DEFINE mp == Mid * Period
  <2>4. mp \in Nat /\ Period <= mp /\ mp + Period <= BitTime
    BY <2>1, <2>3
  <2> HIDE DEF mp
  <2>5. mp >= 1 /\ BitTime >= 2
    BY <1>2, <2>4
  <2>6. QED
    BY <2>4, <2>5 DEF mp
<1> DEFINE b == ByteBits * BitTime
<1>4. b \in Nat /\ BitTime <= b
  <2>1. 1 * BitTime <= ByteBits * BitTime /\ 1 * BitTime = BitTime /\ ByteBits * BitTime \in Nat
    BY <1>2, Grows
  <2>2. QED
    BY <2>1
<1>5. (ByteBits + 1) * BitTime = b + BitTime
  BY <1>2, Grows
<1>6. (ByteBits + 2) * BitTime = b + BitTime + BitTime
  <2>1. ((ByteBits + 1) + 1) * BitTime = (ByteBits + 1) * BitTime + BitTime
    <3>1. ByteBits + 1 \in Nat
      BY <1>2
    <3>2. QED
      BY <1>2, <3>1, Grows
  <2>2. (ByteBits + 1) + 1 = ByteBits + 2
    BY <1>2
  <2>3. QED
    BY <1>5, <2>1, <2>2
<1>7. 3 * SlowestGap < (ByteBits + 2) * BitTime /\ AccessGap <= SlowestGap
  BY DEF KeepsUp
<1> HIDE DEF b
<1>8. SlowestGap < b
  BY <1>1, <1>2, <1>4, <1>6, <1>7
<1>9. BitTime + SlowestGap < b + BitTime
  BY <1>1, <1>2, <1>4, <1>8
<1>10. (ByteBits + 1) * BitTime \in Nat /\ (ByteBits + 2) * BitTime \in Nat
  BY <1>2, <1>4, <1>5, <1>6
<1>11. QED
  BY <1>1, <1>2, <1>3, <1>5, <1>7, <1>9, <1>10

\* A byte that is taken, or will be within the frame, is not overrun.
LEMMA Reading ==
  ASSUME RatesAgree, KeepsUp, LinkInv, cr.en, NEW access, Harmless(access), UartClock(access, PeerLine),
         LineActs, sr.rxne /\ access.reg # "UART_RDR" => Since + 1 < (ByteBits + 2) * BitTime
  PROVE  /\ Since \in Nat /\ Since' \in Nat /\ Since' <= Since + 1
         /\ rx_data_valid' => ~sr'.rxne
         /\ sr'.rxne /\ (~sr.rxne \/ access.reg = "UART_RDR") => Since' <= 1
<1>1. /\ Since \in Nat /\ Since' \in Nat /\ Since' <= Since + 1
      /\ rx_data_valid => Since = 0
      /\ rx_data_valid' => Since + 1 = (ByteBits + 2) * BitTime
  BY SinceTicks
<1>2. sr'.rxne <=> rx_data_valid \/ (sr.rxne /\ access.reg # "UART_RDR")
  BY RegistersKeep DEF LinkInv
<1> DEFINE whole == (ByteBits + 2) * BitTime  s == Since  v == Since'
<1>3. /\ s \in Nat /\ v \in Nat /\ v <= s + 1 /\ (rx_data_valid => s = 0)
      /\ (rx_data_valid' => s + 1 = whole) /\ whole \in Nat /\ whole > 1
      /\ (sr.rxne /\ access.reg # "UART_RDR" => s + 1 < whole)
  <2>1. whole \in Nat /\ 3 * SlowestGap < whole /\ SlowestGap \in Nat /\ SlowestGap >= 1
    BY Speeds
  <2> HIDE DEF whole
  <2>2. whole > 1
    BY <2>1
  <2>3. QED
    BY <1>1, <2>1, <2>2 DEF whole
<1> HIDE DEF whole, s, v
<1>4. rx_data_valid' => ~rx_data_valid /\ ~(sr.rxne /\ access.reg # "UART_RDR")
  BY <1>3
<1>5. rx_data_valid => v <= 1
  BY <1>3
<1>6. QED
  BY <1>1, <1>2, <1>4, <1>5 DEF v

\* Before the prompt is heard nothing comes.
LEMMA Unasked ==
  ASSUME LinkInv, LinkInv', Transmits, api # "none", heard = NoByte, PeerActs
  PROVE  /\ arriving' = <<>> /\ ~rx_data_valid'
         /\ Idle(rx') \/ Sampled'
<1>1. stream = <<>>
  BY DEF Transmits
<1>2. arriving = <<>>
  <2>1. arriving # <<>> => Len(stream) >= 1
    BY DEF LinkInv, Counts
  <2>2. QED
    BY <1>1, <2>1
<1>3. ~rx_data_valid
  BY <1>2, EmptySeq DEF LinkInv, LineInv, Carries, InFlight
<1>4. ~PeerMaySend
  BY PromptBits DEF PeerMaySend
<1>5. arriving' = <<>>
  BY <1>2, <1>3, <1>4 DEF PeerActs, Sends, Waits
<1>6. ~InFlight'
  <2>1. IF InFlight' THEN Len(arriving') = 1 ELSE arriving' = <<>>
    BY DEF LinkInv, LineInv, Carries
  <2>2. QED
    BY <1>5, <2>1
<1>7. QED
  BY <1>5, <1>6 DEF InFlight

\* While txact is down and not yet seen down, the software only waits.
Lingers == Len(todo) = 3 /\ Len(todo') = 3 /\ ~sr.txact => gap' = gap + 1

\* The accesses to come, before and after a cycle.
ToCome(n, m) == n = Len(todo) /\ m = Len(todo')

\* Before the software reads.
LEMMA TimelyWaits ==
  ASSUME RatesAgree, KeepsUp, LinkInv, LinkInv', Transmits, Transmits', Timely,
         NEW n, n \in 3 .. 7, NEW m, m = n \/ m = n - 1, ToCome(n, m),
         NEW access, Harmless(access), access.reg # "UART_RDR", UartClock(access, PeerLine), PeerActs,
         LineActs, gap' \in 1 .. SlowestGap, Lingers
  PROVE  Timely'
<1>1. n > 2 /\ m \in 2 .. 7 /\ api # "none" /\ (n <= 4 => cr.en) /\ (n > 3 => heard = NoByte)
      /\ gap \in 1 .. SlowestGap
  <2>1. n > 2 /\ n # 0
    OBVIOUS
  <2>2. todo # <<>>
    BY <2>1 DEF ToCome
  <2>3. m \in 2 .. 7
    BY <2>1
  <2>4. gap \in 1 .. SlowestGap
    BY DEF Timely
  <2>5. n > 3 => heard = NoByte
    BY DEF ToCome, Transmits
  <2>6. QED
    BY <2>1, <2>2, <2>3, <2>4, <2>5 DEF ToCome, LinkInv, Program
<1>2. ~sr.rxne /\ ~rx_data_valid
  BY <1>1 DEF ToCome, Timely
<1>3. ~sr'.rxne
  BY <1>2, RegistersKeep DEF LinkInv
<1>4. /\ SlowestGap \in Nat /\ SlowestGap >= 1
      /\ (ByteBits + 1) * BitTime \in Nat /\ BitTime \in Nat
      /\ Mid * Period \in Nat /\ Mid * Period >= 1
      /\ BitTime + SlowestGap < (ByteBits + 1) * BitTime
  BY Speeds
<1>5. ASSUME heard = NoByte
      PROVE  ~rx_data_valid' /\ (Idle(rx') \/ Sampled')
  BY <1>1, <1>5, Unasked
<1>6. ASSUME n = 3, heard = Prompt
      PROVE  /\ ~rx_data_valid'
             /\ m = 3 /\ ~Idle(rx') /\ ~Sampled' =>
                  IF Idle(tx') THEN Time(rx', Phase') <= BitTime + (IF sr'.txact THEN 0 ELSE gap')
                  ELSE tx'.state = "STOP" /\ rx'.state = "START" /\ rx'.edges <= tx'.edges
  <2>1. cr.en /\ heard # NoByte /\ FrameOK(tx)
    BY <1>1, <1>6, PromptBits DEF Transmits
  <2>2. Ends \/ Done
    BY <1>6, <2>1 DEF ToCome, Transmits, Writing, HandsOver, Starts, Falls, Goes
  <2>3. Idle(tx') \/ tx'.state = "STOP"
    <3>1. tx' = FrameNxt(tx, tx_data_valid) /\ tx \in Frame
      BY <2>1 DEF UartClock, Transmitter, FrameOK
    <3>2. CASE Ends
      <4>1. tx.state = "STOP"
        BY <3>2 DEF Ends
      <4>2. \/ tx' = tx
            \/ tx' = [tx EXCEPT !.edges = tx.edges + 1]
            \/ tx' = [tx EXCEPT !.state = "IDLE", !.edges = 0]
        BY <3>1, <4>1 DEF FrameNxt
      <4>3. QED
        BY <3>1, <4>1, <4>2 DEF Frame, Idle
    <3>3. CASE Done
      BY <3>1, <3>3 DEF Done, Still, FrameNxt, Idle
    <3>4. QED
      BY <2>2, <3>2, <3>3
  <2>4. /\ rx_data_valid' => /\ ~Idle(rx) /\ ~Sampled /\ rx.state = "STOP"
                             /\ Time(rx, Phase) + 1 = (ByteBits + 1) * BitTime + Mid * Period
        /\ Sampled => Sampled' \/ Idle(rx')
        /\ Idle(rx) => Idle(rx') \/ (rx'.state = "START" /\ rx'.edges = 0 /\ Time(rx', Phase') <= BitTime)
        /\ ~Idle(rx) /\ ~Sampled => Time(rx', Phase') = Time(rx, Phase) + 1
    BY <2>1, SinceTicks
  <2>5. /\ Phase \in 0 .. Period - 1 /\ (SerialEdge <=> Phase = Period - 1)
        /\ (~Idle(tx) => /\ FrameOK(tx')
                         /\ (tx.state = "STOP" /\ LastEdge(tx) => Idle(tx'))
                         /\ tx' = FrameNxt(tx, tx_data_valid))
    <3>1. generator' = GeneratorNxt(generator, cr.en, clk_divider_valid, cdr)
          /\ ClockRuns /\ cdr \in Divider
      BY DEF UartClock, LinkInv, SoftwareTypes
    <3>2. Phase \in 0 .. Period - 1 /\ (SerialEdge <=> Phase = Period - 1)
      BY <2>1, <3>1, PhaseTicks
    <3>3. ~Idle(tx) => /\ FrameOK(tx')
                       /\ (tx.state = "STOP" /\ LastEdge(tx) => Idle(tx'))
                       /\ tx' = FrameNxt(tx, tx_data_valid)
      BY <2>1, TransmitterTicks
    <3>4. QED
      BY <3>2, <3>3
  <2>6. FrameOK(rx) /\ FrameOK(rx')
    BY DEF LinkInv, LineInv, LineTypes
  <2>7. Idle(tx) => (~Idle(rx) /\ ~Sampled => Time(rx, Phase) <= BitTime + (IF sr.txact THEN 0 ELSE gap))
    BY <1>6 DEF ToCome, Timely
  <2>8. ~Idle(tx) => /\ tx.state = "STOP"
                     /\ (~Idle(rx) /\ ~Sampled => rx.state = "START" /\ rx.edges <= tx.edges)
    <3>1. n = 3
      BY <1>6
    <3>2. ~Idle(tx) => tx.state = "STOP"
      BY <2>2 DEF Ends, Done, Still
    <3>3. QED
      BY <3>1, <3>2 DEF ToCome, Timely
  <2>9. Time(rx, Phase) \in Nat /\ BitTime \in Nat
    <3>1. Phase \in 0 .. Period - 1
      BY <2>5
    <3>2. QED
      BY <1>4, <2>6, <3>1, FrameTimes
  <2>10. ~rx_data_valid'
    <3> SUFFICES ASSUME rx_data_valid' PROVE FALSE
      OBVIOUS
    <3> DEFINE t == Time(rx, Phase)  last == (ByteBits + 1) * BitTime  mid == Mid * Period
    <3>1. t + 1 = last + mid /\ ~Idle(rx) /\ ~Sampled /\ rx.state = "STOP"
      BY <2>4
    <3>2. Idle(tx)
      BY <2>8, <3>1
    <3>3. t <= BitTime + (IF sr.txact THEN 0 ELSE gap)
      BY <2>7, <3>1, <3>2
    <3>4. /\ t \in Nat /\ last \in Nat /\ mid \in Nat /\ mid >= 1 /\ BitTime + SlowestGap < last
          /\ gap \in 1 .. SlowestGap /\ SlowestGap \in Nat /\ BitTime \in Nat
      BY <1>1, <1>4, <2>9
    <3> HIDE DEF t, last, mid
    <3>5. t <= BitTime + SlowestGap
      BY <3>3, <3>4
    <3>6. QED
      BY <3>1, <3>4, <3>5
  <2>11. ASSUME m = 3, ~Idle(rx'), ~Sampled'
         PROVE  IF Idle(tx') THEN Time(rx', Phase') <= BitTime + (IF sr'.txact THEN 0 ELSE gap')
                ELSE tx'.state = "STOP" /\ rx'.state = "START" /\ rx'.edges <= tx'.edges
    <3>1. ~Sampled
      BY <2>4, <2>11
    <3>2. gap' \in Nat /\ gap' >= 1 /\ gap \in Nat
      BY <1>1, <1>4
    <3>3. tx' \in Frame => tx'.edges \in Nat
      BY Rates DEF Frame
    <3>4. CASE Idle(rx)
      <4>1. rx'.state = "START" /\ rx'.edges = 0 /\ Time(rx', Phase') <= BitTime
        BY <2>4, <2>11, <3>4
      <4>2. CASE Idle(tx')
        <5> DEFINE u == Time(rx', Phase')
        <5>1. u <= BitTime /\ u \in Int
          <6>1. Phase' \in 0 .. Period - 1
            <7>1. Phase' = Ticked(Phase)
              <8>1. generator' = GeneratorNxt(generator, cr.en, clk_divider_valid, cdr)
                    /\ ClockRuns /\ cdr \in Divider
                BY DEF UartClock, LinkInv, SoftwareTypes
              <8>2. QED
                BY <2>1, <8>1, PhaseTicks
            <7>2. QED
              BY <2>5, <7>1, Rates DEF Ticked
          <6>2. QED
            BY <2>6, <4>1, <6>1, FrameTimes
        <5> DEFINE act == sr'.txact  g == gap'
        <5>2. g \in Nat /\ BitTime \in Nat
          BY <2>9, <3>2
        <5> HIDE DEF u, act, g
        <5>3. u <= BitTime + (IF act THEN 0 ELSE g)
          BY <5>1, <5>2
        <5>4. QED
          BY <4>2, <5>3 DEF u, act, g
      <4>3. CASE ~Idle(tx')
        <5>1. tx'.state = "STOP" /\ FrameOK(tx')
          BY <2>3, <2>11, <4>3 DEF Transmits
        <5>2. 0 <= tx'.edges
          BY <3>3, <5>1 DEF FrameOK
        <5>3. QED
          BY <4>1, <4>3, <5>1, <5>2
      <4>4. QED
        BY <4>2, <4>3
    <3>5. CASE ~Idle(rx) /\ ~Idle(tx)
      <4>1. tx.state = "STOP" /\ rx.state = "START" /\ rx.edges <= tx.edges
        BY <2>8, <3>1, <3>5
      <4>2. /\ tx \in Frame /\ rx \in Frame /\ tx.edges \in 0 .. EdgesPerBit - 1
            /\ rx.edges \in 0 .. EdgesPerBit - 1 /\ EdgesPerBit \in Nat
        BY <2>1, <2>6, Rates DEF FrameOK, Frame
      <4>3. Time(rx', Phase') = Time(rx, Phase) + 1
        BY <2>4, <3>1, <3>5
      <4>4. sr'.txact
        BY <3>5, TransmitterRegisters DEF LinkInv
      <4>5. CASE Idle(tx')
        <5>1. Time(rx, Phase) + 1 <= BitTime
          <6>1. Phase \in 0 .. Period - 1
            BY <2>5
          <6>2. Index(rx) * BitTime \in Nat /\ Time(rx, Phase) + 1 <= Index(rx) * BitTime + BitTime
            BY <2>6, <6>1, FrameTimes
          <6>3. Index(rx) = 0
            BY <4>1 DEF Index
          <6>4. 0 * BitTime = 0
            BY <2>9
          <6>5. QED
            BY <2>9, <6>2, <6>3, <6>4
        <5>2. BitTime + 0 = BitTime
          BY <2>9
        <5>3. QED
          BY <4>3, <4>4, <4>5, <5>1, <5>2
      <4>6. CASE ~Idle(tx')
        <5>1. ~LastEdge(tx) /\ tx' = FrameNxt(tx, tx_data_valid)
          BY <2>5, <3>5, <4>1, <4>6
        <5>2. tx' = IF SerialEdge THEN [tx EXCEPT !.edges = @ + 1] ELSE tx
          BY <4>1, <5>1 DEF FrameNxt
        <5>3. tx'.edges = (IF SerialEdge THEN tx.edges + 1 ELSE tx.edges) /\ tx'.state = "STOP"
          BY <4>1, <4>2, <5>2 DEF Frame
        <5>4. ~LastEdge(rx)
          BY <4>1, <4>2, <5>1 DEF LastEdge
        <5>5. rx' = FrameNxt(rx, PeerLine = 0)
          BY DEF UartClock, Receiver
        <5>6. rx' = IF SerialEdge THEN [rx EXCEPT !.edges = @ + 1] ELSE rx
          BY <4>1, <5>4, <5>5 DEF FrameNxt
        <5>7. rx'.edges = (IF SerialEdge THEN rx.edges + 1 ELSE rx.edges) /\ rx'.state = "START"
          BY <4>1, <4>2, <5>6 DEF Frame
        <5>8. rx'.edges <= tx'.edges
          BY <4>1, <4>2, <5>3, <5>7
        <5>9. QED
          BY <4>6, <5>3, <5>7, <5>8
      <4>7. QED
        BY <4>5, <4>6
    <3>6. CASE ~Idle(rx) /\ Idle(tx)
      <4>1. Done
        BY <2>2, <3>6 DEF Ends, Idle
      <4>2. tx.state = "IDLE" /\ ~tx_data_valid
        BY <4>1 DEF Done, Still, Idle
      <4>3. Idle(tx')
        BY <4>2 DEF UartClock, Transmitter, FrameNxt, Idle
      <4>4. ~sr'.txact
        BY <3>6, TransmitterRegisters DEF LinkInv
      <4>5. Time(rx', Phase') = Time(rx, Phase) + 1
        BY <2>4, <3>1, <3>6
      <4>6. Time(rx, Phase) <= BitTime + (IF sr.txact THEN 0 ELSE gap)
        BY <2>7, <3>1, <3>6
      <4>7. ~sr.txact => gap' = gap + 1
        BY <1>6, <2>11 DEF ToCome, Lingers
      <4> DEFINE t == Time(rx, Phase)  u == Time(rx', Phase')  g == gap  h == gap'  act == sr.txact
      <4>8. /\ t \in Nat /\ u = t + 1 /\ t <= BitTime + (IF act THEN 0 ELSE g)
            /\ (~act => h = g + 1) /\ h \in Nat /\ h >= 1 /\ g \in Nat /\ BitTime \in Nat
        BY <2>9, <3>2, <4>5, <4>6, <4>7
      <4> HIDE DEF t, u, g, h, act
      <4>9. u <= BitTime + h
        <5>1. CASE act
          BY <4>8, <5>1
        <5>2. CASE ~act
          BY <4>8, <5>2
        <5>3. QED
          BY <5>1, <5>2
      <4>10. QED
        BY <4>3, <4>4, <4>9 DEF u, h
    <3>7. QED
      BY <3>4, <3>5, <3>6
  <2>12. QED
    BY <2>10, <2>11
<1>7. heard \in {NoByte, Prompt} /\ (heard = Prompt => n = 3)
  <2>1. n > 3 \/ n = 3
    BY <1>1
  <2>2. heard \in {NoByte, Prompt}
    BY DEF Transmits
  <2>3. QED
    BY <1>1, <2>1, <2>2, PromptBits
<1>8. ~rx_data_valid'
  BY <1>5, <1>6, <1>7
<1>9. m = 3 /\ ~Idle(rx') /\ ~Sampled' =>
        IF Idle(tx') THEN Time(rx', Phase') <= BitTime + (IF sr'.txact THEN 0 ELSE gap')
        ELSE tx'.state = "STOP" /\ rx'.state = "START" /\ rx'.edges <= tx'.edges
  BY <1>5, <1>6, <1>7
<1>10. QED
  BY <1>3, <1>8, <1>9 DEF ToCome, Timely

\* What bounds the age of the byte in RDR.
LEMMA NotLate ==
  ASSUME KeepsUp, LinkInv, Timely, sr.rxne, Since \in Nat, Len(todo) <= 2,
         gap < SlowestGap \/ Len(todo) = 2 \/ todo = <<Word>>
  PROVE  Since + 1 < (ByteBits + 2) * BitTime
<1> DEFINE n == Len(todo)  s == Since  whole == (ByteBits + 2) * BitTime
<1>1. /\ gap \in 1 .. SlowestGap
      /\ n = 2 => s <= SlowestGap + gap
      /\ n = 1 /\ Rest(todo) => s <= 2 * SlowestGap + gap
      /\ todo = <<Word>> => s <= gap
  BY DEF Timely
<1>2. n = 2 \/ (n = 1 /\ Rest(todo)) \/ todo = <<Word>>
  <2>1. todo # <<>>
    BY DEF LinkInv, Program, Counts
  <2>2. Rest(todo) => n \in 1 .. 7
    BY <2>1, Turn
  <2>3. Rest(todo) \/ todo = <<Word>>
    BY DEF LinkInv, Program
  <2>4. n <= 2
    OBVIOUS
  <2> HIDE DEF n
  <2>5. Rest(todo) => n = 1 \/ n = 2
    BY <2>2, <2>4
  <2>6. QED
    BY <2>3, <2>5
<1>3. SlowestGap \in Nat /\ SlowestGap >= 1 /\ whole \in Nat /\ 3 * SlowestGap < whole
  BY Speeds
<1>4. todo = <<Word>> => n = 1 /\ ~Rest(todo)
  BY WordFacts
<1>5. s \in Nat /\ (gap < SlowestGap \/ n = 2 \/ todo = <<Word>>)
  OBVIOUS
<1> HIDE DEF n, s, whole
<1>6. s + 1 < whole
  <2>1. CASE n = 2
    <3>1. s <= SlowestGap + gap
      BY <1>1, <2>1
    <3>2. QED
      BY <1>1, <1>3, <1>5, <3>1
  <2>2. CASE todo = <<Word>>
    <3>1. s <= gap
      BY <1>1, <2>2
    <3>2. QED
      BY <1>1, <1>3, <1>5, <3>1
  <2>3. CASE n = 1 /\ Rest(todo)
    <3>1. s <= 2 * SlowestGap + gap
      BY <1>1, <2>3
    <3>2. gap < SlowestGap
      BY <1>4, <1>5, <2>3
    <3>3. QED
      BY <1>1, <1>3, <1>5, <3>1, <3>2
  <2>4. QED
    BY <1>2, <2>1, <2>2, <2>3
<1>7. QED
  BY <1>6 DEF s, whole

\* A byte that stays in RDR is still no older than the accesses allow.
InItsTime(access) ==
  sr.rxne /\ access.reg # "UART_RDR" =>
    /\ Since + 1 < (ByteBits + 2) * BitTime
    /\ Len(todo') = 2 => Since + 1 <= SlowestGap + gap'
    /\ Len(todo') = 1 /\ Rest(todo') => Since + 1 <= 2 * SlowestGap + gap'
    /\ todo' = <<Word'>> => Since + 1 <= gap'

\* While the software reads.
LEMMA TimelyReads ==
  ASSUME RatesAgree, KeepsUp, LinkInv, Timely, cr.en, NEW access, Harmless(access),
         UartClock(access, PeerLine), LineActs,
         NEW n, n \in 0 .. 2, NEW m, m \in 0 .. 2, ToCome(n, m),
         gap' \in 1 .. SlowestGap, InItsTime(access)
  PROVE  Timely'
<1>1. /\ Since \in Nat /\ Since' \in Nat /\ Since' <= Since + 1
      /\ rx_data_valid' => ~sr'.rxne
      /\ sr'.rxne /\ (~sr.rxne \/ access.reg = "UART_RDR") => Since' <= 1
  <2>1. sr.rxne /\ access.reg # "UART_RDR" => Since + 1 < (ByteBits + 2) * BitTime
    BY DEF InItsTime
  <2>2. Len(todo) <= 2
    BY DEF ToCome
  <2>3. QED
    BY <2>1, <2>2, Reading
<1>2. SlowestGap \in Nat /\ SlowestGap >= 1
  BY Speeds
<1>3. ~(m > 2) /\ m # 3
  OBVIOUS
<1> DEFINE s == Since  v == Since'  g == gap'
           late == sr.rxne /\ access.reg # "UART_RDR"
           kept == sr'.rxne  rest == Rest(todo')  word == todo' = <<Word'>>
<1>4. /\ s \in Nat /\ v \in Nat /\ v <= s + 1 /\ g \in Nat /\ g >= 1
      /\ kept /\ ~late => v <= 1
      /\ late /\ m = 2 => s + 1 <= SlowestGap + g
      /\ late /\ m = 1 /\ rest => s + 1 <= 2 * SlowestGap + g
      /\ late /\ word => s + 1 <= g
  <2>1. g \in Nat /\ g >= 1
    BY <1>2
  <2>2. QED
    BY <1>1, <2>1 DEF ToCome, InItsTime
<1> HIDE DEF s, v, g, late, kept, rest, word
<1>5. kept /\ m = 2 => v <= SlowestGap + g
  <2>1. CASE late
    BY <1>2, <1>4, <2>1
  <2>2. CASE ~late
    BY <1>2, <1>4, <2>2
  <2>3. QED
    BY <2>1, <2>2
<1>6. kept /\ m = 1 /\ rest => v <= 2 * SlowestGap + g
  <2>1. CASE late
    BY <1>2, <1>4, <2>1
  <2>2. CASE ~late
    BY <1>2, <1>4, <2>2
  <2>3. QED
    BY <2>1, <2>2
<1>7. kept /\ word => v <= g
  <2>1. CASE late
    BY <1>2, <1>4, <2>1
  <2>2. CASE ~late
    BY <1>2, <1>4, <2>2
  <2>3. QED
    BY <2>1, <2>2
<1>8. QED
  BY <1>1, <1>3, <1>5, <1>6, <1>7 DEF v, g, kept, rest, word, ToCome, Timely

LEMMA TimelyIdles ==
  ASSUME RatesAgree, KeepsUp, LinkInv, LinkInv', Transmits, Transmits', Timely, CpuIdle
  PROVE  Timely'
<1> DEFINE n == Len(todo)
<1>1. /\ UartClock(NoAccess, PeerLine) /\ Listens(sout) /\ PeerActs /\ LineActs /\ Pace(NoAccess, SlowestGap)
      /\ api' = api /\ todo' = todo /\ code_ram' = code_ram
      /\ todo = <<>> \/ gap < SlowestGap
  BY PeerIsPeerActs DEF CpuIdle
<1>2. Harmless(NoAccess) /\ NoAccess.reg # "UART_RDR"
  BY DEF NoAccess, Harmless, Writes
<1>3. SlowestGap \in Nat /\ SlowestGap >= 1 /\ gap \in 1 .. SlowestGap /\ gap \in Nat
  BY Speeds DEF Timely
<1>4. gap' \in 1 .. SlowestGap /\ (gap < SlowestGap => gap' = gap + 1)
  <2>1. gap' = IF gap < SlowestGap THEN gap + 1 ELSE gap
    BY <1>1 DEF Pace
  <2>2. QED
    BY <1>3, <2>1
<1>5. CASE todo = <<>>
  <2>1. ~sr.rxne /\ arriving = <<>>
    BY <1>5 DEF LinkInv, Program, Counts
  <2>2. ~rx_data_valid
    BY <2>1, EmptySeq DEF LinkInv, LineInv, Carries, InFlight
  <2>3. ~sr'.rxne
    BY <1>1, <1>2, <2>1, <2>2, RegistersKeep DEF LinkInv
  <2>4. Len(todo') = 0
    BY <1>1, <1>5
  <2>5. ~(Len(todo') > 2) /\ Len(todo') # 3
    BY <2>4
  <2>6. QED
    BY <1>4, <2>3, <2>5 DEF Timely
<1>6. CASE todo # <<>> /\ n > 2
  <2>1. n \in 3 .. 7 /\ n = Len(todo) /\ n = Len(todo')
    <3>1. todo # <<Word>>
      <4>1. todo = <<Word>> => n = 1
        BY WordFacts
      <4>2. n > 2
        BY <1>6
      <4> HIDE DEF n
      <4>3. QED
        BY <4>1, <4>2
    <3>2. n \in 1 .. 7
      BY <1>6, <3>1, Turn DEF LinkInv, Program
    <3>3. n > 2 /\ n = Len(todo) /\ n = Len(todo')
      BY <1>1, <1>6
    <3> HIDE DEF n
    <3>4. QED
      BY <3>2, <3>3
  <2>2. gap' = gap + 1
    BY <1>1, <1>4, <1>6
  <2> HIDE DEF n
  <2>3. n = n \/ n = n - 1
    OBVIOUS
  <2>4. Lingers
    BY <2>2 DEF Lingers
  <2>5. ToCome(n, n)
    BY <2>1 DEF ToCome
  <2>6. QED
    BY <1>1, <1>2, <1>4, <2>1, <2>3, <2>4, <2>5, TimelyWaits
<1>7. CASE todo # <<>> /\ ~(n > 2)
  <2>1. gap < SlowestGap /\ gap' = gap + 1
    BY <1>1, <1>4, <1>7
  <2>2. n \in 1 .. 2
    <3>1. todo = <<Word>> => n = 1
      BY WordFacts
    <3>2. todo # <<Word>> => n \in 1 .. 7
      BY <1>7, Turn DEF LinkInv, Program
    <3>3. ~(n > 2)
      BY <1>7
    <3> HIDE DEF n
    <3>4. QED
      BY <3>1, <3>2, <3>3
  <2>3. cr.en /\ n <= 2
    <3> HIDE DEF n
    <3>1. n <= 4 /\ n <= 2
      BY <2>2
    <3>2. QED
      BY <1>7, <3>1 DEF n, LinkInv, Program
  <2>4. Since \in Nat
    BY <1>1, <2>3, SinceTicks
  <2>5. sr.rxne => Since + 1 < (ByteBits + 2) * BitTime
    BY <2>1, <2>3, <2>4, NotLate
  <2>6. Word' = Word
    BY <1>1 DEF Word
  <2> DEFINE s == Since
  <2>7. /\ s \in Nat
        /\ sr.rxne /\ n = 2 => s <= SlowestGap + gap
        /\ sr.rxne /\ n = 1 /\ Rest(todo) => s <= 2 * SlowestGap + gap
        /\ sr.rxne /\ todo = <<Word>> => s <= gap
    BY <2>4 DEF Timely
  <2> HIDE DEF s, n
  <2>8. /\ sr.rxne /\ n = 2 => s + 1 <= SlowestGap + gap'
        /\ sr.rxne /\ n = 1 /\ Rest(todo) => s + 1 <= 2 * SlowestGap + gap'
        /\ sr.rxne /\ todo = <<Word>> => s + 1 <= gap'
    BY <1>3, <2>1, <2>7
  <2>9. /\ sr.rxne /\ n = 2 => Since + 1 <= SlowestGap + gap'
        /\ sr.rxne /\ n = 1 /\ Rest(todo') => Since + 1 <= 2 * SlowestGap + gap'
        /\ sr.rxne /\ todo' = <<Word'>> => Since + 1 <= gap'
    BY <1>1, <2>6, <2>8 DEF s
  <2>10. n = Len(todo') /\ n \in 0 .. 2 /\ Len(todo) <= 2
    <3>1. n \in 0 .. 2
      BY <2>2
    <3>2. QED
      BY <1>1, <2>3, <3>1 DEF n
  <2>11. InItsTime(NoAccess)
    BY <2>5, <2>9, <2>10 DEF InItsTime
  <2>12. ToCome(n, n)
    BY <1>1 DEF n, ToCome
  <2>13. QED
    BY <1>1, <1>2, <1>4, <2>3, <2>10, <2>11, <2>12, TimelyReads
<1>8. QED
  BY <1>5, <1>6, <1>7

LEMMA NoWord ==
  ASSUME NEW s, Rest(s), Len(s) = 1, NEW k
  PROVE  s # <<StoreTo("CODE_RAM", k)>>
<1>1. s[1] = Access(1)
  <2>1. \A j \in 1 .. 1 : s[j] = Access(1 + 1 - j)
    BY DEF Rest, Part
  <2>2. 1 + 1 - 1 = 1 /\ 1 \in 1 .. 1
    OBVIOUS
  <2>3. QED
    BY <2>1, <2>2
<1> DEFINE word == StoreTo("CODE_RAM", k)
<1>2. word.reg = "CODE_RAM"
  BY DEF StoreTo
<1> HIDE DEF word
<1>3. <<word>>[1] = word
  OBVIOUS
<1>4. QED
  BY <1>1, <1>2, <1>3, Accesses DEF word

LEMMA TimelyProceeds ==
  ASSUME RatesAgree, KeepsUp, LinkInv, LinkInv', Transmits, Transmits', Timely,
         CpuAccess, Rest(todo), Len(todo) # 1
  PROVE  Timely'
<1> DEFINE n == Len(todo)
           m == Len(todo')
           access == AccessDue(loaded)
           again == (n = 2 /\ ~sr.rxne) \/ (n = 3 /\ sr.txact)
<1>1. /\ n \in 2 .. 7 /\ todo # <<>>
      /\ UNCHANGED <<api, bytes, code_ram>>
      /\ loaded' = IF n = 6 THEN cr ELSE loaded
      /\ IF again THEN todo' = todo ELSE Rest(todo') /\ Len(todo') = n - 1
      /\ UartClock(access, PeerLine) /\ Listens(sout) /\ Peer
  BY Proceeds
<1>2. /\ n = 2 => access = ReadOf("rxne")
      /\ n = 3 => access = ReadOf("txact")
      /\ n = 4 => access = WriteOf("UART_TDR", Prompt)
      /\ n = 5 => access = WriteOf("UART_CR", [loaded EXCEPT !["en"] = TRUE])
      /\ n = 6 => access = ReadOf("UART_CR")
      /\ n = 7 => access = WriteOf("UART_CDR", ClockDivider)
  BY <1>1, OnTheBus
<1>3. PeerActs /\ LineActs /\ Harmless(access) /\ UartClock(access, PeerLine)
  BY <1>1, PeerIsPeerActs, ProceedsHarmless
<1>4. n = 2 \/ n = 3 \/ n = 4 \/ n = 5 \/ n = 6 \/ n = 7
  BY <1>1
<1>5. access # NoAccess /\ access.reg # "UART_RDR"
  <2>1. access.reg # "NONE" /\ access.reg # "UART_RDR"
    BY <1>2, <1>4 DEF ReadOf, WriteOf
  <2>2. QED
    BY <2>1 DEF NoAccess
<1>6. gap' = 1 /\ SlowestGap \in Nat /\ SlowestGap >= 1 /\ gap \in 1 .. SlowestGap
  <2>1. Pace(access, SlowestGap)
    BY DEF CpuAccess
  <2>2. QED
    BY <1>5, <2>1, Speeds DEF Pace, Timely
<1>7. gap' \in 1 .. SlowestGap
  BY <1>6
<1> HIDE DEF access
<1>8. CASE n # 2
  <2>1. m = n \/ m = n - 1
    BY <1>1
  <2>2. Lingers
    <3>1. n = 3 /\ ~sr.txact => Len(todo') = 2
      BY <1>1
    <3>2. n = 3 /\ ~sr.txact => m # 3
      BY <3>1
    <3>3. QED
      BY <3>2 DEF Lingers
  <2>3. n = Len(todo) /\ m = Len(todo') /\ n \in 3 .. 7
    <3>1. n = Len(todo) /\ m = Len(todo')
      OBVIOUS
    <3> HIDE DEF n
    <3>2. n \in 3 .. 7
      BY <1>4, <1>8
    <3>3. QED
      BY <3>1, <3>2
  <2> HIDE DEF n, m
  <2>4. ToCome(n, m)
    BY <2>3 DEF ToCome
  <2>5. QED
    BY <1>3, <1>5, <1>7, <2>1, <2>2, <2>3, <2>4, TimelyWaits
<1>9. CASE n = 2
  <2>1. cr.en /\ n <= 2
    <3> HIDE DEF n
    <3>1. n <= 4 /\ n <= 2
      BY <1>9
    <3>2. QED
      BY <1>1, <3>1 DEF n, LinkInv, Program
  <2>2. Since \in Nat
    BY <1>3, <2>1, SinceTicks
  <2>3. sr.rxne => Since + 1 < (ByteBits + 2) * BitTime
    BY <1>9, <2>1, <2>2, NotLate
  <2>4. sr.rxne => m = 1 /\ Rest(todo') /\ Len(todo') = 1
    BY <1>1, <1>9
  <2>5. ~sr.rxne => m = 2
    BY <1>1, <1>9
  <2>6. sr.rxne => todo' # <<Word'>>
    BY <2>4, NoWord DEF Word
  <2>7. sr.rxne => Since <= SlowestGap + gap
    BY <1>9 DEF Timely
  <2>8. sr.rxne => Since + 1 <= 2 * SlowestGap + gap'
    <3> DEFINE s == Since
    <3>1. s \in Nat /\ (sr.rxne => s <= SlowestGap + gap)
      BY <2>2, <2>7
    <3> HIDE DEF s
    <3>2. sr.rxne => s + 1 <= 2 * SlowestGap + gap'
      BY <1>6, <3>1
    <3>3. QED
      BY <3>2 DEF s
  <2>9. m = Len(todo') /\ m \in 0 .. 2 /\ (sr.rxne => m # 2) /\ Len(todo) <= 2
    <3>1. m = 1 \/ m = 2
      BY <2>4, <2>5
    <3>2. sr.rxne => m = 1
      BY <2>4
    <3>3. m = Len(todo') /\ Len(todo) <= 2
      BY <2>1
    <3> HIDE DEF m
    <3>4. m \in 0 .. 2 /\ (sr.rxne => m # 2)
      BY <3>1, <3>2
    <3>5. QED
      BY <3>3, <3>4
  <2> HIDE DEF n, m
  <2>10. InItsTime(access)
    BY <2>3, <2>6, <2>8, <2>9 DEF InItsTime
  <2>11. n \in 0 .. 2 /\ ToCome(n, m)
    <3>1. n \in 0 .. 2
      BY <1>9
    <3>2. QED
      BY <2>9, <3>1 DEF n, ToCome
  <2>12. QED
    BY <1>3, <1>7, <2>1, <2>9, <2>10, <2>11, TimelyReads
<1>10. QED
  BY <1>8, <1>9

LEMMA TimelyTakes ==
  ASSUME RatesAgree, KeepsUp, LinkInv, Timely, CpuAccess, Rest(todo), Len(todo) = 1,
         Len(todo') \in 0 .. 2, gap' = 1
  PROVE  Timely'
<1> DEFINE access == ReadOf("UART_RDR")  m == Len(todo')
<1>1. UartClock(access, PeerLine) /\ Peer /\ todo # <<>>
  BY TakesByte
<1>2. Harmless(access) /\ access.reg = "UART_RDR"
  BY DEF Harmless, Writes, ReadOf
<1>3. cr.en /\ Len(todo) <= 2
  <2>1. Len(todo) <= 4 /\ Len(todo) <= 2
    OBVIOUS
  <2>2. QED
    BY <1>1, <2>1 DEF LinkInv, Program
<1>4. gap' \in 1 .. SlowestGap
  BY Speeds
<1>5. LineActs
  BY <1>1, PeerIsPeerActs
<1>6. m = Len(todo') /\ m \in 0 .. 2
  OBVIOUS
<1> HIDE DEF access, m
<1>7. InItsTime(access)
  BY <1>2 DEF InItsTime
<1> DEFINE n == Len(todo)
<1>8. n \in 0 .. 2 /\ ToCome(n, m)
  <2>1. n = 1
    OBVIOUS
  <2>2. ToCome(n, m)
    BY <1>6 DEF ToCome
  <2> HIDE DEF n
  <2>3. QED
    BY <2>1, <2>2
<1> HIDE DEF n
<1>9. QED
  BY <1>1, <1>2, <1>3, <1>4, <1>5, <1>6, <1>7, <1>8, TimelyReads

LEMMA TimelyStores ==
  ASSUME RatesAgree, KeepsUp, LinkInv, Timely, CpuAccess, todo = <<Word>>, gap' = 1
  PROVE  Timely'
<1> DEFINE access == WriteOf("CODE_RAM", Len(code_ram))  m == Len(todo')  s == Since
<1>1. /\ todo' = Read \/ todo' = <<>>
      /\ UartClock(access, PeerLine) /\ Listens(sout) /\ Peer
  BY StoresTheWord
<1>2. Harmless(access) /\ access.reg = "CODE_RAM"
  BY DEF Harmless, Writes, WriteOf
<1>3. cr.en /\ Len(todo) <= 2
  <2>1. Len(todo) = 1 /\ todo # <<>>
    BY WordFacts
  <2>2. Len(todo) <= 4 /\ Len(todo) <= 2
    BY <2>1
  <2>3. QED
    BY <2>1, <2>2 DEF LinkInv, Program
<1>4. /\ SlowestGap \in Nat /\ SlowestGap >= 1 /\ gap \in 1 .. SlowestGap
      /\ gap' \in 1 .. SlowestGap
  BY Speeds DEF Timely
<1>5. LineActs
  BY <1>1, PeerIsPeerActs
<1>6. m = 2 \/ m = 0
  <2>1. Len(Read) = 2 /\ Len(<<>>) = 0
    BY TheCalls
  <2>2. QED
    BY <1>1, <2>1
<1>7. m = Len(todo') /\ m \in 0 .. 2 /\ m # 1
  <2>1. m = Len(todo')
    OBVIOUS
  <2> HIDE DEF m
  <2>2. QED
    BY <1>6, <2>1
<1>8. s \in Nat
  <2> HIDE DEF access
  <2>1. QED
    BY <1>1, <1>3, <1>5, SinceTicks
<1>9. sr.rxne => s <= gap
  BY DEF Timely
<1>10. sr.rxne => s + 1 < (ByteBits + 2) * BitTime
  BY <1>3, <1>8, NotLate
<1> HIDE DEF s
<1>11. sr.rxne => s + 1 <= SlowestGap + gap'
  BY <1>4, <1>8, <1>9
<1>12. todo' # <<Word'>>
  <2>1. todo' = <<Word'>> => m = 1
    <3> DEFINE w == Word'
    <3> HIDE DEF w
    <3>1. Len(<<w>>) = 1
      OBVIOUS
    <3>2. QED
      BY <3>1 DEF w
  <2>2. QED
    BY <1>7, <2>1
<1> HIDE DEF access, m
<1>13. InItsTime(access)
  BY <1>7, <1>10, <1>11, <1>12 DEF s, InItsTime
<1> DEFINE n == Len(todo)
<1>14. n \in 0 .. 2 /\ ToCome(n, m)
  <2>1. n = 1
    BY WordFacts
  <2>2. ToCome(n, m)
    BY <1>7 DEF ToCome
  <2> HIDE DEF n
  <2>3. QED
    BY <2>1, <2>2
<1> HIDE DEF n
<1>15. QED
  BY <1>1, <1>2, <1>3, <1>4, <1>5, <1>7, <1>13, <1>14, TimelyReads

LEMMA TimelyCalls ==
  ASSUME RatesAgree, KeepsUp, LinkInv, LinkInv', Timely, CpuCalls
  PROVE  Timely'
<1>1. /\ UartClock(NoAccess, PeerLine) /\ arriving' = arriving /\ api = "none"
      /\ Pace(NoAccess, SlowestGap)
      /\ todo' = LoadCodeThroughUart \/ todo' = ReadLine
  BY DEF CpuCalls, Call
<1>2. arriving = <<>> /\ ~sr.rxne
  BY <1>1 DEF LinkInv, Counts
<1>3. ~rx_data_valid
  BY <1>2, EmptySeq DEF LinkInv, LineInv, Carries, InFlight
<1>4. ~rx_data_valid'
  <2>1. IF InFlight' THEN Len(arriving') = 1 ELSE arriving' = <<>>
    BY DEF LinkInv, LineInv, Carries
  <2>2. ~InFlight'
    BY <1>1, <1>2, <2>1
  <2>3. QED
    BY <2>2 DEF InFlight
<1>5. ~sr'.rxne
  <2>1. Harmless(NoAccess)
    BY DEF NoAccess, Harmless, Writes
  <2>2. QED
    BY <1>1, <1>2, <1>3, <2>1, RegistersKeep DEF LinkInv
<1>6. Len(todo') # 3
  <2> DEFINE m == Len(todo')
  <2>1. m = 4 \/ m = 7
    BY <1>1, TheCalls
  <2> HIDE DEF m
  <2>2. m # 3
    BY <2>1
  <2>3. QED
    BY <2>2 DEF m
<1>7. gap' \in 1 .. SlowestGap
  <2>1. gap \in 1 .. SlowestGap /\ SlowestGap \in Nat
    BY Speeds DEF Timely
  <2>2. gap' = IF gap < SlowestGap THEN gap + 1 ELSE gap
    BY <1>1 DEF Pace
  <2>3. QED
    BY <2>1, <2>2
<1>8. QED
  BY <1>4, <1>5, <1>6, <1>7 DEF Timely

LEMMA TimelyStands ==
  ASSUME Timely, UNCHANGED vars
  PROVE  Timely'
<1>1. /\ UNCHANGED <<sr, generator, tx, rx, rx_data_valid, todo, gap, code_ram>>
  BY DEF vars, uartVars, registerVars, txVars, rxVars, driverVars
<1>2. Phase' = Phase /\ Since' = Since /\ Sampled' = Sampled /\ Word' = Word
  <2>1. Phase' = Phase
    BY <1>1 DEF Phase
  <2>2. QED
    BY <1>1, <2>1 DEF Since, Sampled, Word
<1>3. QED
  BY <1>1, <1>2 DEF Timely

LEMMA TimelyNext ==
  ASSUME RatesAgree, KeepsUp, LinkInv, LinkInv', Transmits, Transmits', Timely, [Next]_vars
  PROVE  Timely'
<1>1. Rest(todo) \/ todo = <<Word>>
  BY DEF LinkInv, Program
<1>2. CASE CpuAccess
  <2>1. CASE Rest(todo) /\ Len(todo) # 1
    BY <1>2, <2>1, TimelyProceeds
  <2>2. CASE (Rest(todo) /\ Len(todo) = 1) \/ todo = <<Word>>
    <3>1. gap' = 1 /\ Len(todo') \in 0 .. 2
      BY <1>2, <2>2, AccessPaces
    <3>2. QED
      BY <1>2, <2>2, <3>1, TimelyTakes, TimelyStores
  <2>3. QED
    BY <1>1, <2>1, <2>2
<1>3. QED
  BY <1>2, TimelyIdles, TimelyCalls, TimelyStands DEF Next

LEMMA TimelyInit ==
  ASSUME KeepsUp, Init
  PROVE  Timely
<1>1. ~sr.rxne /\ ~rx_data_valid /\ todo = <<>> /\ gap = AccessGap
  BY DEF Init, UartInit, DriverInit
<1>2. gap \in 1 .. SlowestGap
  BY <1>1, Speeds
<1>3. Len(todo) # 3
  BY <1>1
<1>4. QED
  BY <1>1, <1>2, <1>3 DEF Timely

-----------------------------------------------------------------------------
(* The bytes that were read. *)

\* What was read of a stream stays so as the stream grows.
LEMMA StreamGrows ==
  ASSUME NEW S, NEW s \in Seq(S), NEW t \in Seq(S), t = s \/ \E e \in S : t = Append(s, e),
         NEW i \in Nat \ {0}, NEW j \in Nat, j <= Len(s)
  PROVE  SubSeq(t, i, j) = SubSeq(s, i, j) /\ Len(s) <= Len(t)
<1>1. Len(s) \in Nat
  BY LenProperties
<1>2. CASE t = s
  BY <1>1, <1>2
<1>3. ASSUME NEW e \in S, t = Append(s, e)
      PROVE  SubSeq(t, i, j) = SubSeq(s, i, j) /\ Len(s) <= Len(t)
  <2>1. t = s \o <<e>> /\ <<e>> \in Seq(S) /\ Len(t) = Len(s) + 1
    BY <1>3, AppendProperties
  <2>2. CASE i <= j
    <3>1. i \in 1 .. Len(s) /\ j \in 1 .. Len(s)
      BY <1>1, <2>2
    <3>2. QED
      BY <1>1, <2>1, <3>1, SubSeqOfConcat1
  <2>3. CASE j < i
    BY <1>1, <2>1, <2>3, SubSeqEmpty
  <2>4. QED
    BY <2>2, <2>3
<1>4. QED
  BY <1>2, <1>3

\* The next byte of it.
LEMMA ReadsNext ==
  ASSUME NEW S, NEW s \in Seq(S), NEW i \in Nat, NEW j \in Nat, i <= j, j + 1 <= Len(s)
  PROVE  SubSeq(s, i + 1, j + 1) = Append(SubSeq(s, i + 1, j), s[j + 1])
<1>1. i + 1 \in 1 .. Len(s) /\ j + 1 \in i + 1 .. Len(s) /\ (j + 1) - 1 = j
  BY LenProperties
<1>2. SubSeq(s, i + 1, j + 1) = SubSeq(s, i + 1, (j + 1) - 1) \o <<s[j + 1]>>
  BY <1>1, SubSeqRecursiveSecond
<1>3. s[j + 1] \in S /\ SubSeq(s, i + 1, j) \in Seq(S)
  <2>1. s[j + 1] \in S
    BY <1>1, ElementOfSeq
  <2>2. \A k \in i + 1 .. j : s[k] \in S
    BY <1>1, ElementOfSeq
  <2>3. QED
    BY <2>1, <2>2, SubSeqProperties
<1>4. QED
  BY <1>1, <1>2, <1>3, AppendProperties

\* The words and the bytes read are those of the stream.
ReadFrom(s, ram, line) ==
  LET stored == Len(ram) * BytesPerWord
  IN  /\ stored + Len(line) <= Len(s)
      /\ \A w \in DOMAIN ram : ram[w] = SubSeq(s, (w - 1) * BytesPerWord + 1, w * BytesPerWord)
      /\ line = SubSeq(s, stored + 1, stored + Len(line))

LEMMA WordsOf ==
  ASSUME NEW ram \in Seq(Seq(Bytes)), NEW w \in 1 .. Len(ram)
  PROVE  /\ Len(ram) * BytesPerWord \in Nat
         /\ (w - 1) * BytesPerWord + 1 \in Nat \ {0} /\ w * BytesPerWord \in Nat
         /\ w * BytesPerWord <= Len(ram) * BytesPerWord
<1>1. BytesPerWord \in Nat /\ Len(ram) \in Nat
  BY UartBootAssumption, LenProperties
<1>2. w \in Nat /\ w <= Len(ram) /\ w - 1 \in Nat
  BY <1>1
<1>3. w * BytesPerWord \in Nat /\ w * BytesPerWord <= Len(ram) * BytesPerWord
      /\ Len(ram) * BytesPerWord \in Nat
  BY <1>1, <1>2, Grows
<1>4. (w - 1) * BytesPerWord \in Nat
  BY <1>1, <1>2
<1>5. (w - 1) * BytesPerWord + 1 \in Nat \ {0}
  BY <1>4
<1>6. QED
  BY <1>3, <1>5

LEMMA ReadGrows ==
  ASSUME NEW s \in Seq(PeerBytes), NEW t \in Seq(PeerBytes),
         t = s \/ \E e \in PeerBytes : t = Append(s, e),
         NEW ram \in Seq(Seq(Bytes)), NEW line \in Seq(Bytes), ReadFrom(s, ram, line)
  PROVE  ReadFrom(t, ram, line)
<1> DEFINE stored == Len(ram) * BytesPerWord
<1>1. /\ stored + Len(line) <= Len(s)
      /\ \A w \in DOMAIN ram : ram[w] = SubSeq(s, (w - 1) * BytesPerWord + 1, w * BytesPerWord)
      /\ line = SubSeq(s, stored + 1, stored + Len(line))
  BY DEF ReadFrom
<1>2. /\ stored \in Nat /\ Len(line) \in Nat /\ Len(s) \in Nat /\ Len(t) \in Nat
      /\ DOMAIN ram = 1 .. Len(ram)
  <2>1. BytesPerWord \in Nat /\ Len(ram) \in Nat /\ DOMAIN ram = 1 .. Len(ram)
    BY UartBootAssumption, LenProperties
  <2>2. QED
    BY <2>1, LenProperties
<1>3. ASSUME NEW i \in Nat \ {0}, NEW j \in Nat, j <= Len(s)
      PROVE  SubSeq(t, i, j) = SubSeq(s, i, j)
  BY <1>3, StreamGrows, ZenonT(20)
<1>4. Len(s) <= Len(t)
  <2>1. 1 \in Nat \ {0} /\ 0 \in Nat /\ 0 <= Len(s)
    BY <1>2
  <2>2. QED
    BY <2>1, StreamGrows
<1>5. ASSUME NEW w \in DOMAIN ram
      PROVE  ram[w] = SubSeq(t, (w - 1) * BytesPerWord + 1, w * BytesPerWord)
  <2> DEFINE i == (w - 1) * BytesPerWord + 1  j == w * BytesPerWord
  <2>1. w \in 1 .. Len(ram)
    BY <1>2
  <2>2. i \in Nat \ {0} /\ j \in Nat /\ j <= stored
    BY <2>1, WordsOf
  <2>3. ram[w] = SubSeq(s, i, j)
    BY <1>1
  <2> HIDE DEF i, j, stored
  <2>4. j <= Len(s)
    BY <1>1, <1>2, <2>2
  <2>5. ram[w] = SubSeq(t, i, j)
    BY <1>3, <2>2, <2>3, <2>4
  <2>6. QED
    BY <2>5 DEF i, j
<1>6. line = SubSeq(t, stored + 1, stored + Len(line))
  <2> DEFINE i == stored + 1  j == stored + Len(line)
  <2>1. i \in Nat \ {0} /\ j \in Nat /\ j <= Len(s) /\ line = SubSeq(s, i, j)
    <3> HIDE DEF stored
    <3>1. QED
      BY <1>1, <1>2
  <2> HIDE DEF i, j
  <2>2. line = SubSeq(t, i, j)
    BY <1>3, <2>1
  <2>3. QED
    BY <2>2 DEF i, j
<1>7. stored + Len(line) <= Len(t)
  <2> HIDE DEF stored
  <2>1. QED
    BY <1>1, <1>2, <1>4
<1>8. QED
  BY <1>5, <1>6, <1>7 DEF ReadFrom

LEMMA ReadByte ==
  ASSUME NEW s \in Seq(PeerBytes), NEW ram \in Seq(Seq(Bytes)), NEW line \in Seq(Bytes),
         ReadFrom(s, ram, line), NEW byte \in Bytes, NEW n \in Nat,
         n = Len(ram) * BytesPerWord + Len(line) + 1, n <= Len(s), byte = s[n]
  PROVE  ReadFrom(s, ram, Append(line, byte))
<1> DEFINE stored == Len(ram) * BytesPerWord  l == Len(line)
<1>1. /\ \A w \in DOMAIN ram : ram[w] = SubSeq(s, (w - 1) * BytesPerWord + 1, w * BytesPerWord)
      /\ line = SubSeq(s, stored + 1, stored + Len(line))
  BY DEF ReadFrom
<1>2. stored \in Nat /\ l \in Nat
  BY UartBootAssumption, LenProperties
<1>3. Len(Append(line, byte)) = l + 1
  BY AppendProperties
<1>4. SubSeq(s, stored + 1, stored + l + 1) = Append(line, byte)
  <2> DEFINE j == stored + l
  <2>1. j \in Nat /\ stored <= j /\ j + 1 = n /\ j + 1 <= Len(s) /\ line = SubSeq(s, stored + 1, j)
        /\ n = stored + l + 1
    <3>1. line = SubSeq(s, stored + 1, j)
      BY <1>1
    <3>2. n = stored + l + 1
      OBVIOUS
    <3> HIDE DEF stored, l
    <3>3. j \in Nat /\ stored <= j /\ j + 1 = n
      BY <1>2, <3>2
    <3>4. QED
      BY <3>1, <3>2, <3>3
  <2> HIDE DEF stored, l, j
  <2>2. SubSeq(s, stored + 1, j + 1) = Append(SubSeq(s, stored + 1, j), s[j + 1])
    BY <1>2, <2>1, ReadsNext
  <2>3. QED
    BY <2>1, <2>2
<1>5. stored + (l + 1) = stored + l + 1
  <2> HIDE DEF stored, l
  <2>1. QED
    BY <1>2
<1>6. stored + Len(Append(line, byte)) <= Len(s)
      /\ Append(line, byte) = SubSeq(s, stored + 1, stored + Len(Append(line, byte)))
  BY <1>3, <1>4, <1>5
<1>7. QED
  BY <1>1, <1>6 DEF ReadFrom

LEMMA ReadWord ==
  ASSUME NEW s \in Seq(PeerBytes), NEW ram \in Seq(Seq(Bytes)), NEW line \in Seq(Bytes),
         ReadFrom(s, ram, line), Len(line) = BytesPerWord
  PROVE  ReadFrom(s, Append(ram, line), <<>>)
<1> DEFINE stored == Len(ram) * BytesPerWord  r == Len(ram)  more == Append(ram, line)
<1>1. /\ stored + BytesPerWord <= Len(s)
      /\ \A w \in DOMAIN ram : ram[w] = SubSeq(s, (w - 1) * BytesPerWord + 1, w * BytesPerWord)
      /\ line = SubSeq(s, stored + 1, stored + BytesPerWord)
  BY DEF ReadFrom
<1>2. /\ r \in Nat /\ BytesPerWord \in Nat /\ stored \in Nat /\ Len(s) \in Nat
      /\ DOMAIN ram = 1 .. r
  BY UartBootAssumption, LenProperties
<1>3. /\ Len(more) = r + 1 /\ \A w \in 1 .. r : more[w] = ram[w]
      /\ more[r + 1] = line /\ more \in Seq(Seq(Bytes))
  BY AppendProperties
<1>4. (r + 1) * BytesPerWord = stored + BytesPerWord
  BY <1>2, Grows
<1>5. DOMAIN more = 1 .. r + 1
  BY <1>3, LenProperties
<1>6. ASSUME NEW w \in DOMAIN more
      PROVE  more[w] = SubSeq(s, (w - 1) * BytesPerWord + 1, w * BytesPerWord)
  <2>1. w \in 1 .. r \/ w = r + 1
    <3> HIDE DEF r
    <3>1. QED
      BY <1>2, <1>5
  <2>2. CASE w \in 1 .. r
    BY <1>1, <1>2, <1>3, <2>2
  <2>3. CASE w = r + 1
    <3>1. w - 1 = r
      BY <1>2, <2>3
    <3>2. more[w] = SubSeq(s, stored + 1, stored + BytesPerWord)
      BY <1>1, <1>3, <2>3
    <3>3. (w - 1) * BytesPerWord = stored /\ w * BytesPerWord = stored + BytesPerWord
      BY <1>4, <2>3, <3>1
    <3>4. QED
      BY <3>2, <3>3
  <2>4. QED
    BY <2>1, <2>2, <2>3
<1>7. Len(more) * BytesPerWord = stored + BytesPerWord
  BY <1>3, <1>4
<1> DEFINE all == stored + BytesPerWord
<1>8. all \in Nat /\ all <= Len(s)
  <2> HIDE DEF stored
  <2>1. QED
    BY <1>1, <1>2
<1>9. /\ Len(more) * BytesPerWord + Len(<<>>) <= Len(s)
      /\ <<>> = SubSeq(s, Len(more) * BytesPerWord + 1, Len(more) * BytesPerWord + Len(<<>>))
  <2>1. Len(more) * BytesPerWord = all /\ Len(<<>>) = 0
    BY <1>7
  <2> HIDE DEF all
  <2>2. all + 0 <= Len(s) /\ all + 1 \in Int /\ all + 0 \in Int /\ all + 0 < all + 1
    BY <1>8
  <2>3. <<>> = SubSeq(s, all + 1, all + 0)
    BY <2>2, SubSeqEmpty
  <2>4. QED
    BY <2>1, <2>2, <2>3
<1>10. QED
  BY <1>6, <1>9 DEF ReadFrom

LEMMA AsRead ==
  /\ NothingOverrun <=> ReadFrom(stream, code_ram, bytes)
  /\ NothingOverrun' <=> ReadFrom(stream', code_ram', bytes')
  BY DEF NothingOverrun, ReadFrom

\* The bytes of a call, in a step in which none is taken.
LEMMA OrderedOn ==
  ASSUME RatesAgree, LinkInv, LinkInv', Timely, Ordered, api # "none", api' = api,
         NEW access, Harmless(access), access.reg # "UART_RDR", UartClock(access, PeerLine), PeerActs,
         bytes' = bytes, code_ram' = code_ram
  PROVE  Ordered'
<1>1. Taken + (IF sr.rxne THEN 1 ELSE 0) = Received /\ NothingOverrun
  BY DEF Ordered
<1>2. /\ Received' = Received + (IF rx_data_valid THEN 1 ELSE 0)
      /\ stream' \in Seq(PeerBytes) /\ Received \in Nat
  BY StreamStep
<1>3. sr'.rxne <=> rx_data_valid \/ sr.rxne
  BY RegistersKeep DEF LinkInv
<1>4. rx_data_valid => ~sr.rxne
  BY DEF Timely
<1>5. Taken' = Taken /\ Taken \in Nat
  BY Basics DEF Taken
<1>6. Taken' + (IF sr'.rxne THEN 1 ELSE 0) = Received'
  <2> DEFINE t == Taken  u == Taken'  r == Received  v == Received'
  <2>1. t \in Nat /\ u = t /\ v = r + (IF rx_data_valid THEN 1 ELSE 0)
        /\ t + (IF sr.rxne THEN 1 ELSE 0) = r /\ r \in Nat
    BY <1>1, <1>2, <1>5
  <2> HIDE DEF t, u, r, v
  <2>2. u + (IF sr'.rxne THEN 1 ELSE 0) = v
    <3>1. CASE rx_data_valid
      BY <1>3, <1>4, <2>1, <3>1
    <3>2. CASE ~rx_data_valid
      BY <1>3, <2>1, <3>2
    <3>3. QED
      BY <3>1, <3>2
  <2>3. QED
    BY <2>2 DEF u, v
<1>7. NothingOverrun'
  <2>1. stream' = stream \/ \E e \in PeerBytes : stream' = Append(stream, e)
    BY DEF PeerActs, Sends
  <2>2. /\ bytes \in Seq(Bytes) /\ code_ram \in Seq(Seq(Bytes))
        /\ stream \in Seq(PeerBytes) /\ stream' \in Seq(PeerBytes)
    BY <1>2, Basics
  <2>3. ReadFrom(stream, code_ram, bytes)
    BY <1>1, AsRead
  <2> DEFINE t == stream'
  <2>4. t \in Seq(PeerBytes) /\ (t = stream \/ \E e \in PeerBytes : t = Append(stream, e))
    BY <2>1, <2>2
  <2> HIDE DEF t
  <2>5. ReadFrom(t, code_ram, bytes)
    BY <2>2, <2>3, <2>4, ReadGrows
  <2>6. QED
    BY <2>5, AsRead DEF t
<1>8. LineIsRead'
  BY DEF LineIsRead
<1>9. QED
  BY <1>6, <1>7, <1>8 DEF Ordered

LEMMA OrderedIdles ==
  ASSUME RatesAgree, LinkInv, LinkInv', Timely, Ordered, CpuIdle
  PROVE  Ordered'
<1>1. /\ UartClock(NoAccess, PeerLine) /\ PeerActs
      /\ api' = api /\ bytes' = bytes /\ code_ram' = code_ram
  BY PeerIsPeerActs DEF CpuIdle
<1>2. Harmless(NoAccess) /\ NoAccess.reg # "UART_RDR" /\ cr' = cr
  BY <1>1 DEF NoAccess, Harmless, Writes, UartClock, Registers
<1>3. CASE api # "none"
  BY <1>1, <1>2, <1>3, OrderedOn
<1>4. CASE api = "none"
  <2>1. ~PeerMaySend
    BY <1>4 DEF PeerMaySend
  <2>2. stream' = stream
    BY <1>1, <2>1 DEF PeerActs, Sends
  <2>3. NothingOverrun' /\ LineIsRead'
    BY <1>1, <1>2, <2>2 DEF Ordered, NothingOverrun, LineIsRead
  <2>4. QED
    BY <1>1, <1>4, <2>3 DEF Ordered
<1>5. QED
  BY <1>3, <1>4

LEMMA OrderedProceeds ==
  ASSUME RatesAgree, LinkInv, LinkInv', Timely, Ordered, CpuAccess, Rest(todo), Len(todo) # 1
  PROVE  Ordered'
<1> DEFINE n == Len(todo)
           access == AccessDue(loaded)
<1>1. /\ n \in 2 .. 7 /\ todo # <<>>
      /\ UNCHANGED <<api, bytes, code_ram>>
      /\ loaded' = IF n = 6 THEN cr ELSE loaded
      /\ IF (n = 2 /\ ~sr.rxne) \/ (n = 3 /\ sr.txact) THEN todo' = todo
         ELSE Rest(todo') /\ Len(todo') = n - 1
      /\ UartClock(access, PeerLine) /\ Listens(sout) /\ Peer
  BY Proceeds
<1>2. /\ n = 2 => access = ReadOf("rxne")
      /\ n = 3 => access = ReadOf("txact")
      /\ n = 4 => access = WriteOf("UART_TDR", Prompt)
      /\ n = 5 => access = WriteOf("UART_CR", [loaded EXCEPT !["en"] = TRUE])
      /\ n = 6 => access = ReadOf("UART_CR")
      /\ n = 7 => access = WriteOf("UART_CDR", ClockDivider)
  BY <1>1, OnTheBus
<1>3. n = 2 \/ n = 3 \/ n = 4 \/ n = 5 \/ n = 6 \/ n = 7
  BY <1>1
<1>4. access.reg # "UART_RDR" /\ Harmless(access) /\ UartClock(access, PeerLine)
  BY <1>1, <1>2, <1>3, ProceedsHarmless DEF ReadOf, WriteOf
<1>5. PeerActs /\ api # "none"
  BY <1>1, PeerIsPeerActs DEF LinkInv, Program
<1> HIDE DEF access
<1>6. QED
  BY <1>1, <1>4, <1>5, OrderedOn

LEMMA OrderedStores ==
  ASSUME RatesAgree, LinkInv, LinkInv', Timely, Ordered, CpuAccess, todo = <<Word>>
  PROVE  Ordered'
<1> DEFINE access == WriteOf("CODE_RAM", Len(code_ram))
<1>1. /\ bytes' = <<>> /\ code_ram' = Append(code_ram, bytes)
      /\ api' = api \/ api' = "none"
      /\ UartClock(access, PeerLine) /\ Peer
  BY StoresTheWord
<1>2. Harmless(access) /\ access.reg # "UART_RDR" /\ PeerActs
  BY <1>1, PeerIsPeerActs DEF Harmless, Writes, WriteOf
<1>3. api # "none" /\ Len(bytes) = BytesPerWord
  <2>1. todo # <<>> /\ ~Rest(todo)
    BY WordFacts
  <2>2. QED
    BY <2>1 DEF LinkInv, Program
<1>4. Taken + (IF sr.rxne THEN 1 ELSE 0) = Received /\ NothingOverrun
  BY <1>3 DEF Ordered
<1>5. /\ Received' = Received + (IF rx_data_valid THEN 1 ELSE 0)
      /\ stream' \in Seq(PeerBytes) /\ Received \in Nat
  <2> HIDE DEF access
  <2>1. QED
    BY <1>1, <1>2, <1>3, StreamStep
<1>6. sr'.rxne <=> rx_data_valid \/ sr.rxne
  <2> HIDE DEF access
  <2>1. QED
    BY <1>1, <1>2, RegistersKeep DEF LinkInv
<1>7. rx_data_valid => ~sr.rxne
  BY DEF Timely
<1>8. Taken' = Taken /\ Taken \in Nat
  <2>1. Len(code_ram') = Len(code_ram) + 1 /\ Len(bytes') = 0
    BY <1>1, Basics, AppendProperties
  <2>2. Len(code_ram) \in Nat /\ BytesPerWord \in Nat
    BY Basics
  <2>3. (Len(code_ram) + 1) * BytesPerWord = Len(code_ram) * BytesPerWord + BytesPerWord
        /\ Len(code_ram) * BytesPerWord \in Nat
    BY <2>2, Grows
  <2>4. Taken' = (Len(code_ram) + 1) * BytesPerWord + 0
        /\ Taken = Len(code_ram) * BytesPerWord + BytesPerWord
    BY <1>3, <2>1 DEF Taken
  <2>5. Taken \in Nat
    BY Basics
  <2>6. QED
    BY <2>3, <2>4, <2>5
<1>9. Taken' + (IF sr'.rxne THEN 1 ELSE 0) = Received'
  <2> DEFINE t == Taken  u == Taken'  r == Received  v == Received'
  <2>1. t \in Nat /\ u = t /\ v = r + (IF rx_data_valid THEN 1 ELSE 0)
        /\ t + (IF sr.rxne THEN 1 ELSE 0) = r /\ r \in Nat
    BY <1>4, <1>5, <1>8
  <2> HIDE DEF t, u, r, v
  <2>2. u + (IF sr'.rxne THEN 1 ELSE 0) = v
    <3>1. CASE rx_data_valid
      BY <1>6, <1>7, <2>1, <3>1
    <3>2. CASE ~rx_data_valid
      BY <1>6, <2>1, <3>2
    <3>3. QED
      BY <3>1, <3>2
  <2>3. QED
    BY <2>2 DEF u, v
<1>10. NothingOverrun'
  <2>1. stream' = stream \/ \E e \in PeerBytes : stream' = Append(stream, e)
    BY <1>2 DEF PeerActs, Sends
  <2>2. /\ bytes \in Seq(Bytes) /\ code_ram \in Seq(Seq(Bytes))
        /\ stream \in Seq(PeerBytes) /\ stream' \in Seq(PeerBytes)
    BY <1>5, Basics
  <2>3. ReadFrom(stream, code_ram, bytes)
    BY <1>4, AsRead
  <2> DEFINE t == stream'  more == Append(code_ram, bytes)
  <2>4. ReadFrom(stream, more, <<>>)
    BY <1>3, <2>2, <2>3, ReadWord
  <2>5. t \in Seq(PeerBytes) /\ (t = stream \/ \E e \in PeerBytes : t = Append(stream, e))
        /\ more \in Seq(Seq(Bytes)) /\ <<>> \in Seq(Bytes)
    BY <2>1, <2>2, AppendProperties
  <2> HIDE DEF t, more
  <2>6. ReadFrom(t, more, <<>>)
    BY <2>2, <2>4, <2>5, ReadGrows
  <2>7. QED
    BY <1>1, <2>6, AsRead DEF t, more
<1>11. LineIsRead'
  <2>1. code_ram \in Seq(Seq(Bytes)) /\ bytes \in Seq(Bytes)
    BY Basics
  <2>2. code_ram' # <<>>
    <3> DEFINE ram == code_ram  more == code_ram'
    <3>1. ram \in Seq(Seq(Bytes)) /\ bytes \in Seq(Bytes) /\ more = Append(ram, bytes)
      BY <1>1, <2>1
    <3> HIDE DEF ram, more
    <3>2. more # <<>>
      BY <3>1, AppendProperties
    <3>3. QED
      BY <3>2 DEF more
  <2>3. QED
    BY <2>2 DEF LineIsRead
<1>12. QED
  BY <1>9, <1>10, <1>11 DEF Ordered

LEMMA OrderedTakes ==
  ASSUME RatesAgree, LinkInv, LinkInv', Timely, Timely', Ordered, CpuAccess, Rest(todo), Len(todo) = 1
  PROVE  Ordered'
<1> DEFINE access == ReadOf("UART_RDR")
<1>1. /\ todo # <<>> /\ bytes' = Append(bytes, rdr) /\ UNCHANGED <<code_ram, loaded>>
      /\ \/ /\ api = "read_line" /\ rdr # Newline /\ Len(bytes) + 1 < LineLength
            /\ todo' = Read /\ api' = api
         \/ /\ api = "load_code" /\ Len(bytes) + 1 < BytesPerWord
            /\ todo' = Read /\ api' = api
         \/ /\ api = "load_code" /\ Len(bytes) + 1 = BytesPerWord
            /\ todo' = <<StoreTo("CODE_RAM", Len(code_ram))>> /\ api' = api
         \/ /\ ~(api = "read_line" /\ rdr # Newline /\ Len(bytes) + 1 < LineLength)
            /\ ~(api = "load_code" /\ Len(bytes) + 1 < BytesPerWord)
            /\ ~(api = "load_code" /\ Len(bytes) + 1 = BytesPerWord)
            /\ todo' = <<>> /\ api' = "none"
      /\ UartClock(access, PeerLine) /\ Listens(sout) /\ Peer
  BY TakesByte
<1>2. Harmless(access) /\ access.reg = "UART_RDR" /\ PeerActs
  BY <1>1, PeerIsPeerActs DEF Harmless, Writes, ReadOf
<1>3. /\ api \in {"load_code", "read_line"} /\ sr.rxne
      /\ IF api = "load_code" THEN Len(bytes) < BytesPerWord ELSE Len(bytes) < LineLength
      /\ api = "read_line" => code_ram = <<>>
  <2>1. todo # <<Word>>
    BY WordFacts
  <2>2. Len(todo) <= 2
    OBVIOUS
  <2>3. QED
    BY <1>1, <2>1, <2>2 DEF LinkInv, Program, Room
<1>4. Taken + 1 = Received /\ NothingOverrun /\ ~rx_data_valid
  BY <1>3 DEF Ordered, Timely
<1>5. /\ Received' = Received /\ Received \in Nat /\ Received <= Len(stream) /\ Len(stream) \in Nat
      /\ stream' \in Seq(PeerBytes)
  <2> HIDE DEF access
  <2>1. api # "none"
    BY <1>3
  <2>2. /\ Received' = Received + (IF rx_data_valid THEN 1 ELSE 0) /\ Received \in Nat
        /\ Received <= Len(stream) /\ Len(stream) \in Nat /\ stream' \in Seq(PeerBytes)
    BY <1>1, <1>2, <2>1, StreamStep
  <2> DEFINE r == Received  v == Received'
  <2>3. v = r + (IF rx_data_valid THEN 1 ELSE 0) /\ r \in Nat
    BY <2>2
  <2> HIDE DEF r, v
  <2>4. v = r
    BY <1>4, <2>3
  <2>5. QED
    BY <2>2, <2>4 DEF r, v
<1>6. ~sr'.rxne
  <2> HIDE DEF access
  <2>1. QED
    BY <1>1, <1>2, <1>4, RegistersKeep DEF LinkInv
<1>7. /\ Len(bytes') = Len(bytes) + 1 /\ rdr \in Bytes /\ rdr = stream[Received]
      /\ Taken' = Taken + 1 /\ Taken = Len(code_ram) * BytesPerWord + Len(bytes)
      /\ Taken \in Nat
  <2>1. Len(bytes') = Len(bytes) + 1 /\ rdr \in Bytes
    BY <1>1, Basics, AppendProperties
  <2>2. rdr = stream[Received]
    BY <1>3 DEF LinkInv, Counts
  <2>3. /\ Taken = Len(code_ram) * BytesPerWord + Len(bytes) /\ Taken \in Nat
        /\ Len(code_ram) * BytesPerWord \in Nat /\ Len(bytes) \in Nat
    BY Basics
  <2>4. Taken' = Len(code_ram) * BytesPerWord + (Len(bytes) + 1)
    BY <1>1, <2>1 DEF Taken
  <2>5. Taken' = Taken + 1
    BY <2>3, <2>4
  <2>6. QED
    BY <2>1, <2>2, <2>3, <2>5
<1>8. Taken' + (IF sr'.rxne THEN 1 ELSE 0) = Received'
  <2> DEFINE u == Taken'  v == Received'
  <2>1. u = v /\ u \in Nat
    BY <1>4, <1>5, <1>7
  <2> HIDE DEF u, v
  <2>2. u + (IF sr'.rxne THEN 1 ELSE 0) = v
    BY <1>6, <2>1
  <2>3. QED
    BY <2>2 DEF u, v
<1>9. /\ bytes \in Seq(Bytes) /\ code_ram \in Seq(Seq(Bytes))
      /\ stream \in Seq(PeerBytes) /\ stream' \in Seq(PeerBytes)
  BY <1>5, Basics
<1>10. NothingOverrun'
  <2>1. stream' = stream \/ \E e \in PeerBytes : stream' = Append(stream, e)
    BY <1>2 DEF PeerActs, Sends
  <2>2. ReadFrom(stream, code_ram, bytes)
    BY <1>4, AsRead
  <2> DEFINE t == stream'  more == Append(bytes, rdr)  n == Received
  <2>3. n \in Nat /\ n = Len(code_ram) * BytesPerWord + Len(bytes) + 1 /\ n <= Len(stream) /\ rdr = stream[n]
    BY <1>4, <1>5, <1>7
  <2> HIDE DEF n
  <2>4. ReadFrom(stream, code_ram, more)
    BY <1>7, <1>9, <2>2, <2>3, ReadByte
  <2>5. t \in Seq(PeerBytes) /\ (t = stream \/ \E e \in PeerBytes : t = Append(stream, e))
        /\ more \in Seq(Bytes)
    BY <1>7, <1>9, <2>1, AppendProperties
  <2> HIDE DEF t, more
  <2>6. ReadFrom(t, code_ram, more)
    BY <1>9, <2>4, <2>5, ReadGrows
  <2>7. QED
    BY <1>1, <2>6, AsRead DEF t, more
<1>11. ASSUME api' = "none"
       PROVE  LineIsRead'
  <2>1. /\ todo' = <<>>
        /\ ~(api = "read_line" /\ rdr # Newline /\ Len(bytes) + 1 < LineLength)
        /\ ~(api = "load_code" /\ Len(bytes) + 1 < BytesPerWord)
        /\ ~(api = "load_code" /\ Len(bytes) + 1 = BytesPerWord)
    BY <1>1, <1>3, <1>11
  <2>2. Len(bytes) \in Nat /\ BytesPerWord \in Nat /\ LineLength \in Nat
    BY Basics
  <2>3. api = "read_line"
    <3>1. Len(bytes) < BytesPerWord => Len(bytes) + 1 < BytesPerWord \/ Len(bytes) + 1 = BytesPerWord
      BY <2>2
    <3>2. QED
      BY <1>3, <2>1, <3>1
  <2>4. code_ram = <<>> /\ Len(code_ram) = 0 /\ Len(bytes) < LineLength
    BY <1>3, <2>3
  <2>5. Received = Len(bytes) + 1
    <3>1. 0 * BytesPerWord = 0
      BY <2>2
    <3>2. Taken = 0 * BytesPerWord + Len(bytes)
      BY <1>7, <2>4
    <3>3. QED
      BY <1>4, <2>2, <3>1, <3>2
  <2>6. rdr = Newline \/ Len(bytes) + 1 = LineLength
    <3>1. rdr = Newline \/ ~(Len(bytes) + 1 < LineLength)
      BY <2>1, <2>3
    <3>2. QED
      BY <2>2, <2>4, <3>1
  <2>7. arriving = <<>> /\ ~PeerMaySend
    <3>1. Received >= Limit \/ (sr.rxne /\ api = "read_line" /\ rdr = Newline)
      <4>1. Limit = LineLength
        BY <2>3 DEF Limit
      <4>2. QED
        BY <1>3, <2>2, <2>3, <2>5, <2>6, <4>1
    <3>2. api # "none"
      BY <2>3
    <3> HIDE DEF access
    <3>3. QED
      BY <1>1, <1>2, <3>1, <3>2, LastTaken
  <2>8. stream' = stream
    BY <1>2, <2>7 DEF PeerActs, Sends
  <2>9. Len(stream) = Len(bytes) + 1
    <3>1. Len(arriving) = 0
      BY <2>7
    <3>2. Received = Len(stream) - 0
      BY <3>1 DEF Received
    <3>3. QED
      BY <1>5, <2>5, <3>2
  <2>10. bytes' = stream'
    <3> DEFINE l == Len(bytes')
    <3>1. code_ram' = <<>> /\ Len(code_ram') = 0 /\ 0 * BytesPerWord = 0 /\ l = Len(stream) /\ l \in Nat
      BY <1>1, <1>7, <2>2, <2>4, <2>9
    <3>2. ReadFrom(stream', code_ram', bytes')
      BY <1>10, AsRead
    <3>3. bytes' = SubSeq(stream', Len(code_ram') * BytesPerWord + 1, Len(code_ram') * BytesPerWord + l)
      BY <3>2 DEF ReadFrom
    <3>4. bytes' = SubSeq(stream, 0 + 1, 0 + l)
      BY <2>8, <3>1, <3>3
    <3> HIDE DEF l
    <3>5. 0 + 1 = 1 /\ 0 + l = Len(stream)
      BY <3>1
    <3>6. bytes' = SubSeq(stream, 1, Len(stream))
      BY <3>4, <3>5
    <3>7. QED
      BY <1>9, <2>8, <3>6, SubSeqFull
  <2>11. Newline \in {bytes'[k] : k \in DOMAIN bytes'} \/ Len(bytes') = LineLength
    <3>1. CASE rdr = Newline
      <4>1. bytes'[Len(bytes) + 1] = Newline
        BY <1>1, <1>7, <1>9, <3>1, AppendProperties
      <4>2. DOMAIN bytes' = 1 .. Len(bytes')
        <5>1. bytes' \in Seq(Bytes)
          BY <1>1, <1>7, <1>9, AppendProperties
        <5>2. QED
          BY <5>1, LenProperties
      <4>3. Len(bytes) + 1 \in DOMAIN bytes'
        BY <1>7, <2>2, <4>2
      <4>4. QED
        BY <4>1, <4>3
    <3>2. CASE Len(bytes) + 1 = LineLength
      BY <1>7, <3>2
    <3>3. QED
      BY <2>6, <3>1, <3>2
  <2>12. QED
    BY <2>10, <2>11 DEF LineIsRead
<1>12. LineIsRead'
  BY <1>11 DEF LineIsRead
<1>13. QED
  BY <1>8, <1>10, <1>12 DEF Ordered

LEMMA OrderedCalls ==
  ASSUME LinkInv, LinkInv', Timely', Ordered, CpuCalls
  PROVE  Ordered'
<1>1. /\ bytes' = <<>> /\ code_ram' = <<>> /\ stream' = <<>> /\ arriving' = arriving
      /\ api = "none" /\ api' # "none"
      /\ todo' = LoadCodeThroughUart \/ todo' = ReadLine
  BY DEF CpuCalls, Call
<1>2. arriving' = <<>>
  BY <1>1 DEF LinkInv, Counts
<1>3. ~sr'.rxne
  <2> DEFINE m == Len(todo')
  <2>1. m = 4 \/ m = 7
    BY <1>1, TheCalls
  <2> HIDE DEF m
  <2>2. m > 2
    BY <2>1
  <2>3. QED
    BY <2>2 DEF m, Timely
<1>4. Len(bytes') = 0 /\ Len(code_ram') = 0 /\ Len(stream') = 0 /\ Len(arriving') = 0
      /\ 0 * BytesPerWord = 0
  BY <1>1, <1>2, UartBootAssumption
<1>5. Taken' = 0 * BytesPerWord + 0 /\ Received' = 0 - 0
  BY <1>4 DEF Taken, Received
<1>6. Taken' + (IF sr'.rxne THEN 1 ELSE 0) = Received'
  BY <1>3, <1>4, <1>5
<1>7. NothingOverrun'
  <2>1. SubSeq(<<>>, 1, 0) = <<>>
    BY SubSeqEmpty
  <2>2. ReadFrom(<<>>, <<>>, <<>>)
    <3>1. Len(<<>>) = 0 /\ DOMAIN <<>> = {}
      OBVIOUS
    <3>2. 0 * BytesPerWord + 0 = 0 /\ 0 * BytesPerWord + 1 = 1
      BY <1>4
    <3>3. QED
      BY <2>1, <3>1, <3>2 DEF ReadFrom
  <2>3. QED
    BY <1>1, <2>2, AsRead
<1>8. LineIsRead'
  BY <1>1 DEF LineIsRead
<1>9. QED
  BY <1>6, <1>7, <1>8 DEF Ordered

LEMMA OrderedNext ==
  ASSUME RatesAgree, LinkInv, LinkInv', Timely, Timely', Ordered, [Next]_vars
  PROVE  Ordered'
<1>1. Rest(todo) \/ todo = <<Word>>
  BY DEF LinkInv, Program
<1>2. CASE CpuAccess
  BY <1>1, <1>2, OrderedProceeds, OrderedTakes, OrderedStores
<1>3. CASE UNCHANGED vars
  <2>1. UNCHANGED <<sr, cr, api, bytes, code_ram, stream, arriving>>
    BY <1>3 DEF vars, uartVars, registerVars, driverVars
  <2>2. QED
    BY <2>1 DEF Ordered, Taken, Received, NothingOverrun, LineIsRead
<1>4. QED
  BY <1>2, <1>3, OrderedIdles, OrderedCalls DEF Next

LEMMA OrderedInit ==
  ASSUME Init
  PROVE  Ordered
<1>1. api = "none" /\ bytes = <<>> /\ code_ram = <<>> /\ stream = <<>> /\ ~cr.en
  BY DEF Init, UartInit, DriverInit
<1>2. NothingOverrun
  <2>1. SubSeq(<<>>, 1, 0) = <<>>
    BY SubSeqEmpty
  <2>2. Len(<<>>) = 0 /\ DOMAIN <<>> = {} /\ 0 * BytesPerWord + 0 = 0 /\ 0 * BytesPerWord + 1 = 1
    BY UartBootAssumption
  <2>3. ReadFrom(<<>>, <<>>, <<>>)
    BY <2>1, <2>2 DEF ReadFrom
  <2>4. QED
    BY <1>1, <2>3, AsRead
<1>3. QED
  BY <1>1, <1>2 DEF Ordered, LineIsRead

LEMMA ReceivesEveryFrame ==
  ASSUME LinkInv
  PROVE  ReceivesFrames
<1>1. /\ IF InFlight THEN Len(arriving) = 1 ELSE arriving = <<>>
      /\ rx_data_valid => rx_data = arriving[1]
      /\ rx_error = FALSE
  BY DEF LinkInv, LineInv, Carries, LineTypes
<1>2. rx_data_valid => arriving # <<>> /\ Head(arriving) = arriving[1]
  <2>1. rx_data_valid => arriving = <<arriving[1]>>
    BY LineFacts DEF LinkInv, InFlight
  <2>2. QED
    BY <2>1
<1>3. Len(arriving) = 1 \/ Len(arriving) = 0
  BY <1>1
<1>4. Len(arriving) <= 2
  BY <1>3
<1>5. QED
  BY <1>1, <1>2, <1>4 DEF ReceivesFrames

(* The software gets every byte of the peer, in order and unchanged, and   *)
(* puts them together into the words and the line that were sent, however  *)
(* the two clocks and the processor run against each other.  Besides the   *)
(* rates this takes a processor that never needs a frame for the three     *)
(* accesses it makes between the arrival of a byte and its reading: the    *)
(* UART itself would neither hold the peer back nor report the overrun.    *)
THEOREM NothingIsLost ==
  ASSUME RatesAgree, PeerHears, PollsInTime, KeepsUp
  PROVE  Spec => []LosesNothing
<1> DEFINE Inv == LinkInv /\ Transmits /\ Timely /\ Ordered
<1>1. Init => Inv
  BY LinkStarts, TransmitsInit, TimelyInit, OrderedInit
<1>2. Inv /\ [Next]_vars => Inv'
  <2> SUFFICES ASSUME Inv, [Next]_vars PROVE Inv'
    OBVIOUS
  <2>1. LinkInv' /\ Transmits'
    BY LinkNext, TransmitsNext DEF RatesAgree
  <2>2. Timely'
    BY <2>1, TimelyNext
  <2>3. Ordered'
    BY <2>1, <2>2, OrderedNext
  <2>4. QED
    BY <2>1, <2>2, <2>3
<1>3. Inv => LosesNothing
  BY ReceivesEveryFrame DEF Ordered, LosesNothing
<1>4. QED
  BY <1>1, <1>2, <1>3, PTL DEF Spec

-----------------------------------------------------------------------------
(* How long it takes.                                                      *)

Whole  == (ByteBits + 2) * BitTime                 \* a frame
Middle == (ByteBits + 1) * BitTime + Mid * Period  \* to the middle of its stop bit

\* The cycles until txact is down again after a write to TDR.
TxLeft ==
  IF tx_data_valid THEN Whole + 2
  ELSE IF ~Idle(tx) THEN Whole + 1 - Time(tx, Phase)
  ELSE IF sr.txact THEN 1 ELSE 0

\* The cycles until the byte on the line is in RDR.
RxLeft ==
  IF rx_data_valid THEN 1
  ELSE IF ~InFlight THEN 0
  ELSE IF Idle(rx) THEN Middle + 2
  ELSE Middle + 1 - Time(rx, Phase)

\* The accesses a call still makes, polls made again not counted; a line that
\* ends before its buffer does takes fewer.
AccessesToMake ==
  IF api = "none" THEN 0
  ELSE Len(todo) + 2 * (Limit - Taken)
       + (IF api = "load_code" THEN CodeWords - Len(code_ram) ELSE 0)
       - (IF todo = <<Word>> THEN 1 ELSE 2)

(* A frame ends: whatever was stored to TDR has left, and txact is down,   *)
(* within a frame and two cycles, and not before; a byte on the line is in *)
(* RDR before its stop bit is over.                                        *)
FramesEnd ==
  /\ TxLeft \in 0 .. Whole + 2 /\ (TxLeft = 0 => ~sr.txact)
  /\ RxLeft \in 0 .. Middle + 2 /\ (RxLeft = 0 <=> arriving = <<>>)

(* Every cycle brings both nearer to their ends, whatever the software and *)
(* the peer do in it, unless the software stores the next byte; and the    *)
(* last one of the receiver raises rxne.                                   *)
FramesGoOn ==
  /\ TxLeft > 0 => TxLeft' < TxLeft \/ tx_data_valid'
  /\ arriving # <<>> => RxLeft' < RxLeft /\ (RxLeft = 1 => arriving' = <<>> /\ sr'.rxne)

(* The software waits only for a byte that is on its way or that the peer  *)
(* has been asked for and not sent yet, and it has accesses left to make   *)
(* exactly until its call is over.                                         *)
WaitsForByte ==
  /\ todo # <<>> /\ Head(todo) = PollOf("rxne") /\ ~sr.rxne => arriving # <<>> \/ PeerMaySend
  /\ AccessesToMake \in Nat /\ (AccessesToMake = 0 <=> api = "none")

(* Every access that is not a poll to be made again is one less to make.   *)
CallNears ==
  CpuAccess =>
    IF NotYet(Head(todo)) THEN AccessesToMake' = AccessesToMake
    ELSE \/ AccessesToMake' = AccessesToMake - 1
         \/ api = "read_line" /\ api' = "none" /\ AccessesToMake' = 0

\* A line whose last byte was read goes on: it was no newline.
Unended ==
  api = "read_line" /\ Taken = Len(stream) => \A k \in 1 .. Len(stream) : stream[k] # Newline

TxOK == FrameOK(tx) /\ tx_data_valid \in BOOLEAN

LEMMA PhaseInRange ==
  ASSUME ClockRuns, cr.en
  PROVE  Phase \in 0 .. Period - 1
<1>1. /\ generator.counter \in Nat /\ generator.counter < HalfPeriod /\ generator.level \in BOOLEAN
  BY UartBootAssumption, DividerModAssumption DEF ClockRuns, Generator, Divider, HalfPeriod
<1>2. Period \in Nat /\ HalfPeriod \in Nat /\ HalfPeriod >= 1 /\ Period = HalfPeriod + HalfPeriod
  BY Rates
<1>3. QED
  BY <1>1, <1>2 DEF Phase

LEMMA Wholes ==
  /\ Whole \in Nat /\ Middle \in Nat /\ Whole >= 1 /\ Middle >= 1
  /\ (ByteBits + 1) * BitTime \in Nat /\ Mid * Period \in Nat
  /\ Middle = (ByteBits + 1) * BitTime + Mid * Period
  /\ BitTime \in Nat /\ BitTime >= 1
<1>1. /\ ByteBits \in Nat /\ BitTime \in Nat /\ Mid \in Nat /\ Mid >= 1 /\ Period \in Nat
      /\ Period >= 1 /\ EdgesPerBit \in Nat /\ EdgesPerBit >= 1
  BY Rates
<1>2. (ByteBits + 1) * BitTime \in Nat /\ (ByteBits + 1) * BitTime + BitTime = Whole
  <2>1. ByteBits + 1 \in Nat /\ (ByteBits + 1) + 1 = ByteBits + 2
    BY <1>1
  <2>2. ((ByteBits + 1) + 1) * BitTime = (ByteBits + 1) * BitTime + BitTime
        /\ (ByteBits + 1) * BitTime \in Nat
    BY <1>1, <2>1, Grows
  <2>3. QED
    BY <2>1, <2>2 DEF Whole
<1>3. Mid * Period \in Nat /\ Mid * Period >= Period /\ Mid * Period + Period <= BitTime
  <2>1. 0 \in 0 .. EdgesPerBit - 1 /\ 0 \in 0 .. Period - 1
    BY <1>1
  <2>2. Mid * Period \in Nat /\ Mid * Period + Period <= BitTime /\ (Mid - 1) * Period + Period = Mid * Period
    BY <2>1, InBit
  <2>3. (Mid - 1) * Period \in Nat
    <3>1. Mid - 1 \in Nat
      BY <1>1
    <3>2. QED
      BY <1>1, <3>1, Grows
  <2> DEFINE a == (Mid - 1) * Period  b == Mid * Period
  <2>4. a \in Nat /\ a + Period = b /\ b \in Nat /\ b + Period <= BitTime
    BY <2>2, <2>3
  <2> HIDE DEF a, b
  <2>5. b >= Period
    BY <1>1, <2>4
  <2>6. QED
    BY <2>4, <2>5 DEF b
<1> DEFINE last == (ByteBits + 1) * BitTime  mid == Mid * Period
<1>4. last \in Nat /\ last + BitTime = Whole /\ mid \in Nat /\ mid >= Period
      /\ mid + Period <= BitTime /\ Middle = last + mid
  BY <1>2, <1>3 DEF Middle
<1> HIDE DEF last, mid
<1>5. Whole \in Nat /\ Middle \in Nat /\ Whole >= 1 /\ Middle >= 1 /\ BitTime >= 1
  BY <1>1, <1>4
<1>6. QED
  BY <1>1, <1>4, <1>5 DEF last, mid

\* Before the stop bit is sampled the middle of it is to come.
LEMMA BeforeMiddle ==
  ASSUME NEW f, FrameOK(f), NEW phase \in 0 .. Period - 1, ~(f.state = "STOP" /\ f.edges >= Mid)
  PROVE  Time(f, phase) \in Nat /\ Time(f, phase) + 1 <= Middle
<1> DEFINE t == Time(f, phase)  last == (ByteBits + 1) * BitTime  mid == Mid * Period
           k == Index(f) * BitTime  e == f.edges * Period
<1>1. /\ Index(f) \in 0 .. ByteBits + 1 /\ k \in Nat /\ t \in Nat /\ t + 1 <= k + BitTime
  BY FrameTimes
<1>2. /\ last \in Nat /\ mid \in Nat /\ Middle = last + mid /\ BitTime \in Nat
  BY Wholes
<1>3. /\ f.edges \in 0 .. EdgesPerBit - 1 /\ ByteBits \in Nat /\ Mid \in Nat /\ Period \in Nat
      /\ f.state \in {"IDLE", "START", "ACTIVE", "STOP"} /\ f.bits \in 0 .. ByteBits - 1
  BY Rates DEF FrameOK, Frame
<1>4. t = k + e + phase
  BY DEF Time
<1>5. CASE f.state = "STOP"
  <2>1. f.edges < Mid /\ Index(f) = ByteBits + 1
    BY <1>3, <1>5 DEF Index
  <2>2. e \in Nat /\ e + Period <= mid
    BY <1>3, <2>1, InBit
  <2>3. k = last
    BY <2>1
  <2> HIDE DEF t, last, mid, k, e
  <2>4. t + 1 <= last + mid
    BY <1>1, <1>2, <1>3, <1>4, <2>2, <2>3
  <2>5. QED
    BY <1>1, <1>2, <2>4 DEF t
<1>6. CASE f.state # "STOP"
  <2>1. Index(f) \in Nat /\ Index(f) <= ByteBits
    BY <1>3, <1>6 DEF Index
  <2>2. k + BitTime <= last
    <3>1. Index(f) < ByteBits + 1 /\ ByteBits + 1 \in Nat
      BY <1>3, <2>1
    <3>2. QED
      BY <1>2, <2>1, <3>1, Grows
  <2> HIDE DEF t, last, mid, k, e
  <2>3. t + 1 <= last + mid
    BY <1>1, <1>2, <2>2
  <2>4. QED
    BY <1>1, <1>2, <2>3 DEF t
<1>7. QED
  BY <1>5, <1>6

\* How far either is from its end, stage by stage.
LEMMA TxStages ==
  ASSUME LinkInv, TxOK
  PROVE  /\ TxLeft \in 0 .. Whole + 2 /\ (TxLeft = 0 => ~sr.txact)
         /\ ~Idle(tx) => Time(tx, Phase) \in Nat /\ Time(tx, Phase) + 1 <= Whole
<1>1. Whole \in Nat /\ Whole >= 1 /\ sr.txact \in BOOLEAN
  BY Wholes DEF LinkInv, SoftwareTypes
<1>2. ASSUME ~Idle(tx)
      PROVE  Time(tx, Phase) \in Nat /\ Time(tx, Phase) + 1 <= Whole
  <2>1. cr.en
    BY <1>2 DEF LinkInv, StartsUp, Silent
  <2>2. Phase \in 0 .. Period - 1
    BY <2>1, PhaseInRange DEF LinkInv
  <2>3. QED
    BY <2>2, FrameTimes DEF TxOK, Whole
<1> DEFINE t == Time(tx, Phase)
<1>3. ~Idle(tx) => t \in Nat /\ t + 1 <= Whole
  BY <1>2
<1>4. TxLeft = IF tx_data_valid THEN Whole + 2 ELSE IF ~Idle(tx) THEN Whole + 1 - t
               ELSE IF sr.txact THEN 1 ELSE 0
  BY DEF TxLeft
<1> HIDE DEF t
<1>5. TxLeft \in 0 .. Whole + 2 /\ (TxLeft = 0 => ~sr.txact)
  BY <1>1, <1>3, <1>4
<1>6. QED
  BY <1>2, <1>5

RxTold ==
  /\ RxLeft \in 0 .. Middle + 2 /\ (RxLeft = 0 <=> arriving = <<>>)
  /\ RxLeft = 1 <=> rx_data_valid
  /\ arriving # <<>> <=> InFlight
  /\ ~Idle(rx) /\ ~Sampled => Time(rx, Phase) \in Nat /\ Time(rx, Phase) + 1 <= Middle
  /\ rx_data_valid => ~Idle(rx)

LEMMA RxStages == LinkInv => RxTold
<1> SUFFICES ASSUME LinkInv PROVE RxTold
  OBVIOUS
<1>1. Middle \in Nat /\ Middle >= 1
  BY Wholes
<1>2. arriving # <<>> <=> InFlight
  <2>1. IF InFlight THEN Len(arriving) = 1 ELSE arriving = <<>>
    BY DEF LinkInv, LineInv, Carries
  <2>2. Len(<<>>) # 1
    OBVIOUS
  <2>3. QED
    BY <2>1, <2>2
<1>3. rx_data_valid => ~Idle(rx)
  BY DEF LinkInv, LineInv, InStep, Idle
<1>4. ASSUME ~Idle(rx), ~Sampled
      PROVE  Time(rx, Phase) \in Nat /\ Time(rx, Phase) + 1 <= Middle
  <2>1. cr.en
    BY <1>4 DEF LinkInv, StartsUp, Silent
  <2>2. Phase \in 0 .. Period - 1 /\ FrameOK(rx)
    BY <2>1, PhaseInRange DEF LinkInv, LineInv, LineTypes
  <2>3. QED
    BY <1>4, <2>2, BeforeMiddle DEF Sampled
<1> DEFINE t == Time(rx, Phase)
<1>5. ~Idle(rx) /\ ~Sampled => t \in Nat /\ t + 1 <= Middle
  BY <1>4
<1>6. RxLeft = IF rx_data_valid THEN 1 ELSE IF ~InFlight THEN 0 ELSE IF Idle(rx) THEN Middle + 2
               ELSE Middle + 1 - t
  BY DEF RxLeft
<1>7. ~rx_data_valid /\ InFlight /\ ~Idle(rx) => ~Sampled
  BY DEF InFlight
<1>8. rx_data_valid => InFlight
  BY DEF InFlight
<1> HIDE DEF t
<1>9. RxLeft \in 0 .. Middle + 2 /\ (RxLeft = 0 <=> ~InFlight) /\ (RxLeft = 1 <=> rx_data_valid)
  BY <1>1, <1>5, <1>6, <1>7, <1>8
<1>10. QED
  BY <1>2, <1>3, <1>4, <1>9 DEF RxTold

LEMMA TxGoesOn ==
  ASSUME LinkInv, TxOK, NEW access, Harmless(access), UartClock(access, PeerLine)
  PROVE  TxOK' /\ (TxLeft > 0 => TxLeft' < TxLeft \/ tx_data_valid')
<1>1. /\ tx' = FrameNxt(tx, tx_data_valid) /\ Registers(access)
      /\ FrameOK(tx) /\ tx_data_valid \in BOOLEAN
  BY DEF UartClock, Transmitter, TxOK
<1>2. sr' = [rxne  |-> rx_data_valid \/ (sr.rxne /\ ~(sr.rxne /\ access.reg = "UART_RDR")),
             rxerr |-> rx_error \/ sr.rxerr,
             txact |-> tx.state # "IDLE"]
  BY <1>1 DEF Registers, Harmless
<1>3. (sr'.txact <=> ~Idle(tx)) /\ tx_data_valid' \in BOOLEAN
  <2>1. sr'.txact = (tx.state # "IDLE")
    BY <1>2
  <2>2. tx_data_valid' \in BOOLEAN
    BY <1>1 DEF Registers
  <2>3. QED
    BY <2>1, <2>2 DEF Idle
<1>4. ~cr.en => Idle(tx) /\ ~tx_data_valid
  BY DEF LinkInv, StartsUp, Silent
<1>5. Whole \in Nat /\ Whole >= 1 /\ sr.txact \in BOOLEAN
  BY Wholes DEF LinkInv, SoftwareTypes
<1>6. CASE Idle(tx) /\ ~tx_data_valid
  <2>1. tx' = tx
    BY <1>1, <1>6 DEF FrameNxt, Idle
  <2>2. FrameOK(tx') /\ Idle(tx') /\ ~sr'.txact
    BY <1>1, <1>3, <1>6, <2>1
  <2>3. TxLeft = IF sr.txact THEN 1 ELSE 0
    BY <1>6 DEF TxLeft
  <2>4. ~tx_data_valid' => TxLeft' = 0
    BY <2>2 DEF TxLeft
  <2>5. QED
    BY <1>3, <1>5, <2>2, <2>3, <2>4 DEF TxOK
<1>7. CASE cr.en /\ ~(Idle(tx) /\ ~tx_data_valid)
  <2>1. /\ Phase \in 0 .. Period - 1 /\ (SerialEdge <=> Phase = Period - 1)
        /\ Phase' = Ticked(Phase)
    BY <1>7, PhaseTicks DEF LinkInv, SoftwareTypes, UartClock
  <2>2. Phase' \in 0 .. Period - 1
    <3>1. Period \in Nat /\ Period >= 1
      BY Rates
    <3>2. QED
      BY <2>1, <3>1 DEF Ticked
  <2>3. /\ FrameOK(tx')
        /\ Idle(tx) => tx' = IF tx_data_valid THEN [tx EXCEPT !.state = "START"] ELSE tx
        /\ tx.state = "STOP" /\ LastEdge(tx) => Idle(tx')
        /\ ~Idle(tx) /\ ~(tx.state = "STOP" /\ LastEdge(tx)) =>
              ~Idle(tx') /\ Time(tx', Ticked(Phase)) = Time(tx, Phase) + 1
    BY <1>1, <2>1, FrameTicks
  <2> DEFINE t == Time(tx, Phase)  u == Time(tx', Phase')
  <2>4. u \in Nat
    BY <2>2, <2>3, FrameTimes
  <2>5. ~Idle(tx) => t \in Nat /\ t + 1 <= Whole
    BY TxStages
  <2>6. ~Idle(tx) /\ Idle(tx') => sr'.txact
    BY <1>3
  <2>7. ~Idle(tx) /\ ~Idle(tx') => u = t + 1
    BY <2>1, <2>3
  <2>8. TxLeft = IF tx_data_valid THEN Whole + 2 ELSE Whole + 1 - t
    BY <1>7 DEF TxLeft
  <2>9. ~tx_data_valid' => TxLeft' = IF ~Idle(tx') THEN Whole + 1 - u ELSE IF sr'.txact THEN 1 ELSE 0
    BY DEF TxLeft, Whole, BitTime, Period, HalfPeriod, Idle
  <2>10. ~tx_data_valid => ~Idle(tx)
    BY <1>7
  <2> HIDE DEF t, u
  <2>11. ~tx_data_valid' => TxLeft' < TxLeft
    BY <1>5, <2>4, <2>5, <2>6, <2>7, <2>8, <2>9, <2>10
  <2>12. QED
    BY <1>3, <2>3, <2>11 DEF TxOK
<1>8. QED
  BY <1>4, <1>6, <1>7

LEMMA RxGoesOn ==
  ASSUME RatesAgree, LinkInv, LinkInv', NEW access, Harmless(access), UartClock(access, PeerLine),
         LineActs, arriving # <<>>
  PROVE  RxLeft' < RxLeft /\ (RxLeft = 1 => arriving' = <<>> /\ sr'.rxne)
<1>1. RxTold /\ RxTold'
  <2>1. (LinkInv => RxTold)'
    BY RxStages, PTL
  <2>2. QED
    BY <2>1, RxStages
<1>2. /\ InFlight /\ (RxLeft = 1 <=> rx_data_valid) /\ RxLeft \in 0 .. Middle + 2 /\ RxLeft # 0
      /\ ~Idle(rx) /\ ~Sampled => Time(rx, Phase) \in Nat /\ Time(rx, Phase) + 1 <= Middle
      /\ Middle \in Nat /\ Middle >= 1
  BY <1>1, Wholes DEF RxTold
<1>3. (RxLeft' = 0 <=> arriving' = <<>>) /\ (RxLeft' = 1 <=> rx_data_valid')
  BY <1>1 DEF RxTold
<1>4. Waits
  BY LineStep DEF LineActs
<1>5. CASE rx_data_valid
  <2>1. PICK byte : arriving = <<byte>>
    BY <1>2, LineFacts DEF LinkInv
  <2>2. Tail(<<byte>>) = <<>>
    OBVIOUS
  <2>3. arriving' = <<>>
    BY <1>4, <1>5, <2>1, <2>2 DEF Waits
  <2>4. sr'.rxne
    BY <1>5, RegistersKeep DEF LinkInv
  <2>5. QED
    BY <1>2, <1>3, <1>5, <2>3, <2>4
<1>6. CASE ~rx_data_valid
  <2>1. cr.en
    BY LineStep
  <2>2. /\ Phase \in 0 .. Period - 1 /\ (SerialEdge <=> Phase = Period - 1)
        /\ Phase' = Ticked(Phase)
    BY <2>1, PhaseTicks DEF LinkInv, SoftwareTypes, UartClock
  <2>3. rx' = FrameNxt(rx, PeerLine = 0) /\ FrameOK(rx)
    BY DEF UartClock, Receiver, LinkInv, LineInv, LineTypes
  <2>4. /\ FrameOK(rx')
        /\ Idle(rx) => rx' = IF PeerLine = 0 THEN [rx EXCEPT !.state = "START"] ELSE rx
        /\ ~Idle(rx) /\ ~(rx.state = "STOP" /\ LastEdge(rx)) =>
             ~Idle(rx') /\ Time(rx', Ticked(Phase)) = Time(rx, Phase) + 1
    <3> DEFINE begins == PeerLine = 0
    <3>1. begins \in BOOLEAN /\ rx' = FrameNxt(rx, begins)
      BY <2>3
    <3> HIDE DEF begins
    <3>2. /\ FrameOK(rx')
          /\ Idle(rx) => rx' = IF begins THEN [rx EXCEPT !.state = "START"] ELSE rx
          /\ ~Idle(rx) /\ ~(rx.state = "STOP" /\ LastEdge(rx)) =>
               ~Idle(rx') /\ Time(rx', Ticked(Phase)) = Time(rx, Phase) + 1
      BY <2>2, <2>3, <3>1, FrameTicks
    <3>3. QED
      BY <3>2 DEF begins
  <2>5. Phase' \in 0 .. Period - 1 /\ Time(rx', Phase') \in Nat
    <3>1. Period \in Nat /\ Period >= 1
      BY Rates
    <3>2. Phase' \in 0 .. Period - 1
      BY <2>2, <3>1 DEF Ticked
    <3>3. QED
      BY <2>4, <3>2, FrameTimes
  <2>6. ~Idle(rx')
    <3>1. CASE Idle(rx)
      <4>1. Len(frame) = ByteBits + 2 /\ frame # <<>>
        BY <1>2, <1>6, <3>1, LineFacts DEF InFlight, LinkInv
      <4>2. frame[1] = Level(arriving[1], PeerIndex + 1) /\ PeerIndex = 0
        <5>1. ByteBits \in Nat /\ 1 \in 1 .. Len(frame)
          BY <4>1, Rates
        <5>2. QED
          BY <4>1, <5>1 DEF LinkInv, LineInv, Carries, PeerIndex
      <4>3. PeerLine = 0
        BY <4>1, <4>2, LineFacts DEF Level, LinkInv
      <4>4. rx \in Frame
        BY <2>3 DEF FrameOK
      <4>5. QED
        BY <2>4, <3>1, <4>3, <4>4 DEF Idle, Frame
    <3>2. CASE ~Idle(rx)
      <4>1. ~Sampled /\ Mid \in Nat /\ EdgesPerBit \in Nat /\ Mid + 1 <= EdgesPerBit
        BY <1>2, <1>6, <3>2, Rates DEF InFlight
      <4>2. ~(rx.state = "STOP" /\ LastEdge(rx))
        BY <4>1 DEF Sampled, LastEdge
      <4>3. QED
        BY <2>4, <3>2, <4>2
    <3>3. QED
      BY <3>1, <3>2
  <2> DEFINE t == Time(rx, Phase)  u == Time(rx', Phase')
  <2>7. ~Idle(rx) => t \in Nat /\ t + 1 <= Middle /\ u = t + 1
    <3>1. ASSUME ~Idle(rx)
          PROVE  ~Sampled /\ ~(rx.state = "STOP" /\ LastEdge(rx))
      <4>1. ~Sampled /\ Mid \in Nat /\ EdgesPerBit \in Nat /\ Mid + 1 <= EdgesPerBit
        BY <1>2, <1>6, <3>1, Rates DEF InFlight
      <4>2. QED
        BY <4>1 DEF Sampled, LastEdge
    <3>2. QED
      BY <1>2, <2>2, <2>4, <3>1
  <2>8. RxLeft = IF Idle(rx) THEN Middle + 2 ELSE Middle + 1 - t
    BY <1>2, <1>6 DEF RxLeft
  <2>9. RxLeft' = IF rx_data_valid' THEN 1 ELSE IF ~InFlight' THEN 0 ELSE Middle + 1 - u
    BY <2>6 DEF RxLeft, Middle, BitTime, Period, HalfPeriod, Mid, Idle
  <2>10. u \in Nat
    BY <2>5
  <2> HIDE DEF t, u
  <2>11. RxLeft' < RxLeft
    BY <1>2, <2>7, <2>8, <2>9, <2>10
  <2>12. QED
    BY <1>2, <1>6, <2>11
<1>7. QED
  BY <1>5, <1>6

\* Every step is a cycle of the UART.
LEMMA EveryCycle ==
  ASSUME RatesAgree, LinkInv, Next
  PROVE  \E access : Harmless(access) /\ UartClock(access, PeerLine) /\ LineActs
<1>1. Harmless(NoAccess)
  BY DEF NoAccess, Harmless, Writes
<1>2. CASE CpuIdle
  BY <1>1, <1>2, PeerIsPeerActs DEF CpuIdle
<1>3. CASE CpuAccess
  <2>1. CASE Rest(todo) /\ Len(todo) # 1
    BY <1>3, <2>1, ProceedsHarmless, PeerIsPeerActs
  <2>2. CASE Rest(todo) /\ Len(todo) = 1
    <3>1. Harmless(ReadOf("UART_RDR"))
      BY DEF Harmless, Writes, ReadOf
    <3>2. QED
      BY <1>3, <2>2, <3>1, TakesByte, PeerIsPeerActs
  <2>3. CASE todo = <<Word>>
    <3>1. Harmless(WriteOf("CODE_RAM", Len(code_ram)))
      BY DEF Harmless, Writes, WriteOf
    <3>2. QED
      BY <1>3, <2>3, <3>1, StoresTheWord, PeerIsPeerActs
  <2>4. QED
    BY <2>1, <2>2, <2>3 DEF LinkInv, Program
<1>4. CASE CpuCalls
  <2>1. UartClock(NoAccess, PeerLine) /\ KeepsSending /\ arriving' = arriving /\ api = "none"
    BY <1>4 DEF CpuCalls, Call
  <2>2. arriving = <<>>
    BY <2>1 DEF LinkInv, Counts
  <2>3. ~rx_data_valid
    BY <2>2, EmptySeq DEF LinkInv, LineInv, Carries, InFlight
  <2>4. LineActs
    BY <2>1, <2>3 DEF LineActs, Waits
  <2>5. QED
    BY <1>1, <2>1, <2>4
<1>5. QED
  BY <1>2, <1>3, <1>4 DEF Next

(* A frame takes its time and no longer, on either side: what the software *)
(* stored to TDR has left, and txact is down, a frame and two cycles later *)
(* at most; a byte whose frame has begun is in RDR, and rxne up, two       *)
(* cycles after the middle of its stop bit.  Whatever the software and the *)
(* peer do meanwhile, every cycle is one less.  So a poll of write(), and  *)
(* one of read() for a byte on its way, is made in vain for so long only:  *)
(* what CallsReturn rests on in the UART, without any fairness.            *)
THEOREM UartTakesItsTime ==
  ASSUME RatesAgree
  PROVE  Spec => []FramesEnd /\ [][FramesGoOn]_vars
<1> DEFINE Inv == LinkInv /\ TxOK
<1>1. Init => Inv
  <2> SUFFICES ASSUME Init PROVE Inv
    OBVIOUS
  <2>1. LinkInv
    BY LinkStarts
  <2>2. FrameOK(tx)
    BY TransmitsInit DEF Transmits
  <2>3. tx_data_valid = FALSE
    BY DEF Init, UartInit
  <2>4. QED
    BY <2>1, <2>2, <2>3 DEF TxOK
<1>2. Inv /\ [Next]_vars => Inv' /\ [FramesGoOn]_vars
  <2> SUFFICES ASSUME Inv, [Next]_vars PROVE Inv' /\ [FramesGoOn]_vars
    OBVIOUS
  <2>1. LinkInv'
    BY LinkNext
  <2>2. CASE Next
    <3>1. PICK access : Harmless(access) /\ UartClock(access, PeerLine) /\ LineActs
      BY <2>2, EveryCycle
    <3>2. TxOK' /\ (TxLeft > 0 => TxLeft' < TxLeft \/ tx_data_valid')
      BY <3>1, TxGoesOn
    <3>3. arriving # <<>> => RxLeft' < RxLeft /\ (RxLeft = 1 => arriving' = <<>> /\ sr'.rxne)
      BY <2>1, <3>1, RxGoesOn
    <3>4. QED
      BY <2>1, <3>2, <3>3 DEF FramesGoOn
  <2>3. CASE UNCHANGED vars
    <3>1. UNCHANGED <<tx, tx_data_valid>>
      BY <2>3 DEF vars, uartVars, registerVars, txVars
    <3>2. TxOK'
      BY <3>1 DEF TxOK, FrameOK
    <3>3. QED
      BY <2>1, <2>3, <3>2
  <2>4. QED
    BY <2>2, <2>3
<1>3. Inv => FramesEnd
  BY TxStages, RxStages DEF FramesEnd, RxTold
<1>4. QED
  BY <1>1, <1>2, <1>3, PTL DEF Spec

-----------------------------------------------------------------------------
(* And the software.                                                       *)

\* How much of a call is left.
LEMMA CallSizes ==
  ASSUME LinkInv, api # "none"
  PROVE  /\ Taken \in Nat /\ Received \in Nat /\ Limit \in Nat /\ Len(stream) \in Nat
         /\ Taken <= Received /\ Received <= Len(stream) /\ Len(stream) <= Limit
         /\ sr.rxne => Taken + 1 <= Received /\ rdr = stream[Received]
         /\ Received = Len(stream) <=> arriving = <<>>
         /\ api = "load_code" => Limit = CodeWords * BytesPerWord
         /\ api = "read_line" => Limit = LineLength /\ Taken = Len(bytes)
         /\ Room => Taken < Limit
         /\ api = "load_code" /\ Len(bytes) = BytesPerWord /\ Len(code_ram) + 1 = CodeWords
              => Taken = Limit
<1>1. /\ stream \in Seq(PeerBytes) /\ Len(stream) \in Nat /\ Len(arriving) \in Nat
      /\ arriving \in Seq(PeerBytes)
  BY LenProperties DEF LinkInv, SoftwareTypes, LineInv, LineTypes
<1>2. /\ Taken + (IF sr.rxne THEN 1 ELSE 0) <= Received /\ Len(stream) <= Limit
      /\ sr.rxne => rdr = stream[Received]
      /\ arriving # <<>> => Len(stream) >= 1
  BY DEF LinkInv, Counts
<1>3. /\ Taken \in Nat /\ Taken = Len(code_ram) * BytesPerWord + Len(bytes)
      /\ Len(bytes) \in Nat /\ Len(code_ram) \in Nat /\ Len(code_ram) * BytesPerWord \in Nat
      /\ {CodeWords, BytesPerWord, LineLength} \subseteq Nat \ {0}
  BY Basics
<1>4. arriving = <<>> \/ Len(arriving) = 1
  BY DEF LinkInv, LineInv, Carries
<1>5. arriving = <<>> <=> Len(arriving) = 0
  BY <1>1, EmptySeq
<1>6. CodeWords * BytesPerWord \in Nat
  BY <1>3, Grows
<1>7. /\ Limit \in Nat /\ (api = "load_code" => Limit = CodeWords * BytesPerWord)
      /\ (api = "read_line" => Limit = LineLength)
  BY <1>3, <1>6 DEF Limit
<1>8. Received = Len(stream) - Len(arriving)
  BY DEF Received
<1>9. api = "read_line" => Taken = Len(bytes)
  <2>1. api = "read_line" => Len(code_ram) = 0
    BY DEF LinkInv, Program
  <2>2. 0 * BytesPerWord = 0
    BY <1>3
  <2>3. QED
    BY <1>3, <2>1, <2>2
<1>10. Room => Taken < Limit
  <2>1. CASE api = "load_code"
    <3> DEFINE p == Len(code_ram) * BytesPerWord  q == CodeWords * BytesPerWord
    <3>1. Len(code_ram) < CodeWords => p + BytesPerWord <= q
      <4> SUFFICES ASSUME Len(code_ram) < CodeWords PROVE p + BytesPerWord <= q
        OBVIOUS
      <4>1. /\ Len(code_ram) \in Nat /\ CodeWords \in Nat /\ BytesPerWord \in Nat
            /\ Len(code_ram) <= CodeWords
        BY <1>3
      <4>2. QED
        BY <4>1, Grows
    <3>2. Taken = p + Len(bytes) /\ Limit = q /\ p \in Nat /\ q \in Nat
      BY <1>3, <1>6, <1>7, <2>1
    <3>3. Room => Len(bytes) < BytesPerWord /\ Len(code_ram) < CodeWords
      BY <2>1 DEF Room
    <3> HIDE DEF p, q
    <3>4. QED
      BY <1>3, <3>1, <3>2, <3>3
  <2>2. CASE api # "load_code"
    <3>1. api = "read_line"
      BY <2>2 DEF LinkInv, Program
    <3>2. QED
      BY <1>7, <1>9, <2>2, <3>1 DEF Room
  <2>3. QED
    BY <2>1, <2>2
<1>11. api = "load_code" /\ Len(bytes) = BytesPerWord /\ Len(code_ram) + 1 = CodeWords
         => Taken = Limit
  <2>1. (Len(code_ram) + 1) * BytesPerWord = Len(code_ram) * BytesPerWord + BytesPerWord
    BY <1>3, Grows
  <2>2. QED
    BY <1>3, <1>7, <2>1
<1>12. /\ Received \in Nat /\ Taken <= Received /\ Received <= Len(stream)
       /\ (sr.rxne => Taken + 1 <= Received) /\ (Received = Len(stream) <=> arriving = <<>>)
  <2> DEFINE n == Len(stream)  a == Len(arriving)  none == arriving = <<>>
  <2>1. /\ n \in Nat /\ (none \/ a = 1) /\ (none <=> a = 0) /\ Received = n - a
        /\ (~none => n >= 1)
    BY <1>1, <1>2, <1>4, <1>5, <1>8
  <2> HIDE DEF n, a, none
  <2>2. Received \in Nat /\ Received <= n /\ (Received = n <=> none)
    BY <2>1
  <2>3. QED
    BY <1>2, <1>3, <2>2 DEF n, none
<1>13. QED
  BY <1>1, <1>2, <1>3, <1>7, <1>9, <1>10, <1>11, <1>12

\* The accesses left, where the software is.
LEMMA AccessesLeft ==
  ASSUME LinkInv
  PROVE  /\ AccessesToMake \in Nat /\ (AccessesToMake = 0 <=> api = "none")
         /\ todo = <<Word>> => Len(todo) = 1 /\ ~Rest(todo)
         /\ api # "none" /\ Rest(todo) => Len(todo) \in 1 .. 7
<1>1. /\ Rest(todo) \/ (todo = <<Word>> /\ api = "load_code" /\ Len(code_ram) < CodeWords)
      /\ api = "none" <=> todo = <<>>
      /\ todo # <<>> /\ todo # <<Word>> /\ Len(todo) <= 2 => Room
      /\ Len(todo) > 2 => code_ram = <<>>
      /\ api \in {"none", "load_code", "read_line"}
  BY DEF LinkInv, Program
<1>2. todo = <<Word>> => Len(todo) = 1 /\ ~Rest(todo)
  BY WordFacts
<1>3. api # "none" /\ Rest(todo) => Len(todo) \in 1 .. 7
  BY <1>1, Turn
<1>4. CodeWords \in Nat /\ CodeWords >= 1 /\ Len(code_ram) \in Nat
  BY Basics
<1> DEFINE words == IF api = "load_code" THEN CodeWords - Len(code_ram) ELSE 0
<1>5. api # "none" /\ Rest(todo) => words \in Nat
  <2>1. Len(todo) <= 2 /\ api = "load_code" /\ Rest(todo) => Len(code_ram) < CodeWords
    <3>1. Rest(todo) => todo # <<Word>>
      BY WordFacts
    <3>2. QED
      BY <1>1, <3>1 DEF Room
  <2>2. Len(todo) > 2 => Len(code_ram) = 0
    BY <1>1
  <2>3. QED
    BY <1>3, <1>4, <2>1, <2>2
<1>6. CASE api = "none"
  BY <1>1, <1>2, <1>6, WordFacts DEF AccessesToMake
<1>7. CASE api # "none" /\ Rest(todo)
  <2>1. /\ Taken \in Nat /\ Limit \in Nat /\ Taken <= Limit /\ (Room => Taken < Limit)
    BY <1>7, CallSizes
  <2>2. Len(todo) <= 2 => Taken < Limit
    BY <1>1, <1>2, <1>7, <2>1
  <2>3. AccessesToMake = Len(todo) + 2 * (Limit - Taken) + words - 2
    BY <1>2, <1>7 DEF AccessesToMake
  <2> DEFINE n == Len(todo)  w == words
  <2>4. n \in 1 .. 7 /\ w \in Nat /\ (n <= 2 => Taken < Limit)
        /\ AccessesToMake = n + 2 * (Limit - Taken) + w - 2
    BY <1>3, <1>5, <1>7, <2>2, <2>3
  <2> HIDE DEF n, w
  <2>5. AccessesToMake \in Nat /\ AccessesToMake # 0
    BY <2>1, <2>4
  <2>6. QED
    BY <1>2, <1>3, <1>7, <2>5
<1>8. CASE todo = <<Word>>
  <2>1. api = "load_code" /\ Len(code_ram) < CodeWords
    BY <1>1, <1>2, <1>8
  <2>2. Taken \in Nat /\ Limit \in Nat /\ Taken <= Limit
    BY <2>1, CallSizes
  <2>3. AccessesToMake = 1 + 2 * (Limit - Taken) + (CodeWords - Len(code_ram)) - 1
    BY <1>2, <1>8, <2>1 DEF AccessesToMake
  <2>4. AccessesToMake \in Nat /\ AccessesToMake # 0
    BY <1>4, <2>1, <2>2, <2>3
  <2>5. QED
    BY <1>2, <1>8, <2>1, <2>4
<1>9. QED
  BY <1>1, <1>6, <1>7, <1>8

LEMMA ProceedsOn ==
  ASSUME CpuAccess, Rest(todo), Len(todo) # 1
  PROVE  /\ Len(todo) \in 2 .. 7 /\ todo # <<>> /\ Peer
         /\ api' = api /\ bytes' = bytes /\ code_ram' = code_ram
         /\ IF NotYet(Head(todo)) THEN todo' = todo
            ELSE Rest(todo') /\ Len(todo') = Len(todo) - 1
<1> DEFINE n == Len(todo)
           again == (n = 2 /\ ~sr.rxne) \/ (n = 3 /\ sr.txact)
<1>1. /\ n \in 2 .. 7 /\ todo # <<>>
      /\ UNCHANGED <<api, bytes, code_ram>>
      /\ loaded' = IF n = 6 THEN cr ELSE loaded
      /\ IF again THEN todo' = todo ELSE Rest(todo') /\ Len(todo') = n - 1
      /\ UartClock(AccessDue(loaded), PeerLine) /\ Listens(sout) /\ Peer
  BY Proceeds
<1>2. NotYet(Head(todo)) <=> again
  BY <1>1, OnTheBus
<1> HIDE DEF again
<1>3. QED
  BY <1>1, <1>2

LEMMA AccessNears ==
  ASSUME LinkInv, LinkInv', CpuAccess
  PROVE  CallNears
<1>1. /\ todo # <<>> /\ api # "none" /\ api \in {"none", "load_code", "read_line"}
      /\ todo # <<Word>> /\ Len(todo) <= 2 => Room
  BY DEF CpuAccess, Due, LinkInv, Program
<1>2. /\ Taken \in Nat /\ Limit \in Nat /\ Taken <= Limit
      /\ Len(code_ram) \in Nat /\ Len(bytes) \in Nat /\ CodeWords \in Nat
      /\ BytesPerWord \in Nat /\ LineLength \in Nat
      /\ Taken = Len(code_ram) * BytesPerWord + Len(bytes)
  BY <1>1, CallSizes, Basics
<1>3. bytes \in Seq(Bytes) /\ code_ram \in Seq(Seq(Bytes)) /\ rdr \in Bytes
  BY Basics
<1>4. Len(Read) = 2 /\ Rest(Read)
  BY TheCalls
<1>5. CASE Rest(todo) /\ Len(todo) # 1
  <2>1. PICK n : n = Len(todo)
    OBVIOUS
  <2>2. /\ n \in 2 .. 7 /\ api' = api /\ bytes' = bytes /\ code_ram' = code_ram
        /\ IF NotYet(Head(todo)) THEN todo' = todo ELSE Rest(todo') /\ Len(todo') = n - 1
    BY <1>5, <2>1, ProceedsOn
  <2>3. Taken' = Taken /\ Limit' = Limit /\ Word' = Word
    BY <2>2 DEF Taken, Limit, Word
  <2>4. todo # <<Word>> /\ (Rest(todo') => todo' # <<Word>>)
    BY <1>5, WordFacts
  <2>5. CASE NotYet(Head(todo))
    <3>1. AccessesToMake' = AccessesToMake
      BY <2>2, <2>3, <2>5 DEF AccessesToMake
    <3>2. QED
      BY <2>5, <3>1 DEF CallNears
  <2>6. CASE ~NotYet(Head(todo))
    <3> DEFINE m == Len(todo')  w == IF api = "load_code" THEN CodeWords - Len(code_ram) ELSE 0
               d == 2 * (Limit - Taken)
    <3>1. Rest(todo') /\ m = n - 1
      BY <2>2, <2>6
    <3>2. AccessesToMake = n + d + w - 2
      BY <1>1, <2>1, <2>4 DEF AccessesToMake
    <3>3. AccessesToMake' = m + d + w - 2
      BY <1>1, <2>2, <2>3, <2>4, <3>1 DEF AccessesToMake
    <3>4. d \in Int /\ w \in Int /\ n \in Int
      BY <1>2, <2>2
    <3> HIDE DEF m, w, d
    <3>5. AccessesToMake' = AccessesToMake - 1
      BY <3>1, <3>2, <3>3, <3>4
    <3>6. QED
      BY <2>6, <3>5 DEF CallNears
  <2>7. QED
    BY <2>5, <2>6
<1>6. CASE Rest(todo) /\ Len(todo) = 1
  <2>1. /\ bytes' = Append(bytes, rdr) /\ code_ram' = code_ram
        /\ \/ /\ api = "read_line" /\ rdr # Newline /\ Len(bytes) + 1 < LineLength
              /\ todo' = Read /\ api' = api
           \/ /\ api = "load_code" /\ Len(bytes) + 1 < BytesPerWord
              /\ todo' = Read /\ api' = api
           \/ /\ api = "load_code" /\ Len(bytes) + 1 = BytesPerWord
              /\ todo' = <<Word>> /\ api' = api
           \/ /\ ~(api = "read_line" /\ rdr # Newline /\ Len(bytes) + 1 < LineLength)
              /\ ~(api = "load_code" /\ Len(bytes) + 1 < BytesPerWord)
              /\ ~(api = "load_code" /\ Len(bytes) + 1 = BytesPerWord)
              /\ todo' = <<>> /\ api' = "none"
    BY <1>6, TakesByte DEF Word
  <2>2. ~NotYet(Head(todo)) /\ todo # <<Word>> /\ Room
    <3>1. todo # <<Word>>
      BY <1>6, WordFacts
    <3>2. ~NotYet(Head(todo))
      BY <1>1, <1>6, OnTheBus
    <3>3. QED
      BY <1>1, <1>6, <3>1, <3>2
  <2>3. Len(bytes') = Len(bytes) + 1
    BY <1>3, <2>1, AppendProperties
  <2>4. Taken' = Taken + 1
    <3> DEFINE p == Len(code_ram) * BytesPerWord
    <3>1. Taken' = p + Len(bytes') /\ Taken = p + Len(bytes) /\ p \in Nat
      BY <1>2, <2>1, Basics DEF Taken
    <3> HIDE DEF p
    <3>2. QED
      BY <1>2, <2>3, <3>1
  <2> DEFINE w == IF api = "load_code" THEN CodeWords - Len(code_ram) ELSE 0
  <2>5. AccessesToMake = 1 + 2 * (Limit - Taken) + w - 2 /\ w \in Int
    <3>1. AccessesToMake = Len(todo) + 2 * (Limit - Taken) + w - 2
      BY <1>1, <2>2 DEF AccessesToMake
    <3>2. w \in Int
      BY <1>2
    <3>3. QED
      BY <1>6, <3>1, <3>2
  <2>6. Word' = Word
    BY <2>1 DEF Word
  <2>7. CASE todo' = Read /\ api' = api
    <3>1. todo' # <<Word>>
      BY <1>4, <2>7, WordFacts
    <3>2. Limit' = Limit
      BY <2>7 DEF Limit
    <3>3. AccessesToMake' = 2 + 2 * (Limit - (Taken + 1)) + w - 2
      BY <1>1, <1>4, <2>1, <2>4, <2>6, <2>7, <3>1, <3>2 DEF AccessesToMake
    <3> HIDE DEF w
    <3>4. AccessesToMake' = AccessesToMake - 1
      BY <1>2, <2>5, <3>3
    <3>5. QED
      BY <2>2, <3>4 DEF CallNears
  <2>8. CASE todo' = <<Word>> /\ api' = api
    <3>1. Len(todo') = 1
      BY <2>8, WordFacts
    <3>2. Limit' = Limit
      BY <2>8 DEF Limit
    <3>3. AccessesToMake' = 1 + 2 * (Limit - (Taken + 1)) + w - 1
      BY <1>1, <2>1, <2>4, <2>6, <2>8, <3>1, <3>2 DEF AccessesToMake
    <3> HIDE DEF w
    <3>4. AccessesToMake' = AccessesToMake - 1
      BY <1>2, <2>5, <3>3
    <3>5. QED
      BY <2>2, <3>4 DEF CallNears
  <2>9. CASE api' = "none"
    <3>1. AccessesToMake' = 0
      BY <2>9 DEF AccessesToMake
    <3>2. api # "load_code"
      <4>1. api = "load_code" => Len(bytes) + 1 < BytesPerWord \/ Len(bytes) + 1 = BytesPerWord
        <5>1. api = "load_code" => Len(bytes) < BytesPerWord
          BY <2>2 DEF Room
        <5>2. QED
          BY <1>2, <5>1
      <4>2. QED
        BY <1>1, <2>1, <2>9, <4>1
    <3>3. api = "read_line"
      BY <1>1, <3>2
    <3>4. QED
      BY <2>2, <2>9, <3>1, <3>3 DEF CallNears
  <2>10. QED
    BY <2>1, <2>7, <2>8, <2>9
<1>7. CASE todo = <<Word>>
  <2>1. /\ bytes' = <<>> /\ code_ram' = Append(code_ram, bytes)
        /\ \/ Len(code_ram) + 1 < CodeWords /\ todo' = Read /\ api' = api
           \/ ~(Len(code_ram) + 1 < CodeWords) /\ todo' = <<>> /\ api' = "none"
    BY <1>7, StoresTheWord
  <2>2. api = "load_code" /\ Len(bytes) = BytesPerWord /\ Len(code_ram) < CodeWords
    BY <1>7, WordFacts DEF LinkInv, Program
  <2>3. ~NotYet(Head(todo))
    <3>1. Head(todo) = Word
      BY <1>7
    <3>2. Word.reg = "CODE_RAM" /\ PollOf("rxne").reg = "rxne" /\ PollOf("txact").reg = "txact"
      BY DEF Word, StoreTo, PollOf
    <3>3. QED
      BY <3>1, <3>2 DEF NotYet
  <2>4. Len(code_ram') = Len(code_ram) + 1 /\ Len(bytes') = 0
    <3>1. bytes \in Seq(Bytes)
      BY <1>3
    <3>2. QED
      BY <1>3, <2>1, <3>1, AppendProperties
  <2>5. AccessesToMake = 1 + 2 * (Limit - Taken) + (CodeWords - Len(code_ram)) - 1
    BY <1>1, <1>7, <2>2, WordFacts DEF AccessesToMake
  <2>6. CASE todo' = Read /\ api' = api
    <3>1. todo' # <<Word'>>
      <4>1. Head(Read) = PollOf("rxne") /\ PollOf("rxne").op = "poll" /\ Word'.op = "store"
        BY DEF Read, PollOf, Word, StoreTo
      <4>2. Head(<<Word'>>) = Word'
        OBVIOUS
      <4>3. QED
        BY <2>6, <4>1, <4>2
    <3>2. Limit' = Limit
      BY <2>6 DEF Limit
    <3>3. Taken' = Taken
      <4> DEFINE p == Len(code_ram) * BytesPerWord  q == (Len(code_ram) + 1) * BytesPerWord
      <4>1. q = p + BytesPerWord /\ p \in Nat /\ q \in Nat
        BY <1>2, Grows
      <4>2. Taken' = q + 0 /\ Taken = p + BytesPerWord
        BY <1>2, <2>2, <2>4 DEF Taken
      <4> HIDE DEF p, q
      <4>3. QED
        BY <4>1, <4>2
    <3>4. AccessesToMake' = 2 + 2 * (Limit - Taken) + (CodeWords - (Len(code_ram) + 1)) - 2
      BY <1>1, <1>4, <2>2, <2>4, <2>6, <3>1, <3>2, <3>3 DEF AccessesToMake
    <3>5. AccessesToMake' = AccessesToMake - 1
      BY <1>2, <2>5, <3>4
    <3>6. QED
      BY <2>3, <3>5 DEF CallNears
  <2>7. CASE ~(Len(code_ram) + 1 < CodeWords) /\ api' = "none"
    <3>1. Len(code_ram) + 1 = CodeWords
      BY <1>2, <2>2, <2>7
    <3>2. Taken = Limit
      BY <1>1, <2>2, <3>1, CallSizes
    <3>3. AccessesToMake = 1 /\ AccessesToMake' = 0
      <4>1. AccessesToMake' = 0
        BY <2>7 DEF AccessesToMake
      <4>2. Limit - Taken = 0 /\ CodeWords - Len(code_ram) = 1
        BY <1>2, <3>1, <3>2
      <4>3. QED
        BY <2>5, <4>1, <4>2
    <3>4. QED
      BY <2>3, <3>3 DEF CallNears
  <2>8. QED
    BY <2>1, <2>6, <2>7
<1>8. QED
  BY <1>5, <1>6, <1>7 DEF LinkInv, Program

LEMMA UnendedStands ==
  ASSUME LinkInv, Unended, api' = api, Taken' = Taken, Peer
  PROVE  Unended'
<1> SUFFICES ASSUME api = "read_line", Taken = Len(stream'), NEW k \in 1 .. Len(stream')
             PROVE  stream'[k] # Newline
  BY DEF Unended
<1>1. /\ Taken \in Nat /\ Len(stream) \in Nat /\ Taken <= Len(stream) /\ stream \in Seq(PeerBytes)
  <2>1. /\ Taken \in Nat /\ Len(stream) \in Nat /\ Received \in Nat
        /\ Taken <= Received /\ Received <= Len(stream)
    BY CallSizes
  <2>2. QED
    BY <2>1 DEF LinkInv, SoftwareTypes
<1>2. stream' = stream
  <2>1. ASSUME NEW byte, byte \in PeerBytes, stream' = Append(stream, byte)
        PROVE  FALSE
    <3>1. Len(stream') = Len(stream) + 1
      BY <1>1, <2>1, AppendProperties
    <3>2. QED
      BY <1>1, <3>1
  <2>2. stream' = stream \/ \E byte \in PeerBytes : stream' = Append(stream, byte)
    BY PeerIsPeerActs DEF PeerActs, Sends
  <2>3. QED
    BY <2>1, <2>2
<1>3. QED
  BY <1>2 DEF Unended

LEMMA UnendedTakes ==
  ASSUME LinkInv, CpuAccess, Rest(todo), Len(todo) = 1
  PROVE  Unended'
<1>1. /\ todo # <<>> /\ bytes' = Append(bytes, rdr) /\ code_ram' = code_ram
      /\ \/ api = "read_line" /\ rdr # Newline /\ api' = api
         \/ api = "load_code" /\ api' = api
         \/ api' = "none"
      /\ Peer
  BY TakesByte
<1> SUFFICES ASSUME api = "read_line", rdr # Newline, Taken' = Len(stream'),
                    NEW k \in 1 .. Len(stream')
             PROVE  stream'[k] # Newline
  BY <1>1 DEF Unended
<1>2. api # "none" /\ sr.rxne
  BY <1>1 DEF LinkInv, Program
<1>3. /\ Taken \in Nat /\ Len(stream) \in Nat /\ Received \in Nat /\ Taken + 1 <= Received
      /\ Received <= Len(stream) /\ rdr = stream[Received] /\ stream \in Seq(PeerBytes)
  <2>1. /\ Taken \in Nat /\ Len(stream) \in Nat /\ Received \in Nat /\ Received <= Len(stream)
        /\ Taken + 1 <= Received /\ rdr = stream[Received]
    BY <1>2, CallSizes
  <2>2. QED
    BY <2>1 DEF LinkInv, SoftwareTypes
<1>4. Taken' = Taken + 1
  <2>1. bytes \in Seq(Bytes) /\ rdr \in Bytes /\ Len(bytes) \in Nat /\ Len(code_ram) * BytesPerWord \in Nat
    BY Basics
  <2>2. Len(bytes') = Len(bytes) + 1
    BY <1>1, <2>1, AppendProperties
  <2> DEFINE p == Len(code_ram) * BytesPerWord
  <2>3. Taken' = p + Len(bytes') /\ Taken = p + Len(bytes) /\ p \in Nat
    BY <1>1, <2>1 DEF Taken
  <2> HIDE DEF p
  <2>4. QED
    BY <2>1, <2>2, <2>3
<1>5. stream' = stream
  <2>1. ASSUME NEW byte, byte \in PeerBytes, stream' = Append(stream, byte)
        PROVE  FALSE
    <3>1. Len(stream') = Len(stream) + 1
      BY <1>3, <2>1, AppendProperties
    <3> DEFINE t == Taken  r == Received  n == Len(stream)  u == Taken'
    <3>2. t \in Nat /\ r \in Nat /\ n \in Nat /\ t + 1 <= r /\ r <= n /\ u = t + 1 /\ u = n + 1
      BY <1>3, <1>4, <3>1
    <3> HIDE DEF t, r, n, u
    <3>3. QED
      BY <3>2
  <2>2. stream' = stream \/ \E byte \in PeerBytes : stream' = Append(stream, byte)
    BY <1>1, PeerIsPeerActs DEF PeerActs, Sends
  <2>3. QED
    BY <2>1, <2>2
<1>6. Received = Len(stream)
  <2> DEFINE t == Taken  r == Received  n == Len(stream)
  <2>1. t \in Nat /\ r \in Nat /\ n \in Nat /\ t + 1 <= r /\ r <= n /\ t + 1 = n
    BY <1>3, <1>4, <1>5
  <2> HIDE DEF t, r, n
  <2>2. r = n
    BY <2>1
  <2>3. QED
    BY <2>2 DEF r, n
<1>7. \A i \in 1 .. Len(stream) - 1 : stream[i] # Newline
  BY <1>2 DEF LinkInv, Counts
<1>8. CASE k = Len(stream)
  BY <1>3, <1>5, <1>6, <1>8
<1>9. CASE k # Len(stream)
  <2>1. k \in 1 .. Len(stream) - 1
    BY <1>3, <1>5, <1>9
  <2>2. QED
    BY <1>5, <1>7, <2>1
<1>10. QED
  BY <1>8, <1>9

LEMMA UnendedNext ==
  ASSUME LinkInv, Unended, [Next]_vars
  PROVE  Unended'
<1>1. CASE CpuIdle
  <2>1. api' = api /\ Taken' = Taken /\ Peer
    BY <1>1 DEF CpuIdle, Taken
  <2>2. QED
    BY <2>1, UnendedStands
<1>2. CASE CpuAccess /\ Rest(todo) /\ Len(todo) # 1
  <2>1. api' = api /\ bytes' = bytes /\ code_ram' = code_ram /\ Peer
    BY <1>2, ProceedsOn
  <2>2. Taken' = Taken
    BY <2>1 DEF Taken
  <2>3. QED
    BY <2>1, <2>2, UnendedStands
<1>3. CASE CpuAccess /\ todo = <<Word>>
  <2>1. api' = api \/ api' = "none"
    BY <1>3, StoresTheWord
  <2>2. api = "load_code"
    BY <1>3, WordFacts DEF LinkInv, Program
  <2>3. QED
    BY <2>1, <2>2 DEF Unended
<1>4. CASE CpuCalls
  <2>1. Len(stream') = 0
    BY <1>4 DEF CpuCalls
  <2>2. QED
    BY <2>1 DEF Unended
<1>5. CASE UNCHANGED vars
  <2>1. UNCHANGED <<api, stream, bytes, code_ram>>
    BY <1>5 DEF vars, driverVars
  <2>2. QED
    BY <2>1 DEF Unended, Taken
<1>6. QED
  BY <1>1, <1>2, <1>3, <1>4, <1>5, UnendedTakes DEF Next, LinkInv, Program

LEMMA PeerIsToSend ==
  ASSUME LinkInv, Transmits, Ordered, Unended,
         todo # <<>>, Head(todo) = PollOf("rxne"), ~sr.rxne, arriving = <<>>
  PROVE  PeerMaySend
<1>1. Rest(todo) \/ todo = <<Word>>
  BY DEF LinkInv, Program
<1>2. todo # <<Word>>
  <2>1. Word.op = "store" /\ PollOf("rxne").op = "poll"
    BY DEF Word, StoreTo, PollOf
  <2>2. Head(<<Word>>) = Word
    OBVIOUS
  <2>3. QED
    BY <2>1, <2>2
<1>3. Len(todo) = 2 /\ api # "none" /\ api \in {"none", "load_code", "read_line"} /\ Room
  <2>1. Rest(todo)
    BY <1>1, <1>2
  <2>2. NotYet(Head(todo))
    BY DEF NotYet
  <2>3. Head(todo) = Access(Len(todo)) /\ Head(todo).reg = "rxne"
    BY <2>1, Turn DEF PollOf
  <2>4. Len(todo) = 2
    <3> DEFINE n == Len(todo)
    <3>1. (n = 2 /\ ~sr.rxne) \/ (n = 3 /\ sr.txact)
      BY <2>1, <2>2, OnTheBus
    <3>2. n # 3
      BY <2>3, Accesses
    <3> HIDE DEF n
    <3>3. n = 2
      BY <3>1, <3>2
    <3>4. QED
      BY <3>3 DEF n
  <2>5. QED
    BY <1>2, <2>4 DEF LinkInv, Program
<1>4. heard = Prompt
  BY <1>3 DEF Transmits
<1>5. /\ Taken = Received /\ Received = Len(stream) /\ Taken < Limit /\ Taken \in Nat
      /\ (api = "load_code" => Limit = CodeWords * BytesPerWord)
      /\ (api = "read_line" => Limit = LineLength)
  <2>1. Taken + (IF sr.rxne THEN 1 ELSE 0) = Received
    BY <1>3 DEF Ordered
  <2>2. Taken \in Nat
    BY <1>3, CallSizes
  <2>3. QED
    BY <1>3, <2>1, <2>2, CallSizes
<1>6. CASE api = "load_code"
  BY <1>4, <1>5, <1>6 DEF PeerMaySend
<1>7. CASE api = "read_line"
  <2>1. \A k \in 1 .. Len(stream) : stream[k] # Newline
    BY <1>5, <1>7 DEF Unended
  <2>2. DOMAIN stream = 1 .. Len(stream)
    BY LenProperties DEF LinkInv, SoftwareTypes
  <2>3. Newline \notin {stream[k] : k \in DOMAIN stream}
    BY <2>1, <2>2
  <2>4. QED
    BY <1>4, <1>5, <1>7, <2>3 DEF PeerMaySend
<1>8. QED
  BY <1>3, <1>6, <1>7

(* A call does what it has to do and no more, and waits for nothing that   *)
(* cannot come.  Every access is one less of those it has to make, counted *)
(* by its words and bytes, except a poll that is made again; one of RDR's  *)
(* flag is made again only for a byte that is on its way, or that the peer *)
(* has heard the prompt for and is to send.  The computer and the program  *)
(* never wait for each other.                                              *)
THEOREM ReadsWaitForThePeer ==
  ASSUME RatesAgree, PeerHears, PollsInTime, KeepsUp
  PROVE  Spec => []WaitsForByte /\ [][CallNears]_vars
<1> DEFINE Inv == LinkInv /\ Transmits /\ Timely /\ Ordered /\ Unended
<1>1. Init => Inv
  <2>1. Init => Unended
    BY DEF Init, DriverInit, Unended
  <2>2. QED
    BY <2>1, LinkStarts, TransmitsInit, TimelyInit, OrderedInit
<1>2. Inv /\ [Next]_vars => Inv' /\ [CallNears]_vars
  <2> SUFFICES ASSUME Inv, [Next]_vars PROVE Inv' /\ [CallNears]_vars
    OBVIOUS
  <2>1. LinkInv' /\ Transmits'
    BY LinkNext, TransmitsNext DEF RatesAgree
  <2>2. Timely'
    BY <2>1, TimelyNext
  <2>3. Ordered'
    BY <2>1, <2>2, OrderedNext
  <2>4. Unended'
    BY UnendedNext
  <2>5. [CallNears]_vars
    <3>1. CpuAccess => CallNears
      BY <2>1, AccessNears
    <3>2. ~CpuAccess => CallNears
      BY DEF CallNears
    <3>3. QED
      BY <3>1, <3>2
  <2>6. QED
    BY <2>1, <2>2, <2>3, <2>4, <2>5
<1>3. Inv => WaitsForByte
  BY PeerIsToSend, AccessesLeft DEF WaitsForByte
<1>4. QED
  BY <1>1, <1>2, <1>3, PTL DEF Spec

=============================================================================
