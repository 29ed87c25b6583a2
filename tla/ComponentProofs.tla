--------------------------- MODULE ComponentProofs ---------------------------
(***************************************************************************)
(* The components that share no state with the rest, each proved about on  *)
(* its own: the buses, and of the software the stopwatch, the delays, the  *)
(* calibration, the start-up code and the debug output.                    *)
(***************************************************************************)
EXTENDS Bus, Stopwatch, Delay, Calibration, StartUp, Debugger, SequenceTheorems, TLAPS

-----------------------------------------------------------------------------
(* Every granted access is answered in the next cycle, for any set of      *)
(* peripherals, any size of the memories and any program.                  *)

(* What a slave answers in a cycle was decided at the edge before it: the  *)
(* answer follows from the grant of the last cycle alone.                  *)
Answers ==
  /\ \A s \in data_rvalid : /\ s = data_responding
                            /\ rdata[s] \in data_due
  /\ data_due # {} => data_responding \in data_rvalid
  /\ \A s \in instr_rvalid : /\ s = instr_responding
                             /\ instr_due = {rdata[s]}
  /\ instr_due # {} => instr_responding \in instr_rvalid

BusInv == TypeOK /\ Answers

LEMMA NoneIsNoSlave == "NONE" \notin Slaves /\ Fetchable \subseteq Slaves
  BY BusAssumption DEF Slaves, Memories, Fetchable

LEMMA RequestFields ==
  ASSUME TypeOK
  PROVE  /\ data_req.slave \in Slaves \cup {"NONE"}
         /\ instr_req.slave \in Slaves \cup {"NONE"}
         /\ data_req.slave \in Slaves => data_req.word \in Words /\ data_req.we \in BOOLEAN
         /\ data_req.slave \in Slaves /\ data_req.we => data_req.wdata \in Values
         /\ instr_req.slave \in Slaves => instr_req.word \in Words
<1>1. /\ \A r \in Load : /\ r.slave \in Slaves \cup {"NONE"} /\ r.word \in Words
                        /\ r.we = FALSE
      /\ \A r \in Store : /\ r.slave \in Slaves \cup {"NONE"} /\ r.word \in Words
                         /\ r.we = TRUE /\ r.wdata \in Values
  BY DEF Load, Store
<1>2. NoRequest.slave = "NONE"
  BY DEF NoRequest
<1>3. CASE data_req \in Load
  <2>1. instr_req \in Load \/ instr_req = NoRequest
    BY DEF TypeOK
  <2>2. QED
    BY <1>1, <1>2, <1>3, <2>1, NoneIsNoSlave
<1>4. CASE data_req \in Store
  <2>1. instr_req \in Load \/ instr_req = NoRequest
    BY DEF TypeOK
  <2>2. QED
    BY <1>1, <1>2, <1>4, <2>1, NoneIsNoSlave
<1>5. CASE data_req = NoRequest
  <2>1. instr_req \in Load \/ instr_req = NoRequest
    BY DEF TypeOK
  <2>2. QED
    BY <1>1, <1>2, <1>5, <2>1, NoneIsNoSlave
<1>6. QED
  BY <1>3, <1>4, <1>5 DEF TypeOK

\* What a grant means for the request.
LEMMA Grants ==
  ASSUME TypeOK
  PROVE  /\ \A s : DataGnt(s) => data_req.slave = s
         /\ \A s : InstrGnt(s) => instr_req.slave = s /\ s \in Fetchable /\ ~DataGnt(s)
  BY DEF DataGnt, InstrGnt, DataSelects, InstrSelects

LEMMA InitBusInv == Init => BusInv
<1> SUFFICES ASSUME Init PROVE BusInv
  OBVIOUS
<1>1. TypeOK
  BY BusAssumption DEF Init, TypeOK
<1>2. Answers
  BY DEF Init, Answers
<1>3. QED
  BY <1>1, <1>2 DEF BusInv

LEMMA NextType ==
  ASSUME TypeOK, Next
  PROVE  TypeOK'
<1>1. mem' \in [Slaves -> [Words -> Values]]
  <2>1. \A s \in Slaves : MemNxt(s) \in [Words -> Values]
    <3> SUFFICES ASSUME NEW s \in Slaves PROVE MemNxt(s) \in [Words -> Values]
      OBVIOUS
    <3>1. mem[s] \in [Words -> Values]
      BY DEF TypeOK
    <3>2. CASE DataGnt(s) /\ data_req.we /\ s # "BOOT_ROM"
      <4>1. data_req.wdata \in Values
        BY <3>2, Grants, RequestFields
      <4>2. QED
        BY <3>1, <3>2, <4>1 DEF MemNxt
    <3>3. CASE ~(DataGnt(s) /\ data_req.we /\ s # "BOOT_ROM")
      BY <3>1, <3>3 DEF MemNxt
    <3>4. QED
      BY <3>2, <3>3
  <2>2. QED
    BY <2>1 DEF Next, BusClock
<1>2. rdata' \in [Slaves -> Values]
  <2>1. \A s \in Slaves : RdataNxt(s) \in Values
    <3> SUFFICES ASSUME NEW s \in Slaves PROVE RdataNxt(s) \in Values
      OBVIOUS
    <3>1. mem[s] \in [Words -> Values] /\ rdata[s] \in Values /\ 0 \in Words
      BY BusAssumption DEF TypeOK
    <3>2. CASE DataGnt(s)
      <4>1. data_req.word \in Words
        BY <3>2, Grants, RequestFields
      <4>2. RdataNxt(s) = mem[s][data_req.word]
        BY <3>2, Grants DEF RdataNxt
      <4>3. QED
        BY <3>1, <4>1, <4>2
    <3>3. CASE InstrGnt(s)
      <4>1. instr_req.word \in Words
        BY <3>3, Grants, RequestFields
      <4>2. RdataNxt(s) = mem[s][instr_req.word]
        BY <3>3, Grants DEF RdataNxt
      <4>3. QED
        BY <3>1, <4>1, <4>2
    <3>4. CASE ~DataGnt(s) /\ ~InstrGnt(s)
      BY <3>1, <3>4 DEF RdataNxt
    <3>5. QED
      BY <3>2, <3>3, <3>4
  <2>2. QED
    BY <2>1 DEF Next, BusClock
<1>3. data_rvalid' \subseteq Slaves /\ instr_rvalid' \subseteq Slaves
  BY DEF Next, BusClock
<1>4. data_responding' \in Slaves \cup {"NONE"} /\ instr_responding' \in Fetchable \cup {"NONE"}
  BY RequestFields DEF Next, BusClock, DataRespondingNxt, InstrRespondingNxt
<1>5. instr_req' \in Load \cup {NoRequest}
  BY BusAssumption DEF Next, CpuFetches, TypeOK
<1>6. data_req' \in Load \cup Store \cup {NoRequest} /\ accesses' \in 0 .. MaxAccesses
  BY BusAssumption DEF Next, CpuAccesses, TypeOK
<1>7. data_due' \subseteq Values
  BY RequestFields, Grants DEF Next, Expect, TypeOK, DataGranted
<1>8. instr_due' \subseteq Values
  BY RequestFields, Grants DEF Next, Expect, TypeOK, InstrGranted
<1>9. QED
  BY <1>1, <1>2, <1>3, <1>4, <1>5, <1>6, <1>7, <1>8 DEF TypeOK

LEMMA NextAnswers ==
  ASSUME TypeOK, Next
  PROVE  Answers'
<1>1. ASSUME NEW s \in data_rvalid'
      PROVE  s = data_responding' /\ rdata'[s] \in data_due'
  <2>1. s \in Slaves /\ DataGnt(s) /\ data_req.slave = s
    BY <1>1, Grants DEF Next, BusClock
  <2>2. rdata'[s] = mem[s][data_req.word]
    BY <2>1, Grants DEF Next, BusClock, RdataNxt
  <2>3. data_due' = IF data_req.we THEN Values ELSE {mem[s][data_req.word]}
    BY <2>1 DEF Next, Expect, DataGranted
  <2>4. mem[s][data_req.word] \in Values
    BY <2>1, RequestFields DEF TypeOK
  <2>5. QED
    BY <2>1, <2>2, <2>3, <2>4 DEF Next, BusClock, DataRespondingNxt
<1>2. data_due' # {} => data_responding' \in data_rvalid'
  BY Grants DEF Next, BusClock, Expect, DataGranted, DataRespondingNxt
<1>3. ASSUME NEW s \in instr_rvalid'
      PROVE  s = instr_responding' /\ instr_due' = {rdata'[s]}
  <2>1. s \in Slaves /\ InstrGnt(s) /\ instr_req.slave = s /\ s \in Fetchable
    BY <1>3, Grants DEF Next, BusClock
  <2>2. rdata'[s] = mem[s][instr_req.word]
    BY <2>1, Grants DEF Next, BusClock, RdataNxt
  <2>3. QED
    BY <2>1, <2>2 DEF Next, BusClock, Expect, InstrGranted, InstrRespondingNxt
<1>4. instr_due' # {} => instr_responding' \in instr_rvalid'
  BY Grants DEF Next, BusClock, Expect, InstrGranted, InstrRespondingNxt
<1>5. QED
  BY <1>1, <1>2, <1>3, <1>4 DEF Answers

LEMMA AlwaysBusInv == Spec => []BusInv
<1>1. BusInv /\ [Next]_vars => BusInv'
  <2>1. ASSUME BusInv, UNCHANGED vars PROVE BusInv'
    BY <2>1 DEF BusInv, TypeOK, Answers, vars, busVars
  <2>2. ASSUME BusInv, Next PROVE BusInv'
    BY <2>2, NextType, NextAnswers DEF BusInv
  <2>3. QED
    BY <2>1, <2>2
<1>2. QED
  BY <1>1, InitBusInv, PTL DEF Spec

(* The buses and their slaves keep to their types.                         *)
THEOREM BusTypeCorrect == Spec => []TypeOK
<1>1. BusInv => TypeOK
  BY DEF BusInv
<1>2. QED
  BY <1>1, AlwaysBusInv, PTL

(* Every granted data access is answered in the next cycle with what the   *)
(* addressed word held, whatever the instruction bus asks for meanwhile.   *)
THEOREM DataIsAnswered == Spec => []DataAnswered
<1>1. BusInv => DataAnswered
  BY DEF BusInv, Answers, DataAnswered, DataRvalid, DataRdata
<1>2. QED
  BY <1>1, AlwaysBusInv, PTL

(* So is every granted fetch, whatever the data bus asks of the port the   *)
(* two share.                                                              *)
THEOREM FetchesAreAnswered == Spec => []InstrAnswered
<1>1. BusInv => InstrAnswered
  BY DEF BusInv, Answers, InstrAnswered, InstrRvalid, InstrRdata
<1>2. QED
  BY <1>1, AlwaysBusInv, PTL

-----------------------------------------------------------------------------
(* The data accesses that may still go before a fetch: those of the        *)
(* instructions that have come, the one that is coming now included.       *)
AccessesLeft ==
  LET room == IF InstrRvalid THEN accesses + 2 ELSE accesses
  IN  IF room > MaxAccesses THEN MaxAccesses ELSE room

FetchWaits == instr_req.slave \in Fetchable /\ ~InstrGranted

\* A fetch that waits is kept up, and the data access it waits for is one of those.
GrantNears ==
  FetchWaits => /\ instr_req' = instr_req
                /\ FetchWaits' => AccessesLeft' < AccessesLeft

LEMMA FewAccesses ==
  TypeOK => AccessesLeft \in 0 .. MaxAccesses /\ (~InstrRvalid => AccessesLeft = accesses)
<1> SUFFICES ASSUME TypeOK
             PROVE  AccessesLeft \in 0 .. MaxAccesses /\ (~InstrRvalid => AccessesLeft = accesses)
  OBVIOUS
<1>1. accesses \in 0 .. MaxAccesses /\ MaxAccesses \in Nat
  BY BusAssumption DEF TypeOK
<1>2. QED
  BY <1>1 DEF AccessesLeft

\* Only a data access to the same memory keeps a fetch from being granted.
LEMMA WaitsForData ==
  TypeOK /\ FetchWaits => DataGranted /\ data_req # NoRequest /\ instr_req # NoRequest
<1> SUFFICES ASSUME TypeOK, FetchWaits
             PROVE  DataGranted /\ data_req # NoRequest /\ instr_req # NoRequest
  OBVIOUS
<1> DEFINE s == instr_req.slave
<1>1. s \in Fetchable /\ s \in Slaves /\ s \in Memories
  BY DEF FetchWaits, Slaves, Fetchable, Memories
<1>2. ~InstrGnt(s)
  BY <1>1 DEF FetchWaits, InstrGranted
<1>3. data_req.slave = s
  BY <1>1, <1>2 DEF InstrGnt, InstrSelects, DataSelects
<1>4. DataGnt(s)
  BY <1>1, <1>3 DEF DataGnt, DataSelects
<1>5. DataGranted
  BY <1>1, <1>4 DEF DataGranted
<1>6. NoRequest.slave = "NONE" /\ "NONE" \notin Slaves
  BY NoneIsNoSlave DEF NoRequest
<1>7. QED
  BY <1>1, <1>3, <1>5, <1>6

LEMMA NextGrantNears ==
  ASSUME TypeOK, TypeOK', Next
  PROVE  GrantNears
<1> SUFFICES ASSUME FetchWaits
             PROVE  instr_req' = instr_req /\ (FetchWaits' => AccessesLeft' < AccessesLeft)
  BY DEF GrantNears
<1>1. DataGranted /\ data_req # NoRequest /\ instr_req # NoRequest /\ ~InstrGranted
  BY WaitsForData DEF FetchWaits
<1>2. instr_req' = instr_req
  BY <1>1 DEF Next, CpuFetches
<1>3. instr_rvalid' = {}
  BY <1>1 DEF Next, BusClock, InstrGranted
<1>4. ~InstrRvalid'
  BY <1>3 DEF InstrRvalid
<1>5. (TypeOK /\ FetchWaits => DataGranted /\ data_req # NoRequest /\ instr_req # NoRequest)'
  BY WaitsForData, PTL
<1>6. (TypeOK => AccessesLeft \in 0 .. MaxAccesses /\ (~InstrRvalid => AccessesLeft = accesses))'
  BY FewAccesses, PTL
<1>7. data_req' # NoRequest => accesses' = AccessesLeft - 1
  BY <1>1 DEF Next, CpuAccesses, AccessesLeft
<1>8. AccessesLeft \in Int
  BY FewAccesses
<1>9. ASSUME FetchWaits' PROVE AccessesLeft' < AccessesLeft
  <2>1. AccessesLeft' = AccessesLeft - 1
    BY <1>4, <1>5, <1>6, <1>7, <1>9
  <2>2. QED
    BY <1>8, <2>1
<1>10. QED
  BY <1>2, <1>9

(* No fetch from a memory waits for more than MaxAccesses cycles: only a   *)
(* data access to the same memory, which is granted at once, goes before   *)
(* it, each is made by an instruction that came earlier, and no other      *)
(* comes meanwhile.  It is FetchGranted without the fairness of the clock. *)
THEOREM FetchesWaitShortly ==
  Spec => [](AccessesLeft \in 0 .. MaxAccesses) /\ [][GrantNears]_vars
<1>1. BusInv => AccessesLeft \in 0 .. MaxAccesses
  BY FewAccesses DEF BusInv
<1>2. BusInv /\ BusInv' /\ [Next]_vars => [GrantNears]_vars
  BY NextGrantNears DEF BusInv
<1>3. QED
  BY <1>1, <1>2, AlwaysBusInv, PTL DEF Spec

-----------------------------------------------------------------------------
(* The printed time is exact for any width of the counter.                 *)

(* A reading and the cycles since: how far the lower half has come.        *)
Since(word, cycles) ==
  cycles < Half => mcycle = IF word + cycles < Half THEN word + cycles ELSE word + cycles - Half

(* While the software is between its first and its third instruction the   *)
(* counter tells the cycles passed; from there the two lower halves do.    *)
StopwatchInv ==
  /\ StopwatchTypeOK
  /\ at \in {"start", "call"} => Since(start.lower_half, passed)
  /\ at = "stop" /\ passed < Half =>
       Difference(stop.lower_half, start.lower_half) = passed
  /\ ElapsedExact

LEMMA DifferenceIsWord ==
  ASSUME NEW word \in Word, NEW other \in Word
  PROVE  Difference(word, other) \in Word
  BY HalfAssumption DEF Word, Difference

LEMMA MinusIsCounter ==
  ASSUME NEW counter \in Counter, NEW other \in Counter
  PROVE  /\ Minus(counter, other) \in Counter
         /\ Cast(Minus(counter, other)) = Difference(counter.lower_half, other.lower_half)
<1> DEFINE borrow == IF counter.lower_half < other.lower_half THEN 1 ELSE 0
           upper == Difference(counter.upper_half, other.upper_half)
<1>1. borrow \in Word /\ upper \in Word
  BY HalfAssumption, DifferenceIsWord DEF Word, Counter
<1>2. /\ Difference(counter.lower_half, other.lower_half) \in Word
      /\ Difference(upper, borrow) \in Word
  BY <1>1, DifferenceIsWord DEF Counter
<1>3. QED
  BY <1>2 DEF Minus, Cast, Counter

LEMMA CounterCounts ==
  ASSUME StopwatchTypeOK, Count
  PROVE  mcycle' \in Word /\ mcycleh' \in Word
  BY HalfAssumption DEF StopwatchTypeOK, Count, Successor, Word

\* The counter and the cycles passed go up together.
LEMMA SinceGrows ==
  ASSUME StopwatchTypeOK, Count, Passes, NEW word \in Word, Since(word, passed)
  PROVE  (Since(word, passed))'
  BY HalfAssumption DEF StopwatchTypeOK, Count, Passes, Since, Successor, Word

LEMMA StopwatchInitEstablishes == StopwatchInit => StopwatchInv
  BY HalfAssumption DEF StopwatchInit, StopwatchInv, StopwatchTypeOK, ElapsedExact, Cleared, Counter, Word

LEMMA StopwatchNextPreserves == StopwatchInv /\ [StopwatchNext]_stopwatchVars => StopwatchInv'
<1> SUFFICES ASSUME StopwatchInv, [StopwatchNext]_stopwatchVars PROVE StopwatchInv'
  OBVIOUS
<1> USE DEF StopwatchInv
<1>1. CASE Count /\ at = "prompt" /\ at' = "start" /\ start' = ReadLower(start) /\ passed' = 1
           /\ UNCHANGED <<stop, time>>
  <2>1. start' \in Counter /\ start'.lower_half = mcycle
    BY <1>1 DEF StopwatchTypeOK, ReadLower, Counter
  <2>2. StopwatchTypeOK'
    BY <1>1, <2>1, CounterCounts, HalfAssumption DEF StopwatchTypeOK
  <2>3. (Since(start.lower_half, passed))'
    BY <1>1, <2>1, HalfAssumption DEF Since, Count, Successor, StopwatchTypeOK, Word
  <2>4. QED
    BY <1>1, <2>2, <2>3 DEF ElapsedExact
<1>2. CASE Count /\ at = "start" /\ at' = "call" /\ start' = ReadUpper(start) /\ Passes
           /\ UNCHANGED <<stop, time>>
  <2>1. start' \in Counter /\ start'.lower_half = start.lower_half
    BY <1>2 DEF StopwatchTypeOK, ReadUpper, Counter
  <2>2. StopwatchTypeOK'
    BY <1>2, <2>1, CounterCounts, HalfAssumption DEF StopwatchTypeOK, Passes
  <2>3. (Since(start.lower_half, passed))'
    BY <1>2, <2>1, SinceGrows DEF StopwatchTypeOK, Counter, Since
  <2>4. QED
    BY <1>2, <2>2, <2>3 DEF ElapsedExact
<1>3. CASE Count /\ at = "call" /\ at' = "stop" /\ stop' = ReadLower(stop)
           /\ UNCHANGED <<time, passed, start>>
  <2>1. stop' \in Counter /\ stop'.lower_half = mcycle
    BY <1>3 DEF StopwatchTypeOK, ReadLower, Counter
  <2>2. StopwatchTypeOK'
    BY <1>3, <2>1, CounterCounts DEF StopwatchTypeOK
  <2>3. passed < Half => Difference(mcycle, start.lower_half) = passed
    BY <1>3, HalfAssumption DEF Since, Difference, StopwatchTypeOK, Counter, Word
  <2>4. QED
    BY <1>3, <2>1, <2>2, <2>3 DEF ElapsedExact, Difference
<1>4. CASE Count /\ at = "stop" /\ at' = "prompt" /\ stop' = ReadUpper(stop)
           /\ time' = Cast(Minus(stop', start)) /\ UNCHANGED <<passed, start>>
  <2>1. stop' \in Counter /\ stop'.lower_half = stop.lower_half
    BY <1>4 DEF StopwatchTypeOK, ReadUpper, Counter
  <2>2. time' = Difference(stop.lower_half, start.lower_half)
    BY <1>4, <2>1, MinusIsCounter DEF StopwatchTypeOK
  <2>3. time' \in Word
    BY <2>2, DifferenceIsWord DEF StopwatchTypeOK, Counter
  <2>4. StopwatchTypeOK'
    BY <1>4, <2>1, <2>3, CounterCounts DEF StopwatchTypeOK
  <2>5. QED
    BY <1>4, <2>2, <2>4 DEF ElapsedExact
<1>5. CASE Count /\ RunsOn
  <2>1. StopwatchTypeOK'
    BY <1>5, CounterCounts, HalfAssumption DEF RunsOn, Passes, StopwatchTypeOK
  <2>2. at' \in {"start", "call"} => (Since(start.lower_half, passed))'
    BY <1>5, SinceGrows DEF RunsOn, StopwatchTypeOK, Counter, Since
  <2>3. at' = "stop" /\ passed' < Half =>
          Difference(stop'.lower_half, start'.lower_half) = passed'
    BY <1>5 DEF RunsOn
  <2>4. ElapsedExact'
    BY <1>5 DEF RunsOn, ElapsedExact
  <2>5. QED
    BY <2>1, <2>2, <2>3, <2>4 DEF Difference
<1>6. CASE UNCHANGED stopwatchVars
  BY <1>6 DEF stopwatchVars, StopwatchTypeOK, Since, ElapsedExact, Difference
<1>7. QED
  BY <1>1, <1>2, <1>3, <1>4, <1>5, <1>6 DEF StopwatchNext, ReadsStart, ReadsStop

(* The halves, the readings and the printed time stay words.               *)
THEOREM StopwatchTypeCorrect == StopwatchSpec => []StopwatchTypeOK
<1>1. StopwatchInv => StopwatchTypeOK
  BY DEF StopwatchInv
<1>2. QED
  BY StopwatchInitEstablishes, StopwatchNextPreserves, <1>1, PTL DEF StopwatchSpec

(* The time printed is that of the call, carries between the two           *)
(* instructions of a reading included.                                     *)
THEOREM TimeIsExact == StopwatchSpec => []ElapsedExact
<1>1. StopwatchInv => ElapsedExact
  BY DEF StopwatchInv
<1>2. QED
  BY StopwatchInitEstablishes, StopwatchNextPreserves, <1>1, PTL DEF StopwatchSpec

-----------------------------------------------------------------------------
(* A delay runs as long as asked, for any width of the word and any number *)
(* of iterations to a unit.                                                *)

(* What is left and what has run make up what was asked; a register that   *)
(* starts at zero has a whole word before it.                              *)
Left == IF loops = 0 THEN Wrap ELSE loops

DelayInv ==
  /\ running \in BOOLEAN /\ loops \in LoopWord /\ asked \in Nat /\ ran \in 0 .. Wrap
  /\ running => ran + Left <= Wrap
  /\ running /\ asked \in 1 .. Wrap - 1 => ran + Left = asked
  /\ running /\ asked = 0 => ran + Left = Wrap
  /\ DelaysAsAsked

LEMMA Remainder ==
  ASSUME NEW n \in Nat
  PROVE  /\ n % Wrap \in LoopWord
         /\ n < Wrap => n % Wrap = n
  BY DelayAssumption DEF LoopWord

LEMMA DelayStarts ==
  ASSUME DelayInv, NEW iterations \in Nat, Execute10CyclesLoop(iterations)
  PROVE  DelayInv'
<1>1. loops' \in LoopWord /\ (iterations < Wrap => loops' = iterations)
  BY Remainder DEF Execute10CyclesLoop
<1>2. QED
  BY <1>1, DelayAssumption DEF Execute10CyclesLoop, DelayInv, Left, LoopWord, DelaysAsAsked

LEMMA DelayNextPreserves == DelayInv /\ [DelayNext]_delayVars => DelayInv'
<1> SUFFICES ASSUME DelayInv, [DelayNext]_delayVars PROVE DelayInv'
  OBVIOUS
<1>1. CASE mdelay
  <2>1. SimMsecs \in Nat /\ \A msec \in LoopWord : msec * PerMsec \in Nat
    BY DelayAssumption DEF LoopWord
  <2>2. QED
    BY <1>1, <2>1, DelayStarts DEF mdelay
<1>2. CASE udelay
  <2>1. SimUsecs \in Nat /\ \A usec \in LoopWord : usec * PerUsec \in Nat
    BY DelayAssumption DEF LoopWord
  <2>2. QED
    BY <1>2, <2>1, DelayStarts DEF udelay
<1>3. CASE Iterate
  <2>1. loops' \in LoopWord /\ ran' = ran + 1 /\ ran + 1 <= Wrap
    BY <1>3, DelayAssumption DEF Iterate, Predecessor, DelayInv, Left, LoopWord
  <2>2. IF loops' = 0 THEN Left = 1 ELSE Left' = Left - 1
    BY <1>3, DelayAssumption DEF Iterate, Predecessor, DelayInv, Left, LoopWord
  <2>3. running /\ running' \in BOOLEAN /\ (running' <=> loops' # 0) /\ asked' = asked
    BY <1>3 DEF Iterate
  <2>4. CASE loops' = 0
    <3>1. ~running'
      BY <2>3, <2>4
    <3>2. /\ ran' \in 0 .. Wrap
          /\ asked \in 1 .. Wrap - 1 => ran' = asked
          /\ asked = 0 => ran' = Wrap
      BY <2>1, <2>2, <2>3, <2>4 DEF DelayInv, LoopWord
    <3>3. QED
      BY <2>1, <2>3, <3>1, <3>2 DEF DelayInv, DelaysAsAsked
  <2>5. CASE loops' # 0
    <3>1. running'
      BY <2>3, <2>5
    <3>2. /\ ran' \in 0 .. Wrap /\ ran' + Left' <= Wrap
          /\ asked \in 1 .. Wrap - 1 => ran' + Left' = asked
          /\ asked = 0 => ran' + Left' = Wrap
      <4>1. Left \in Nat /\ Wrap \in Nat /\ ran \in Nat /\ asked \in Nat
        BY DelayAssumption DEF DelayInv, Left, LoopWord
      <4>2. /\ ran + Left <= Wrap
            /\ asked \in 1 .. Wrap - 1 => ran + Left = asked
            /\ asked = 0 => ran + Left = Wrap
        BY <2>3 DEF DelayInv
      <4>3. QED
        BY <2>1, <2>2, <2>5, <4>1, <4>2
    <3>3. QED
      BY <2>1, <2>3, <3>1, <3>2 DEF DelayInv, DelaysAsAsked
  <2>6. QED
    BY <2>4, <2>5
<1>4. CASE UNCHANGED delayVars
  BY <1>4 DEF delayVars, DelayInv, Left, DelaysAsAsked
<1>5. QED
  BY <1>1, <1>2, <1>3, <1>4 DEF DelayNext

LEMMA DelayInitEstablishes == DelayInit => DelayInv
<1> SUFFICES ASSUME DelayInit PROVE DelayInv
  OBVIOUS
<1>1. running \in BOOLEAN /\ ~running
  BY DEF DelayInit
<1>2. loops = 0 /\ asked = 0 /\ ran = 0 /\ 0 \in LoopWord /\ 0 \in 0 .. Wrap
  BY DelayAssumption DEF DelayInit, LoopWord
<1>3. QED
  BY <1>1, <1>2 DEF DelayInv, DelaysAsAsked

(* The register and the count of iterations stay within a word; no delay   *)
(* is longer than one round of the register.                               *)
THEOREM DelayTypeCorrect == DelaySpec => []DelayTypeOK
<1>1. DelayInv => DelayTypeOK
  BY DEF DelayInv, DelayTypeOK
<1>2. QED
  BY DelayInitEstablishes, DelayNextPreserves, <1>1, PTL DEF DelaySpec

(* A delay that fits a word runs for exactly as long as asked, and that of *)
(* nothing for a whole round of the register.                              *)
THEOREM DelayIsAsAsked == DelaySpec => []DelaysAsAsked
<1>1. DelayInv => DelaysAsAsked
  BY DEF DelayInv
<1>2. QED
  BY DelayInitEstablishes, DelayNextPreserves, <1>1, PTL DEF DelaySpec

-----------------------------------------------------------------------------
(* The calibration finds the first best offset, for any matrix, any number *)
(* of offsets and whatever the pixels count.                               *)

(* The counts of a config are the most its pixel has counted so far.  As   *)
(* long as they are zero nothing can be said of the offset.                *)
BestSoFar(p) ==
  /\ \A k \in 0 .. i - 1 : readouts[k][p] <= counts[p]
  /\ counts[p] > 0 => /\ offset[p] \in 0 .. i - 1
                      /\ readouts[offset[p]][p] = counts[p]
                      /\ \A k \in 0 .. offset[p] - 1 : readouts[k][p] < counts[p]

CalibrationInv ==
  /\ CalibrationTypeOK
  /\ \A p \in Pixels : BestSoFar(p)
  /\ done => i = Rounds /\ loaded = offset

LEMMA CalibrationInitEstablishes == CalibrationInit => CalibrationInv
<1> SUFFICES ASSUME CalibrationInit PROVE CalibrationInv
  OBVIOUS
<1>1. 0 .. i - 1 = {}
  BY DEF CalibrationInit
<1>2. readouts \in [0 .. i - 1 -> Readouts]
  BY <1>1 DEF CalibrationInit
<1>3. counts \in Readouts /\ \A p \in Pixels : counts[p] = 0
  BY CalibrationAssumption DEF CalibrationInit, Readouts
<1>4. /\ i \in 0 .. Rounds
      /\ done \in BOOLEAN /\ ~done
  <2>1. i \in 0 .. Rounds
    BY CalibrationAssumption DEF CalibrationInit
  <2>2. QED
    BY <2>1 DEF CalibrationInit
<1>5. {offset, loaded} \subseteq [Pixels -> HalfWords]
  BY DEF CalibrationInit
<1>6. ASSUME NEW p \in Pixels PROVE BestSoFar(p)
  <2>1. ~(counts[p] > 0)
    BY <1>3
  <2>2. QED
    BY <1>1, <2>1 DEF BestSoFar
<1>7. QED
  BY <1>2, <1>3, <1>4, <1>5, <1>6 DEF CalibrationInv, CalibrationTypeOK

\* What a round does to one pixel.
LEMMA RoundOfPixel ==
  ASSUME CalibrationInv, CalibrationRound, NEW p \in Pixels,
         NEW readout \in Readouts,
         readouts' = [k \in 0 .. i |-> IF k = i THEN readout ELSE readouts[k]],
         offset'[p] = IF readout[p] > counts[p] THEN i ELSE offset[p],
         counts'[p] = IF readout[p] > counts[p] THEN readout[p] ELSE counts[p]
  PROVE  BestSoFar(p)'
<1>1. i \in Nat /\ i' = i + 1 /\ 0 .. i' - 1 = 0 .. i
  BY CalibrationAssumption DEF CalibrationInv, CalibrationTypeOK, CalibrationRound
<1>2. readout[p] \in Nat /\ counts[p] \in Nat /\ \A k \in 0 .. i - 1 : readouts[k][p] \in Nat
  BY CalibrationAssumption DEF CalibrationInv, CalibrationTypeOK, Readouts
<1>3. BestSoFar(p)
  BY DEF CalibrationInv
<1>4. readouts'[i][p] = readout[p] /\ \A k \in 0 .. i - 1 : readouts'[k][p] = readouts[k][p]
  BY <1>1
<1>5. \A k \in 0 .. i : readouts'[k][p] <= counts'[p]
  <2> SUFFICES ASSUME NEW k \in 0 .. i PROVE readouts'[k][p] <= counts'[p]
    OBVIOUS
  <2>1. CASE k = i
    BY <2>1, <1>2, <1>4
  <2>2. CASE k \in 0 .. i - 1
    <3>1. readouts[k][p] <= counts[p]
      BY <2>2, <1>3 DEF BestSoFar
    <3>2. QED
      BY <2>2, <3>1, <1>2, <1>4
  <2>3. QED
    BY <2>1, <2>2, <1>1
<1>6. CASE readout[p] > counts[p]
  <2>1. offset'[p] = i /\ counts'[p] = readout[p]
    BY <1>6
  <2>2. \A k \in 0 .. i - 1 : readouts'[k][p] < counts'[p]
    BY <2>1, <1>2, <1>3, <1>4, <1>6 DEF BestSoFar
  <2>3. QED
    BY <2>1, <2>2, <1>1, <1>4, <1>5 DEF BestSoFar
<1>7. CASE ~(readout[p] > counts[p])
  <2>1. offset'[p] = offset[p] /\ counts'[p] = counts[p]
    BY <1>7
  <2>2. CASE counts[p] > 0
    <3>1. /\ offset[p] \in 0 .. i - 1 /\ readouts[offset[p]][p] = counts[p]
          /\ \A k \in 0 .. offset[p] - 1 : readouts[k][p] < counts[p]
      BY <2>2, <1>3 DEF BestSoFar
    <3>2. offset[p] \in 0 .. i /\ \A k \in 0 .. offset[p] - 1 : k \in 0 .. i - 1
      BY <3>1, <1>1
    <3>3. QED
      BY <2>1, <3>1, <3>2, <1>1, <1>4, <1>5 DEF BestSoFar
  <2>3. CASE ~(counts[p] > 0)
    BY <2>1, <2>3, <1>1, <1>5 DEF BestSoFar
  <2>4. QED
    BY <2>2, <2>3
<1>8. QED
  BY <1>6, <1>7

LEMMA RoundPreserves == CalibrationInv /\ CalibrationRound => CalibrationInv'
<1> SUFFICES ASSUME CalibrationInv, CalibrationRound PROVE CalibrationInv'
  OBVIOUS
<1>1. PICK readout \in Readouts :
        LET better == {p \in Pixels : Better(readout[p], counts[p])}
        IN  /\ offset' = [p \in Pixels |-> IF p \in better THEN i ELSE offset[p]]
            /\ counts' = [p \in Pixels |-> IF p \in better THEN readout[p] ELSE counts[p]]
            /\ readouts' = [k \in 0 .. i |-> IF k = i THEN readout ELSE readouts[k]]
  BY DEF CalibrationRound
<1>2. i \in 0 .. Rounds - 1 /\ i' = i + 1 /\ 0 .. i' - 1 = 0 .. i /\ i \in HalfWords
  BY CalibrationAssumption DEF CalibrationInv, CalibrationTypeOK, CalibrationRound, MoreRounds
<1>3. \A p \in Pixels :
        /\ offset'[p] = IF readout[p] > counts[p] THEN i ELSE offset[p]
        /\ counts'[p] = IF readout[p] > counts[p] THEN readout[p] ELSE counts[p]
  BY <1>1 DEF Better
<1>4. \A p \in Pixels : BestSoFar(p)'
  BY <1>1, <1>3, RoundOfPixel
<1>5. offset' \in [Pixels -> HalfWords] /\ counts' \in Readouts
  BY <1>1, <1>2 DEF CalibrationInv, CalibrationTypeOK, Readouts
<1>6. loaded' \in [Pixels -> HalfWords]
  BY <1>2 DEF CalibrationRound
<1>7. readouts' \in [0 .. i' - 1 -> Readouts]
  <2>1. \A k \in 0 .. i : k # i => k \in 0 .. i - 1
    BY <1>2
  <2>2. QED
    BY <1>1, <1>2, <2>1 DEF CalibrationInv, CalibrationTypeOK
<1>8. i' \in 0 .. Rounds /\ done' = done
  BY <1>2, CalibrationAssumption DEF CalibrationRound
<1>9. ~done
  BY <1>2, CalibrationAssumption DEF CalibrationInv
<1>10. QED
  BY <1>4, <1>5, <1>6, <1>7, <1>8, <1>9 DEF CalibrationInv, CalibrationTypeOK

LEMMA CalibrationNextPreserves == CalibrationInv /\ [CalibrationNext]_calibrationVars => CalibrationInv'
<1> SUFFICES ASSUME CalibrationInv, [CalibrationNext]_calibrationVars PROVE CalibrationInv'
  OBVIOUS
<1>1. CASE CalibrationRound
  BY <1>1, RoundPreserves
<1>2. CASE LoadFoundConfigs
  <2>1. CalibrationTypeOK' /\ i = Rounds
    BY <1>2, CalibrationAssumption DEF LoadFoundConfigs, MoreRounds, CalibrationInv, CalibrationTypeOK
  <2>2. \A p \in Pixels : BestSoFar(p)'
    BY <1>2 DEF LoadFoundConfigs, CalibrationInv, BestSoFar
  <2>3. QED
    BY <1>2, <2>1, <2>2 DEF LoadFoundConfigs, CalibrationInv
<1>3. CASE Calibrate
  <2>1. 0 .. i' - 1 = {}
    BY <1>3 DEF Calibrate
  <2>2. readouts' \in [0 .. i' - 1 -> Readouts]
    BY <1>3, <2>1 DEF Calibrate
  <2>3. counts' \in Readouts /\ \A p \in Pixels : counts'[p] = 0
    BY <1>3, CalibrationAssumption DEF Calibrate, Readouts
  <2>4. CalibrationTypeOK' /\ ~done'
    <3>1. i' \in 0 .. Rounds
      BY <1>3, CalibrationAssumption DEF Calibrate
    <3>2. done' \in BOOLEAN /\ ~done'
      BY <1>3 DEF Calibrate
    <3>3. {offset', loaded'} \subseteq [Pixels -> HalfWords]
      BY <1>3 DEF Calibrate, CalibrationInv, CalibrationTypeOK
    <3>4. QED
      BY <2>2, <2>3, <3>1, <3>2, <3>3 DEF CalibrationTypeOK
  <2>5. \A p \in Pixels : BestSoFar(p)'
    BY <2>1, <2>3 DEF BestSoFar
  <2>6. QED
    BY <2>4, <2>5 DEF CalibrationInv
<1>4. CASE UNCHANGED calibrationVars
  BY <1>4 DEF calibrationVars, CalibrationInv, CalibrationTypeOK, BestSoFar
<1>5. QED
  BY <1>1, <1>2, <1>3, <1>4 DEF CalibrationNext

LEMMA BestIsFirst == CalibrationInv => LoadsFirstBest
<1> SUFFICES ASSUME CalibrationInv, done, NEW p \in Pixels, Counted(p)
             PROVE  FirstBest(p, loaded[p])
  BY DEF LoadsFirstBest
<1>1. BestSoFar(p) /\ loaded = offset
  BY DEF CalibrationInv
<1>2. counts[p] \in Nat /\ \A k \in 0 .. i - 1 : readouts[k][p] \in Nat
  BY CalibrationAssumption DEF CalibrationInv, CalibrationTypeOK, Readouts
<1>3. counts[p] > 0
  BY <1>1, <1>2 DEF Counted, BestSoFar
<1>4. QED
  BY <1>1, <1>3 DEF BestSoFar, FirstBest

(* The calibration keeps to its types, with as many rounds as offsets.     *)
THEOREM CalibrationTypeCorrect == CalibrationSpec => []CalibrationTypeOK
<1>1. CalibrationInv => CalibrationTypeOK
  BY DEF CalibrationInv
<1>2. QED
  BY CalibrationInitEstablishes, CalibrationNextPreserves, <1>1, PTL DEF CalibrationSpec

(* Every pixel that counts is left with the first offset it counted most   *)
(* with.                                                                   *)
THEOREM CalibrationFindsBest == CalibrationSpec => []LoadsFirstBest
<1>1. QED
  BY CalibrationInitEstablishes, CalibrationNextPreserves, BestIsFirst, PTL DEF CalibrationSpec

-----------------------------------------------------------------------------
(* What main() finds, for sections of any size in a RAM of any size.       *)

TypeInv ==
  /\ step \in {"clear_bss", "copy_data", "construct", "main"}
  /\ {data_size, bss_size, init_array_size} \subseteq 0 .. MaxSection
  /\ ram = [k \in 0 .. RamWords - 1 |-> ram[k]]

\* The loop that clears .bss has come to pointer.
Clearing ==
  /\ pointer \in bss_start .. bss_end
  /\ \A k \in bss_start .. pointer - 1 : ram[k] = 0
  /\ constructed = <<>>

\* .bss is cleared, which the copy of the words before pointer leaves so.
Copying ==
  /\ pointer \in data_start .. data_end
  /\ \A k \in data_start .. pointer - 1 : ram[k] = image[k]
  /\ \A k \in bss_start .. bss_end - 1 : ram[k] = 0
  /\ constructed = <<>>

\* Memory is as it will be; the constructors before pointer have run.
Constructing ==
  /\ pointer \in Nat
  /\ IF init_array_size = 0 THEN pointer = 0 ELSE pointer < init_array_size
  /\ constructed = [k \in 1 .. pointer |-> k - 1]

(* The word a loop writes too far lies in the section after it, if there   *)
(* is one: .bss is cleared before .data is copied, so no value is lost     *)
(* but the first zero of .bss.                                             *)
StartUpInv ==
  /\ TypeInv
  /\ SpillsOneWord
  /\ step = "clear_bss" => Clearing
  /\ step = "copy_data" => Copying
  /\ step = "construct" => Constructing
  /\ ReadyForMain

LEMMA StartUpInitEstablishes == StartUpInit => StartUpInv
<1> SUFFICES ASSUME StartUpInit PROVE StartUpInv
  OBVIOUS
<1> USE DEF StartUpInit, bss_start, bss_end, data_start, data_end
<1>1. TypeInv
  BY StartUpAssumption DEF TypeInv
<1>2. SpillsOneWord
  BY DEF SpillsOneWord
<1>3. Clearing
  <2>1. pointer = data_size /\ {data_size, bss_size} \subseteq Nat
    BY StartUpAssumption
  <2>2. QED
    BY <2>1 DEF Clearing
<1>4. ReadyForMain
  BY <1>2 DEF ReadyForMain, DataInitialised, BssClearedButFirst, ConstructedOnce
<1>5. QED
  BY <1>1, <1>2, <1>3, <1>4 DEF StartUpInv

LEMMA ClearPreserves == StartUpInv /\ ClearsBss => StartUpInv'
<1> SUFFICES ASSUME StartUpInv, ClearsBss PROVE StartUpInv'
  OBVIOUS
<1> USE DEF bss_start, bss_end, data_start, data_end
<1>1. /\ {data_size, bss_size, init_array_size} \subseteq Nat
      /\ data_size + bss_size < RamWords
      /\ UNCHANGED <<data_size, bss_size, init_array_size, image, constructed>>
  BY StartUpAssumption DEF StartUpInv, TypeInv, ClearsBss, layout
<1>2. Clearing /\ step = "clear_bss"
  BY DEF StartUpInv, ClearsBss
<1>3. CASE bss_start >= bss_end
  <2>1. bss_size = 0 /\ ram' = ram /\ step' = "copy_data" /\ pointer' = 0
    BY <1>1, <1>3 DEF ClearsBss
  <2>2. TypeInv'
    BY <1>1, <2>1 DEF StartUpInv, TypeInv
  <2>3. SpillsOneWord'
    BY <1>1, <2>1 DEF StartUpInv, SpillsOneWord
  <2>4. Copying'
    BY <1>1, <2>1, <1>2 DEF Copying, Clearing
  <2>5. ReadyForMain'
    BY <2>1, <2>3 DEF ReadyForMain, DataInitialised, BssClearedButFirst, ConstructedOnce
  <2>6. QED
    BY <2>1, <2>2, <2>3, <2>4, <2>5 DEF StartUpInv
<1>4. CASE ~(bss_start >= bss_end)
  <2>1. ram' = [ram EXCEPT ![pointer] = 0]
    BY <1>4 DEF ClearsBss
  <2>2. pointer \in 0 .. RamWords - 1
    BY StartUpAssumption, <1>1, <1>2 DEF Clearing
  <2>3. TypeInv'
    BY <1>1, <1>4, <2>1 DEF StartUpInv, TypeInv, ClearsBss
  <2>4. SpillsOneWord'
    BY <1>1, <1>2, <2>1, <2>2 DEF StartUpInv, SpillsOneWord, Clearing, TypeInv
  <2>5. \A k \in data_size .. pointer : ram'[k] = 0
    <3> SUFFICES ASSUME NEW k \in data_size .. pointer PROVE ram'[k] = 0
      OBVIOUS
    <3>1. k \in 0 .. RamWords - 1 /\ ram = [j \in 0 .. RamWords - 1 |-> ram[j]]
      BY StartUpAssumption, <1>1, <2>2 DEF StartUpInv, TypeInv
    <3>2. k # pointer => ram[k] = 0
      BY <1>1, <1>2, <2>2 DEF Clearing
    <3>3. QED
      BY <2>1, <3>1, <3>2
  <2>6. CASE LastWord(bss_end)
    <3>1. step' = "copy_data" /\ pointer' = 0 /\ pointer = data_size + bss_size
      BY <1>1, <1>2, <1>4, <2>6 DEF ClearsBss, LastWord, Clearing
    <3>2. Copying'
      BY <1>1, <1>2, <2>5, <3>1 DEF Copying, Clearing
    <3>3. ReadyForMain'
      BY <2>4, <3>1 DEF ReadyForMain, DataInitialised, BssClearedButFirst, ConstructedOnce
    <3>4. QED
      BY <2>3, <2>4, <3>1, <3>2, <3>3 DEF StartUpInv
  <2>7. CASE ~LastWord(bss_end)
    <3>1. step' = "clear_bss" /\ pointer' = pointer + 1 /\ pointer + 1 <= data_size + bss_size
      BY <1>1, <1>2, <1>4, <2>7 DEF ClearsBss, LastWord, Clearing
    <3>2. Clearing'
      BY <1>1, <1>2, <2>5, <3>1 DEF Clearing
    <3>3. ReadyForMain'
      BY <2>4, <3>1 DEF ReadyForMain, DataInitialised, BssClearedButFirst, ConstructedOnce
    <3>4. QED
      BY <2>3, <2>4, <3>1, <3>2, <3>3 DEF StartUpInv
  <2>8. QED
    BY <2>6, <2>7
<1>5. QED
  BY <1>3, <1>4

LEMMA CopyPreserves == StartUpInv /\ CopiesData => StartUpInv'
<1> SUFFICES ASSUME StartUpInv, CopiesData PROVE StartUpInv'
  OBVIOUS
<1> USE DEF bss_start, bss_end, data_start, data_end
<1>1. /\ {data_size, bss_size, init_array_size} \subseteq Nat
      /\ data_size + bss_size < RamWords
      /\ UNCHANGED <<data_size, bss_size, init_array_size, image, constructed>>
  BY StartUpAssumption DEF StartUpInv, TypeInv, CopiesData, layout
<1>2. Copying /\ step = "copy_data"
  BY DEF StartUpInv, CopiesData
<1>3. ASSUME step' = "construct", pointer' = 0 PROVE Constructing'
  BY <1>1, <1>2, <1>3 DEF Constructing, Copying
<1>4. CASE data_start >= data_end
  <2>1. data_size = 0 /\ ram' = ram /\ step' = "construct" /\ pointer' = 0
    BY <1>1, <1>4 DEF CopiesData
  <2>2. TypeInv'
    BY <1>1, <2>1 DEF StartUpInv, TypeInv
  <2>3. SpillsOneWord'
    BY <1>1, <2>1 DEF StartUpInv, SpillsOneWord
  <2>4. DataInitialised' /\ BssClearedButFirst'
    BY <1>1, <1>2, <2>1 DEF DataInitialised, BssClearedButFirst, Copying
  <2>5. ReadyForMain'
    BY <2>1, <2>3, <2>4 DEF ReadyForMain, ConstructedOnce
  <2>6. QED
    BY <1>3, <2>1, <2>2, <2>3, <2>5 DEF StartUpInv
<1>5. CASE ~(data_start >= data_end)
  <2>1. ram' = [ram EXCEPT ![pointer] = image[pointer]] /\ data_size > 0
    BY <1>1, <1>5 DEF CopiesData
  <2>2. pointer \in 0 .. RamWords - 1
    BY StartUpAssumption, <1>1, <1>2 DEF Copying
  <2>3. TypeInv'
    BY <1>1, <1>5, <2>1 DEF StartUpInv, TypeInv, CopiesData
  <2>4. SpillsOneWord'
    BY <1>1, <1>2, <2>1, <2>2 DEF StartUpInv, SpillsOneWord, Copying, TypeInv
  <2>5. \A k \in 0 .. pointer : ram'[k] = image[k]
    <3> SUFFICES ASSUME NEW k \in 0 .. pointer PROVE ram'[k] = image[k]
      OBVIOUS
    <3>1. k \in 0 .. RamWords - 1 /\ ram = [j \in 0 .. RamWords - 1 |-> ram[j]]
      BY StartUpAssumption, <1>1, <2>2 DEF StartUpInv, TypeInv
    <3>2. k # pointer => ram[k] = image[k]
      BY <1>1, <1>2, <2>2 DEF Copying
    <3>3. QED
      BY <2>1, <3>1, <3>2
  <2>6. CASE LastWord(data_end)
    <3>1. step' = "construct" /\ pointer' = 0 /\ pointer = data_size
      BY <1>1, <1>2, <1>5, <2>6 DEF CopiesData, LastWord, Copying
    <3>2. DataInitialised'
      BY <1>1, <2>1, <2>5, <3>1 DEF DataInitialised
    <3>3. BssClearedButFirst'
      <4> SUFFICES ASSUME NEW k \in bss_start .. bss_end - 1, k # bss_start PROVE ram'[k] = 0
        BY <1>1, <2>1 DEF BssClearedButFirst, Spoiled
      <4>1. k \in 0 .. RamWords - 1 /\ k # pointer /\ ram[k] = 0
        BY StartUpAssumption, <1>1, <1>2, <3>1 DEF Copying
      <4>2. QED
        BY <2>1, <4>1 DEF StartUpInv, TypeInv
    <3>4. ReadyForMain'
      BY <2>4, <3>1, <3>2, <3>3 DEF ReadyForMain, ConstructedOnce
    <3>5. QED
      BY <1>3, <2>3, <2>4, <3>1, <3>4 DEF StartUpInv
  <2>7. CASE ~LastWord(data_end)
    <3>1. step' = "copy_data" /\ pointer' = pointer + 1 /\ pointer + 1 <= data_size
      BY <1>1, <1>2, <1>5, <2>7 DEF CopiesData, LastWord, Copying
    <3>2. \A k \in bss_start .. bss_end - 1 : ram'[k] = 0
      <4> SUFFICES ASSUME NEW k \in bss_start .. bss_end - 1 PROVE ram'[k] = 0
        OBVIOUS
      <4>1. k \in 0 .. RamWords - 1 /\ k # pointer /\ ram[k] = 0
        BY StartUpAssumption, <1>1, <1>2, <2>2, <3>1 DEF Copying
      <4>2. QED
        BY <2>1, <4>1 DEF StartUpInv, TypeInv
    <3>3. Copying'
      BY <1>1, <1>2, <2>1, <2>5, <3>1, <3>2 DEF Copying
    <3>4. ReadyForMain'
      BY <2>4, <3>1 DEF ReadyForMain, DataInitialised, BssClearedButFirst, ConstructedOnce
    <3>5. QED
      BY <2>3, <2>4, <3>1, <3>3, <3>4 DEF StartUpInv
  <2>8. QED
    BY <2>6, <2>7
<1>6. QED
  BY <1>4, <1>5

LEMMA ConstructPreserves == StartUpInv /\ ConstructsObjects => StartUpInv'
<1> SUFFICES ASSUME StartUpInv, ConstructsObjects PROVE StartUpInv'
  OBVIOUS
<1>1. /\ init_array_size \in Nat
      /\ UNCHANGED <<data_size, bss_size, init_array_size, image, ram>>
  BY StartUpAssumption DEF StartUpInv, TypeInv, ConstructsObjects, layout
<1>2. Constructing /\ step = "construct" /\ pointer' = pointer + 1
  BY DEF StartUpInv, ConstructsObjects
<1>3. init_array_size > 0 => constructed' = [k \in 1 .. pointer + 1 |-> k - 1]
  BY <1>1, <1>2 DEF Constructing, ConstructsObjects
<1>4. TypeInv' /\ SpillsOneWord'
  BY <1>1 DEF StartUpInv, TypeInv, SpillsOneWord, ConstructsObjects, bss_end
<1>5. DataInitialised' /\ BssClearedButFirst'
  BY <1>1, <1>2 DEF StartUpInv, ReadyForMain, DataInitialised, BssClearedButFirst,
                    Spoiled, bss_start, bss_end, data_start, data_end
<1>6. CASE pointer + 1 >= init_array_size
  <2>1. step' = "main"
    BY <1>6 DEF ConstructsObjects
  <2>2. CASE init_array_size = 0
    <3>1. constructed' = [k \in 1 .. 0 |-> k - 1]
      BY <1>2, <2>2 DEF Constructing, ConstructsObjects
    <3>2. QED
      BY <1>1, <1>4, <1>5, <2>1, <2>2, <3>1 DEF StartUpInv, ReadyForMain, ConstructedOnce
  <2>3. CASE init_array_size # 0
    <3>1. pointer + 1 = init_array_size
      BY <1>1, <1>2, <1>6, <2>3 DEF Constructing
    <3>2. QED
      BY <1>1, <1>3, <1>4, <1>5, <2>1, <2>3, <3>1 DEF StartUpInv, ReadyForMain, ConstructedOnce
  <2>4. QED
    BY <2>2, <2>3
<1>7. CASE ~(pointer + 1 >= init_array_size)
  <2>1. step' = "construct" /\ pointer + 1 < init_array_size
    BY <1>1, <1>2, <1>7 DEF ConstructsObjects, Constructing
  <2>2. Constructing'
    BY <1>1, <1>2, <1>3, <2>1 DEF Constructing
  <2>3. QED
    BY <1>4, <1>5, <2>1, <2>2 DEF StartUpInv, ReadyForMain, ConstructedOnce
<1>8. QED
  BY <1>6, <1>7

LEMMA StartUpNextPreserves == StartUpInv /\ [StartUpNext]_startUpVars => StartUpInv'
<1> SUFFICES ASSUME StartUpInv, [StartUpNext]_startUpVars PROVE StartUpInv'
  OBVIOUS
<1>1. CASE UNCHANGED startUpVars
  BY <1>1 DEF startUpVars, layout, StartUpInv, TypeInv, SpillsOneWord, Clearing, Copying,
              Constructing, ReadyForMain, DataInitialised, BssClearedButFirst, Spoiled,
              ConstructedOnce, bss_start, bss_end, data_start, data_end
<1>2. QED
  BY <1>1, ClearPreserves, CopyPreserves, ConstructPreserves DEF StartUpNext, RunsMain

(* Before the constructors and main() run, .data has its values and .bss   *)
(* is zero, but for its first word where there is .data; nothing is        *)
(* written past the one word behind the sections, and every constructor    *)
(* runs once, in order.                                                    *)
THEOREM StartUpReady == StartUpSpec => []ReadyForMain
<1>1. StartUpInv => ReadyForMain
  BY DEF StartUpInv
<1>2. QED
  BY StartUpInitEstablishes, StartUpNextPreserves, <1>1, PTL DEF StartUpSpec

-----------------------------------------------------------------------------
(* Whatever word is printed can be read back, on one line.                 *)

\* What separates the fields, ends a line or ends a string.
Separators == {" ", "\n", Nul}

\* What is printed; the provers do not know which characters are in STRING.
Plain == STRING \cup {"0", "1", "2", "3", "4", "5", "6", "7", "8", "9",
                      "a", "b", "c", "d", "e", "f", "x", ":", "(", ")"}

Characters == Plain \cup Separators

LEMMA DigitsDiffer ==
  /\ \A m, n \in 1 .. 16 : HexDigits[m] = HexDigits[n] => m = n
  /\ \A n \in 1 .. 10 : Digits[n] = HexDigits[n]
  /\ \A n \in 1 .. 16 : HexDigits[n] \in Plain \ Separators
  /\ HexDigits[1] = "0"
<1>1. /\ HexDigits[1] = "0" /\ HexDigits[2] = "1" /\ HexDigits[3] = "2" /\ HexDigits[4] = "3"
      /\ HexDigits[5] = "4" /\ HexDigits[6] = "5" /\ HexDigits[7] = "6" /\ HexDigits[8] = "7"
      /\ HexDigits[9] = "8" /\ HexDigits[10] = "9" /\ HexDigits[11] = "a" /\ HexDigits[12] = "b"
      /\ HexDigits[13] = "c" /\ HexDigits[14] = "d" /\ HexDigits[15] = "e" /\ HexDigits[16] = "f"
  BY DEF HexDigits
<1>2. /\ Digits[1] = "0" /\ Digits[2] = "1" /\ Digits[3] = "2" /\ Digits[4] = "3"
      /\ Digits[5] = "4" /\ Digits[6] = "5" /\ Digits[7] = "6" /\ Digits[8] = "7"
      /\ Digits[9] = "8" /\ Digits[10] = "9"
  BY DEF Digits
<1>3. \A n \in 1 .. 16 : \/ n = 1 \/ n = 2 \/ n = 3 \/ n = 4 \/ n = 5 \/ n = 6 \/ n = 7 \/ n = 8
                          \/ n = 9 \/ n = 10 \/ n = 11 \/ n = 12 \/ n = 13 \/ n = 14 \/ n = 15 \/ n = 16
  OBVIOUS
<1>4. \A m, n \in 1 .. 16 : HexDigits[m] = HexDigits[n] => m = n
  BY <1>1, <1>3
<1>5. \A n \in 1 .. 10 : Digits[n] = HexDigits[n]
  BY <1>1, <1>2
<1>6. \A n \in 1 .. 16 : HexDigits[n] \in Plain \ Separators
  BY <1>1, <1>3 DEF Plain, Separators, Nul
<1>7. QED
  BY <1>1, <1>4, <1>5, <1>6

LEMMA DigitOfDigit ==
  ASSUME NEW n \in 0 .. 15
  PROVE  DigitOf(HexDigits[n + 1]) = n
<1>1. n \in 0 .. 15 /\ HexDigits[n + 1] = HexDigits[n + 1]
  OBVIOUS
<1>2. /\ DigitOf(HexDigits[n + 1]) \in 0 .. 15
      /\ HexDigits[DigitOf(HexDigits[n + 1]) + 1] = HexDigits[n + 1]
  BY <1>1, Zenon DEF DigitOf
<1>3. QED
  BY <1>2, DigitsDiffer

\* Induction, for the ten places there are.
LEMMA TenPlaces ==
  ASSUME NEW D, NEW n \in 0 .. 10, 0 \in D, \A k \in 1 .. n : k - 1 \in D => k \in D
  PROVE  \A k \in 0 .. n : k \in D
<1>1. \A k \in 1 .. n : k - 1 \in D => k \in D
  OBVIOUS
<1>2. n >= 1 => 1 \in D
  BY <1>1
<1>3. n >= 2 => 2 \in D
  BY <1>1, <1>2
<1>4. n >= 3 => 3 \in D
  BY <1>1, <1>3
<1>5. n >= 4 => 4 \in D
  BY <1>1, <1>4
<1>6. n >= 5 => 5 \in D
  BY <1>1, <1>5
<1>7. n >= 6 => 6 \in D
  BY <1>1, <1>6
<1>8. n >= 7 => 7 \in D
  BY <1>1, <1>7
<1>9. n >= 8 => 8 \in D
  BY <1>1, <1>8
<1>10. n >= 9 => 9 \in D
  BY <1>1, <1>9
<1>11. n >= 10 => 10 \in D
  BY <1>1, <1>10
<1>12. QED
  BY <1>2, <1>3, <1>4, <1>5, <1>6, <1>7, <1>8, <1>9, <1>10, <1>11

LEMMA LenUpTo ==
  ASSUME NEW S, NEW s \in Seq(S), NEW m \in Nat, Len(s) <= m
  PROVE  Len(s) \in 0 .. m
<1> DEFINE n == Len(s)
<1>1. n \in Nat /\ n <= m
  BY LenProperties
<1> HIDE DEF n
<1>2. n \in 0 .. m
  BY <1>1
<1>3. QED
  BY <1>2 DEF n

\* What the digits of a string stand for, if q is what the first of them do.
LEMMA InBaseOf ==
  ASSUME NEW base \in Nat, NEW digits \in Seq(Characters), NEW q
  PROVE  /\ Len(digits) <= 10 /\ q \in [0 .. Len(digits) -> Nat]
         /\ q[0] = 0
         /\ \A k \in 1 .. Len(digits) : q[k] = q[k - 1] * base + DigitOf(digits[k])
         => InBase(base, digits) = q[Len(digits)]
<1> DEFINE n       == Len(digits)
           Acc(f)  == [k \in 0 .. n |-> IF k = 0 THEN 0 ELSE f[k - 1] * base + DigitOf(digits[k])]
           a       == Accumulated(base, digits)
<1>1. SUFFICES ASSUME n <= 10, q \in [0 .. n -> Nat], q[0] = 0,
                      \A k \in 1 .. n : q[k] = q[k - 1] * base + DigitOf(digits[k])
               PROVE  InBase(base, digits) = q[n]
  OBVIOUS
<1>2. n \in 0 .. 10
  BY <1>1, LenUpTo
<1>3. q = Acc(q)
  <2>1. \A k \in 0 .. n : q[k] = Acc(q)[k]
    BY <1>1
  <2>2. q = [k \in 0 .. n |-> q[k]]
    BY <1>1
  <2> HIDE DEF n
  <2>3. QED
    BY <2>1, <2>2
<1>4. a = CHOOSE f : f = Acc(f)
  BY Zenon DEF Accumulated
<1>5. a = Acc(a)
  <2> HIDE DEF Acc, a
  <2> QED
    BY <1>3, <1>4, Zenon
<1>6. \A k \in 0 .. n : a[k] = IF k = 0 THEN 0 ELSE a[k - 1] * base + DigitOf(digits[k])
  <2>1. a = [k \in 0 .. n |-> IF k = 0 THEN 0 ELSE a[k - 1] * base + DigitOf(digits[k])]
    BY <1>5
  <2> HIDE DEF a
  <2> QED
    BY <2>1
<1>7. a[0] = q[0]
  <2> HIDE DEF a, n
  <2> QED
    BY <1>1, <1>2, <1>6
<1>8. \A k \in 1 .. n : a[k - 1] = q[k - 1] => a[k] = q[k]
  <2> SUFFICES ASSUME NEW k \in 1 .. n, a[k - 1] = q[k - 1] PROVE a[k] = q[k]
    OBVIOUS
  <2> HIDE DEF a, n
  <2>1. k \in 0 .. n /\ k # 0
    BY <1>2
  <2>2. a[k] = a[k - 1] * base + DigitOf(digits[k])
    BY <1>6, <2>1
  <2>3. q[k] = q[k - 1] * base + DigitOf(digits[k])
    BY <1>1
  <2> QED
    BY <2>2, <2>3, Zenon
<1>9. \A k \in 0 .. n : a[k] = q[k]
  <2> DEFINE D == {k \in 0 .. n : a[k] = q[k]}
  <2>1. 0 \in D /\ \A k \in 1 .. n : k - 1 \in D => k \in D
    <3> HIDE DEF a, n
    <3> QED
      BY <1>2, <1>7, <1>8
  <2>2. \A k \in 0 .. n : k \in D
    <3> HIDE DEF D, n
    <3> QED
      BY <1>2, <2>1, TenPlaces
  <2> QED
    BY <2>2
<1>10. n \in 0 .. n
  <2> HIDE DEF n
  <2> QED
    BY <1>2
<1>11. QED
  BY <1>9, <1>10 DEF InBase

LEMMA WordBound ==
  ASSUME NEW word \in PrintedWords
  PROVE  word \in Nat /\ word < 4294967296
<1>1. word \in Nat /\ word \div 65536 < 65536
  BY PrintedWordsAssumption
<1>2. QED
  BY <1>1

\* What is left after each digit.
LEMMA RemaindersOf ==
  ASSUME NEW word \in Nat
  PROVE  LET left == Remainders(word, Dividers(4))
         IN  left[0] = word /\ \A k \in 1 .. 10 : left[k] = left[k - 1] % Dividers(4)[k]
<1> DEFINE d       == Dividers(4)
           Step(f) == [k \in 0 .. Len(d) |-> IF k = 0 THEN word ELSE f[k - 1] % d[k]]
           left    == Remainders(word, d)
           w0      == word
           w1      == w0 % 1000000000
           w2      == w1 % 100000000
           w3      == w2 % 10000000
           w4      == w3 % 1000000
           w5      == w4 % 100000
           w6      == w5 % 10000
           w7      == w6 % 1000
           w8      == w7 % 100
           w9      == w8 % 10
           w10     == w9 % 1
           g       == [k \in 0 .. 10 |->
                         IF k = 0 THEN w0 ELSE
                         IF k = 1 THEN w1 ELSE
                         IF k = 2 THEN w2 ELSE
                         IF k = 3 THEN w3 ELSE
                         IF k = 4 THEN w4 ELSE
                         IF k = 5 THEN w5 ELSE
                         IF k = 6 THEN w6 ELSE
                         IF k = 7 THEN w7 ELSE
                         IF k = 8 THEN w8 ELSE
                         IF k = 9 THEN w9 ELSE
                         w10]
<1>1. Len(d) = 10 /\ d[1] = 1000000000 /\ d[2] = 100000000 /\ d[3] = 10000000 /\ d[4] = 1000000 /\ d[5] = 100000 /\ d[6] = 10000 /\ d[7] = 1000 /\ d[8] = 100 /\ d[9] = 10 /\ d[10] = 1
  BY DEF Dividers
<1>2. g = Step(g)
  <2>1. \A k \in 0 .. 10 : g[k] = IF k = 0 THEN word ELSE g[k - 1] % d[k]
    <3> HIDE DEF d
    <3>1. g[0] = w0 /\ g[1] = w1 /\ g[2] = w2 /\ g[3] = w3 /\ g[4] = w4 /\ g[5] = w5 /\ g[6] = w6 /\ g[7] = w7 /\ g[8] = w8 /\ g[9] = w9 /\ g[10] = w10
      OBVIOUS
    <3>2. w1 = w0 % d[1] /\ w2 = w1 % d[2] /\ w3 = w2 % d[3] /\ w4 = w3 % d[4] /\ w5 = w4 % d[5] /\ w6 = w5 % d[6] /\ w7 = w6 % d[7] /\ w8 = w7 % d[8] /\ w9 = w8 % d[9] /\ w10 = w9 % d[10]
      BY <1>1
    <3> HIDE DEF g, w1, w2, w3, w4, w5, w6, w7, w8, w9, w10
    <3>3. SUFFICES ASSUME NEW k \in 1 .. 10
                   PROVE  g[k] = g[k - 1] % d[k]
      BY <3>1
    <3> HIDE DEF g
    <3>4. \/ k = 1 \/ k = 2 \/ k = 3 \/ k = 4 \/ k = 5 \/ k = 6 \/ k = 7 \/ k = 8 \/ k = 9 \/ k = 10
      OBVIOUS
    <3>5. CASE k = 1
      <4>1. k - 1 = 0
        BY <3>5
      <4>2. QED
        BY <4>1, <3>1, <3>2, <3>5, Zenon
    <3>6. CASE k = 2
      <4>1. k - 1 = 1
        BY <3>6
      <4>2. QED
        BY <4>1, <3>1, <3>2, <3>6, Zenon
    <3>7. CASE k = 3
      <4>1. k - 1 = 2
        BY <3>7
      <4>2. QED
        BY <4>1, <3>1, <3>2, <3>7, Zenon
    <3>8. CASE k = 4
      <4>1. k - 1 = 3
        BY <3>8
      <4>2. QED
        BY <4>1, <3>1, <3>2, <3>8, Zenon
    <3>9. CASE k = 5
      <4>1. k - 1 = 4
        BY <3>9
      <4>2. QED
        BY <4>1, <3>1, <3>2, <3>9, Zenon
    <3>10. CASE k = 6
      <4>1. k - 1 = 5
        BY <3>10
      <4>2. QED
        BY <4>1, <3>1, <3>2, <3>10, Zenon
    <3>11. CASE k = 7
      <4>1. k - 1 = 6
        BY <3>11
      <4>2. QED
        BY <4>1, <3>1, <3>2, <3>11, Zenon
    <3>12. CASE k = 8
      <4>1. k - 1 = 7
        BY <3>12
      <4>2. QED
        BY <4>1, <3>1, <3>2, <3>12, Zenon
    <3>13. CASE k = 9
      <4>1. k - 1 = 8
        BY <3>13
      <4>2. QED
        BY <4>1, <3>1, <3>2, <3>13, Zenon
    <3>14. CASE k = 10
      <4>1. k - 1 = 9
        BY <3>14
      <4>2. QED
        BY <4>1, <3>1, <3>2, <3>14, Zenon
    <3>15. QED
      BY <3>4, <3>5, <3>6, <3>7, <3>8, <3>9, <3>10, <3>11, <3>12, <3>13, <3>14
  <2>2. g = [k \in 0 .. 10 |-> g[k]]
    OBVIOUS
  <2> HIDE DEF g, d
  <2>3. QED
    BY <1>1, <2>1, <2>2
<1>3. left = CHOOSE f : f = Step(f)
  BY Zenon DEF Remainders
<1>4. left = Step(left)
  <2> HIDE DEF Step, left, g
  <2> QED
    BY <1>2, <1>3, Zenon
<1>5. left = [k \in 0 .. Len(d) |-> IF k = 0 THEN word ELSE left[k - 1] % d[k]]
  BY <1>4
<1> HIDE DEF left, d
<1>6. left[0] = word /\ \A k \in 1 .. 10 : left[k] = left[k - 1] % d[k]
  BY <1>1, <1>5
<1>7. QED
  BY <1>6 DEF left, d

\* The n digits of a word, and what the first k of them stand for.
DigitsOf(n, base, word, c, q) ==
  /\ c \in [1 .. n -> 0 .. base - 1] /\ q \in [0 .. n -> Nat]
  /\ q[0] = 0 /\ q[n] = word
  /\ \A k \in 1 .. n : q[k] = q[k - 1] * base + c[k]

LEMMA DecDigits ==
  ASSUME NEW word \in PrintedWords
  PROVE  \E c, q : /\ DigitsOf(10, 10, word, c, q)
                   /\ DecBuffer(word) = [k \in 1 .. 10 |-> HexDigits[c[k] + 1]]
<1> DEFINE d    == Dividers(4)
           left == Remainders(word, d)
<1>1. word \in Nat /\ word < 4294967296
  BY SMT, WordBound
<1>2. left[0] = word /\ \A k \in 1 .. 10 : left[k] = left[k - 1] % d[k]
  <2>1. word \in Nat
    BY SMT, WordBound
  <2>2. QED
    BY <2>1, RemaindersOf
<1>3. Len(d) = 10 /\ d[1] = 1000000000 /\ d[2] = 100000000 /\ d[3] = 10000000 /\ d[4] = 1000000 /\ d[5] = 100000 /\ d[6] = 10000 /\ d[7] = 1000 /\ d[8] = 100 /\ d[9] = 10 /\ d[10] = 1
  BY SMT DEF Dividers
<1>4. DecBuffer(word) = [k \in 1 .. 10 |-> Digits[(left[k - 1] \div d[k]) + 1]]
  <2>1. DecBuffer(word) = [k \in 1 .. Len(d) |-> Digits[(left[k - 1] \div d[k]) + 1]]
    BY Zenon DEF DecBuffer, ToDecString
  <2>2. Len(d) = 10
    BY SMT, <1>3
  <2> HIDE DEF left, d
  <2>3. QED
    BY <2>1, <2>2
<1> HIDE DEF left, d
<1>5. PICK c1 \in 0 .. 9, l1 \in Nat :
             /\ c1 = word \div 1000000000 /\ l1 = word % 1000000000
             /\ word = 1000000000 * c1 + l1 /\ l1 < 1000000000
  <2>1. PICK q \in Int, r \in Int : q = word \div 1000000000 /\ r = word % 1000000000
    BY SMT, <1>1
  <2>2. q \in 0 .. 9 /\ r \in Nat /\ r < 1000000000 /\ word = 1000000000 * q + r
    BY SMT, <1>1, <2>1
  <2>3. QED
    BY SMT, <2>1, <2>2
<1>6. PICK c2 \in 0 .. 9, l2 \in Nat :
             /\ c2 = l1 \div 100000000 /\ l2 = l1 % 100000000
             /\ l1 = 100000000 * c2 + l2 /\ l2 < 100000000
  <2>1. PICK q \in Int, r \in Int : q = l1 \div 100000000 /\ r = l1 % 100000000
    BY SMT, <1>1
  <2>2. q \in 0 .. 9 /\ r \in Nat /\ r < 100000000 /\ l1 = 100000000 * q + r
    BY SMT, <1>5, <2>1
  <2>3. QED
    BY SMT, <2>1, <2>2
<1>7. PICK c3 \in 0 .. 9, l3 \in Nat :
             /\ c3 = l2 \div 10000000 /\ l3 = l2 % 10000000
             /\ l2 = 10000000 * c3 + l3 /\ l3 < 10000000
  <2>1. PICK q \in Int, r \in Int : q = l2 \div 10000000 /\ r = l2 % 10000000
    BY SMT, <1>1
  <2>2. q \in 0 .. 9 /\ r \in Nat /\ r < 10000000 /\ l2 = 10000000 * q + r
    BY SMT, <1>6, <2>1
  <2>3. QED
    BY SMT, <2>1, <2>2
<1>8. PICK c4 \in 0 .. 9, l4 \in Nat :
             /\ c4 = l3 \div 1000000 /\ l4 = l3 % 1000000
             /\ l3 = 1000000 * c4 + l4 /\ l4 < 1000000
  <2>1. PICK q \in Int, r \in Int : q = l3 \div 1000000 /\ r = l3 % 1000000
    BY SMT, <1>1
  <2>2. q \in 0 .. 9 /\ r \in Nat /\ r < 1000000 /\ l3 = 1000000 * q + r
    BY SMT, <1>7, <2>1
  <2>3. QED
    BY SMT, <2>1, <2>2
<1>9. PICK c5 \in 0 .. 9, l5 \in Nat :
             /\ c5 = l4 \div 100000 /\ l5 = l4 % 100000
             /\ l4 = 100000 * c5 + l5 /\ l5 < 100000
  <2>1. PICK q \in Int, r \in Int : q = l4 \div 100000 /\ r = l4 % 100000
    BY SMT, <1>1
  <2>2. q \in 0 .. 9 /\ r \in Nat /\ r < 100000 /\ l4 = 100000 * q + r
    BY SMT, <1>8, <2>1
  <2>3. QED
    BY SMT, <2>1, <2>2
<1>10. PICK c6 \in 0 .. 9, l6 \in Nat :
             /\ c6 = l5 \div 10000 /\ l6 = l5 % 10000
             /\ l5 = 10000 * c6 + l6 /\ l6 < 10000
  <2>1. PICK q \in Int, r \in Int : q = l5 \div 10000 /\ r = l5 % 10000
    BY SMT, <1>1
  <2>2. q \in 0 .. 9 /\ r \in Nat /\ r < 10000 /\ l5 = 10000 * q + r
    BY SMT, <1>9, <2>1
  <2>3. QED
    BY SMT, <2>1, <2>2
<1>11. PICK c7 \in 0 .. 9, l7 \in Nat :
             /\ c7 = l6 \div 1000 /\ l7 = l6 % 1000
             /\ l6 = 1000 * c7 + l7 /\ l7 < 1000
  <2>1. PICK q \in Int, r \in Int : q = l6 \div 1000 /\ r = l6 % 1000
    BY SMT, <1>1
  <2>2. q \in 0 .. 9 /\ r \in Nat /\ r < 1000 /\ l6 = 1000 * q + r
    BY SMT, <1>10, <2>1
  <2>3. QED
    BY SMT, <2>1, <2>2
<1>12. PICK c8 \in 0 .. 9, l8 \in Nat :
             /\ c8 = l7 \div 100 /\ l8 = l7 % 100
             /\ l7 = 100 * c8 + l8 /\ l8 < 100
  <2>1. PICK q \in Int, r \in Int : q = l7 \div 100 /\ r = l7 % 100
    BY SMT, <1>1
  <2>2. q \in 0 .. 9 /\ r \in Nat /\ r < 100 /\ l7 = 100 * q + r
    BY SMT, <1>11, <2>1
  <2>3. QED
    BY SMT, <2>1, <2>2
<1>13. PICK c9 \in 0 .. 9, l9 \in Nat :
             /\ c9 = l8 \div 10 /\ l9 = l8 % 10
             /\ l8 = 10 * c9 + l9 /\ l9 < 10
  <2>1. PICK q \in Int, r \in Int : q = l8 \div 10 /\ r = l8 % 10
    BY SMT, <1>1
  <2>2. q \in 0 .. 9 /\ r \in Nat /\ r < 10 /\ l8 = 10 * q + r
    BY SMT, <1>12, <2>1
  <2>3. QED
    BY SMT, <2>1, <2>2
<1>14. PICK c10 \in 0 .. 9, l10 \in Nat :
             /\ c10 = l9 \div 1 /\ l10 = l9 % 1
             /\ l9 = 1 * c10 + l10 /\ l10 < 1
  <2>1. PICK q \in Int, r \in Int : q = l9 \div 1 /\ r = l9 % 1
    BY SMT, <1>1
  <2>2. q \in 0 .. 9 /\ r \in Nat /\ r < 1 /\ l9 = 1 * q + r
    BY SMT, <1>13, <2>1
  <2>3. QED
    BY SMT, <2>1, <2>2
<1>15. PICK q1 \in Nat : q1 = c1
  OBVIOUS
<1>16. PICK q2 \in Nat : q2 = q1 * 10 + c2
  OBVIOUS
<1>17. PICK q3 \in Nat : q3 = q2 * 10 + c3
  OBVIOUS
<1>18. PICK q4 \in Nat : q4 = q3 * 10 + c4
  OBVIOUS
<1>19. PICK q5 \in Nat : q5 = q4 * 10 + c5
  OBVIOUS
<1>20. PICK q6 \in Nat : q6 = q5 * 10 + c6
  OBVIOUS
<1>21. PICK q7 \in Nat : q7 = q6 * 10 + c7
  OBVIOUS
<1>22. PICK q8 \in Nat : q8 = q7 * 10 + c8
  OBVIOUS
<1>23. PICK q9 \in Nat : q9 = q8 * 10 + c9
  OBVIOUS
<1>24. PICK q10 \in Nat : q10 = q9 * 10 + c10
  OBVIOUS
<1>25. word = 1000000000 * q1 + l1
  BY SMT, <1>1, <1>5, <1>15
<1>26. word = 100000000 * q2 + l2
  BY SMT, <1>25, <1>6, <1>16
<1>27. word = 10000000 * q3 + l3
  BY SMT, <1>26, <1>7, <1>17
<1>28. word = 1000000 * q4 + l4
  BY SMT, <1>27, <1>8, <1>18
<1>29. word = 100000 * q5 + l5
  BY SMT, <1>28, <1>9, <1>19
<1>30. word = 10000 * q6 + l6
  BY SMT, <1>29, <1>10, <1>20
<1>31. word = 1000 * q7 + l7
  BY SMT, <1>30, <1>11, <1>21
<1>32. word = 100 * q8 + l8
  BY SMT, <1>31, <1>12, <1>22
<1>33. word = 10 * q9 + l9
  BY SMT, <1>32, <1>13, <1>23
<1>34. word = 1 * q10 + l10
  BY SMT, <1>33, <1>14, <1>24
<1>35. q10 = word
  BY SMT, <1>1, <1>34, <1>14
<1>36. PICK c : c = [k \in 1 .. 10 |->
                        IF k = 1 THEN c1 ELSE
                        IF k = 2 THEN c2 ELSE
                        IF k = 3 THEN c3 ELSE
                        IF k = 4 THEN c4 ELSE
                        IF k = 5 THEN c5 ELSE
                        IF k = 6 THEN c6 ELSE
                        IF k = 7 THEN c7 ELSE
                        IF k = 8 THEN c8 ELSE
                        IF k = 9 THEN c9 ELSE
                        c10]
  OBVIOUS
<1>37. PICK q : q = [k \in 0 .. 10 |->
                        IF k = 0 THEN 0 ELSE
                        IF k = 1 THEN q1 ELSE
                        IF k = 2 THEN q2 ELSE
                        IF k = 3 THEN q3 ELSE
                        IF k = 4 THEN q4 ELSE
                        IF k = 5 THEN q5 ELSE
                        IF k = 6 THEN q6 ELSE
                        IF k = 7 THEN q7 ELSE
                        IF k = 8 THEN q8 ELSE
                        IF k = 9 THEN q9 ELSE
                        q10]
  OBVIOUS
<1>38. c[1] = c1 /\ c[2] = c2 /\ c[3] = c3 /\ c[4] = c4 /\ c[5] = c5 /\ c[6] = c6 /\ c[7] = c7 /\ c[8] = c8 /\ c[9] = c9 /\ c[10] = c10
  BY <1>36
<1>39. q[0] = 0 /\ q[1] = q1 /\ q[2] = q2 /\ q[3] = q3 /\ q[4] = q4 /\ q[5] = q5 /\ q[6] = q6 /\ q[7] = q7 /\ q[8] = q8 /\ q[9] = q9 /\ q[10] = q10
  BY <1>37
<1>40. \A k \in 1 .. 10 : \/ k = 1 \/ k = 2 \/ k = 3 \/ k = 4 \/ k = 5
                          \/ k = 6 \/ k = 7 \/ k = 8 \/ k = 9 \/ k = 10
  OBVIOUS
<1>41. c \in [1 .. 10 -> 0 .. 9]
  <2>1. \A k \in 1 .. 10 : c[k] \in 0 .. 9
    BY <1>38, <1>40
  <2>2. c = [k \in 1 .. 10 |-> c[k]]
    BY <1>36
  <2>3. QED
    BY <2>1, <2>2
<1>42. q \in [0 .. 10 -> Nat]
  <2>1. \A k \in 0 .. 10 : k = 0 \/ k \in 1 .. 10
    OBVIOUS
  <2>2. \A k \in 0 .. 10 : q[k] \in Nat
    BY <1>39, <1>40, <2>1
  <2>3. q = [k \in 0 .. 10 |-> q[k]]
    BY <1>37
  <2>4. QED
    BY <2>2, <2>3
<1>43. \A k \in 1 .. 10 : q[k] = q[k - 1] * 10 + c[k]
  BY <1>38, <1>39, <1>40, <1>15, <1>16, <1>17, <1>18, <1>19, <1>20, <1>21, <1>22, <1>23, <1>24
<1>44. DigitsOf(10, 10, word, c, q)
  BY <1>41, <1>42, <1>43, <1>39, <1>35 DEF DigitsOf
<1>45. left[1] = l1 /\ left[0] \div d[1] = c1
  <2>1. left[0] = word /\ left[1] = left[1 - 1] % d[1] /\ 1 - 1 = 0
    BY <1>2
  <2>2. QED
    BY SMT, <1>3, <1>5, <2>1
<1>46. left[2] = l2 /\ left[1] \div d[2] = c2
  <2>1. left[1] = l1 /\ left[2] = left[2 - 1] % d[2] /\ 2 - 1 = 1
    BY <1>45, <1>2
  <2>2. QED
    BY SMT, <1>3, <1>6, <2>1
<1>47. left[3] = l3 /\ left[2] \div d[3] = c3
  <2>1. left[2] = l2 /\ left[3] = left[3 - 1] % d[3] /\ 3 - 1 = 2
    BY <1>46, <1>2
  <2>2. QED
    BY SMT, <1>3, <1>7, <2>1
<1>48. left[4] = l4 /\ left[3] \div d[4] = c4
  <2>1. left[3] = l3 /\ left[4] = left[4 - 1] % d[4] /\ 4 - 1 = 3
    BY <1>47, <1>2
  <2>2. QED
    BY SMT, <1>3, <1>8, <2>1
<1>49. left[5] = l5 /\ left[4] \div d[5] = c5
  <2>1. left[4] = l4 /\ left[5] = left[5 - 1] % d[5] /\ 5 - 1 = 4
    BY <1>48, <1>2
  <2>2. QED
    BY SMT, <1>3, <1>9, <2>1
<1>50. left[6] = l6 /\ left[5] \div d[6] = c6
  <2>1. left[5] = l5 /\ left[6] = left[6 - 1] % d[6] /\ 6 - 1 = 5
    BY <1>49, <1>2
  <2>2. QED
    BY SMT, <1>3, <1>10, <2>1
<1>51. left[7] = l7 /\ left[6] \div d[7] = c7
  <2>1. left[6] = l6 /\ left[7] = left[7 - 1] % d[7] /\ 7 - 1 = 6
    BY <1>50, <1>2
  <2>2. QED
    BY SMT, <1>3, <1>11, <2>1
<1>52. left[8] = l8 /\ left[7] \div d[8] = c8
  <2>1. left[7] = l7 /\ left[8] = left[8 - 1] % d[8] /\ 8 - 1 = 7
    BY <1>51, <1>2
  <2>2. QED
    BY SMT, <1>3, <1>12, <2>1
<1>53. left[9] = l9 /\ left[8] \div d[9] = c9
  <2>1. left[8] = l8 /\ left[9] = left[9 - 1] % d[9] /\ 9 - 1 = 8
    BY <1>52, <1>2
  <2>2. QED
    BY SMT, <1>3, <1>13, <2>1
<1>54. left[10] = l10 /\ left[9] \div d[10] = c10
  <2>1. left[9] = l9 /\ left[10] = left[10 - 1] % d[10] /\ 10 - 1 = 9
    BY <1>53, <1>2
  <2>2. QED
    BY SMT, <1>3, <1>14, <2>1
<1>55. \A k \in 1 .. 10 : left[k - 1] \div d[k] = c[k]
  BY <1>45, <1>46, <1>47, <1>48, <1>49, <1>50, <1>51, <1>52, <1>53, <1>54, <1>38, <1>40
<1>56. \A k \in 1 .. 10 : Digits[(left[k - 1] \div d[k]) + 1] = HexDigits[c[k] + 1]
  <2>1. \A k \in 1 .. 10 : Digits[c[k] + 1] = HexDigits[c[k] + 1]
    BY <1>41, DigitsDiffer
  <2>2. \A k \in 1 .. 10 : Digits[(left[k - 1] \div d[k]) + 1] = Digits[c[k] + 1]
    BY <1>55, Zenon
  <2>3. QED
    BY <2>1, <2>2
<1>57. DecBuffer(word) = [k \in 1 .. 10 |-> HexDigits[c[k] + 1]]
  BY <1>4, <1>56, Zenon
<1>58. QED
  BY <1>44, <1>57, Zenon

\* What is left after each nibble.
LEMMA ShiftedOf ==
  ASSUME NEW word \in Nat
  PROVE  LET left == Shifted(word, 8)
         IN  left[0] = word /\ \A k \in 1 .. 8 : left[k] = left[k - 1] \div 16
<1> DEFINE Step(f) == [k \in 0 .. 8 |-> IF k = 0 THEN word ELSE f[k - 1] \div 16]
           left    == Shifted(word, 8)
<1>1. PICK w1 : w1 = word \div 16
  OBVIOUS
<1>2. PICK w2 : w2 = w1 \div 16
  OBVIOUS
<1>3. PICK w3 : w3 = w2 \div 16
  OBVIOUS
<1>4. PICK w4 : w4 = w3 \div 16
  OBVIOUS
<1>5. PICK w5 : w5 = w4 \div 16
  OBVIOUS
<1>6. PICK w6 : w6 = w5 \div 16
  OBVIOUS
<1>7. PICK w7 : w7 = w6 \div 16
  OBVIOUS
<1>8. PICK w8 : w8 = w7 \div 16
  OBVIOUS
<1>9. PICK g : g = [k \in 0 .. 8 |->
                    IF k = 0 THEN word ELSE
                    IF k = 1 THEN w1 ELSE
                    IF k = 2 THEN w2 ELSE
                    IF k = 3 THEN w3 ELSE
                    IF k = 4 THEN w4 ELSE
                    IF k = 5 THEN w5 ELSE
                    IF k = 6 THEN w6 ELSE
                    IF k = 7 THEN w7 ELSE
                    w8]
  OBVIOUS
<1>10. g[0] = word /\ g[1] = w1 /\ g[2] = w2 /\ g[3] = w3 /\ g[4] = w4 /\ g[5] = w5 /\ g[6] = w6 /\ g[7] = w7 /\ g[8] = w8
  BY <1>9
<1>11. \A k \in 1 .. 8 : \/ k = 1 \/ k = 2 \/ k = 3 \/ k = 4
                        \/ k = 5 \/ k = 6 \/ k = 7 \/ k = 8
  OBVIOUS
<1>12. ASSUME NEW k \in 1 .. 8 PROVE g[k] = g[k - 1] \div 16
  <2>1. CASE k = 1
    <3>1. k - 1 = 0
      BY <2>1
    <3>2. QED
      BY <1>1, <1>10, <2>1, <3>1, Zenon
  <2>2. CASE k = 2
    <3>1. k - 1 = 1
      BY <2>2
    <3>2. QED
      BY <1>2, <1>10, <2>2, <3>1, Zenon
  <2>3. CASE k = 3
    <3>1. k - 1 = 2
      BY <2>3
    <3>2. QED
      BY <1>3, <1>10, <2>3, <3>1, Zenon
  <2>4. CASE k = 4
    <3>1. k - 1 = 3
      BY <2>4
    <3>2. QED
      BY <1>4, <1>10, <2>4, <3>1, Zenon
  <2>5. CASE k = 5
    <3>1. k - 1 = 4
      BY <2>5
    <3>2. QED
      BY <1>5, <1>10, <2>5, <3>1, Zenon
  <2>6. CASE k = 6
    <3>1. k - 1 = 5
      BY <2>6
    <3>2. QED
      BY <1>6, <1>10, <2>6, <3>1, Zenon
  <2>7. CASE k = 7
    <3>1. k - 1 = 6
      BY <2>7
    <3>2. QED
      BY <1>7, <1>10, <2>7, <3>1, Zenon
  <2>8. CASE k = 8
    <3>1. k - 1 = 7
      BY <2>8
    <3>2. QED
      BY <1>8, <1>10, <2>8, <3>1, Zenon
  <2>9. QED
    BY <1>11, <2>1, <2>2, <2>3, <2>4, <2>5, <2>6, <2>7, <2>8
<1>13. g = Step(g)
  <2>1. g = [k \in 0 .. 8 |-> g[k]]
    BY <1>9
  <2>2. \A k \in 0 .. 8 : k = 0 \/ k \in 1 .. 8
    OBVIOUS
  <2>3. \A k \in 0 .. 8 : g[k] = IF k = 0 THEN word ELSE g[k - 1] \div 16
    <3>1. \A k \in 1 .. 8 : k # 0
      OBVIOUS
    <3>2. QED
      BY <1>10, <1>12, <2>2, <3>1, Zenon
  <2>4. QED
    BY <2>1, <2>3, Zenon
<1>14. left = CHOOSE f : f = Step(f)
  BY Zenon DEF Shifted
<1>15. left = Step(left)
  <2> HIDE DEF Step, left
  <2> QED
    BY <1>13, <1>14, Zenon
<1>16. left = [k \in 0 .. 8 |-> IF k = 0 THEN word ELSE left[k - 1] \div 16]
  BY <1>15
<1> HIDE DEF left
<1>17. left[0] = word /\ \A k \in 1 .. 8 : left[k] = left[k - 1] \div 16
  BY <1>16
<1>18. QED
  BY <1>17 DEF left

LEMMA HexNibbles ==
  ASSUME NEW word \in PrintedWords
  PROVE  \E c, q : /\ DigitsOf(8, 16, word, c, q)
                   /\ ToHexString(word, 4) = <<"0", "x">> \o [k \in 1 .. 8 |-> HexDigits[c[k] + 1]]
<1> DEFINE left == Shifted(word, 8)
           c    == [k \in 1 .. 8 |-> left[8 - k] % 16]
           q    == [k \in 0 .. 8 |-> left[8 - k]]
<1>1. word \in Nat /\ word < 4294967296
  BY SMT, WordBound
<1>2. left[0] = word /\ \A k \in 1 .. 8 : left[k] = left[k - 1] \div 16
  <2>1. word \in Nat
    BY SMT, WordBound
  <2>2. QED
    BY <2>1, ShiftedOf
<1>3. ToHexString(word, 4) = <<"0", "x">> \o [k \in 1 .. 8 |-> HexDigits[(left[8 - k] % 16) + 1]]
  <2>1. 2 * 4 = 8
    OBVIOUS
  <2>2. QED
    BY <2>1, Zenon DEF ToHexString
<1>4. \A k \in 1 .. 8 : c[k] = left[8 - k] % 16
  OBVIOUS
<1>5. \A k \in 0 .. 8 : q[k] = left[8 - k]
  OBVIOUS
<1>6. c = [k \in 1 .. 8 |-> c[k]]
  OBVIOUS
<1>7. q = [k \in 0 .. 8 |-> q[k]]
  OBVIOUS
<1> HIDE DEF left, c, q
<1>8. PICK l1 \in Nat : l1 = word \div 16 /\ l1 < 268435456
  BY SMT, <1>1
<1>9. PICK l2 \in Nat : l2 = l1 \div 16 /\ l2 < 16777216
  BY SMT, <1>8
<1>10. PICK l3 \in Nat : l3 = l2 \div 16 /\ l3 < 1048576
  BY SMT, <1>9
<1>11. PICK l4 \in Nat : l4 = l3 \div 16 /\ l4 < 65536
  BY SMT, <1>10
<1>12. PICK l5 \in Nat : l5 = l4 \div 16 /\ l5 < 4096
  BY SMT, <1>11
<1>13. PICK l6 \in Nat : l6 = l5 \div 16 /\ l6 < 256
  BY SMT, <1>12
<1>14. PICK l7 \in Nat : l7 = l6 \div 16 /\ l7 < 16
  BY SMT, <1>13
<1>15. PICK l8 \in Nat : l8 = l7 \div 16 /\ l8 < 1
  BY SMT, <1>14
<1>16. left[1] = l1
  <2>1. left[1] = left[1 - 1] \div 16 /\ 1 - 1 = 0
    BY <1>2
  <2>2. QED
    BY SMT, <1>2, <1>8, <2>1
<1>17. left[2] = l2
  <2>1. left[2] = left[2 - 1] \div 16 /\ 2 - 1 = 1
    BY <1>2
  <2>2. QED
    BY SMT, <1>16, <1>9, <2>1
<1>18. left[3] = l3
  <2>1. left[3] = left[3 - 1] \div 16 /\ 3 - 1 = 2
    BY <1>2
  <2>2. QED
    BY SMT, <1>17, <1>10, <2>1
<1>19. left[4] = l4
  <2>1. left[4] = left[4 - 1] \div 16 /\ 4 - 1 = 3
    BY <1>2
  <2>2. QED
    BY SMT, <1>18, <1>11, <2>1
<1>20. left[5] = l5
  <2>1. left[5] = left[5 - 1] \div 16 /\ 5 - 1 = 4
    BY <1>2
  <2>2. QED
    BY SMT, <1>19, <1>12, <2>1
<1>21. left[6] = l6
  <2>1. left[6] = left[6 - 1] \div 16 /\ 6 - 1 = 5
    BY <1>2
  <2>2. QED
    BY SMT, <1>20, <1>13, <2>1
<1>22. left[7] = l7
  <2>1. left[7] = left[7 - 1] \div 16 /\ 7 - 1 = 6
    BY <1>2
  <2>2. QED
    BY SMT, <1>21, <1>14, <2>1
<1>23. left[8] = l8
  <2>1. left[8] = left[8 - 1] \div 16 /\ 8 - 1 = 7
    BY <1>2
  <2>2. QED
    BY SMT, <1>22, <1>15, <2>1
<1>24. left[8] = 0
  BY SMT, <1>15, <1>23
<1>25. \A k \in 0 .. 8 : left[k] \in Nat
  <2>1. \A k \in 0 .. 8 : k = 0 \/ k \in 1 .. 8
    OBVIOUS
  <2>2. \A k \in 1 .. 8 : \/ k = 1 \/ k = 2 \/ k = 3 \/ k = 4
                          \/ k = 5 \/ k = 6 \/ k = 7 \/ k = 8
    OBVIOUS
  <2>3. left[0] \in Nat /\ left[1] \in Nat /\ left[2] \in Nat /\ left[3] \in Nat /\ left[4] \in Nat /\ left[5] \in Nat /\ left[6] \in Nat /\ left[7] \in Nat /\ left[8] \in Nat
    BY SMT, <1>1, <1>2, <1>16, <1>17, <1>18, <1>19, <1>20, <1>21, <1>22, <1>23
  <2>4. QED
    BY <2>1, <2>2, <2>3
<1>26. c \in [1 .. 8 -> 0 .. 16 - 1]
  <2>1. ASSUME NEW k \in 1 .. 8 PROVE c[k] \in 0 .. 16 - 1
    <3>1. 8 - k \in 0 .. 8
      OBVIOUS
    <3>2. PICK l \in Nat : l = left[8 - k]
      BY <1>25, <3>1
    <3>3. l % 16 \in 0 .. 16 - 1
      OBVIOUS
    <3>4. QED
      BY <1>4, <3>2, <3>3, Zenon
  <2>2. QED
    BY <1>6, <2>1
<1>27. q \in [0 .. 8 -> Nat]
  <2>1. \A k \in 0 .. 8 : 8 - k \in 0 .. 8
    OBVIOUS
  <2>2. \A k \in 0 .. 8 : q[k] \in Nat
    BY <1>5, <1>25, <2>1, Zenon
  <2>3. QED
    BY <1>7, <2>2
<1>28. ASSUME NEW k \in 1 .. 8 PROVE q[k] = q[k - 1] * 16 + c[k]
  <2>1. 8 - k \in 0 .. 8 /\ 9 - k \in 1 .. 8 /\ (9 - k) - 1 = 8 - k /\ 8 - (k - 1) = 9 - k
        /\ k \in 0 .. 8 /\ k - 1 \in 0 .. 8
    OBVIOUS
  <2>2. PICK l \in Nat : l = left[8 - k]
    BY <1>25, <2>1
  <2>3. PICK m \in Int, r \in Int : m = l \div 16 /\ r = l % 16
    OBVIOUS
  <2>4. l = m * 16 + r
    BY <2>3
  <2>5. q[k] = l /\ c[k] = r
    BY <1>4, <1>5, <2>1, <2>2, <2>3, Zenon
  <2>6. q[k - 1] = m
    <3>1. q[k - 1] = left[9 - k]
      BY <1>5, <2>1, Zenon
    <3>2. left[9 - k] = left[(9 - k) - 1] \div 16
      BY <1>2, <2>1, Zenon
    <3>3. QED
      BY <2>1, <2>2, <2>3, <3>1, <3>2, Zenon
  <2>7. QED
    BY <2>4, <2>5, <2>6, Zenon
<1>29. q[0] = 0 /\ q[8] = word
  BY <1>2, <1>5, <1>24
<1>30. DigitsOf(8, 16, word, c, q)
  BY <1>26, <1>27, <1>28, <1>29, Zenon DEF DigitsOf
<1>31. [k \in 1 .. 8 |-> HexDigits[(left[8 - k] % 16) + 1]] = [k \in 1 .. 8 |-> HexDigits[c[k] + 1]]
  BY <1>4, Zenon
<1>32. QED
  BY <1>3, <1>30, <1>31, Zenon

\* A number as it is printed.
NumberText(t, base, value) ==
  /\ t \in Seq(Characters) /\ Len(t) \in 1 .. 10
  /\ \A k \in 1 .. Len(t) : t[k] \notin Separators
  /\ Denotes(t, base, value)

LEMMA LeastPlace ==
  ASSUME NEW S \in SUBSET (1 .. 10), 10 \in S
  PROVE  Min(S) \in S /\ \A k \in S : Min(S) <= k
<1>1. \E x \in S : \A y \in S : x <= y
  <2>1. SUFFICES ASSUME \A x \in S : \E y \in S : y < x
                 PROVE  FALSE
    OBVIOUS
  <2> DEFINE D == {k \in 0 .. 10 : \A j \in 1 .. k : j \notin S}
  <2>2. 0 \in D
    OBVIOUS
  <2>3. ASSUME NEW k \in 1 .. 10, k - 1 \in D PROVE k \in D
    <3>1. \A j \in 1 .. k - 1 : j \notin S
      BY <2>3
    <3>2. k \notin S
      <4>1. SUFFICES ASSUME k \in S PROVE FALSE
        OBVIOUS
      <4>2. PICK y \in S : y < k
        BY <2>1, <4>1
      <4>3. QED
        BY <3>1, <4>2
    <3>3. QED
      BY <3>1, <3>2
  <2>4. 10 \in D
    <3> HIDE DEF D
    <3> QED
      BY <2>2, <2>3, TenPlaces
  <2>5. QED
    BY <2>4
<1>2. QED
  BY <1>1, Zenon DEF Min

LEMMA DecText ==
  ASSUME NEW word \in PrintedWords
  PROVE  NumberText(ToDecWord(word), 10, word) /\ Len(DecBuffer(word)) = 10
<1>1. PICK c, q : /\ DigitsOf(10, 10, word, c, q)
                  /\ DecBuffer(word) = [k \in 1 .. 10 |-> HexDigits[c[k] + 1]]
  BY DecDigits
<1> DEFINE b == DecBuffer(word)
           S == {k \in DOMAIN b : b[k] # "0"} \union {Len(b)}
           m == Min(S)
           t == ToDecWord(word)
<1>2. \A k \in 1 .. 10 : c[k] \in 0 .. 9
  BY <1>1 DEF DigitsOf
<1>2a. /\ \A k \in 0 .. 10 : q[k] \in Nat
       /\ q[0] = 0 /\ q[10] = word
  BY <1>1 DEF DigitsOf
<1>2b. \A k \in 1 .. 10 : q[k] = q[k - 1] * 10 + c[k]
  BY <1>1 DEF DigitsOf
<1>3. \A k \in 1 .. 10 : b[k] = HexDigits[c[k] + 1]
  BY <1>1
<1>4. Len(b) = 10 /\ DOMAIN b = 1 .. 10
  <2> DEFINE H(k) == HexDigits[c[k] + 1]
  <2> HIDE DEF H
  <2>1. b = [k \in 1 .. 10 |-> H(k)]
    BY <1>1 DEF H
  <2>2. QED
    BY <2>1
<1>5. \A k \in 1 .. 10 : b[k] \in Plain \ Separators
  <2>1. \A k \in 1 .. 10 : c[k] + 1 \in 1 .. 16
    BY <1>2
  <2> HIDE DEF b
  <2>2. QED
    BY <1>3, <2>1, DigitsDiffer
<1>6. b \in Seq(Characters)
  <2>1. b = [k \in 1 .. 10 |-> b[k]]
    BY <1>1
  <2>2. \A k \in 1 .. 10 : b[k] \in Characters
    BY <1>5 DEF Characters
  <2> HIDE DEF b
  <2>3. QED
    BY <2>1, <2>2
<1>7. t = SubSeq(b, m, 10)
  <2>1. t = SubSeq(b, m, Len(b))
    BY Zenon DEF ToDecWord, Strcpy, FindFirstNonZeroDigit
  <2>2. QED
    BY <1>4, <2>1, Zenon
<1> HIDE DEF b, t
<1>8. m \in S /\ \A k \in S : m <= k
  <2>1. S \in SUBSET (1 .. 10) /\ 10 \in S
    BY <1>4
  <2> HIDE DEF S
  <2>2. QED
    BY <2>1, LeastPlace
<1>9. /\ m \in 1 .. 10
      /\ b[m] = "0" => m = 10
      /\ \A k \in 1 .. m - 1 : b[k] = "0"
  <2>1. m \in 1 .. 10 /\ (b[m] = "0" => m = 10)
    <3> HIDE DEF m
    <3> QED
      BY <1>4, <1>8
  <2>2. ASSUME NEW k \in 1 .. m - 1 PROVE b[k] = "0"
    <3> HIDE DEF m
    <3>1. k \in 1 .. 10 /\ ~ (m <= k)
      BY <2>1
    <3>2. QED
      BY <1>4, <1>8, <3>1
  <2>3. QED
    BY <2>1, <2>2
<1> HIDE DEF m, S
<1>10. \A k \in 0 .. m - 1 : q[k] = 0
  <2> DEFINE D == {k \in 0 .. m - 1 : q[k] = 0}
  <2>1. 0 \in D
    BY <1>2a, <1>9
  <2>2. ASSUME NEW k \in 1 .. m - 1, k - 1 \in D PROVE k \in D
    <3>1. k \in 1 .. 10
      BY <1>9
    <3>2. c[k] + 1 = 1
      <4>1. HexDigits[c[k] + 1] = HexDigits[1]
        BY <1>3, <1>9, <3>1, DigitsDiffer
      <4>2. c[k] + 1 \in 1 .. 16 /\ 1 \in 1 .. 16
        BY <1>2, <3>1
      <4>3. QED
        BY <4>1, <4>2, DigitsDiffer, Zenon
    <3>3. c[k] = 0
      BY <1>2, <3>1, <3>2
    <3>4. q[k - 1] = 0 /\ k \in 0 .. m - 1
      BY <2>2
    <3>5. q[k] = 0 * 10 + 0
      BY <1>2b, <3>1, <3>3, <3>4, Zenon
    <3>6. QED
      BY <3>4, <3>5
  <2>3. m - 1 \in 0 .. 10
    BY <1>9
  <2>4. \A k \in 0 .. m - 1 : k \in D
    <3> HIDE DEF D
    <3> QED
      BY <2>1, <2>2, <2>3, TenPlaces
  <2>5. QED
    BY <2>4
<1>11. /\ t \in Seq(Characters) /\ Len(t) = 11 - m
       /\ \A j \in 1 .. 11 - m : t[j] = b[m + j - 1]
  <2>1. m \in 1 .. Len(b) + 1 /\ 10 \in m - 1 .. Len(b)
    BY <1>4, <1>9
  <2>2. /\ t \in Seq(Characters) /\ Len(t) = 10 - m + 1
        /\ \A j \in 1 .. 10 - m + 1 : t[j] = b[m + j - 1]
    BY <1>6, <1>7, <2>1, SubSeqProperties
  <2>3. 10 - m + 1 = 11 - m
    BY <1>9
  <2>4. QED
    BY <2>2, <2>3, Zenon
<1>12. Len(t) \in 1 .. 10
  BY <1>9, <1>11
<1>13. ASSUME NEW j \in 1 .. Len(t)
       PROVE  /\ m + j - 1 \in 1 .. 10 /\ t[j] = HexDigits[c[m + j - 1] + 1]
              /\ t[j] \notin Separators
              /\ DigitOf(t[j]) = c[m + j - 1]
  <2>1. m + j - 1 \in 1 .. 10 /\ j \in 1 .. 11 - m
    BY <1>9, <1>11
  <2>2. t[j] = b[m + j - 1]
    BY <1>11, <2>1
  <2>3. t[j] = HexDigits[c[m + j - 1] + 1]
    BY <1>3, <2>1, <2>2
  <2>4. c[m + j - 1] \in 0 .. 15
    BY <1>2, <2>1, SMTT(30)
  <2>5. DigitOf(HexDigits[c[m + j - 1] + 1]) = c[m + j - 1]
    BY <2>4, DigitOfDigit
  <2>6. QED
    BY <1>5, <2>1, <2>2, <2>3, <2>5
<1>14. InBase(10, t) = word
  <2> DEFINE n == Len(t)
             r == [j \in 0 .. n |-> q[m + j - 1]]
  <2>1. n = 11 - m /\ n \in 1 .. 10
    BY <1>11, <1>12
  <2> HIDE DEF n
  <2>2. r \in [0 .. n -> Nat]
    <3>1. ASSUME NEW j \in 0 .. n PROVE q[m + j - 1] \in Nat
      <4>1. m + j - 1 \in 0 .. 10
        BY <1>9, <2>1
      <4>2. QED
        BY <1>2a, <4>1
    <3>2. QED
      BY <3>1
  <2>3. r[0] = 0 /\ r[n] = word
    <3>1. m + 0 - 1 \in 0 .. m - 1 /\ m + n - 1 = 10
      BY <1>9, <2>1
    <3>2. r[0] = q[m + 0 - 1] /\ r[n] = q[m + n - 1]
      BY <2>1
    <3>3. QED
      BY <1>2a, <1>10, <3>1, <3>2
  <2>4. ASSUME NEW k \in 1 .. n PROVE r[k] = r[k - 1] * 10 + DigitOf(t[k])
    <3>1. m + k - 1 \in 1 .. 10 /\ (m + k - 1) - 1 = m + (k - 1) - 1
      BY <1>9, <2>1
    <3>2. r[k] = q[m + k - 1] /\ r[k - 1] = q[m + (k - 1) - 1]
      BY <2>1
    <3>3. DigitOf(t[k]) = c[m + k - 1]
      BY <1>13 DEF n
    <3>4. q[m + k - 1] = q[(m + k - 1) - 1] * 10 + c[m + k - 1]
      BY <1>2b, <3>1, Zenon
    <3>5. QED
      BY <3>1, <3>2, <3>3, <3>4, Zenon
  <2> HIDE DEF r
  <2>5. n <= 10
    BY <2>1
  <2>6. InBase(10, t) = r[n]
    BY <1>11, <2>2, <2>3, <2>4, <2>5, InBaseOf DEF n
  <2>7. QED
    BY <2>3, <2>6
<1>15. Denotes(t, 10, word)
  <2>1. t # <<>>
    BY <1>11, <1>12
  <2>2. DOMAIN t = 1 .. Len(t)
    BY <1>11
  <2>3. ASSUME NEW k \in DOMAIN t PROVE \E n \in 1 .. 10 : t[k] = HexDigits[n]
    <3>1. t[k] = HexDigits[c[m + k - 1] + 1] /\ m + k - 1 \in 1 .. 10
      BY <1>13, <2>2, <2>3
    <3>2. c[m + k - 1] + 1 \in 1 .. 10
      BY <1>2, <3>1
    <3>3. QED
      BY <3>1, <3>2
  <2>4. Head(t) = "0" => Len(t) = 1
    <3>1. Head(t) = b[m]
      BY <1>9, <1>11, <1>12
    <3>2. QED
      BY <1>9, <1>11, <3>1
  <2>5. 10 # 16
    OBVIOUS
  <2>6. QED
    BY <1>14, <2>1, <2>3, <2>4, <2>5, Zenon DEF Denotes
<1>16. QED
  BY <1>4, <1>11, <1>12, <1>13, <1>15, Zenon DEF NumberText, b, t

LEMMA Regrouping ==
  ASSUME NEW s \in Seq(Characters), NEW t \in Seq(Characters), NEW u \in Seq(Characters)
  PROVE  (s \o t) \o u = s \o (t \o u)
  BY ConcatAssociative

\* What a concatenation holds.
LEMMA Joining ==
  ASSUME NEW s \in Seq(Characters), NEW t \in Seq(Characters)
  PROVE  /\ s \o t \in Seq(Characters) /\ Len(s \o t) = Len(s) + Len(t)
         /\ Len(s) \in Nat /\ Len(t) \in Nat
         /\ \A k \in 1 .. Len(s) : (s \o t)[k] = s[k]
         /\ \A k \in 1 .. Len(t) : (s \o t)[Len(s) + k] = t[k]
  OBVIOUS

LEMMA HexText ==
  ASSUME NEW word \in PrintedWords
  PROVE  NumberText(ToHexString(word, 4), 16, word) /\ Len(ToHexString(word, 4)) = 10
<1>1. PICK c, q : /\ DigitsOf(8, 16, word, c, q)
                  /\ ToHexString(word, 4) = <<"0", "x">> \o [k \in 1 .. 8 |-> HexDigits[c[k] + 1]]
  BY HexNibbles
<1> DEFINE p == <<"0", "x">>
           h == [k \in 1 .. 8 |-> HexDigits[c[k] + 1]]
           t == ToHexString(word, 4)
<1>2. \A k \in 1 .. 8 : c[k] \in 0 .. 16 - 1
  BY <1>1 DEF DigitsOf
<1>3. q \in [0 .. 8 -> Nat] /\ q[0] = 0 /\ q[8] = word
  BY <1>1 DEF DigitsOf
<1>4. \A k \in 1 .. 8 : q[k] = q[k - 1] * 16 + c[k]
  BY <1>1 DEF DigitsOf
<1>5. \A k \in 1 .. 8 : h[k] = HexDigits[c[k] + 1]
  OBVIOUS
<1>6. \A k \in 1 .. 8 : c[k] + 1 \in 1 .. 16
  BY <1>2
<1>7. \A k \in 1 .. 8 : h[k] \in Plain \ Separators /\ DigitOf(h[k]) = c[k]
  <2>1. ASSUME NEW k \in 1 .. 8 PROVE DigitOf(HexDigits[c[k] + 1]) = c[k]
    <3>1. c[k] \in 0 .. 15
      BY <1>2
    <3>2. QED
      BY <3>1, DigitOfDigit
  <2>2. \A k \in 1 .. 8 : HexDigits[c[k] + 1] \in Plain \ Separators
    BY <1>6, DigitsDiffer
  <2> HIDE DEF h
  <2>3. QED
    BY <1>5, <2>1, <2>2
<1>8. h \in Seq(Characters) /\ Len(h) = 8
  <2>1. h = [k \in 1 .. 8 |-> h[k]]
    OBVIOUS
  <2>2. \A k \in 1 .. 8 : h[k] \in Characters
    BY <1>7 DEF Characters
  <2> HIDE DEF h
  <2>3. QED
    BY <2>1, <2>2
<1>9. p \in Seq(Characters) /\ Len(p) = 2 /\ p[1] = "0" /\ p[2] = "x"
      /\ \A k \in 1 .. 2 : p[k] \notin Separators
  BY DEF Characters, Plain, Separators, Nul
<1>10. t = p \o h
  BY <1>1
<1> HIDE DEF p, h, t
<1>11. /\ t \in Seq(Characters) /\ Len(t) = 10
       /\ t[1] = "0" /\ t[2] = "x"
       /\ \A k \in 1 .. 8 : t[2 + k] = h[k]
  <2>1. /\ p \o h \in Seq(Characters) /\ Len(p \o h) = 2 + 8
        /\ \A k \in 1 .. 2 : (p \o h)[k] = p[k]
        /\ \A k \in 1 .. 8 : (p \o h)[2 + k] = h[k]
    <3>1. /\ p \o h \in Seq(Characters) /\ Len(p \o h) = Len(p) + Len(h)
          /\ \A k \in 1 .. Len(p) : (p \o h)[k] = p[k]
          /\ \A k \in 1 .. Len(h) : (p \o h)[Len(p) + k] = h[k]
      BY <1>8, <1>9, Joining, Zenon
    <3>2. QED
      BY <1>8, <1>9, <3>1, Zenon
  <2>2. 1 \in 1 .. 2 /\ 2 \in 1 .. 2 /\ 2 + 8 = 10
    OBVIOUS
  <2>3. QED
    BY <1>9, <1>10, <2>1, <2>2, Zenon
<1>12. \A k \in 1 .. 10 : t[k] \notin Separators
  <2>1. ASSUME NEW k \in 1 .. 10 PROVE t[k] \notin Separators
    <3>1. CASE k \in 1 .. 2
      BY <1>9, <1>11, <3>1
    <3>2. CASE k \in 3 .. 10
      <4>1. k - 2 \in 1 .. 8 /\ 2 + (k - 2) = k
        BY <3>2
      <4>2. t[k] = h[k - 2]
        BY <1>11, <4>1
      <4>3. QED
        BY <1>7, <4>1, <4>2
    <3>3. QED
      BY <3>1, <3>2
  <2>2. QED
    BY <2>1
<1>12a. \A k \in 1 .. 10 : t[k] \in Characters
  <2>1. 1 .. Len(t) = 1 .. 10
    BY <1>11, Zenon
  <2>2. \A k \in 1 .. Len(t) : t[k] \in Characters
    BY <1>11, ElementOfSeq
  <2>3. QED
    BY <2>1, <2>2, Zenon
<1>13. SubSeq(t, 3, Len(t)) = h
  <2> DEFINE u == SubSeq(t, 3, 10)
  <2>1. \A k \in 3 .. 10 : t[k] \in Characters
    BY <1>12a
  <2>2. /\ u \in Seq(Characters)
        /\ Len(u) = IF 3 <= 10 THEN 10 - 3 + 1 ELSE 0
        /\ \A k \in 1 .. 10 - 3 + 1 : u[k] = t[3 + k - 1]
    BY <2>1, SubSeqProperties
  <2> HIDE DEF u
  <2>3. /\ u \in Seq(Characters) /\ Len(u) = 8
        /\ \A k \in 1 .. 8 : u[k] = t[2 + k]
    <3>1. \A k \in 1 .. 8 : 3 + k - 1 = 2 + k
      OBVIOUS
    <3>2. Len(u) = 8 /\ 10 - 3 + 1 = 8
      BY <2>2
    <3>3. QED
      BY <2>2, <3>1, <3>2, Zenon
  <2>4. u = h
    <3>1. \A k \in 1 .. 8 : u[k] = h[k]
      BY <1>11, <2>3, Zenon
    <3>2. Len(u) = Len(h) /\ 1 .. Len(u) = 1 .. 8
      BY <1>8, <2>3, Zenon
    <3>3. \A k \in 1 .. Len(u) : u[k] = h[k]
      BY <3>1, <3>2, Zenon
    <3>4. QED
      BY <1>8, <2>3, <3>2, <3>3, SeqEqual
  <2>5. QED
    BY <1>11, <2>4 DEF u
<1>14. SubSeq(t, 1, 2) = <<"0", "x">>
  <2> DEFINE u == SubSeq(t, 1, 2)
  <2>1. \A k \in 1 .. 2 : t[k] \in Characters
    BY <1>12a
  <2>2. /\ u \in Seq(Characters)
        /\ Len(u) = IF 1 <= 2 THEN 2 - 1 + 1 ELSE 0
        /\ \A k \in 1 .. 2 - 1 + 1 : u[k] = t[1 + k - 1]
    BY <2>1, SubSeqProperties
  <2> HIDE DEF u
  <2>3. Len(u) = 2 /\ u[1] = t[1] /\ u[2] = t[2]
    BY <2>2
  <2>4. u = p
    BY <1>9, <1>11, <2>2, <2>3
  <2>5. QED
    BY <2>4 DEF u, p
<1>15. InBase(16, h) = word
  <2> DEFINE n == Len(h)
  <2>1. n = 8
    BY <1>8
  <2> HIDE DEF n
  <2>2. q \in [0 .. n -> Nat] /\ q[0] = 0 /\ n <= 10
    BY <1>3, <2>1
  <2>3. \A k \in 1 .. n : q[k] = q[k - 1] * 16 + DigitOf(h[k])
    BY <1>4, <1>7, <2>1, Zenon
  <2>4. InBase(16, h) = q[n]
    BY <1>8, <2>2, <2>3, InBaseOf, ZenonT(60) DEF n
  <2>5. QED
    BY <1>3, <2>1, <2>4
<1>16. Denotes(t, 16, word)
  <2>1. h # <<>> /\ DOMAIN h = 1 .. 8
    BY <1>8
  <2>2. \A k \in DOMAIN h : \E n \in 1 .. 16 : h[k] = HexDigits[n]
    BY <1>5, <1>6, <2>1, Zenon
  <2>3. QED
    BY <1>8, <1>13, <1>14, <1>15, <2>1, <2>2, Zenon DEF Denotes
<1>17. QED
  BY <1>11, <1>12, <1>16, SMTT(30) DEF NumberText, t

-----------------------------------------------------------------------------
(* Lines. *)

LEMMA PrefixOf ==
  ASSUME NEW s \in Seq(Characters), NEW t \in Seq(Characters)
  PROVE  IsPrefix(s, s \o t)
<1> DEFINE u == s \o t
           n == Len(s)
<1>1. /\ u \in Seq(Characters) /\ Len(u) = n + Len(t) /\ n \in Nat /\ Len(t) \in Nat
      /\ \A k \in 1 .. n : u[k] = s[k]
  BY Joining
<1>2. \A k \in 1 .. n : s[k] \in Characters /\ u[k] \in Characters
  BY <1>1, ElementOfSeq
<1> HIDE DEF u, n
<1>3. /\ SubSeq(s, 1, n) \in Seq(Characters) /\ Len(SubSeq(s, 1, n)) = n
      /\ \A k \in 1 .. n : SubSeq(s, 1, n)[k] = s[k]
  BY <1>1, <1>2, SubSeqProperties
<1>4. /\ SubSeq(u, 1, n) \in Seq(Characters) /\ Len(SubSeq(u, 1, n)) = n
      /\ \A k \in 1 .. n : SubSeq(u, 1, n)[k] = u[k]
  BY <1>1, <1>2, SubSeqProperties
<1>5. SubSeq(s, 1, n) = SubSeq(u, 1, n)
  <2> DEFINE a == SubSeq(s, 1, n)
             b == SubSeq(u, 1, n)
  <2>1. a \in Seq(Characters) /\ b \in Seq(Characters) /\ Len(a) = Len(b)
        /\ \A k \in 1 .. Len(a) : a[k] = b[k]
    BY <1>1, <1>3, <1>4
  <2> HIDE DEF a, b
  <2>2. a = b
    BY <2>1, SeqEqual
  <2>3. QED
    BY <2>2 DEF a, b
<1>6. n <= Len(u)
  BY <1>1
<1>7. QED
  BY <1>5, <1>6, Zenon DEF IsPrefix, u, n

LEMMA SuffixOf ==
  ASSUME NEW s \in Seq(Characters), NEW t \in Seq(Characters)
  PROVE  IsSuffix(t, s \o t)
<1> DEFINE u == s \o t
           r == Reverse(t)
           v == Reverse(u)
           w == Reverse(s)
<1>1. /\ u \in Seq(Characters) /\ Len(u) = Len(s) + Len(t) /\ Len(s) \in Nat /\ Len(t) \in Nat
      /\ \A k \in 1 .. Len(s) : u[k] = s[k]
      /\ \A k \in 1 .. Len(t) : u[Len(s) + k] = t[k]
  BY Joining
<1>2. \A x \in Seq(Characters) :
        /\ Reverse(x) \in Seq(Characters) /\ Len(Reverse(x)) = Len(x)
        /\ \A k \in 1 .. Len(x) : Reverse(x)[k] = x[(Len(x) - k) + 1]
  BY DEF Reverse
<1>3. v = r \o w
  <2> HIDE DEF u
  <2>1. /\ r \o w \in Seq(Characters) /\ Len(r \o w) = Len(t) + Len(s)
        /\ \A k \in 1 .. Len(t) : (r \o w)[k] = r[k]
        /\ \A k \in 1 .. Len(s) : (r \o w)[Len(t) + k] = w[k]
    <3>1. /\ r \in Seq(Characters) /\ w \in Seq(Characters) /\ Len(r) = Len(t) /\ Len(w) = Len(s)
      BY <1>2
    <3> HIDE DEF r, w
    <3>2. /\ r \o w \in Seq(Characters) /\ Len(r \o w) = Len(r) + Len(w)
          /\ \A k \in 1 .. Len(r) : (r \o w)[k] = r[k]
          /\ \A k \in 1 .. Len(w) : (r \o w)[Len(r) + k] = w[k]
      BY <3>1, Joining, Zenon
    <3>3. QED
      BY <3>1, <3>2, Zenon
  <2>2. v \in Seq(Characters) /\ Len(v) = Len(s) + Len(t)
    BY <1>1, <1>2
  <2>3. ASSUME NEW k \in 1 .. Len(v) PROVE v[k] = (r \o w)[k]
    <3>1. k \in 1 .. Len(s) + Len(t)
      BY <2>2
    <3>2. v[k] = u[(Len(u) - k) + 1]
      BY <1>1, <1>2, <3>1
    <3>3. CASE k \in 1 .. Len(t)
      <4>1. (r \o w)[k] = t[(Len(t) - k) + 1]
        BY <1>2, <2>1, <3>3
      <4>2. (Len(u) - k) + 1 = Len(s) + ((Len(t) - k) + 1) /\ (Len(t) - k) + 1 \in 1 .. Len(t)
        BY <1>1, <3>3
      <4>3. u[Len(s) + ((Len(t) - k) + 1)] = t[(Len(t) - k) + 1]
        BY <1>1, <4>2, Zenon
      <4>4. QED
        BY <3>2, <4>1, <4>2, <4>3, Zenon
    <3>4. CASE k \in Len(t) + 1 .. Len(s) + Len(t)
      <4> DEFINE j == k - Len(t)
      <4>1. j \in 1 .. Len(s) /\ Len(t) + j = k
        BY <1>1, <3>4
      <4>2. (r \o w)[k] = w[j]
        BY <2>1, <4>1, Zenon
      <4>3. w[j] = s[(Len(s) - j) + 1]
        BY <1>2, <4>1
      <4>4. (Len(u) - k) + 1 = (Len(s) - j) + 1 /\ (Len(s) - j) + 1 \in 1 .. Len(s)
        BY <1>1, <4>1
      <4>5. u[(Len(s) - j) + 1] = s[(Len(s) - j) + 1]
        BY <1>1, <4>4, Zenon
      <4>6. QED
        BY <3>2, <4>2, <4>3, <4>4, <4>5, Zenon
    <3>5. k \in 1 .. Len(t) \/ k \in Len(t) + 1 .. Len(s) + Len(t)
      BY <1>1, <3>1
    <3>6. QED
      BY <3>3, <3>4, <3>5
  <2> DEFINE x == r \o w
  <2>4. x \in Seq(Characters) /\ Len(x) = Len(v) /\ \A k \in 1 .. Len(v) : v[k] = x[k]
    BY <1>1, <2>1, <2>2, <2>3
  <2> HIDE DEF x, v
  <2>5. v = x
    BY <2>2, <2>4, SeqEqual
  <2>6. QED
    BY <2>5 DEF x
<1>4. r \in Seq(Characters) /\ w \in Seq(Characters)
  BY <1>2
<1>5. IsPrefix(r, r \o w)
  <2> HIDE DEF r, w
  <2> QED
    BY <1>4, PrefixOf
<1>6. QED
  BY <1>3, <1>5, Zenon DEF IsSuffix

\* The line of a text is shown, whole, and its text is what comes before its end.
LEMMA Showing ==
  ASSUME NEW text \in Seq(Characters), sent = UartWrite(text \o <<"\n">>)
  PROVE  /\ Shown = text \o <<"\n">> /\ Front(Shown) = text
         /\ Last(sent) = Nul /\ Last(Shown) = "\n"
<1> DEFINE line == text \o <<"\n">>
           n    == Len(text)
<1>1. <<"\n">> \in Seq(Characters) /\ Len(<<"\n">>) = 1 /\ <<"\n">>[1] = "\n"
  <2>1. "\n" \in Characters
    BY DEF Characters, Separators
  <2>2. QED
    BY <2>1
<1>2. /\ line \in Seq(Characters) /\ Len(line) = n + 1 /\ n \in Nat
      /\ \A k \in 1 .. n : line[k] = text[k]
      /\ line[n + 1] = "\n"
  <2> DEFINE e == <<"\n">>
  <2>1. e \in Seq(Characters) /\ Len(e) = 1 /\ e[1] = "\n"
    BY <1>1
  <2> HIDE DEF e
  <2>2. /\ text \o e \in Seq(Characters) /\ Len(text \o e) = Len(text) + Len(e) /\ Len(text) \in Nat
        /\ \A k \in 1 .. Len(text) : (text \o e)[k] = text[k]
        /\ \A k \in 1 .. Len(e) : (text \o e)[Len(text) + k] = e[k]
    BY <2>1, Joining, Zenon
  <2>3. 1 \in 1 .. 1
    OBVIOUS
  <2>4. QED
    BY <2>1, <2>2, <2>3, Zenon DEF e
<1> HIDE DEF line, n
<1>3. Nul \in Characters
  BY DEF Characters, Separators
<1>4. /\ sent \in Seq(Characters) /\ Len(sent) = n + 2
      /\ \A k \in 1 .. n + 1 : sent[k] = line[k]
      /\ sent[n + 2] = Nul
  <2>1. sent = Append(line, Nul)
    BY Zenon DEF UartWrite, line
  <2>2. /\ sent \in Seq(Characters) /\ Len(sent) = Len(line) + 1
        /\ \A k \in 1 .. Len(line) : sent[k] = line[k]
        /\ sent[Len(line) + 1] = Nul
    <3> DEFINE a == Append(line, Nul)
    <3>1. line \in Seq(Characters)
      BY <1>2, Zenon
    <3>2. /\ a \in Seq(Characters) /\ Len(a) = Len(line) + 1
          /\ \A k \in 1 .. Len(line) : a[k] = line[k]
          /\ a[Len(line) + 1] = Nul
      BY <1>3, <3>1, AppendProperties
    <3>3. sent = a
      BY <2>1, Zenon
    <3> HIDE DEF a
    <3>4. QED
      BY <3>2, <3>3, Zenon
  <2>3. (n + 1) + 1 = n + 2
    BY <1>2
  <2>4. QED
    BY <1>2, <2>2, <2>3, Zenon
<1>5. Shown = line
  <2> DEFINE f == SubSeq(sent, 1, n + 1)
  <2>1. \A k \in 1 .. n + 1 : sent[k] \in Characters
    BY <1>2, <1>4, ElementOfSeq
  <2>2. f \in Seq(Characters) /\ Len(f) = n + 1 /\ \A k \in 1 .. n + 1 : f[k] = sent[k]
    BY <1>2, <2>1, SubSeqProperties
  <2>3. Shown = f
    <3>1. Len(sent) - 1 = n + 1
      BY <1>2, <1>4
    <3>2. QED
      BY <3>1, Zenon DEF Shown, Front
  <2> HIDE DEF f
  <2>4. Len(f) = Len(line) /\ \A k \in 1 .. Len(f) : f[k] = line[k]
    BY <1>2, <1>4, <2>2
  <2>5. QED
    BY <1>2, <2>2, <2>3, <2>4, SeqEqual
<1>6. Front(line) = text
  <2> DEFINE f == SubSeq(line, 1, n)
  <2>1. \A k \in 1 .. n : line[k] \in Characters
    BY <1>2, ElementOfSeq
  <2>2. f \in Seq(Characters) /\ Len(f) = n /\ \A k \in 1 .. n : f[k] = line[k]
    BY <1>2, <2>1, SubSeqProperties
  <2>3. Front(line) = f
    <3>1. Len(line) - 1 = n
      BY <1>2
    <3>2. QED
      BY <3>1, Zenon DEF Front
  <2> HIDE DEF f
  <2>4. Len(f) = Len(text) /\ \A k \in 1 .. Len(f) : f[k] = text[k]
    BY <1>2, <2>2 DEF n
  <2>5. f = text
    BY <2>2, <2>4, SeqEqual
  <2>6. QED
    BY <2>3, <2>5
<1>7. Last(sent) = Nul /\ Last(line) = "\n"
  BY <1>2, <1>4, Zenon DEF Last
<1>8. QED
  BY <1>5, <1>6, <1>7, Zenon DEF line

\* What stands between two spaces, or the ends of the line, is a field.
LEMMA FieldBetween ==
  ASSUME NEW text, NEW h \in Nat, NEW k \in Nat
  PROVE  /\ text \in Seq(Characters) /\ Front(Shown) = text
         /\ h < k /\ k <= Len(text) + 1
         /\ h = 0 \/ text[h] = " "
         /\ k = Len(text) + 1 \/ text[k] = " "
         /\ \A j \in h + 1 .. k - 1 : text[j] # " "
         => SubSeq(text, h + 1, k - 1) \in Fields
<1> DEFINE n == Len(text)
<1>0. SUFFICES ASSUME text \in Seq(Characters), Front(Shown) = text,
                      h < k, k <= n + 1,
                      h = 0 \/ text[h] = " ",
                      k = n + 1 \/ text[k] = " ",
                      \A j \in h + 1 .. k - 1 : text[j] # " "
               PROVE  SubSeq(text, h + 1, k - 1) \in Fields
  OBVIOUS
<1>0a. n \in Nat /\ h < k /\ k <= n + 1
  BY <1>0, LenProperties
<1> DEFINE ends      == {j \in DOMAIN text : text[j] = " "} \union {Len(text) + 1}
           Before(m) == {j \in ends : j < m} \union {0}
<1>1. Fields = {SubSeq(text, Max(Before(m)) + 1, m - 1) : m \in ends}
  BY <1>0, Zenon DEF Fields
<1>2. DOMAIN text = 1 .. n
  BY <1>0, LenProperties
<1>3. \A j : j \in ends <=> (j \in 1 .. n /\ text[j] = " ") \/ j = n + 1
  BY <1>2
<1>4. \A j : j \in Before(k) <=> (j \in ends /\ j < k) \/ j = 0
  OBVIOUS
<1> HIDE DEF ends, Before, n
<1>5. k \in ends
  <2>1. k \in 1 .. n \/ k = n + 1
    BY <1>0a
  <2>2. QED
    BY <1>0, <1>3, <2>1, Zenon
<1>6. h \in Before(k)
  <2>1. CASE h = 0
    BY <1>4, <2>1, Zenon
  <2>2. CASE h # 0
    <3>1. h \in 1 .. n /\ h < k
      BY <1>0a, <2>2
    <3>2. QED
      BY <1>0, <1>3, <1>4, <2>2, <3>1, Zenon
  <2>3. QED
    BY <2>1, <2>2
<1>7. ASSUME NEW j \in Before(k) PROVE j \in Nat /\ j <= h
  <2>1. CASE j = 0
    BY <2>1
  <2>2. CASE j \in ends /\ j < k
    <3>1. (j \in 1 .. n /\ text[j] = " ") \/ j = n + 1
      BY <1>3, <2>2, Zenon
    <3>2. j # n + 1
      BY <1>0a, <2>2
    <3>3. j \in 1 .. n /\ text[j] = " "
      BY <3>1, <3>2, Zenon
    <3>4. ~ (j \in h + 1 .. k - 1)
      BY <1>0, <3>3, Zenon
    <3>5. j \in Nat
      <4>1. j \in 1 .. n
        BY <3>3, Zenon
      <4>2. QED
        BY <4>1
    <3>6. QED
      BY <2>2, <3>4, <3>5
  <2>3. QED
    BY <1>4, <2>1, <2>2, Zenon
<1>8. Max(Before(k)) = h
  <2> DEFINE B == Before(k)
             m == Max(B)
  <2>1. h \in B /\ \A j \in B : j \in Nat /\ j <= h
    BY <1>6, <1>7
  <2> HIDE DEF B
  <2>2. m \in B /\ \A y \in B : m >= y
    <3>1. \E x \in B : \A y \in B : x >= y
      BY <2>1
    <3>2. QED
      BY <3>1, Zenon DEF Max
  <2> HIDE DEF m
  <2>3. m \in Nat /\ m <= h /\ m >= h
    BY <2>1, <2>2
  <2>4. m = h
    BY <2>3
  <2>5. QED
    BY <2>4 DEF B, m
<1>9. QED
  BY <1>1, <1>5, <1>8, Zenon

\* The stretch of a sequence that is a given sequence.
LEMMA Stretch ==
  ASSUME NEW s \in Seq(Characters), NEW t \in Seq(Characters), NEW m \in Nat, NEW n \in Nat
  PROVE  /\ n = m + Len(t) /\ n <= Len(s)
         /\ \A k \in 1 .. Len(t) : s[m + k] = t[k]
         => SubSeq(s, m + 1, n) = t
<1> DEFINE u == SubSeq(s, m + 1, n)
           l == Len(t)
<1>1. SUFFICES ASSUME n = m + l, n <= Len(s), \A k \in 1 .. l : s[m + k] = t[k]
               PROVE  u = t
  OBVIOUS
<1>2. l \in Nat /\ Len(s) \in Nat
  BY LenProperties
<1>3. \A k \in m + 1 .. n : s[k] \in Characters
  <2>1. \A k \in m + 1 .. n : k \in 1 .. Len(s)
    BY <1>1, <1>2
  <2>2. \A k \in 1 .. Len(s) : s[k] \in Characters
    BY ElementOfSeq
  <2>3. QED
    BY <2>1, <2>2, Zenon
<1> HIDE DEF l
<1>4. /\ u \in Seq(Characters)
      /\ Len(u) = IF m + 1 <= n THEN n - (m + 1) + 1 ELSE 0
      /\ \A k \in 1 .. n - (m + 1) + 1 : u[k] = s[(m + 1) + k - 1]
  <2>1. m + 1 \in Int /\ n \in Int
    OBVIOUS
  <2>2. QED
    BY <1>3, <2>1, SubSeqProperties
<1> HIDE DEF u
<1>5. n - (m + 1) + 1 = l /\ (IF m + 1 <= n THEN n - (m + 1) + 1 ELSE 0) = l
  BY <1>1, <1>2
<1>6. ASSUME NEW k \in 1 .. l PROVE u[k] = t[k]
  <2>1. (m + 1) + k - 1 = m + k
    BY <1>2
  <2>2. QED
    BY <1>1, <1>4, <1>5, <2>1, Zenon
<1>7. Len(u) = l
  BY <1>4, <1>5, Zenon
<1>8. QED
  BY <1>4, <1>6, <1>7, SeqEqual DEF l

TextOf(base, value) == IF base = 10 THEN ToDecWord(value) ELSE ToHexString(value, 4)

LEMMA TextIsNumber ==
  ASSUME NEW base \in {10, 16}, NEW value \in PrintedWords
  PROVE  NumberText(TextOf(base, value), base, value)
  BY DecText, HexText DEF TextOf

\* What stands before the value.
HeadText(head) ==
  /\ head \in Seq(Characters)
  /\ \A k \in 1 .. Len(head) : head[k] \notin {"\n", Nul}
  /\ Len(head) = 0 \/ head[Len(head)] = " "

\* Whatever stands before it, the value is read back.
LEMMA ValueReadsBack ==
  ASSUME NEW head, NEW base \in {10, 16}, NEW value \in PrintedWords, HeadText(head),
         sent = UartWrite((head \o TextOf(base, value)) \o <<"\n">>)
  PROVE  /\ Last(sent) = Nul /\ Last(Shown) = "\n"
         /\ \A k \in 1 .. Len(Shown) - 1 : Shown[k] \notin {"\n", Nul}
         /\ \E f \in Fields : Denotes(f, base, value) /\ IsSuffix(Append(f, "\n"), Shown)
<1> DEFINE v    == TextOf(base, value)
           text == head \o v
           e    == <<"\n">>
<1>1. /\ v \in Seq(Characters) /\ Len(v) \in 1 .. 10
      /\ \A k \in 1 .. Len(v) : v[k] \notin Separators
      /\ Denotes(v, base, value)
  BY TextIsNumber, Zenon DEF NumberText
<1>2. /\ head \in Seq(Characters)
      /\ \A k \in 1 .. Len(head) : head[k] \notin {"\n", Nul}
      /\ Len(head) = 0 \/ head[Len(head)] = " "
  BY Zenon DEF HeadText
<1>3. e \in Seq(Characters) /\ Len(e) = 1
  <2>1. "\n" \in Characters
    BY DEF Characters, Separators
  <2>2. QED
    BY <2>1
<1>4. sent = UartWrite(text \o e)
  OBVIOUS
<1> HIDE DEF v, e
<1>5. /\ text \in Seq(Characters) /\ Len(text) = Len(head) + Len(v)
      /\ Len(head) \in Nat /\ Len(v) \in Nat
      /\ \A k \in 1 .. Len(head) : text[k] = head[k]
      /\ \A k \in 1 .. Len(v) : text[Len(head) + k] = v[k]
  BY <1>1, <1>2, Joining
<1> HIDE DEF text
<1>6. /\ Shown = text \o e /\ Front(Shown) = text
      /\ Last(sent) = Nul /\ Last(Shown) = "\n"
  BY <1>4, <1>5, Showing, Zenon DEF e
<1> DEFINE h == Len(head)
           n == Len(v)
<1>7. h \in Nat /\ n \in Nat /\ n >= 1 /\ Len(text) = h + n
  <2>1. n \in 1 .. 10
    BY <1>1, Zenon
  <2>2. n >= 1
    <3> HIDE DEF n
    <3> QED
      BY <2>1
  <2>3. QED
    BY <1>5, <2>2, Zenon
<1>8. \A k \in 1 .. h : text[k] = head[k]
  BY <1>5
<1>9. \A k \in 1 .. n : text[h + k] = v[k]
  BY <1>5
<1>10. ASSUME NEW k \in 1 .. Len(Shown) - 1 PROVE Shown[k] \notin {"\n", Nul}
  <2> HIDE DEF h, n
  <2>1. /\ Len(Shown) = Len(text) + 1
        /\ \A j \in 1 .. Len(text) : Shown[j] = text[j]
    <3>1. /\ Len(text \o e) = Len(text) + Len(e)
          /\ \A j \in 1 .. Len(text) : (text \o e)[j] = text[j]
      BY <1>3, <1>5, Joining, Zenon
    <3>2. QED
      BY <1>3, <1>6, <3>1, Zenon
  <2>2. k \in 1 .. h + n
    BY <1>7, <2>1
  <2>3. k \in 1 .. Len(text)
    BY <1>7, <2>2, Zenon
  <2>4. Shown[k] = text[k]
    BY <2>1, <2>3, Zenon
  <2>5. CASE k \in 1 .. h
    BY <1>2, <1>8, <2>4, <2>5, Zenon DEF h
  <2>6. CASE k \in h + 1 .. h + n
    <3>1. k - h \in 1 .. n /\ h + (k - h) = k
      BY <1>7, <2>6
    <3>2. text[k] = v[k - h]
      BY <1>9, <3>1, Zenon
    <3>3. v[k - h] \notin Separators
      BY <1>1, <3>1, Zenon DEF n
    <3>4. QED
      BY <2>4, <3>2, <3>3 DEF Separators
  <2>7. k \in 1 .. h \/ k \in h + 1 .. h + n
    BY <1>7, <2>2
  <2>8. QED
    BY <2>5, <2>6, <2>7
<1>11. v \in Fields
  <2> HIDE DEF h, n
  <2>1. SubSeq(text, h + 1, h + n) = v
    <3>1. h + n = h + Len(v) /\ h + n <= Len(text) /\ h + n \in Nat
      BY <1>7 DEF n
    <3>2. \A k \in 1 .. Len(v) : text[h + k] = v[k]
      BY <1>9 DEF n
    <3>3. QED
      BY <1>1, <1>5, <1>7, <3>1, <3>2, Stretch
  <2>2. h = 0 \/ text[h] = " "
    <3>1. CASE h = 0
      BY <3>1
    <3>2. CASE h # 0
      <4>1. h \in 1 .. h
        BY <1>7, <3>2
      <4>2. QED
        BY <1>2, <1>8, <3>2, <4>1, Zenon DEF h
    <3>3. QED
      BY <3>1, <3>2
  <2>3. ASSUME NEW j \in h + 1 .. (h + n + 1) - 1 PROVE text[j] # " "
    <3>1. j - h \in 1 .. n /\ h + (j - h) = j
      BY <1>7
    <3>2. text[j] = v[j - h]
      BY <1>9, <3>1, Zenon
    <3>3. v[j - h] \notin Separators
      BY <1>1, <3>1, Zenon DEF n
    <3>4. QED
      BY <3>2, <3>3 DEF Separators
  <2> DEFINE k == h + n + 1
  <2>4. k \in Nat /\ h < k /\ k = Len(text) + 1 /\ k <= Len(text) + 1 /\ k - 1 = h + n
    BY <1>7
  <2>5. \A j \in h + 1 .. k - 1 : text[j] # " "
    BY <2>3
  <2> HIDE DEF k
  <2>6. SubSeq(text, h + 1, k - 1) \in Fields
    BY <1>5, <1>6, <1>7, <2>2, <2>4, <2>5, FieldBetween
  <2>7. QED
    BY <2>1, <2>4, <2>6
<1>12. IsSuffix(Append(v, "\n"), Shown)
  <2>1. Append(v, "\n") = v \o e
    BY <1>1 DEF e
  <2>2. Shown = head \o (v \o e)
    <3>1. head \in Seq(Characters) /\ v \in Seq(Characters) /\ e \in Seq(Characters)
      BY <1>1, <1>2, <1>3, Zenon
    <3>2. (head \o v) \o e = head \o (v \o e)
      BY <3>1, ConcatAssociative
    <3>3. QED
      BY <1>6, <3>2, Zenon DEF text
  <2>3. v \o e \in Seq(Characters)
    BY <1>1, <1>3, Joining
  <2>4. IsSuffix(v \o e, head \o (v \o e))
    BY <1>2, <2>3, SuffixOf
  <2>5. QED
    BY <2>1, <2>2, <2>4, Zenon
<1>13. QED
  BY <1>1, <1>6, <1>10, <1>11, <1>12

-----------------------------------------------------------------------------
(* The lines that are printed. *)

NamedHead(name) == name \o <<":", " ">>

OpenHead(name) == name \o <<" ", "(">>

NamedAtHead(name, address) ==
  (OpenHead(name) \o ToHexString(address, 4)) \o <<")", ":", " ">>

LEMMA NamesAreText ==
  ASSUME NEW name \in Names
  PROVE  /\ name \in Seq(Characters) /\ Len(name) \in Nat
         /\ \A k \in 1 .. Len(name) : name[k] \notin {"\n", Nul}
         /\ Len(name) + 27 <= BufferSize
<1>1. name \in Seq(STRING) /\ Len(name) + 27 <= BufferSize
      /\ \A k \in DOMAIN name : name[k] \notin {"\n", Nul}
  BY NamesAssumption, Zenon
<1>2. Len(name) \in Nat /\ DOMAIN name = 1 .. Len(name) /\ name \in [1 .. Len(name) -> STRING]
  BY <1>1, LenProperties
<1>3. name \in Seq(Characters)
  <2>1. \A k \in 1 .. Len(name) : name[k] \in Characters
    BY <1>2 DEF Characters, Plain
  <2>2. name = [k \in 1 .. Len(name) |-> name[k]]
    BY <1>2
  <2> DEFINE n == Len(name)
  <2>3. n \in Nat /\ name = [k \in 1 .. n |-> name[k]] /\ \A k \in 1 .. n : name[k] \in Characters
    BY <1>2, <2>1, <2>2, Zenon
  <2> HIDE DEF n
  <2>4. name \in [1 .. n -> Characters]
    BY <2>3
  <2>5. QED
    BY <2>3, <2>4
<1>4. QED
  BY <1>1, <1>2, <1>3, Zenon

LEMMA Tuples ==
  ASSUME NEW x \in Characters, NEW y \in Characters, NEW z \in Characters
  PROVE  /\ <<x>> \in Seq(Characters) /\ Len(<<x>>) = 1
         /\ <<x, y>> \in Seq(Characters) /\ Len(<<x, y>>) = 2
         /\ <<x, y, z>> \in Seq(Characters) /\ Len(<<x, y, z>>) = 3
  OBVIOUS

LEMMA Particles ==
  /\ <<":", " ">> \in Seq(Characters) /\ Len(<<":", " ">>) = 2
  /\ <<" ", "(">> \in Seq(Characters) /\ Len(<<" ", "(">>) = 2
  /\ <<")", ":", " ">> \in Seq(Characters) /\ Len(<<")", ":", " ">>) = 3
  /\ <<"\n">> \in Seq(Characters) /\ Len(<<"\n">>) = 1
<1>1. /\ ":" \in Characters /\ " " \in Characters /\ "(" \in Characters
      /\ ")" \in Characters /\ "\n" \in Characters
  BY DEF Characters, Plain, Separators
<1>2. QED
  BY <1>1, Tuples, Zenon

LEMMA NamedHeads ==
  ASSUME NEW name \in Names
  PROVE  /\ HeadText(NamedHead(name))
         /\ Len(NamedHead(name)) = Len(name) + 2
<1> DEFINE p == <<":", " ">>
           n == Len(name)
           h == NamedHead(name)
<1>1. p \in Seq(Characters) /\ Len(p) = 2
  BY Particles
<1>2. p[1] = ":" /\ p[2] = " "
  OBVIOUS
<1>3. h = name \o p
  BY Zenon DEF NamedHead
<1> HIDE DEF p, h
<1>4. /\ name \in Seq(Characters) /\ n \in Nat
      /\ \A k \in 1 .. n : name[k] \notin {"\n", Nul}
  BY NamesAreText, Zenon
<1>5. /\ h \in Seq(Characters) /\ Len(h) = n + 2
      /\ \A k \in 1 .. n : h[k] = name[k]
      /\ \A k \in 1 .. 2 : h[n + k] = p[k]
  <2>1. /\ name \o p \in Seq(Characters) /\ Len(name \o p) = Len(name) + Len(p)
        /\ \A k \in 1 .. Len(name) : (name \o p)[k] = name[k]
        /\ \A k \in 1 .. Len(p) : (name \o p)[Len(name) + k] = p[k]
    BY <1>1, <1>4, Joining, Zenon
  <2>2. QED
    BY <1>1, <1>3, <2>1, Zenon
<1> HIDE DEF n
<1>6. h[n + 1] = ":" /\ h[n + 2] = " "
  <2>1. 1 \in 1 .. 2 /\ 2 \in 1 .. 2
    OBVIOUS
  <2>2. QED
    BY <1>2, <1>5, <2>1, Zenon
<1>7. ASSUME NEW k \in 1 .. Len(h) PROVE h[k] \notin {"\n", Nul}
  <2>1. k \in 1 .. n \/ k = n + 1 \/ k = n + 2
    BY <1>4, <1>5
  <2>2. CASE k \in 1 .. n
    BY <1>4, <1>5, <2>2, Zenon
  <2>3. CASE k = n + 1 \/ k = n + 2
    <3>1. h[k] = ":" \/ h[k] = " "
      BY <1>6, <2>3, Zenon
    <3>2. QED
      BY <3>1 DEF Nul
  <2>4. QED
    BY <2>1, <2>2, <2>3
<1>8. QED
  BY <1>5, <1>6, <1>7, Zenon DEF HeadText, h, n

LEMMA NamedAtHeads ==
  ASSUME NEW name \in Names, NEW address \in PrintedWords
  PROVE  LET h == NamedAtHead(name, address)
             a == ToHexString(address, 4)
             n == Len(name)
         IN  /\ HeadText(h) /\ Len(h) = n + 15
             /\ \A k \in 1 .. 10 : h[n + 2 + k] = a[k]
             /\ h[n + 1] = " " /\ h[n + 2] = "(" /\ h[n + 13] = ")" /\ h[n + 14] = ":" /\ h[n + 15] = " "
<1> DEFINE p == <<" ", "(">>
           q == <<")", ":", " ">>
           a == ToHexString(address, 4)
           n == Len(name)
           g == OpenHead(name)
           f == g \o a
           h == NamedAtHead(name, address)
<1>1. /\ p \in Seq(Characters) /\ Len(p) = 2
      /\ q \in Seq(Characters) /\ Len(q) = 3
  BY Particles
<1>2. p[1] = " " /\ p[2] = "(" /\ q[1] = ")" /\ q[2] = ":" /\ q[3] = " "
  OBVIOUS
<1>3. g = name \o p
  BY Zenon DEF OpenHead
<1>4. h = f \o q
  BY Zenon DEF NamedAtHead
<1>5. f = g \o a
  OBVIOUS
<1> HIDE DEF p, q, a, g, f, h
<1>6. /\ name \in Seq(Characters) /\ n \in Nat
      /\ \A k \in 1 .. n : name[k] \notin {"\n", Nul}
  BY NamesAreText, Zenon
<1>7. /\ a \in Seq(Characters) /\ Len(a) = 10
      /\ \A k \in 1 .. 10 : a[k] \notin Separators
  BY HexText, Zenon DEF NumberText, a
<1>8. /\ g \in Seq(Characters) /\ Len(g) = n + 2
      /\ \A k \in 1 .. n : g[k] = name[k]
      /\ \A k \in 1 .. 2 : g[n + k] = p[k]
  <2>1. /\ name \o p \in Seq(Characters) /\ Len(name \o p) = Len(name) + Len(p)
        /\ \A k \in 1 .. Len(name) : (name \o p)[k] = name[k]
        /\ \A k \in 1 .. Len(p) : (name \o p)[Len(name) + k] = p[k]
    BY <1>1, <1>6, Joining, Zenon
  <2>2. QED
    BY <1>1, <1>3, <2>1, Zenon
<1>9. /\ f \in Seq(Characters) /\ Len(f) = (n + 2) + 10
      /\ \A k \in 1 .. n + 2 : f[k] = g[k]
      /\ \A k \in 1 .. 10 : f[(n + 2) + k] = a[k]
  <2>1. /\ g \o a \in Seq(Characters) /\ Len(g \o a) = Len(g) + Len(a)
        /\ \A k \in 1 .. Len(g) : (g \o a)[k] = g[k]
        /\ \A k \in 1 .. Len(a) : (g \o a)[Len(g) + k] = a[k]
    BY <1>7, <1>8, Joining, Zenon
  <2>2. QED
    BY <1>5, <1>7, <1>8, <2>1, Zenon
<1>10. /\ h \in Seq(Characters) /\ Len(h) = ((n + 2) + 10) + 3
       /\ \A k \in 1 .. (n + 2) + 10 : h[k] = f[k]
       /\ \A k \in 1 .. 3 : h[((n + 2) + 10) + k] = q[k]
  <2>1. /\ f \o q \in Seq(Characters) /\ Len(f \o q) = Len(f) + Len(q)
        /\ \A k \in 1 .. Len(f) : (f \o q)[k] = f[k]
        /\ \A k \in 1 .. Len(q) : (f \o q)[Len(f) + k] = q[k]
    BY <1>1, <1>9, Joining, Zenon
  <2>2. QED
    BY <1>1, <1>4, <1>9, <2>1, Zenon
<1> HIDE DEF n
<1>11. ((n + 2) + 10) + 3 = n + 15 /\ (n + 2) + 10 = n + 12 /\ (n + 12) + 1 = n + 13
       /\ (n + 12) + 2 = n + 14 /\ (n + 12) + 3 = n + 15
  BY <1>6
<1>12. \A k \in 1 .. n : h[k] = name[k]
  <2>1. \A k \in 1 .. n : k \in 1 .. n + 2 /\ k \in 1 .. (n + 2) + 10
    BY <1>6
  <2>2. QED
    BY <1>8, <1>9, <1>10, <2>1, Zenon
<1>13. h[n + 1] = " " /\ h[n + 2] = "("
  <2>1. \A k \in 1 .. 2 : n + k \in 1 .. n + 2 /\ n + k \in 1 .. (n + 2) + 10
    BY <1>6
  <2>2. \A k \in 1 .. 2 : h[n + k] = p[k]
    BY <1>8, <1>9, <1>10, <2>1, Zenon
  <2>3. 1 \in 1 .. 2 /\ 2 \in 1 .. 2
    OBVIOUS
  <2>4. QED
    BY <1>2, <2>2, <2>3, Zenon
<1>14. \A k \in 1 .. 10 : h[n + 2 + k] = a[k]
  <2>1. \A k \in 1 .. 10 : (n + 2) + k \in 1 .. (n + 2) + 10
    BY <1>6
  <2>2. QED
    BY <1>9, <1>10, <2>1, Zenon
<1>15. h[n + 13] = ")" /\ h[n + 14] = ":" /\ h[n + 15] = " "
  <2>1. 1 \in 1 .. 3 /\ 2 \in 1 .. 3 /\ 3 \in 1 .. 3
    OBVIOUS
  <2>2. QED
    BY <1>2, <1>10, <1>11, <2>1, Zenon
<1>16. ASSUME NEW k \in 1 .. Len(h) PROVE h[k] \notin {"\n", Nul}
  <2>1. k \in 1 .. n + 15
    BY <1>10, <1>11, Zenon
  <2>2. \/ k \in 1 .. n \/ k = n + 1 \/ k = n + 2 \/ k \in n + 3 .. n + 12
        \/ k = n + 13 \/ k = n + 14 \/ k = n + 15
    BY <1>6, <2>1
  <2>3. CASE k \in 1 .. n
    BY <1>6, <1>12, <2>3, Zenon DEF n
  <2>4. CASE k \in n + 3 .. n + 12
    <3>1. k - (n + 2) \in 1 .. 10 /\ n + 2 + (k - (n + 2)) = k
      BY <1>6, <2>4
    <3>2. h[k] = a[k - (n + 2)]
      BY <1>14, <3>1, Zenon
    <3>3. a[k - (n + 2)] \notin Separators
      BY <1>7, <3>1, Zenon
    <3>4. QED
      BY <3>2, <3>3 DEF Separators
  <2>5. CASE k = n + 1 \/ k = n + 2 \/ k = n + 13 \/ k = n + 14 \/ k = n + 15
    <3>1. h[k] \in {" ", "(", ")", ":"}
      BY <1>13, <1>15, <2>5, Zenon
    <3>2. QED
      BY <3>1 DEF Nul
  <2>6. QED
    BY <2>2, <2>3, <2>4, <2>5
<1>17. Len(h) = n + 15
  BY <1>10, <1>11, Zenon
<1>18. HeadText(h)
  BY <1>10, <1>15, <1>16, <1>17, Zenon DEF HeadText
<1>19. QED
  BY <1>13, <1>14, <1>15, <1>17, <1>18, Zenon DEF h, a, n

\* The line with a value after head, and the texts in the buffers.
LineOf(head, base, value) == (head \o TextOf(base, value)) \o <<"\n">>

Printed(head, base, value, addresses) ==
  /\ sent = UartWrite(LineOf(head, base, value))
  /\ \A b \in buffers :
       \/ /\ b.size = NumberSize
          /\ b.text \in {TextOf(base, value), DecBuffer(value)}
                        \cup {ToHexString(a, 4) : a \in addresses}
       \/ b.size = BufferSize /\ b.text = LineOf(head, base, value)

PlainCall == \E base \in {10, 16}, value \in PrintedWords :
  /\ call = [base |-> base, value |-> value]
  /\ Printed(<<>>, base, value, {})

NamedCall == \E base \in {10, 16}, value \in PrintedWords, name \in Names :
  /\ call = [base |-> base, name |-> name, value |-> value]
  /\ Printed(NamedHead(name), base, value, {})

NamedAtCall == \E base \in {10, 16}, value, address \in PrintedWords, name \in Names :
  /\ call = [base |-> base, name |-> name, address |-> address, value |-> value]
  /\ Printed(NamedAtHead(name, address), base, value, {address})

DebuggerInv == call = [base |-> 0] \/ PlainCall \/ NamedCall \/ NamedAtCall

LEMMA LineLength ==
  ASSUME NEW head, NEW base \in {10, 16}, NEW value \in PrintedWords, HeadText(head)
  PROVE  LET line == LineOf(head, base, value)
         IN  /\ line \in Seq(Characters) /\ Len(line) <= Len(head) + 11
             /\ Len(line) \in Nat /\ Len(head) \in Nat
<1> DEFINE v == TextOf(base, value)
           e == <<"\n">>
           u == head \o v
<1>1. v \in Seq(Characters) /\ Len(v) \in 1 .. 10
  BY TextIsNumber, Zenon DEF NumberText
<1>2. e \in Seq(Characters) /\ Len(e) = 1
  BY Particles
<1>3. head \in Seq(Characters)
  BY Zenon DEF HeadText
<1> HIDE DEF v, e
<1>4. u \in Seq(Characters) /\ Len(u) = Len(head) + Len(v) /\ Len(head) \in Nat
  BY <1>1, <1>3, Joining, Zenon
<1> HIDE DEF u
<1>5. u \o e \in Seq(Characters) /\ Len(u \o e) = Len(u) + Len(e)
  BY <1>2, <1>4, Joining, Zenon
<1> DEFINE h == Len(head)
           l == Len(v)
           n == Len(u \o e)
<1>6. h \in Nat /\ l \in 1 .. 10 /\ n = (h + l) + 1
  BY <1>1, <1>2, <1>4, <1>5, Zenon
<1> HIDE DEF h, l, n
<1>7. n <= h + 11 /\ n \in Nat
  BY <1>6
<1>8. QED
  BY <1>4, <1>5, <1>7, Zenon DEF LineOf, h, n, u, v, e

LEMMA PrintedSuffices ==
  ASSUME NEW head, NEW base \in {10, 16}, NEW value \in PrintedWords, HeadText(head),
         NEW addresses \in SUBSET PrintedWords, Printed(head, base, value, addresses),
         Len(head) + 12 <= BufferSize
  PROVE  BuffersSuffice
<1>1. NumberSize \in Nat /\ NumberSize >= 11 /\ BufferSize \in Nat
  BY SizesAssumption
<1>2. SUFFICES ASSUME NEW b \in buffers PROVE Len(b.text) + 1 <= b.size
  BY DEF BuffersSuffice, Fits
<1>3. ASSUME NEW t, t \in {TextOf(base, value), DecBuffer(value)} \cup {ToHexString(a, 4) : a \in addresses}
      PROVE  Len(t) \in 1 .. 10
  <2>1. CASE t = TextOf(base, value)
    BY <2>1, TextIsNumber, Zenon DEF NumberText
  <2>2. Len(DecBuffer(value)) \in 1 .. 10
    <3>1. Len(DecBuffer(value)) = 10 /\ 10 \in 1 .. 10
      BY DecText
    <3>2. QED
      BY <3>1, Zenon
  <2>3. CASE t \in {ToHexString(a, 4) : a \in addresses}
    <3>1. PICK a \in PrintedWords : t = ToHexString(a, 4)
      BY <2>3
    <3>2. QED
      BY <3>1, HexText, Zenon DEF NumberText
  <2>4. QED
    BY <1>3, <2>1, <2>2, <2>3, Zenon
<1>4. CASE b.size = NumberSize /\ b.text \in {TextOf(base, value), DecBuffer(value)}
                                            \cup {ToHexString(a, 4) : a \in addresses}
  <2> DEFINE l == Len(b.text)
  <2>1. l \in 1 .. 10
    BY <1>3, <1>4
  <2> HIDE DEF l
  <2>2. l + 1 <= NumberSize
    BY <1>1, <2>1
  <2>3. QED
    BY <1>4, <2>2, Zenon DEF l
<1>5. CASE b.size = BufferSize /\ b.text = LineOf(head, base, value)
  <2> DEFINE l == Len(LineOf(head, base, value))
             h == Len(head)
  <2>1. l \in Nat /\ h \in Nat /\ l <= h + 11 /\ h + 12 <= BufferSize
    BY LineLength, Zenon
  <2> HIDE DEF l, h
  <2>2. l + 1 <= BufferSize
    BY <1>1, <2>1
  <2>3. QED
    BY <1>5, <2>2, Zenon DEF l
<1>6. QED
  BY <1>4, <1>5, Zenon DEF Printed

LEMMA PlainReadsBack == PlainCall => ReadsBack
<1>1. SUFFICES ASSUME NEW base \in {10, 16}, NEW value \in PrintedWords,
                      call = [base |-> base, value |-> value], Printed(<<>>, base, value, {})
               PROVE  ReadsBack
  BY Zenon DEF PlainCall
<1>2. HeadText(<<>>) /\ Len(<<>>) = 0
  BY DEF HeadText
<1>3. call.base = base /\ call.value = value /\ "name" \notin DOMAIN call /\ "address" \notin DOMAIN call
  BY <1>1
<1>4. BuffersSuffice
  <2> DEFINE head == <<>>
  <2>1. HeadText(head) /\ Len(head) + 12 <= BufferSize
    BY <1>2, SizesAssumption
  <2>2. Printed(head, base, value, {}) /\ {} \in SUBSET PrintedWords
    BY <1>1
  <2> HIDE DEF head
  <2>3. QED
    BY <2>1, <2>2, PrintedSuffices
<1>5. /\ Last(sent) = Nul /\ Last(Shown) = "\n"
      /\ \A k \in 1 .. Len(Shown) - 1 : Shown[k] \notin {"\n", Nul}
      /\ \E f \in Fields : Denotes(f, base, value) /\ IsSuffix(Append(f, "\n"), Shown)
  BY <1>1, <1>2, ValueReadsBack, Zenon DEF Printed, LineOf
<1>6. QED
  BY <1>3, <1>4, <1>5, Zenon DEF ReadsBack

\* The name is where the line begins.
LEMMA NameComesFirst ==
  ASSUME NEW name \in Seq(Characters), NEW r \in Seq(Characters), NEW base \in {10, 16},
         NEW value \in PrintedWords, HeadText(name \o r),
         sent = UartWrite(((name \o r) \o TextOf(base, value)) \o <<"\n">>)
  PROVE  IsPrefix(name, Shown)
<1> DEFINE head == name \o r
           v    == TextOf(base, value)
           e    == <<"\n">>
<1>1. e \in Seq(Characters)
  BY Particles
<1>2. v \in Seq(Characters)
  BY TextIsNumber, Zenon DEF NumberText
<1>3. Shown = (head \o v) \o e
  <2>1. head \o v \in Seq(Characters)
    BY <1>2, Joining, Zenon DEF HeadText
  <2>2. QED
    BY <2>1, Showing, Zenon
<1> HIDE DEF v, e
<1>4. (head \o v) \o e = name \o (r \o (v \o e))
  <2>1. r \o v \in Seq(Characters) /\ v \o e \in Seq(Characters)
    BY <1>1, <1>2, Joining, Zenon
  <2>2. (name \o r) \o v = name \o (r \o v)
    BY <1>2, Regrouping, Zenon
  <2>3. (name \o (r \o v)) \o e = name \o ((r \o v) \o e)
    <3> DEFINE u == r \o v
    <3>1. u \in Seq(Characters)
      BY <2>1
    <3> HIDE DEF u
    <3>2. (name \o u) \o e = name \o (u \o e)
      BY <1>1, <3>1, Regrouping, ZenonT(60)
    <3>3. QED
      BY <3>2 DEF u
  <2>4. (r \o v) \o e = r \o (v \o e)
    BY <1>1, <1>2, Regrouping, Zenon
  <2>5. QED
    BY <2>2, <2>3, <2>4, Zenon
<1>5. r \o (v \o e) \in Seq(Characters)
  <2>1. v \o e \in Seq(Characters)
    BY <1>1, <1>2, Joining, Zenon
  <2>2. QED
    BY <2>1, Joining, Zenon
<1>6. IsPrefix(name, name \o (r \o (v \o e)))
  BY <1>5, PrefixOf, Zenon
<1>7. QED
  BY <1>3, <1>4, <1>6, Zenon

LEMMA NamedReadsBack == NamedCall => ReadsBack
<1>1. SUFFICES ASSUME NEW base \in {10, 16}, NEW value \in PrintedWords, NEW name \in Names,
                      call = [base |-> base, name |-> name, value |-> value],
                      Printed(NamedHead(name), base, value, {})
               PROVE  ReadsBack
  BY Zenon DEF NamedCall
<1> DEFINE head == NamedHead(name)
<1>2. HeadText(head) /\ Len(head) = Len(name) + 2
  BY NamedHeads
<1>3. call.base = base /\ call.value = value /\ call.name = name /\ "address" \notin DOMAIN call
  BY <1>1
<1>4. Printed(head, base, value, {})
  BY <1>1
<1> HIDE DEF head
<1>5. BuffersSuffice
  <2> DEFINE n == Len(name)
             h == Len(head)
  <2>1. n \in Nat /\ n + 27 <= BufferSize /\ h = n + 2
    BY <1>2, NamesAreText, Zenon
  <2> HIDE DEF n, h
  <2>2. h + 12 <= BufferSize
    BY <2>1, SizesAssumption
  <2>3. Len(head) + 12 <= BufferSize /\ {} \in SUBSET PrintedWords
    BY <2>2 DEF h
  <2>4. QED
    BY <1>2, <1>4, <2>3, PrintedSuffices
<1>6. sent = UartWrite((head \o TextOf(base, value)) \o <<"\n">>)
  BY <1>4, Zenon DEF Printed, LineOf
<1>7. /\ Last(sent) = Nul /\ Last(Shown) = "\n"
      /\ \A k \in 1 .. Len(Shown) - 1 : Shown[k] \notin {"\n", Nul}
      /\ \E f \in Fields : Denotes(f, base, value) /\ IsSuffix(Append(f, "\n"), Shown)
  BY <1>2, <1>6, ValueReadsBack, Zenon
<1>8. IsPrefix(name, Shown)
  <2>1. name \in Seq(Characters) /\ <<":", " ">> \in Seq(Characters)
    BY NamesAreText, Particles, Zenon
  <2>2. head = name \o <<":", " ">>
    BY Zenon DEF head, NamedHead
  <2>3. QED
    BY <1>2, <1>6, <2>1, <2>2, NameComesFirst, Zenon
<1>9. QED
  BY <1>3, <1>5, <1>7, <1>8, Zenon DEF ReadsBack

LEMMA AddressReadsBack ==
  ASSUME NEW base \in {10, 16}, NEW value \in PrintedWords, NEW address \in PrintedWords,
         NEW name \in Names,
         sent = UartWrite((NamedAtHead(name, address) \o TextOf(base, value)) \o <<"\n">>)
  PROVE  \E f \in Fields : Len(f) > 3 /\ Denotes(SubSeq(f, 2, Len(f) - 2), 16, address)
<1> DEFINE head == NamedAtHead(name, address)
           v    == TextOf(base, value)
           text == head \o v
           a    == ToHexString(address, 4)
           n    == Len(name)
           f    == SubSeq(text, (n + 1) + 1, n + 14)
<1>1. /\ HeadText(head) /\ Len(head) = n + 15
      /\ \A k \in 1 .. 10 : head[n + 2 + k] = a[k]
      /\ head[n + 1] = " " /\ head[n + 2] = "(" /\ head[n + 13] = ")" /\ head[n + 14] = ":" /\ head[n + 15] = " "
  BY NamedAtHeads, Zenon
<1>2. /\ v \in Seq(Characters) /\ Len(v) \in Nat
  BY TextIsNumber, LenProperties DEF NumberText
<1>3. /\ a \in Seq(Characters) /\ Len(a) = 10 /\ Denotes(a, 16, address)
      /\ \A k \in 1 .. 10 : a[k] \notin Separators
  BY HexText, Zenon DEF NumberText
<1>4. n \in Nat
  BY NamesAreText, Zenon
<1>5. head \in Seq(Characters)
  BY <1>1, Zenon DEF HeadText
<1> HIDE DEF head, v, a, n
<1>6. /\ text \in Seq(Characters) /\ Len(text) = (n + 15) + Len(v)
      /\ \A k \in 1 .. n + 15 : text[k] = head[k]
  <2>1. /\ head \o v \in Seq(Characters) /\ Len(head \o v) = Len(head) + Len(v)
        /\ \A k \in 1 .. Len(head) : (head \o v)[k] = head[k]
    BY <1>2, <1>5, Joining, Zenon
  <2>2. QED
    BY <1>1, <2>1, Zenon
<1>7. Front(Shown) = text
  <2>1. sent = UartWrite(text \o <<"\n">>)
    BY Zenon DEF head, v
  <2>2. QED
    BY <1>6, <2>1, Showing, Zenon
<1> HIDE DEF text
<1>8. /\ text[n + 1] = " " /\ text[n + 2] = "(" /\ text[n + 13] = ")" /\ text[n + 14] = ":" /\ text[n + 15] = " "
      /\ \A k \in 1 .. 10 : text[n + 2 + k] = a[k]
  <2>1. /\ n + 1 \in 1 .. n + 15 /\ n + 2 \in 1 .. n + 15 /\ n + 13 \in 1 .. n + 15
        /\ n + 14 \in 1 .. n + 15 /\ n + 15 \in 1 .. n + 15
        /\ \A k \in 1 .. 10 : n + 2 + k \in 1 .. n + 15
    BY <1>4
  <2>2. QED
    BY <1>1, <1>6, <2>1, Zenon
<1>9. ASSUME NEW j \in n + 2 .. n + 14 PROVE text[j] # " "
  <2>1. j = n + 2 \/ j \in n + 3 .. n + 12 \/ j = n + 13 \/ j = n + 14
    BY <1>4
  <2>2. CASE j \in n + 3 .. n + 12
    <3>1. j - (n + 2) \in 1 .. 10 /\ n + 2 + (j - (n + 2)) = j
      BY <1>4, <2>2
    <3>2. text[j] = a[j - (n + 2)]
      BY <1>8, <3>1, Zenon
    <3>3. a[j - (n + 2)] \notin Separators
      BY <1>3, <3>1, Zenon
    <3>4. QED
      BY <3>2, <3>3 DEF Separators
  <2>3. CASE j = n + 2 \/ j = n + 13 \/ j = n + 14
    <3>1. text[j] \in {"(", ")", ":"}
      BY <1>8, <2>3, Zenon
    <3>2. QED
      BY <3>1
  <2>4. QED
    BY <2>1, <2>2, <2>3
<1>10. f \in Fields
  <2> DEFINE h == n + 1
             k == n + 15
             l == Len(text)
  <2>1. l = (n + 15) + Len(v)
    BY <1>6
  <2> HIDE DEF l
  <2>2. /\ h \in Nat /\ k \in Nat /\ h < k /\ k <= l + 1 /\ k - 1 = n + 14 /\ h + 1 = n + 2
    BY <1>2, <1>4, <2>1
  <2>3. text[h] = " " /\ text[k] = " "
    BY <1>8
  <2>4. \A j \in h + 1 .. k - 1 : text[j] # " "
    BY <1>9, <2>2, Zenon
  <2>5. f = SubSeq(text, h + 1, k - 1)
    BY <2>2, Zenon
  <2> HIDE DEF h, k, f
  <2>6. SubSeq(text, h + 1, k - 1) \in Fields
    BY <1>6, <1>7, <2>2, <2>3, <2>4, FieldBetween DEF l
  <2>7. QED
    BY <2>5, <2>6
<1>11. /\ f \in Seq(Characters) /\ Len(f) = 13
       /\ \A k \in 1 .. 13 : f[k] = text[n + 1 + k]
  <2>1. \A k \in (n + 1) + 1 .. n + 14 : text[k] \in Characters
    <3> DEFINE l == Len(text)
    <3>1. l = (n + 15) + Len(v)
      BY <1>6
    <3> HIDE DEF l
    <3>2. \A k \in (n + 1) + 1 .. n + 14 : k \in 1 .. l
      BY <1>2, <1>4, <3>1
    <3>3. \A k \in 1 .. l : text[k] \in Characters
      BY <1>6, ElementOfSeq DEF l
    <3>4. QED
      BY <3>2, <3>3, Zenon
  <2> DEFINE m == (n + 1) + 1
             o == n + 14
  <2>2. m \in Int /\ o \in Int /\ \A k \in m .. o : text[k] \in Characters
    BY <1>4, <2>1
  <2>3. m <= o /\ o - m + 1 = 13 /\ \A k \in 1 .. 13 : m + k - 1 = n + 1 + k
    BY <1>4
  <2>4. f = SubSeq(text, m, o)
    OBVIOUS
  <2> HIDE DEF m, o, f
  <2>5. /\ SubSeq(text, m, o) \in Seq(Characters)
        /\ Len(SubSeq(text, m, o)) = IF m <= o THEN o - m + 1 ELSE 0
        /\ \A k \in 1 .. o - m + 1 : SubSeq(text, m, o)[k] = text[m + k - 1]
    BY <2>2, SubSeqProperties
  <2>6. QED
    BY <2>3, <2>4, <2>5, Zenon
<1> HIDE DEF f
<1>12. SubSeq(f, 2, Len(f) - 2) = a
  <2>1. \A k \in 1 .. 10 : 1 + k \in 1 .. 13 /\ n + 1 + (1 + k) = n + 2 + k
    BY <1>4
  <2>2. \A k \in 1 .. 10 : f[1 + k] = a[k]
    <3>1. ASSUME NEW k \in 1 .. 10 PROVE f[1 + k] = a[k]
      <4>1. f[1 + k] = text[n + 1 + (1 + k)]
        BY <1>11, <2>1, Zenon
      <4>2. text[n + 1 + (1 + k)] = text[n + 2 + k]
        BY <2>1, Zenon
      <4>3. text[n + 2 + k] = a[k]
        BY <1>8, Zenon
      <4>4. QED
        BY <4>1, <4>2, <4>3, Zenon
    <3>2. QED
      BY <3>1, Zenon
  <2>3. 11 = 1 + Len(a) /\ 11 <= Len(f) /\ \A k \in 1 .. Len(a) : f[1 + k] = a[k]
    <3>1. 11 = 1 + 10 /\ 11 <= 13
      OBVIOUS
    <3>2. QED
      BY <1>3, <1>11, <2>2, <3>1, Zenon
  <2>4. SubSeq(f, 1 + 1, 11) = a
    BY <1>3, <1>11, <2>3, Stretch
  <2>5. 1 + 1 = 2 /\ 13 - 2 = 11
    OBVIOUS
  <2>6. QED
    BY <1>11, <2>4, <2>5, Zenon
<1>13. Len(f) > 3
  BY <1>11
<1>14. QED
  BY <1>3, <1>10, <1>12, <1>13, Zenon DEF a

LEMMA NamedAtReadsBack == NamedAtCall => ReadsBack
<1>1. SUFFICES ASSUME NEW base \in {10, 16}, NEW value \in PrintedWords,
                      NEW address \in PrintedWords, NEW name \in Names,
                      call = [base |-> base, name |-> name, address |-> address, value |-> value],
                      Printed(NamedAtHead(name, address), base, value, {address})
               PROVE  ReadsBack
  BY Zenon DEF NamedAtCall
<1> DEFINE head == NamedAtHead(name, address)
<1>2. HeadText(head) /\ Len(head) = Len(name) + 15
  BY NamedAtHeads, Zenon
<1>3. call.base = base /\ call.value = value /\ call.name = name /\ call.address = address
  BY <1>1
<1>4. Printed(head, base, value, {address})
  BY <1>1
<1> HIDE DEF head
<1>5. BuffersSuffice
  <2> DEFINE n == Len(name)
             h == Len(head)
  <2>1. n \in Nat /\ n + 27 <= BufferSize /\ h = n + 15
    BY <1>2, NamesAreText, Zenon
  <2> HIDE DEF n, h
  <2>2. h + 12 <= BufferSize
    BY <2>1, SizesAssumption
  <2>3. Len(head) + 12 <= BufferSize /\ {address} \in SUBSET PrintedWords
    BY <2>2 DEF h
  <2>4. QED
    BY <1>2, <1>4, <2>3, PrintedSuffices
<1>6. sent = UartWrite((head \o TextOf(base, value)) \o <<"\n">>)
  BY <1>4, Zenon DEF Printed, LineOf
<1>7. /\ Last(sent) = Nul /\ Last(Shown) = "\n"
      /\ \A k \in 1 .. Len(Shown) - 1 : Shown[k] \notin {"\n", Nul}
      /\ \E f \in Fields : Denotes(f, base, value) /\ IsSuffix(Append(f, "\n"), Shown)
  BY <1>2, <1>6, ValueReadsBack, Zenon
<1>8. IsPrefix(name, Shown)
  <2> DEFINE p == <<" ", "(">>
             q == <<")", ":", " ">>
             a == ToHexString(address, 4)
             r == p \o (a \o q)
  <2>1. name \in Seq(Characters) /\ p \in Seq(Characters) /\ q \in Seq(Characters)
    BY NamesAreText, Particles, Zenon
  <2>2. a \in Seq(Characters)
    BY HexText, Zenon DEF NumberText
  <2>3. head = ((name \o p) \o a) \o q
    BY Zenon DEF head, NamedAtHead, OpenHead
  <2> HIDE DEF p, q, a
  <2>4. head = name \o r
    <3>1. name \o p \in Seq(Characters) /\ a \o q \in Seq(Characters)
      BY <2>1, <2>2, Joining, Zenon
    <3>2. ((name \o p) \o a) \o q = (name \o p) \o (a \o q)
      <4> DEFINE u == name \o p
      <4>1. u \in Seq(Characters)
        BY <3>1
      <4> HIDE DEF u
      <4>2. (u \o a) \o q = u \o (a \o q)
        BY <2>1, <2>2, <4>1, Regrouping, Zenon
      <4>3. QED
        BY <4>2 DEF u
    <3>3. (name \o p) \o (a \o q) = name \o (p \o (a \o q))
      <4> DEFINE u == a \o q
      <4>1. u \in Seq(Characters)
        BY <3>1
      <4> HIDE DEF u
      <4>2. (name \o p) \o u = name \o (p \o u)
        BY <2>1, <4>1, Regrouping, Zenon
      <4>3. QED
        BY <4>2 DEF u
    <3>4. QED
      BY <2>3, <3>2, <3>3, Zenon
  <2>5. r \in Seq(Characters)
    <3>1. a \o q \in Seq(Characters)
      BY <2>1, <2>2, Joining, Zenon
    <3>2. QED
      BY <2>1, <3>1, Joining, Zenon
  <2> HIDE DEF r
  <2>6. QED
    BY <1>2, <1>6, <2>1, <2>4, <2>5, NameComesFirst, Zenon
<1>9. \E f \in Fields : Len(f) > 3 /\ Denotes(SubSeq(f, 2, Len(f) - 2), 16, address)
  BY <1>6, AddressReadsBack, Zenon DEF head
<1>10. QED
  BY <1>3, <1>5, <1>7, <1>8, <1>9, Zenon DEF ReadsBack

-----------------------------------------------------------------------------

\* Lines put together by the code, as they are written above.
LEMMA LinesAsWritten ==
  ASSUME NEW base \in {10, 16}, NEW value \in PrintedWords
  PROVE  /\ PrintLine(TextOf(base, value)) = LineOf(<<>>, base, value)
         /\ \A name \in Names :
              PrintNamed(name, TextOf(base, value)) = LineOf(NamedHead(name), base, value)
         /\ \A name \in Names, address \in PrintedWords :
              PrintNamedAt(name, ToHexString(address, 4), TextOf(base, value))
                = LineOf(NamedAtHead(name, address), base, value)
<1>1. <<>> \o TextOf(base, value) = TextOf(base, value)
  <2>1. TextOf(base, value) \in Seq(Characters)
    BY TextIsNumber, Zenon DEF NumberText
  <2>2. QED
    BY <2>1, ConcatEmptySeq
<1>2. PrintLine(TextOf(base, value)) = LineOf(<<>>, base, value)
  BY <1>1, Zenon DEF PrintLine, Strcat, Strcpy, LineOf
<1>3. \A name \in Names :
        PrintNamed(name, TextOf(base, value)) = LineOf(NamedHead(name), base, value)
  BY Zenon DEF PrintNamed, Strcat, Strcpy, LineOf, NamedHead
<1>4. \A name \in Names, address \in PrintedWords :
        PrintNamedAt(name, ToHexString(address, 4), TextOf(base, value))
          = LineOf(NamedAtHead(name, address), base, value)
  BY Zenon DEF PrintNamedAt, Strcat, Strcpy, LineOf, NamedAtHead, OpenHead
<1>5. QED
  BY <1>2, <1>3, <1>4

\* A call leaves in its buffers what Printed says.
LEMMA PrintsPrinted ==
  ASSUME NEW head, NEW base \in {10, 16}, NEW value \in PrintedWords,
         NEW addresses \in SUBSET PrintedWords, NEW numbers,
         Prints(LineOf(head, base, value), numbers),
         numbers \subseteq {TextOf(base, value), DecBuffer(value)}
                           \cup {ToHexString(a, 4) : a \in addresses}
  PROVE  Printed(head, base, value, addresses)'
<1>1. sent' = UartWrite(LineOf(head, base, value))
  BY Zenon DEF Prints
<1>2. ASSUME NEW b \in buffers'
      PROVE  \/ b.size = NumberSize /\ b.text \in numbers
             \/ b.size = BufferSize /\ b.text = LineOf(head, base, value)
  <2>1. b \in {Number(n) : n \in numbers} \/ b = Line(LineOf(head, base, value))
    BY <1>2 DEF Prints
  <2>2. CASE b \in {Number(n) : n \in numbers}
    <3>1. PICK n \in numbers : b = [text |-> n, size |-> NumberSize]
      BY <2>2 DEF Number
    <3>2. QED
      BY <3>1
  <2>3. CASE b = Line(LineOf(head, base, value))
    BY <2>3 DEF Line
  <2>4. QED
    BY <2>1, <2>2, <2>3
<1>3. QED
  BY <1>1, <1>2 DEF Printed

LEMMA InitDebuggerInv == DebuggerInit => DebuggerInv
  BY DEF DebuggerInit, DebuggerInv

LEMMA NextDebuggerInv == DebuggerInv /\ [DebuggerNext]_debuggerVars => DebuggerInv'
<1>1. TextOf(10, 0) = ToDecWord(0) /\ \A value : TextOf(10, value) = ToDecWord(value) /\ TextOf(16, value) = ToHexString(value, 4)
  BY DEF TextOf
<1>2. ASSUME NEW base \in {10, 16}, NEW value \in PrintedWords, NEW numbers,
             numbers \subseteq {TextOf(base, value), DecBuffer(value)},
             call' = [base |-> base, value |-> value],
             Prints(PrintLine(TextOf(base, value)), numbers)
      PROVE  PlainCall'
  <2>1. Printed(<<>>, base, value, {})'
    <3>1. Prints(LineOf(<<>>, base, value), numbers)
      BY <1>2, LinesAsWritten, Zenon
    <3>2. {} \in SUBSET PrintedWords
          /\ numbers \subseteq {TextOf(base, value), DecBuffer(value)} \cup {ToHexString(a, 4) : a \in {}}
      BY <1>2
    <3>3. QED
      BY <3>1, <3>2, PrintsPrinted, Zenon
  <2>2. QED
    BY <1>2, <2>1, Zenon DEF PlainCall
<1>3. ASSUME NEW base \in {10, 16}, NEW value \in PrintedWords, NEW name \in Names, NEW numbers,
             numbers \subseteq {TextOf(base, value), DecBuffer(value)},
             call' = [base |-> base, name |-> name, value |-> value],
             Prints(PrintNamed(name, TextOf(base, value)), numbers)
      PROVE  NamedCall'
  <2>1. Printed(NamedHead(name), base, value, {})'
    <3>1. Prints(LineOf(NamedHead(name), base, value), numbers)
      BY <1>3, LinesAsWritten, Zenon
    <3>2. {} \in SUBSET PrintedWords
          /\ numbers \subseteq {TextOf(base, value), DecBuffer(value)} \cup {ToHexString(a, 4) : a \in {}}
      BY <1>3
    <3>3. QED
      BY <3>1, <3>2, PrintsPrinted, Zenon
  <2>2. QED
    BY <1>3, <2>1, Zenon DEF NamedCall
<1>4. ASSUME NEW base \in {10, 16}, NEW value \in PrintedWords, NEW name \in Names,
             NEW address \in PrintedWords, NEW numbers,
             numbers \subseteq {TextOf(base, value), DecBuffer(value), ToHexString(address, 4)},
             call' = [base |-> base, name |-> name, address |-> address, value |-> value],
             Prints(PrintNamedAt(name, ToHexString(address, 4), TextOf(base, value)), numbers)
      PROVE  NamedAtCall'
  <2>1. Printed(NamedAtHead(name, address), base, value, {address})'
    <3>1. Prints(LineOf(NamedAtHead(name, address), base, value), numbers)
      BY <1>4, LinesAsWritten, Zenon
    <3>2. {address} \in SUBSET PrintedWords
          /\ numbers \subseteq {TextOf(base, value), DecBuffer(value)} \cup {ToHexString(a, 4) : a \in {address}}
      BY <1>4
    <3>3. QED
      BY <3>1, <3>2, PrintsPrinted, Zenon
  <2>2. QED
    BY <1>4, <2>1, Zenon DEF NamedAtCall
<1>5. SUFFICES ASSUME DebuggerInv, [DebuggerNext]_debuggerVars
               PROVE  DebuggerInv'
  OBVIOUS
<1>6. CASE UNCHANGED debuggerVars
  BY <1>5, <1>6 DEF debuggerVars, DebuggerInv, PlainCall, NamedCall, NamedAtCall, Printed
<1>7. CASE Returns
  BY <1>7 DEF Returns, DebuggerInv
<1>8. CASE Calls
  <2>1. PICK value \in PrintedWords :
          \/ PrintDecWord(value) \/ PrintHexWord(value)
          \/ \E name \in Names :
               \/ PrintDecWordNamed(name, value) \/ PrintHexWordNamed(name, value)
               \/ \E address \in PrintedWords :
                    \/ PrintDecWordNamedAt(name, address, value)
                    \/ PrintHexWordNamedAt(name, address, value)
    BY <1>8, Zenon DEF Calls
  <2> DEFINE D == {DecBuffer(value), ToDecWord(value)}
             H == {ToHexString(value, 4)}
  <2>2. 10 \in {10, 16} /\ 16 \in {10, 16} /\ D \subseteq {TextOf(10, value), DecBuffer(value)}
        /\ H \subseteq {TextOf(16, value), DecBuffer(value)}
    BY <1>1
  <2>3. CASE PrintDecWord(value)
    BY <1>1, <1>2, <2>2, <2>3, Zenon DEF PrintDecWord, DebuggerInv
  <2>4. CASE PrintHexWord(value)
    BY <1>1, <1>2, <2>2, <2>4, Zenon DEF PrintHexWord, DebuggerInv
  <2>5. CASE \E name \in Names : PrintDecWordNamed(name, value)
    BY <1>1, <1>3, <2>2, <2>5, Zenon DEF PrintDecWordNamed, DebuggerInv
  <2>6. CASE \E name \in Names : PrintHexWordNamed(name, value)
    BY <1>1, <1>3, <2>2, <2>6, Zenon DEF PrintHexWordNamed, DebuggerInv
  <2>7. CASE \E name \in Names, address \in PrintedWords : PrintDecWordNamedAt(name, address, value)
    <3>1. PICK name \in Names, address \in PrintedWords : PrintDecWordNamedAt(name, address, value)
      BY <2>7
    <3>2. {ToHexString(address, 4), DecBuffer(value), ToDecWord(value)}
            \subseteq {TextOf(10, value), DecBuffer(value), ToHexString(address, 4)}
      BY <1>1
    <3>3. NamedAtCall'
      BY <1>1, <1>4, <2>2, <3>1, <3>2, Zenon DEF PrintDecWordNamedAt
    <3>4. QED
      BY <3>3, Zenon DEF DebuggerInv
  <2>8. CASE \E name \in Names, address \in PrintedWords : PrintHexWordNamedAt(name, address, value)
    <3>1. PICK name \in Names, address \in PrintedWords : PrintHexWordNamedAt(name, address, value)
      BY <2>8
    <3>2. {ToHexString(address, 4), ToHexString(value, 4)}
            \subseteq {TextOf(16, value), DecBuffer(value), ToHexString(address, 4)}
      BY <1>1
    <3>3. NamedAtCall'
      BY <1>1, <1>4, <2>2, <3>1, <3>2, Zenon DEF PrintHexWordNamedAt
    <3>4. QED
      BY <3>3, Zenon DEF DebuggerInv
  <2>9. QED
    BY <2>1, <2>3, <2>4, <2>5, <2>6, <2>7, <2>8, Zenon
<1>9. QED
  BY <1>5, <1>6, <1>7, <1>8, Zenon DEF DebuggerNext

\* Whatever word is printed, with whatever name and address, is read back
\* from the one line that is sent, and no buffer overflows: for every value of
\* a uint32_t, and the sizes of the buffers the code has.
THEOREM PrintsReadBack == DebuggerSpec => []ReadsBack
<1>1. DebuggerInv => ReadsBack
  <2>1. call = [base |-> 0] => ReadsBack
    BY DEF ReadsBack
  <2>2. QED
    BY <2>1, PlainReadsBack, NamedReadsBack, NamedAtReadsBack, Zenon DEF DebuggerInv
<1>2. QED
  BY <1>1, InitDebuggerInv, NextDebuggerInv, PTL DEF DebuggerSpec

=============================================================================
