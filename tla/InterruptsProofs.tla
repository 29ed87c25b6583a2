-------------------------- MODULE InterruptsProofs --------------------------
(***************************************************************************)
(* The interrupt handlers are there when they are needed, no change of a   *)
(* pin is missed and the outputs are as asked: for any pins, any period    *)
(* and any pace of the processor.  Every match of the timer is answered    *)
(* once: for any processor that makes a step in each fifth of a period.    *)
(***************************************************************************)
EXTENDS Interrupts, SequenceTheorems, TLAPS

InstallStep(source) == [op |-> "install", source |-> source]
LetInStep(source)   == [op |-> "let_in", source |-> source]
StoreBack(reg, field, data) ==
  [op |-> "store_back", reg |-> reg, field |-> field, data |-> data]
StoreBits(mask, bits) == [op |-> "store_bits", mask |-> mask, bits |-> bits]
BitOf(pin, value) == IF value THEN {pin} ELSE {}

SetUpSteps ==
  {[op |-> "let_in_globally"],
   StoreTo("GPIO_RIER", Inputs), StoreTo("GPIO_FIER", Inputs), StoreTo("GPIO_IER", Inputs),
   StoreTo("TIMER_CMPR", Period),
   InstallStep("timer"), LetInStep("timer"), InstallStep("gpio"), LetInStep("gpio"),
   LoadFrom("TIMER_CR"), StoreBack("TIMER_CR", "trg", TRUE), LoadFrom("GPIO_IDR")}

HandlerSteps ==
  {LoadFrom("TIMER_SR"), StoreBack("TIMER_SR", "mtch", FALSE),
   StoreTo("GPIO_ISR", {}), LoadFrom("GPIO_IDR")}

-----------------------------------------------------------------------------
(* What a step puts on the bus. *)

LEMMA LoadReads ==
  ASSUME NEW reg, NEW loaded
  PROVE  BusAccess(LoadFrom(reg), loaded) = ReadOf(reg)
  BY DEF BusAccess, LoadFrom

LEMMA StoreWrites ==
  ASSUME NEW reg, NEW data, NEW loaded
  PROVE  BusAccess(StoreTo(reg, data), loaded) = WriteOf(reg, data)
<1>1. StoreTo(reg, data).op = "store" /\ StoreTo(reg, data).reg = reg
      /\ StoreTo(reg, data).data = data
  BY DEF StoreTo
<1>2. QED
  BY <1>1 DEF BusAccess

LEMMA StoreBackWrites ==
  ASSUME NEW reg, NEW field, NEW data, NEW loaded
  PROVE  \E value : BusAccess(StoreBack(reg, field, data), loaded) = WriteOf(reg, value)
<1>1. StoreBack(reg, field, data).op = "store_back" /\ StoreBack(reg, field, data).reg = reg
  BY DEF StoreBack
<1>2. BusAccess(StoreBack(reg, field, data), loaded)
        = WriteOf(reg, [loaded[reg] EXCEPT ![StoreBack(reg, field, data).field] =
                          StoreBack(reg, field, data).data])
  BY <1>1 DEF BusAccess
<1>3. QED
  BY <1>2

LEMMA StoreBitsWrites ==
  ASSUME NEW mask, NEW bits, NEW loaded
  PROVE  BusAccess(StoreBits(mask, bits), loaded)
           = WriteOf("GPIO_ODR", (loaded["GPIO_ODR"] \ mask) \cup (bits \cap mask))
<1>1. /\ StoreBits(mask, bits).op = "store_bits"
      /\ StoreBits(mask, bits).mask = mask /\ StoreBits(mask, bits).bits = bits
  BY DEF StoreBits
<1>2. QED
  BY <1>1 DEF BusAccess

LEMMA OthersAreIdle ==
  ASSUME NEW a, NEW loaded, a.op \in {"install", "let_in", "let_in_globally"}
  PROVE  BusAccess(a, loaded) = NoAccess
  BY DEF BusAccess

LEMMA WhoWrites ==
  ASSUME NEW reg, NEW other, NEW data
  PROVE  /\ ~Writes(NoAccess, reg)
         /\ ~Writes(ReadOf(other), reg)
         /\ Writes(WriteOf(other, data), reg) <=> other = reg
         /\ WriteOf(other, data).wdata = data
  BY DEF Writes, NoAccess, ReadOf, WriteOf

-----------------------------------------------------------------------------
(* Who writes which register of the GPIO. *)

\* A step writes none of the registers the program sets up, nor the outputs.
Harmless(a) ==
  \A loaded : \A reg \in {"GPIO_ODR", "GPIO_RIER", "GPIO_FIER", "GPIO_IER"} :
    ~Writes(BusAccess(a, loaded), reg)

LEMMA LoadIsHarmless ==
  ASSUME NEW reg
  PROVE  Harmless(LoadFrom(reg))
  BY LoadReads, WhoWrites DEF Harmless

LEMMA StoreBackSpares ==
  ASSUME NEW other, NEW field, NEW data, NEW loaded, NEW reg, other # reg
  PROVE  ~Writes(BusAccess(StoreBack(other, field, data), loaded), reg)
<1>1. PICK value : BusAccess(StoreBack(other, field, data), loaded) = WriteOf(other, value)
  BY StoreBackWrites
<1>2. QED
  BY <1>1, WhoWrites

LEMMA StoreBackIsHarmless ==
  ASSUME NEW other, NEW field, NEW data,
         other \notin {"GPIO_ODR", "GPIO_RIER", "GPIO_FIER", "GPIO_IER"}
  PROVE  Harmless(StoreBack(other, field, data))
  BY StoreBackSpares DEF Harmless

LEMMA HandlersAreHarmless ==
  ASSUME NEW a \in HandlerSteps
  PROVE  Harmless(a)
<1>1. CASE a \in {LoadFrom("TIMER_SR"), LoadFrom("GPIO_IDR")}
  BY <1>1, LoadIsHarmless
<1>2. CASE a = StoreBack("TIMER_SR", "mtch", FALSE)
  BY <1>2, StoreBackIsHarmless
<1>3. CASE a = StoreTo("GPIO_ISR", {})
  BY <1>3, StoreWrites, WhoWrites DEF Harmless
<1>4. QED
  BY <1>1, <1>2, <1>3 DEF HandlerSteps

\* The stores to the three registers are the only ones, and store Inputs.
Enables(a, reg) ==
  \A loaded : Writes(BusAccess(a, loaded), reg) =>
    a = StoreTo(reg, Inputs) /\ BusAccess(a, loaded).wdata = Inputs

LEMMA SetUpWrites ==
  ASSUME NEW a \in SetUpSteps
  PROVE  /\ \A loaded : ~Writes(BusAccess(a, loaded), "GPIO_ODR")
         /\ \A reg \in {"GPIO_RIER", "GPIO_FIER", "GPIO_IER"} : Enables(a, reg)
<1> DEFINE Safe == /\ \A loaded : ~Writes(BusAccess(a, loaded), "GPIO_ODR")
                   /\ \A reg \in {"GPIO_RIER", "GPIO_FIER", "GPIO_IER"} : Enables(a, reg)
<1>1. Harmless(a) => Safe
  BY DEF Harmless, Enables
<1>2. CASE a.op \in {"install", "let_in", "let_in_globally"}
  BY <1>1, <1>2, OthersAreIdle, WhoWrites DEF Harmless
<1>3. CASE a \in {LoadFrom("TIMER_CR"), LoadFrom("GPIO_IDR")}
  BY <1>1, <1>3, LoadIsHarmless
<1>4. CASE a = StoreBack("TIMER_CR", "trg", TRUE)
  <2>1. Harmless(a)
    BY <1>4, StoreBackIsHarmless
  <2>2. QED
    BY <1>1, <2>1
<1>5. CASE a = StoreTo("TIMER_CMPR", Period)
  <2>1. Harmless(a)
    BY <1>5, StoreWrites, WhoWrites DEF Harmless
  <2>2. QED
    BY <1>1, <2>1
<1>6. ASSUME NEW reg \in {"GPIO_RIER", "GPIO_FIER", "GPIO_IER"}, a = StoreTo(reg, Inputs)
      PROVE  Safe
  BY <1>6, StoreWrites, WhoWrites DEF Enables
<1>7. QED
  <2>1. \/ a.op \in {"install", "let_in", "let_in_globally"}
        \/ a \in {LoadFrom("TIMER_CR"), LoadFrom("GPIO_IDR")}
        \/ a = StoreBack("TIMER_CR", "trg", TRUE)
        \/ a = StoreTo("TIMER_CMPR", Period)
        \/ \E reg \in {"GPIO_RIER", "GPIO_FIER", "GPIO_IER"} : a = StoreTo(reg, Inputs)
    <3>1. /\ [op |-> "let_in_globally"].op = "let_in_globally"
          /\ \A source : InstallStep(source).op = "install" /\ LetInStep(source).op = "let_in"
      BY DEF InstallStep, LetInStep
    <3>2. QED
      BY <3>1, Zenon DEF SetUpSteps
  <2>2. QED
    BY <2>1, <1>2, <1>3, <1>4, <1>5, <1>6

LEMMA RegistersKept ==
  ASSUME NEW access, Clock(access)
  PROVE  /\ ~Writes(access, "GPIO_ODR") => odr' = odr
         /\ ~Writes(access, "GPIO_RIER") => rier' = rier
         /\ ~Writes(access, "GPIO_FIER") => fier' = fier
         /\ ~Writes(access, "GPIO_IER") => ier' = ier
         /\ Writes(access, "GPIO_ODR") => odr' = access.wdata
         /\ Writes(access, "GPIO_RIER") => rier' = access.wdata
         /\ Writes(access, "GPIO_FIER") => fier' = access.wdata
         /\ Writes(access, "GPIO_IER") => ier' = access.wdata
  BY DEF Clock, GpioClock, Kept

-----------------------------------------------------------------------------
(* The invariant. *)

\* What the main program and the handler still have to do.
Scripts ==
  /\ api \in {"set_up", "none", "set_pin", "trigger"}
  /\ todo = <<>> <=> api = "none"
  /\ api = "set_up" => /\ todo \in Seq(SetUpSteps)
                       /\ todo[Len(todo)] = LoadFrom("GPIO_IDR")
  /\ api = "trigger" => todo \in {TriggerTimer, Tail(TriggerTimer)}
  /\ serving \in {"none", "timer", "gpio"}
  /\ serving = "timer" => handler_todo \in {ClearMatched, Tail(ClearMatched)}
  /\ serving = "gpio" => handler_todo \in {Handler("gpio"), Tail(Handler("gpio"))}

\* Whatever is let in later on is installed by then.
Ordered(script, done) ==
  \A k \in 1 .. Len(script) :
    script[k].op = "let_in" =>
      \/ script[k].source \in done
      \/ \E j \in 1 .. k - 1 : script[j].op = "install" /\ script[j].source = script[k].source

Installing ==
  /\ mie \subseteq installed
  /\ serving \in installed \cup {"none"}
  /\ api = "set_up" => Ordered(todo, installed)

\* set_pin() has the outputs in a register when it stores them back.
Setting ==
  /\ api = "set_up" => odr = {} /\ wanted = {}
  /\ api \in {"none", "trigger"} => odr = wanted
  /\ api = "set_pin" =>
       \E pin \in Outputs, value \in BOOLEAN :
         /\ wanted = (odr \ {pin}) \cup BitOf(pin, value)
         /\ \/ todo = SetPin(pin, value)
            \/ /\ todo = Tail(SetPin(pin, value))
               /\ main_loaded["GPIO_ODR"] = odr
  /\ DOMAIN main_loaded = {"TIMER_CR", "TIMER_SR", "GPIO_ODR"}

Has(script, a) == \E k \in 1 .. Len(script) : script[k] = a

\* The store to reg is still to be made, or it holds Inputs.
Enabled(reg, value) ==
  value = Inputs \/ (api = "set_up" /\ Has(todo, StoreTo(reg, Inputs)))

Enabling ==
  Enabled("GPIO_RIER", rier) /\ Enabled("GPIO_FIER", fier) /\ Enabled("GPIO_IER", ier)

\* The status register is cleared, the pins not looked at yet.
Cleared == serving = "gpio" /\ handler_todo = Tail(Handler("gpio"))

\* The handler saw the pin as it was in one of the last three cycles.
SeenIn(p, s, a, b, c) ==
  \/ p \in s <=> p \in a
  \/ p \in s <=> p \in b
  \/ p \in s <=> p \in c
Seen(p) == SeenIn(p, sampled, prv, prv2, prv3)
SeenNext(p) == SeenIn(p, sampled', prv', prv2', prv3')

Seeing ==
  /\ idr = prv
  /\ {prv, prv2, prv3, sampled, din} \subseteq SUBSET Inputs
  /\ api # "set_up" /\ ~Cleared => \A p \in Inputs \ isr : Seen(p)

InterruptsInv == Scripts /\ Installing /\ Setting /\ Enabling /\ Seeing

-----------------------------------------------------------------------------
LEMMA InvImplies ==
  ASSUME InterruptsInv
  PROVE  HandlerInstalled /\ PinsObserved /\ OutputsAsWanted
<1>1. HandlerInstalled
  BY DEF InterruptsInv, Installing, HandlerInstalled
<1>2. OutputsAsWanted
  BY DEF InterruptsInv, Setting, OutputsAsWanted
<1>3. PinsObserved
  <2> SUFFICES ASSUME api # "set_up", serving = "none", isr = {}, idr = prv2, prv2 = prv3
               PROVE  sampled = idr
    BY DEF PinsObserved
  <2>1. \A p \in Inputs : Seen(p)
    BY DEF InterruptsInv, Seeing, Cleared
  <2>2. \A p \in Inputs : p \in sampled <=> p \in idr
    BY <2>1 DEF InterruptsInv, Seeing, Seen, SeenIn
  <2>3. sampled \subseteq Inputs /\ idr \subseteq Inputs
    BY DEF InterruptsInv, Seeing
  <2>4. QED
    BY <2>2, <2>3
<1>4. QED
  BY <1>1, <1>2, <1>3

LEMMA PinsClock ==
  ASSUME NEW access, Clock(access), InterruptsInv
  PROVE  /\ idr' = prv' /\ prv2' = prv /\ prv3' = prv2
         /\ {prv', prv2', prv3', din'} \subseteq SUBSET Inputs
  BY DEF Clock, GpioClock, InterruptsInv, Seeing

\* An edge that leaves the detector is recorded, so that a pin goes on being
\* seen as it was.
LEMMA SeenKept ==
  ASSUME InterruptsInv, NEW access, Clock(access), ~Writes(access, "GPIO_ISR"),
         api # "set_up", ~Cleared, sampled' = sampled
  PROVE  \A p \in Inputs \ isr' : SeenNext(p)
<1> SUFFICES ASSUME NEW p \in Inputs \ isr' PROVE SeenNext(p)
  OBVIOUS
<1>1. rier = Inputs /\ fier = Inputs /\ ier = Inputs
  BY DEF InterruptsInv, Enabling, Enabled
<1>2. isr' = isr \cup InterruptDetected
  BY DEF Clock, GpioClock, IsrNxt, Kept
<1>3. (p \in prv2 <=> p \in prv3) /\ p \in Inputs \ isr
  BY <1>1, <1>2 DEF InterruptDetected
<1>4. Seen(p)
  BY <1>3 DEF InterruptsInv, Seeing
<1>5. prv2' = prv /\ prv3' = prv2
  BY DEF Clock, GpioClock
<1>6. QED
  BY <1>3, <1>4, <1>5 DEF Seen, SeenNext, SeenIn

\* A pin looked at is seen.
LEMMA SeenWhenSampled ==
  ASSUME InterruptsInv, NEW access, Clock(access), sampled' = idr
  PROVE  \A p \in Inputs : SeenNext(p)
<1>1. prv2' = prv /\ idr = prv
  BY DEF Clock, GpioClock, InterruptsInv, Seeing
<1>2. QED
  BY <1>1 DEF Seen, SeenNext, SeenIn

-----------------------------------------------------------------------------
(* The invariant holds at first: SetUp is put together from its calls.     *)

LEMMA PutTogether ==
  ASSUME NEW s \in Seq(SetUpSteps), NEW t \in Seq(SetUpSteps),
         Ordered(s, {}), Ordered(t, {})
  PROVE  /\ s \o t \in Seq(SetUpSteps)
         /\ Ordered(s \o t, {})
         /\ \A a : Has(s, a) => Has(s \o t, a)
<1>1. /\ Len(s) \in Nat /\ Len(t) \in Nat
      /\ s \o t \in Seq(SetUpSteps) /\ Len(s \o t) = Len(s) + Len(t)
      /\ \A i \in 1 .. Len(s) + Len(t) :
           (s \o t)[i] = IF i <= Len(s) THEN s[i] ELSE t[i - Len(s)]
  BY ConcatProperties, LenProperties
<1>2. \A k \in 1 .. Len(s) : (s \o t)[k] = s[k]
  BY <1>1
<1>3. \A k \in 1 .. Len(t) : (s \o t)[k + Len(s)] = t[k]
  BY <1>1
<1>4. \A a : Has(s, a) => Has(s \o t, a)
  BY <1>1, <1>2 DEF Has
<1>5. ASSUME NEW k \in 1 .. Len(s \o t), (s \o t)[k].op = "let_in"
      PROVE  \E j \in 1 .. k - 1 : /\ (s \o t)[j].op = "install"
                                   /\ (s \o t)[j].source = (s \o t)[k].source
  <2>1. CASE k \in 1 .. Len(s)
    <3>1. PICK j \in 1 .. k - 1 : s[j].op = "install" /\ s[j].source = s[k].source
      BY <1>2, <1>5, <2>1 DEF Ordered
    <3>2. j \in 1 .. Len(s)
      BY <1>1, <2>1
    <3>3. QED
      BY <1>2, <2>1, <3>1, <3>2
  <2>2. CASE k \notin 1 .. Len(s)
    <3>1. k - Len(s) \in 1 .. Len(t) /\ (k - Len(s)) + Len(s) = k
      BY <1>1, <2>2
    <3>2. (s \o t)[k] = t[k - Len(s)]
      BY <1>3, <3>1
    <3>3. PICK j \in 1 .. k - Len(s) - 1 :
            t[j].op = "install" /\ t[j].source = t[k - Len(s)].source
      BY <1>5, <3>1, <3>2 DEF Ordered
    <3>4. j \in 1 .. Len(t) /\ j + Len(s) \in 1 .. k - 1
      BY <1>1, <3>1
    <3>5. (s \o t)[j + Len(s)] = t[j]
      BY <1>3, <3>4
    <3>6. QED
      BY <3>2, <3>3, <3>4, <3>5
  <2>3. QED
    BY <2>1, <2>2
<1>6. QED
  BY <1>1, <1>4, <1>5 DEF Ordered

LEMMA PairInOrder ==
  ASSUME NEW source \in {"timer", "gpio"}
  PROVE  /\ EnableInterrupts(source) \in Seq(SetUpSteps)
         /\ Ordered(EnableInterrupts(source), {})
<1>1. EnableInterrupts(source) = <<InstallStep(source), LetInStep(source)>>
  BY DEF EnableInterrupts, InstallStep, LetInStep
<1>2. /\ InstallStep(source) \in SetUpSteps /\ LetInStep(source) \in SetUpSteps
      /\ InstallStep(source).op = "install" /\ LetInStep(source).op = "let_in"
      /\ InstallStep(source).source = LetInStep(source).source
  BY DEF SetUpSteps, InstallStep, LetInStep
<1>3. QED
  BY <1>1, <1>2 DEF Ordered

\* Where nothing is let in, nothing is out of order.
LEMMA InOrder ==
  ASSUME NEW s \in Seq(SetUpSteps), \A k \in 1 .. Len(s) : s[k].op # "let_in"
  PROVE  Ordered(s, {})
  BY DEF Ordered

LEMMA OneInOrder ==
  ASSUME NEW a \in SetUpSteps, a.op # "let_in"
  PROVE  /\ <<a>> \in Seq(SetUpSteps) /\ Ordered(<<a>>, {})
         /\ Len(<<a>>) = 1 /\ <<a>>[1] = a
<1> DEFINE s == <<a>>
<1>1. s \in Seq(SetUpSteps) /\ Len(s) = 1 /\ s[1] = a
  OBVIOUS
<1> HIDE DEF s
<1>2. Ordered(s, {})
  BY <1>1, InOrder
<1>3. QED
  BY <1>1, <1>2 DEF s

LEMMA TwoInOrder ==
  ASSUME NEW a \in SetUpSteps, NEW b \in SetUpSteps, a.op # "let_in", b.op # "let_in"
  PROVE  <<a, b>> \in Seq(SetUpSteps) /\ Ordered(<<a, b>>, {})
<1> DEFINE s == <<a, b>>
<1>1. s \in Seq(SetUpSteps) /\ Len(s) = 2 /\ s[1] = a /\ s[2] = b
  OBVIOUS
<1> HIDE DEF s
<1>2. Ordered(s, {})
  BY <1>1, InOrder
<1>3. QED
  BY <1>1, <1>2 DEF s

LEMMA SetUpInOrder ==
  /\ SetUp \in Seq(SetUpSteps)
  /\ SetUp # <<>>
  /\ SetUp[Len(SetUp)] = LoadFrom("GPIO_IDR")
  /\ Ordered(SetUp, {})
  /\ \A reg \in {"GPIO_RIER", "GPIO_FIER", "GPIO_IER"} : Has(SetUp, StoreTo(reg, Inputs))
<1> DEFINE Stores == <<StoreTo("GPIO_RIER", Inputs), StoreTo("GPIO_FIER", Inputs),
                       StoreTo("GPIO_IER", Inputs), StoreTo("TIMER_CMPR", Period)>>
           Last == <<LoadFrom("GPIO_IDR")>>
           A == EnableGlobally \o Stores
           B == A \o EnableInterrupts("timer")
           C == B \o TriggerTimer
           D == C \o EnableInterrupts("gpio")
<1>1. EnableGlobally \in Seq(SetUpSteps) /\ Ordered(EnableGlobally, {})
  <2>1. [op |-> "let_in_globally"] \in SetUpSteps /\ [op |-> "let_in_globally"].op # "let_in"
    BY DEF SetUpSteps
  <2>2. QED
    BY <2>1, OneInOrder DEF EnableGlobally
<1>2. /\ Stores \in Seq(SetUpSteps) /\ Ordered(Stores, {})
      /\ \A reg \in {"GPIO_RIER", "GPIO_FIER", "GPIO_IER"} : Has(Stores, StoreTo(reg, Inputs))
  <2>1. /\ StoreTo("GPIO_RIER", Inputs) \in SetUpSteps /\ StoreTo("GPIO_FIER", Inputs) \in SetUpSteps
        /\ StoreTo("GPIO_IER", Inputs) \in SetUpSteps /\ StoreTo("TIMER_CMPR", Period) \in SetUpSteps
    BY DEF SetUpSteps
  <2>2. \A reg, data : StoreTo(reg, data).op = "store"
    BY DEF StoreTo
  <2>3. /\ Len(Stores) = 4
        /\ Stores[1] = StoreTo("GPIO_RIER", Inputs) /\ Stores[2] = StoreTo("GPIO_FIER", Inputs)
        /\ Stores[3] = StoreTo("GPIO_IER", Inputs) /\ Stores[4] = StoreTo("TIMER_CMPR", Period)
        /\ Stores \in Seq(SetUpSteps)
    BY <2>1
  <2> HIDE DEF Stores
  <2>4. Ordered(Stores, {})
    BY <2>2, <2>3, InOrder
  <2>5. QED
    BY <2>3, <2>4 DEF Has
<1>3. TriggerTimer \in Seq(SetUpSteps) /\ Ordered(TriggerTimer, {})
  <2>1. TriggerTimer = <<LoadFrom("TIMER_CR"), StoreBack("TIMER_CR", "trg", TRUE)>>
    BY DEF TriggerTimer, Update, StoreBack
  <2>2. /\ LoadFrom("TIMER_CR").op = "load"
        /\ StoreBack("TIMER_CR", "trg", TRUE).op = "store_back"
        /\ LoadFrom("TIMER_CR") \in SetUpSteps /\ StoreBack("TIMER_CR", "trg", TRUE) \in SetUpSteps
    BY DEF LoadFrom, StoreBack, SetUpSteps
  <2>3. QED
    BY <2>1, <2>2, TwoInOrder
<1>4. /\ Last \in Seq(SetUpSteps) /\ Ordered(Last, {}) /\ Len(Last) = 1
      /\ Last[1] = LoadFrom("GPIO_IDR")
  <2>1. LoadFrom("GPIO_IDR").op = "load" /\ LoadFrom("GPIO_IDR") \in SetUpSteps
    BY DEF LoadFrom, SetUpSteps
  <2>2. QED
    BY <2>1, OneInOrder
<1> HIDE DEF Stores, Last
<1>5. A \in Seq(SetUpSteps) /\ Ordered(A, {})
  BY <1>1, <1>2, PutTogether
<1>6. \A reg \in {"GPIO_RIER", "GPIO_FIER", "GPIO_IER"} : Has(A, StoreTo(reg, Inputs))
  <2>1. /\ Len(EnableGlobally) \in Nat /\ Len(Stores) \in Nat
        /\ Len(A) = Len(EnableGlobally) + Len(Stores)
        /\ \A i \in 1 .. Len(EnableGlobally) + Len(Stores) :
             A[i] = IF i <= Len(EnableGlobally) THEN EnableGlobally[i]
                    ELSE Stores[i - Len(EnableGlobally)]
    BY <1>1, <1>2, ConcatProperties, LenProperties
  <2> HIDE DEF A
  <2>2. \A k \in 1 .. Len(Stores) :
          k + Len(EnableGlobally) \in 1 .. Len(A) /\ A[k + Len(EnableGlobally)] = Stores[k]
    BY <2>1
  <2>3. QED
    BY <1>2, <2>2 DEF Has
<1> HIDE DEF A
<1>7. /\ B \in Seq(SetUpSteps) /\ Ordered(B, {})
      /\ \A a : Has(A, a) => Has(B, a)
  BY <1>5, PairInOrder, PutTogether
<1> HIDE DEF B
<1>8. /\ C \in Seq(SetUpSteps) /\ Ordered(C, {})
      /\ \A a : Has(B, a) => Has(C, a)
  BY <1>3, <1>7, PutTogether
<1> HIDE DEF C
<1>9. /\ D \in Seq(SetUpSteps) /\ Ordered(D, {})
      /\ \A a : Has(C, a) => Has(D, a)
  BY <1>8, PairInOrder, PutTogether
<1> HIDE DEF D
<1>10. SetUp = D \o Last
  BY DEF SetUp, A, B, C, D, Stores, Last
<1>11. /\ SetUp \in Seq(SetUpSteps) /\ Ordered(SetUp, {})
       /\ \A a : Has(D, a) => Has(SetUp, a)
  BY <1>4, <1>9, <1>10, PutTogether
<1>12. Len(D) \in Nat /\ Len(SetUp) = Len(D) + 1 /\ SetUp[Len(D) + 1] = Last[1]
  <2>1. /\ Len(D \o Last) = Len(D) + Len(Last)
        /\ \A i \in 1 .. Len(D) + Len(Last) :
             (D \o Last)[i] = IF i <= Len(D) THEN D[i] ELSE Last[i - Len(D)]
    BY <1>4, <1>9, ConcatProperties
  <2>2. Len(D) \in Nat
    BY <1>9, LenProperties
  <2>3. QED
    BY <1>4, <1>10, <2>1, <2>2
<1>13. QED
  BY <1>4, <1>6, <1>7, <1>8, <1>9, <1>11, <1>12

LEMMA InitInv == Init => InterruptsInv
<1> SUFFICES ASSUME Init PROVE InterruptsInv
  OBVIOUS
<1> USE DEF Init, TimerInit, GpioInit
<1>1. Scripts
  BY SetUpInOrder DEF Scripts
<1>2. Installing
  BY SetUpInOrder DEF Installing
<1>3. Setting
  BY DEF Setting, NothingLoaded
<1>4. Enabling
  BY SetUpInOrder DEF Enabling, Enabled
<1>5. Seeing
  BY DEF Seeing
<1>6. QED
  BY <1>1, <1>2, <1>3, <1>4, <1>5 DEF InterruptsInv

-----------------------------------------------------------------------------
(* The steps of the processor. *)

\* A pair of steps: its parts.
LEMMA Pair ==
  ASSUME NEW a, NEW b
  PROVE  /\ Head(<<a, b>>) = a /\ Head(Tail(<<a, b>>)) = b
         /\ <<a, b>> # <<>> /\ Tail(<<a, b>>) # <<>> /\ Tail(Tail(<<a, b>>)) = <<>>
         /\ <<a, b>> # Tail(<<a, b>>)
<1>1. <<a, b>> \in Seq({a, b}) /\ Len(<<a, b>>) = 2 /\ <<a, b>>[1] = a /\ <<a, b>>[2] = b
  OBVIOUS
<1> DEFINE s == <<a, b>>
<1> HIDE DEF s
<1>2. s \in Seq({a, b}) /\ Len(s) = 2 /\ s[1] = a /\ s[2] = b
  BY <1>1 DEF s
<1>3. s # <<>>
  BY <1>2
<1>4. Tail(s) \in Seq({a, b}) /\ Len(Tail(s)) = 1 /\ Tail(s)[1] = b
  BY <1>2, <1>3, HeadTailProperties
<1>5. Tail(s) # <<>>
  BY <1>4
<1>6. Tail(Tail(s)) \in Seq({a, b}) /\ Len(Tail(Tail(s))) = 0
  BY <1>4, <1>5, HeadTailProperties
<1>7. Tail(Tail(s)) = <<>>
  <2>1. Len(Tail(Tail(s))) \notin Nat \ {0}
    BY <1>6
  <2>2. QED
    BY <1>6, <2>1, EmptySeq
<1>8. Head(s) = a /\ Head(Tail(s)) = b
  <2>1. \A t \in Seq({a, b}) : t # <<>> => Head(t) = t[1]
    OBVIOUS
  <2>2. QED
    BY <1>2, <1>3, <1>4, <1>5, <2>1
<1>9. s # Tail(s)
  <2>1. Len(s) # Len(Tail(s))
    BY <1>2, <1>4
  <2>2. QED
    BY <2>1
<1>10. QED
  BY <1>3, <1>5, <1>7, <1>8, <1>9 DEF s

\* trigger() loads the control register and stores it back.
LEMMA TriggerScript ==
  /\ Head(TriggerTimer) = LoadFrom("TIMER_CR")
  /\ Head(Tail(TriggerTimer)) = StoreBack("TIMER_CR", "trg", TRUE)
  /\ TriggerTimer # <<>> /\ Tail(TriggerTimer) # <<>> /\ Tail(Tail(TriggerTimer)) = <<>>
<1>1. TriggerTimer = <<LoadFrom("TIMER_CR"), StoreBack("TIMER_CR", "trg", TRUE)>>
  BY DEF TriggerTimer, Update, StoreBack
<1>2. \A b, c : LET t == <<b, c>> IN
        /\ Head(t) = b /\ Head(Tail(t)) = c
        /\ t # <<>> /\ Tail(t) # <<>> /\ Tail(Tail(t)) = <<>>
  BY Pair
<1>3. QED
  BY <1>1, <1>2, Zenon

\* A clock edge with an access that writes none of the registers of the GPIO
\* but the outputs, and no look at the pins.
LEMMA SeeingKept ==
  ASSUME InterruptsInv, NEW access, Clock(access), ~Writes(access, "GPIO_ISR"),
         sampled' = sampled, api' # "set_up" => api # "set_up", Cleared' => FALSE,
         Cleared => FALSE
  PROVE  Seeing'
<1>1. \/ api' = "set_up"
      \/ \A p \in Inputs \ isr' : SeenNext(p)
  BY SeenKept
<1>2. sampled' \in SUBSET Inputs
  BY DEF InterruptsInv, Seeing
<1>3. QED
  BY <1>1, <1>2, PinsClock DEF Seeing, Seen, SeenNext, SeenIn

LEMMA SeeingLooked ==
  ASSUME InterruptsInv, NEW access, Clock(access), sampled' = idr
  PROVE  Seeing'
<1>1. sampled' \in SUBSET Inputs
  BY DEF InterruptsInv, Seeing
<1>2. QED
  BY <1>1, PinsClock, SeenWhenSampled DEF Seeing, Seen, SeenNext, SeenIn

\* With the same program and handlers, and no write to the GPIO, nothing
\* changes for the rest of the invariant.
LEMMA RestKept ==
  ASSUME InterruptsInv, NEW access, Clock(access),
         \A reg \in {"GPIO_ODR", "GPIO_RIER", "GPIO_FIER", "GPIO_IER"} : ~Writes(access, reg),
         UNCHANGED <<api, todo, main_loaded, installed, mie, wanted>>
  PROVE  /\ Setting' /\ Enabling'
         /\ serving' \in installed \cup {"none"} => Installing'
<1>1. odr' = odr /\ rier' = rier /\ fier' = fier /\ ier' = ier
  BY RegistersKept
<1>2. Setting'
  BY <1>1 DEF InterruptsInv, Setting
<1>3. Enabling'
  BY <1>1 DEF InterruptsInv, Enabling, Enabled
<1>4. serving' \in installed \cup {"none"} => Installing'
  BY DEF InterruptsInv, Installing
<1>5. QED
  BY <1>2, <1>3, <1>4

LEMMA TakeInv == InterruptsInv /\ TakeInterrupt => InterruptsInv'
<1> SUFFICES ASSUME InterruptsInv, TakeInterrupt PROVE InterruptsInv'
  OBVIOUS
<1>1. PICK s \in Requests : serving' = s /\ handler_todo' = Handler(s)
  BY DEF TakeInterrupt
<1>2. /\ serving = "none" /\ Clock(NoAccess) /\ sampled' = sampled
      /\ UNCHANGED <<api, todo, main_loaded, installed, mie, wanted>>
  BY DEF TakeInterrupt, Pending
<1>3. s \in {"timer", "gpio"} /\ s \in installed
  BY DEF Requests, InterruptsInv, Installing
<1>4. Handler("timer") = ClearMatched
  BY DEF Handler
<1>5. Scripts'
  BY <1>1, <1>2, <1>3, <1>4 DEF InterruptsInv, Scripts
<1>6. Setting' /\ Enabling' /\ Installing'
  BY <1>1, <1>2, <1>3, RestKept, WhoWrites
<1>7. Seeing'
  <2>1. Handler("gpio") # Tail(Handler("gpio"))
    BY Pair DEF Handler
  <2>2. ~Cleared /\ ~Cleared'
    BY <1>1, <1>2, <2>1 DEF Cleared
  <2>3. QED
    BY <1>2, <2>2, SeeingKept, WhoWrites
<1>8. QED
  BY <1>5, <1>6, <1>7 DEF InterruptsInv

LEMMA HandlerInv == InterruptsInv /\ HandlerStep => InterruptsInv'
<1> SUFFICES ASSUME InterruptsInv, HandlerStep PROVE InterruptsInv'
  OBVIOUS
<1> DEFINE a == Head(handler_todo)
           access == BusAccess(a, handler_loaded)
<1>1. /\ serving # "none" /\ Clock(access)
      /\ sampled' = (IF a = LoadFrom("GPIO_IDR") THEN idr ELSE sampled)
      /\ handler_todo' = Tail(handler_todo)
      /\ serving' = (IF handler_todo' = <<>> THEN "none" ELSE serving)
      /\ UNCHANGED <<api, todo, main_loaded, installed, mie, wanted>>
  BY DEF HandlerStep, Samples
<1>2. /\ Handler("timer") = <<LoadFrom("TIMER_SR"), StoreBack("TIMER_SR", "mtch", FALSE)>>
      /\ Handler("gpio") = <<StoreTo("GPIO_ISR", {}), LoadFrom("GPIO_IDR")>>
      /\ ClearMatched = Handler("timer")
  BY DEF Handler, ClearMatched, Update, StoreBack
<1>3. /\ serving \in {"timer", "gpio"}
      /\ handler_todo = Handler(serving) \/ handler_todo = Tail(Handler(serving))
  BY <1>1, <1>2 DEF InterruptsInv, Scripts
<1>4. \A s \in {"timer", "gpio"} :
        Tail(Handler(s)) # <<>> /\ Tail(Tail(Handler(s))) = <<>> /\ Handler(s) # Tail(Handler(s))
  <2>1. \A b, c : LET s == <<b, c>> IN Tail(s) # <<>> /\ Tail(Tail(s)) = <<>> /\ s # Tail(s)
    BY Pair
  <2>2. QED
    BY <1>2, <2>1, Zenon
<1>5. /\ serving = "timer" => a \in {LoadFrom("TIMER_SR"), StoreBack("TIMER_SR", "mtch", FALSE)}
      /\ serving = "gpio" /\ handler_todo = Handler("gpio") => a = StoreTo("GPIO_ISR", {})
      /\ serving = "gpio" /\ handler_todo # Handler("gpio") => a = LoadFrom("GPIO_IDR")
  <2>1. /\ Head(Handler("timer")) = LoadFrom("TIMER_SR")
        /\ Head(Tail(Handler("timer"))) = StoreBack("TIMER_SR", "mtch", FALSE)
        /\ Head(Handler("gpio")) = StoreTo("GPIO_ISR", {})
        /\ Head(Tail(Handler("gpio"))) = LoadFrom("GPIO_IDR")
    <3>1. \A b, c : Head(<<b, c>>) = b /\ Head(Tail(<<b, c>>)) = c
      BY Pair
    <3>2. QED
      BY <1>2, <3>1, ZenonT(40)
  <2>2. QED
    BY <1>3, <2>1
<1>6. Harmless(a)
  BY <1>3, <1>5, HandlersAreHarmless DEF HandlerSteps
<1> HIDE DEF a
<1>7. Scripts'
  BY <1>1, <1>2, <1>3, <1>4 DEF InterruptsInv, Scripts
<1>8. Setting' /\ Enabling' /\ Installing'
  <2>1. \A reg \in {"GPIO_ODR", "GPIO_RIER", "GPIO_FIER", "GPIO_IER"} : ~Writes(access, reg)
    BY <1>6 DEF Harmless
  <2>2. serving' \in installed \cup {"none"}
    BY <1>1 DEF InterruptsInv, Installing
  <2>3. QED
    BY <1>1, <2>1, <2>2, RestKept
<1>9. Seeing'
  <2>1. CASE serving = "timer"
    <3>1. ~Cleared /\ ~Cleared'
      BY <1>1, <2>1 DEF Cleared
    <3>2. a # LoadFrom("GPIO_IDR") /\ ~Writes(access, "GPIO_ISR")
      <4>1. CASE a = LoadFrom("TIMER_SR")
        <5>1. LoadFrom("TIMER_SR").reg # LoadFrom("GPIO_IDR").reg
          BY DEF LoadFrom
        <5>2. QED
          BY <4>1, <5>1, LoadReads, WhoWrites
      <4>2. CASE a = StoreBack("TIMER_SR", "mtch", FALSE)
        <5>1. StoreBack("TIMER_SR", "mtch", FALSE).reg # LoadFrom("GPIO_IDR").reg
          BY DEF LoadFrom, StoreBack
        <5>2. ~Writes(access, "GPIO_ISR")
          BY <4>2, StoreBackSpares
        <5>3. QED
          BY <4>2, <5>1, <5>2
      <4>3. QED
        BY <1>5, <2>1, <4>1, <4>2
    <3>3. QED
      BY <1>1, <3>1, <3>2, SeeingKept
  <2>2. CASE serving = "gpio" /\ handler_todo = Handler("gpio")
    <3>1. Cleared'
      BY <1>1, <1>4, <2>2 DEF Cleared
    <3>2. sampled' \in SUBSET Inputs
      BY <1>1 DEF InterruptsInv, Seeing
    <3>3. QED
      BY <1>1, <3>1, <3>2, PinsClock DEF Seeing
  <2>3. CASE serving = "gpio" /\ handler_todo # Handler("gpio")
    <3>1. sampled' = idr
      BY <1>1, <1>5, <2>3
    <3>2. QED
      BY <1>1, <3>1, SeeingLooked
  <2>4. QED
    BY <1>3, <2>1, <2>2, <2>3
<1>10. QED
  BY <1>7, <1>8, <1>9 DEF InterruptsInv

LEMMA IdleInv == InterruptsInv /\ CpuIdle => InterruptsInv'
<1> SUFFICES ASSUME InterruptsInv, CpuIdle PROVE InterruptsInv'
  OBVIOUS
<1>1. /\ Clock(NoAccess) /\ sampled' = sampled
      /\ UNCHANGED <<api, todo, serving, handler_todo, main_loaded, installed, mie, wanted>>
  BY DEF CpuIdle
<1>2. Scripts'
  BY <1>1 DEF InterruptsInv, Scripts
<1>3. Setting' /\ Enabling' /\ Installing'
  BY <1>1, RestKept, WhoWrites DEF InterruptsInv, Installing
<1>4. Seeing'
  <2>1. CASE Cleared
    <3>1. Cleared'
      BY <1>1, <2>1 DEF Cleared
    <3>2. sampled' \in SUBSET Inputs
      BY <1>1 DEF InterruptsInv, Seeing
    <3>3. QED
      BY <1>1, <3>1, <3>2, PinsClock DEF Seeing
  <2>2. CASE ~Cleared
    <3>1. ~Cleared'
      BY <1>1, <2>2 DEF Cleared
    <3>2. QED
      BY <1>1, <2>2, <3>1, SeeingKept, WhoWrites
  <2>3. QED
    BY <2>1, <2>2
<1>5. QED
  BY <1>2, <1>3, <1>4 DEF InterruptsInv

LEMMA CallInv == InterruptsInv /\ MainCalls => InterruptsInv'
<1> SUFFICES ASSUME InterruptsInv, MainCalls PROVE InterruptsInv'
  OBVIOUS
<1>1. /\ serving = "none" /\ api = "none" /\ api' \in {"set_pin", "trigger"}
      /\ Clock(NoAccess) /\ sampled' = sampled
      /\ UNCHANGED <<serving, handler_todo, main_loaded, installed, mie>>
  BY DEF MainCalls, Asks, Call
<1>2. odr' = odr /\ rier' = rier /\ fier' = fier /\ ier' = ier /\ odr = wanted
  BY <1>1, RegistersKept, WhoWrites DEF InterruptsInv, Setting
<1>3. Scripts' /\ Setting'
  <2>1. CASE api' = "set_pin"
    <3>1. PICK pin \in Outputs, value \in BOOLEAN :
            /\ todo' = SetPin(pin, value)
            /\ wanted' = IF value THEN wanted \cup {pin} ELSE wanted \ {pin}
      BY <2>1 DEF MainCalls, Asks, Call
    <3>2. SetPin(pin, value) # <<>>
      BY Pair DEF SetPin, SetMaskBits
    <3>3. wanted' = (odr' \ {pin}) \cup BitOf(pin, value)
      BY <1>2, <3>1 DEF BitOf
    <3>4. QED
      BY <1>1, <2>1, <3>1, <3>2, <3>3 DEF InterruptsInv, Scripts, Setting
  <2>2. CASE api' = "trigger"
    <3>1. todo' = TriggerTimer /\ wanted' = wanted
      BY <2>2 DEF MainCalls, Asks, Call
    <3>2. QED
      BY <1>1, <1>2, <2>2, <3>1, TriggerScript DEF InterruptsInv, Scripts, Setting
  <2>3. QED
    BY <1>1, <2>1, <2>2
<1>4. Enabling' /\ Installing'
  <2>1. rier = Inputs /\ fier = Inputs /\ ier = Inputs
    BY <1>1 DEF InterruptsInv, Enabling, Enabled
  <2>2. rier' = Inputs /\ fier' = Inputs /\ ier' = Inputs
    BY <1>2, <2>1
  <2>3. Enabling'
    BY <2>2, Zenon DEF Enabling, Enabled
  <2>4. Installing'
    BY <1>1 DEF InterruptsInv, Installing
  <2>5. QED
    BY <2>3, <2>4
<1>5. Seeing'
  <2>1. ~Cleared /\ ~Cleared'
    BY <1>1 DEF Cleared
  <2>2. QED
    BY <1>1, <2>1, SeeingKept, WhoWrites
<1>6. QED
  BY <1>3, <1>4, <1>5 DEF InterruptsInv

-----------------------------------------------------------------------------
(* The steps of the main program: of set_pin(), trigger() and the set-up. *)

LEMMA MainStepDoes ==
  ASSUME MainStep
  PROVE  /\ serving = "none" /\ todo # <<>>
         /\ Clock(BusAccess(Head(todo), main_loaded))
         /\ main_loaded' = Loaded(Head(todo), main_loaded)
         /\ sampled' = (IF Head(todo) = LoadFrom("GPIO_IDR") THEN idr ELSE sampled)
         /\ installed' = (IF Head(todo).op = "install" THEN installed \cup {Head(todo).source}
                          ELSE installed)
         /\ mie' = (IF Head(todo).op = "let_in" THEN mie \cup {Head(todo).source} ELSE mie)
         /\ todo' = Tail(todo)
         /\ api' = (IF todo' = <<>> THEN "none" ELSE api)
         /\ UNCHANGED <<serving, handler_todo, wanted>>
  BY DEF MainStep, Samples, Retire

LEMMA LoadedKeepsDomain ==
  ASSUME NEW a, DOMAIN main_loaded = {"TIMER_CR", "TIMER_SR", "GPIO_ODR"}
  PROVE  DOMAIN Loaded(a, main_loaded) = {"TIMER_CR", "TIMER_SR", "GPIO_ODR"}
  BY DEF Loaded, NothingLoaded

LEMMA PinInv == InterruptsInv /\ MainStep /\ api = "set_pin" => InterruptsInv'
<1> SUFFICES ASSUME InterruptsInv, MainStep, api = "set_pin" PROVE InterruptsInv'
  OBVIOUS
<1> DEFINE a == Head(todo)
           access == BusAccess(a, main_loaded)
<1>1. PICK pin \in Outputs, value \in BOOLEAN :
        /\ wanted = (odr \ {pin}) \cup BitOf(pin, value)
        /\ \/ todo = SetPin(pin, value)
           \/ todo = Tail(SetPin(pin, value)) /\ main_loaded["GPIO_ODR"] = odr
  BY DEF InterruptsInv, Setting
<1>2. SetPin(pin, value) = <<LoadFrom("GPIO_ODR"), StoreBits({pin}, BitOf(pin, value))>>
  BY DEF SetPin, SetMaskBits, StoreBits, BitOf
<1>3. /\ Head(SetPin(pin, value)) = LoadFrom("GPIO_ODR")
      /\ Head(Tail(SetPin(pin, value))) = StoreBits({pin}, BitOf(pin, value))
      /\ Tail(SetPin(pin, value)) # <<>> /\ Tail(Tail(SetPin(pin, value))) = <<>>
  <2>1. \A b, c : /\ Head(<<b, c>>) = b /\ Head(Tail(<<b, c>>)) = c
                  /\ Tail(<<b, c>>) # <<>> /\ Tail(Tail(<<b, c>>)) = <<>>
    BY Pair
  <2>2. QED
    BY <1>2, <2>1, Zenon
<1>4. DOMAIN main_loaded' = {"TIMER_CR", "TIMER_SR", "GPIO_ODR"}
  BY MainStepDoes, LoadedKeepsDomain DEF InterruptsInv, Setting
<1>5. CASE todo = SetPin(pin, value)
  <2>1. a = LoadFrom("GPIO_ODR") /\ todo' = Tail(SetPin(pin, value)) /\ api' = "set_pin"
    BY <1>3, <1>5, MainStepDoes
  <2>2. access = ReadOf("GPIO_ODR")
    BY <2>1, LoadReads
  <2>3. LoadFrom("GPIO_ODR").op = "load" /\ LoadFrom("GPIO_ODR").reg = "GPIO_ODR"
        /\ \A reg : LoadFrom(reg).reg = reg
    BY DEF LoadFrom
  <2>4. /\ serving = "none" /\ Clock(access) /\ sampled' = sampled
        /\ UNCHANGED <<serving, handler_todo, wanted, installed, mie>>
    BY <2>1, <2>3, MainStepDoes
  <2>5. odr' = odr /\ rier' = rier /\ fier' = fier /\ ier' = ier
    BY <2>2, <2>4, RegistersKept, WhoWrites
  <2>6. main_loaded'["GPIO_ODR"] = odr'
    <3>1. main_loaded' = [main_loaded EXCEPT !["GPIO_ODR"] = odr]
      BY <2>1, <2>3, MainStepDoes DEF Loaded
    <3>2. QED
      BY <2>5, <3>1 DEF InterruptsInv, Setting
  <2>7. Setting'
    <3>1. wanted' = (odr' \ {pin}) \cup BitOf(pin, value)
      BY <1>1, <2>4, <2>5
    <3>2. QED
      BY <1>4, <2>1, <2>6, <3>1 DEF Setting
  <2>8. Scripts'
    BY <1>3, <2>1, <2>4 DEF InterruptsInv, Scripts
  <2>9. Enabling'
    <3>1. rier' = Inputs /\ fier' = Inputs /\ ier' = Inputs
      BY <2>5 DEF InterruptsInv, Enabling, Enabled
    <3>2. QED
      BY <3>1 DEF Enabling, Enabled
  <2>10. Installing'
    BY <2>1, <2>4 DEF InterruptsInv, Installing
  <2>11. Seeing'
    <3>1. ~Cleared /\ ~Cleared'
      BY <2>4 DEF Cleared
    <3>2. QED
      BY <2>2, <2>4, <3>1, SeeingKept, WhoWrites
  <2>12. QED
    BY <2>7, <2>8, <2>9, <2>10, <2>11 DEF InterruptsInv
<1>6. CASE todo = Tail(SetPin(pin, value)) /\ main_loaded["GPIO_ODR"] = odr
  <2>1. a = StoreBits({pin}, BitOf(pin, value)) /\ todo' = <<>> /\ api' = "none"
    BY <1>3, <1>6, MainStepDoes
  <2>2. access = WriteOf("GPIO_ODR", (odr \ {pin}) \cup (BitOf(pin, value) \cap {pin}))
    BY <1>6, <2>1, StoreBitsWrites
  <2>3. a.op = "store_bits" /\ LoadFrom("GPIO_IDR").op = "load"
    BY <2>1 DEF StoreBits, LoadFrom
  <2>4. /\ serving = "none" /\ Clock(access) /\ sampled' = sampled
        /\ UNCHANGED <<serving, handler_todo, wanted, installed, mie>>
    BY <2>3, MainStepDoes
  <2>5. rier' = rier /\ fier' = fier /\ ier' = ier
    BY <2>2, <2>4, RegistersKept, WhoWrites
  <2>6. odr' = wanted'
    <3>1. odr' = (odr \ {pin}) \cup (BitOf(pin, value) \cap {pin})
      BY <2>2, <2>4, RegistersKept, WhoWrites
    <3>2. QED
      BY <1>1, <2>4, <3>1 DEF BitOf
  <2>7. Setting'
    BY <1>4, <2>1, <2>6 DEF Setting
  <2>8. Scripts'
    BY <2>1, <2>4 DEF InterruptsInv, Scripts
  <2>9. Enabling'
    <3>1. rier' = Inputs /\ fier' = Inputs /\ ier' = Inputs
      BY <2>5 DEF InterruptsInv, Enabling, Enabled
    <3>2. QED
      BY <3>1 DEF Enabling, Enabled
  <2>10. Installing'
    BY <2>1, <2>4 DEF InterruptsInv, Installing
  <2>11. Seeing'
    <3>1. ~Cleared /\ ~Cleared'
      BY <2>4 DEF Cleared
    <3>2. QED
      BY <2>2, <2>4, <3>1, SeeingKept, WhoWrites
  <2>12. QED
    BY <2>7, <2>8, <2>9, <2>10, <2>11 DEF InterruptsInv
<1>7. QED
  BY <1>1, <1>5, <1>6

\* trigger() has nothing to do with the GPIO.
LEMMA TriggerInv == InterruptsInv /\ MainStep /\ api = "trigger" => InterruptsInv'
<1> SUFFICES ASSUME InterruptsInv, MainStep, api = "trigger" PROVE InterruptsInv'
  OBVIOUS
<1> DEFINE a == Head(todo)
           access == BusAccess(a, main_loaded)
<1>1. todo \in {TriggerTimer, Tail(TriggerTimer)}
  BY DEF InterruptsInv, Scripts
<1>2. /\ a \in {LoadFrom("TIMER_CR"), StoreBack("TIMER_CR", "trg", TRUE)}
      /\ todo' = <<>> \/ todo' = Tail(TriggerTimer)
  BY <1>1, TriggerScript, MainStepDoes
<1>3. /\ Harmless(a) /\ ~Writes(access, "GPIO_ISR")
      /\ a.op \notin {"install", "let_in"} /\ a # LoadFrom("GPIO_IDR")
  <2>1. CASE a = LoadFrom("TIMER_CR")
    <3>1. a.op = "load" /\ a.reg = "TIMER_CR" /\ LoadFrom("GPIO_IDR").reg = "GPIO_IDR"
      BY <2>1 DEF LoadFrom
    <3>2. a # LoadFrom("GPIO_IDR")
      BY <3>1
    <3>3. QED
      BY <2>1, <3>1, <3>2, LoadIsHarmless, LoadReads, WhoWrites
  <2>2. CASE a = StoreBack("TIMER_CR", "trg", TRUE)
    <3>1. a.op = "store_back" /\ LoadFrom("GPIO_IDR").op = "load"
      BY <2>2 DEF StoreBack, LoadFrom
    <3>2. Harmless(a) /\ ~Writes(access, "GPIO_ISR")
      BY <2>2, StoreBackIsHarmless, StoreBackSpares
    <3>3. QED
      BY <3>1, <3>2
  <2>3. QED
    BY <1>2, <2>1, <2>2
<1>4. /\ serving = "none" /\ Clock(access) /\ sampled' = sampled
      /\ api' = (IF todo' = <<>> THEN "none" ELSE "trigger")
      /\ UNCHANGED <<serving, handler_todo, wanted, installed, mie>>
  BY <1>3, MainStepDoes
<1>5. odr' = odr /\ rier' = rier /\ fier' = fier /\ ier' = ier
  BY <1>3, <1>4, RegistersKept DEF Harmless
<1> HIDE DEF a
<1>6. Scripts'
  BY <1>2, <1>4, TriggerScript DEF InterruptsInv, Scripts
<1>7. Setting'
  <2>1. DOMAIN main_loaded' = {"TIMER_CR", "TIMER_SR", "GPIO_ODR"}
    BY MainStepDoes, LoadedKeepsDomain DEF InterruptsInv, Setting
  <2>2. QED
    BY <1>4, <1>5, <2>1 DEF InterruptsInv, Setting
<1>8. Enabling'
  <2>1. rier' = Inputs /\ fier' = Inputs /\ ier' = Inputs
    BY <1>5 DEF InterruptsInv, Enabling, Enabled
  <2>2. QED
    BY <2>1 DEF Enabling, Enabled
<1>9. Installing'
  BY <1>4 DEF InterruptsInv, Installing
<1>10. Seeing'
  <2>1. ~Cleared /\ ~Cleared'
    BY <1>4 DEF Cleared
  <2>2. QED
    BY <1>3, <1>4, <2>1, SeeingKept
<1>11. QED
  BY <1>6, <1>7, <1>8, <1>9, <1>10 DEF InterruptsInv

LEMMA SetUpInv == InterruptsInv /\ MainStep /\ api = "set_up" => InterruptsInv'
<1> SUFFICES ASSUME InterruptsInv, MainStep, api = "set_up" PROVE InterruptsInv'
  OBVIOUS
<1> DEFINE a == Head(todo)
           access == BusAccess(a, main_loaded)
           rest == Tail(todo)
<1>1. todo \in Seq(SetUpSteps) /\ todo # <<>> /\ todo[Len(todo)] = LoadFrom("GPIO_IDR")
  BY MainStepDoes DEF InterruptsInv, Scripts
<1>2. /\ a \in SetUpSteps /\ a = todo[1]
      /\ rest \in Seq(SetUpSteps) /\ Len(rest) = Len(todo) - 1
      /\ \A i \in 1 .. Len(rest) : rest[i] = todo[i + 1]
      /\ Len(todo) \in Nat \ {0}
  BY <1>1, HeadTailProperties, EmptySeq
<1>3. /\ serving = "none" /\ Clock(access) /\ todo' = rest
      /\ api' = (IF rest = <<>> THEN "none" ELSE "set_up")
      /\ UNCHANGED <<serving, handler_todo, wanted>>
  BY MainStepDoes
<1>4. /\ installed' = (IF a.op = "install" THEN installed \cup {a.source} ELSE installed)
      /\ mie' = (IF a.op = "let_in" THEN mie \cup {a.source} ELSE mie)
      /\ sampled' = (IF a = LoadFrom("GPIO_IDR") THEN idr ELSE sampled)
  BY MainStepDoes
<1>5. /\ ~Writes(access, "GPIO_ODR")
      /\ \A reg \in {"GPIO_RIER", "GPIO_FIER", "GPIO_IER"} : Enables(a, reg)
  BY <1>2, SetUpWrites
<1>6. DOMAIN main_loaded' = {"TIMER_CR", "TIMER_SR", "GPIO_ODR"}
  BY MainStepDoes, LoadedKeepsDomain DEF InterruptsInv, Setting
<1>7. rest = <<>> => a = LoadFrom("GPIO_IDR")
  <2>1. rest = <<>> => Len(rest) = 0
    BY EmptySeq
  <2> HIDE DEF rest
  <2>2. rest = <<>> => Len(todo) = 1
    BY <1>2, <2>1
  <2>3. QED
    BY <1>1, <1>2, <2>2
<1>8. rest # <<>> => rest[Len(rest)] = LoadFrom("GPIO_IDR")
  <2>1. rest # <<>> => Len(rest) \in 1 .. Len(rest) /\ Len(rest) + 1 = Len(todo)
    BY <1>2, EmptySeq
  <2>2. QED
    BY <1>1, <1>2, <2>1
<1> HIDE DEF a, rest
<1>9. Scripts'
  BY <1>2, <1>3, <1>8 DEF InterruptsInv, Scripts
<1>10. Setting'
  <2>1. odr' = {} /\ wanted' = {}
    BY <1>3, <1>5, RegistersKept DEF InterruptsInv, Setting
  <2>2. QED
    BY <1>3, <1>6, <2>1 DEF Setting
<1>11. Installing'
  <2>1. a.op = "let_in" => a.source \in installed
    <3>1. 1 \in 1 .. Len(todo) /\ \A j \in 1 .. 1 - 1 : FALSE
      BY <1>2
    <3>2. QED
      BY <1>2, <3>1 DEF InterruptsInv, Installing, Ordered
  <2>2. mie' \subseteq installed'
    BY <1>4, <2>1 DEF InterruptsInv, Installing
  <2>3. Ordered(rest, installed')
    <3> SUFFICES ASSUME NEW k \in 1 .. Len(rest), rest[k].op = "let_in",
                        rest[k].source \notin installed'
                 PROVE  \E j \in 1 .. k - 1 :
                          rest[j].op = "install" /\ rest[j].source = rest[k].source
      BY DEF Ordered
    <3>1. k + 1 \in 1 .. Len(todo) /\ rest[k] = todo[k + 1]
      BY <1>2
    <3>2. todo[k + 1].source \notin installed
      BY <1>4, <3>1
    <3>3. PICK j \in 1 .. (k + 1) - 1 :
            todo[j].op = "install" /\ todo[j].source = todo[k + 1].source
      BY <3>1, <3>2 DEF InterruptsInv, Installing, Ordered
    <3>4. j # 1
      BY <1>2, <1>4, <3>1, <3>3
    <3>5. j - 1 \in 1 .. k - 1 /\ j - 1 \in 1 .. Len(rest) /\ (j - 1) + 1 = j
      BY <1>2, <3>3, <3>4
    <3>6. rest[j - 1] = todo[j]
      BY <1>2, <3>5
    <3>7. QED
      BY <3>1, <3>3, <3>5, <3>6
  <2>4. QED
    BY <1>3, <2>2, <2>3 DEF Installing
<1>12. ASSUME NEW reg \in {"GPIO_RIER", "GPIO_FIER", "GPIO_IER"},
              NEW old, NEW new, Enabled(reg, old),
              ~Writes(access, reg) => new = old,
              Writes(access, reg) => new = access.wdata
       PROVE  new = Inputs \/ (api' = "set_up" /\ Has(rest, StoreTo(reg, Inputs)))
  <2>1. CASE Writes(access, reg)
    BY <1>5, <1>12, <2>1 DEF Enables
  <2>2. CASE ~Writes(access, reg) /\ old = Inputs
    BY <1>12, <2>2
  <2>3. CASE ~Writes(access, reg) /\ Has(todo, StoreTo(reg, Inputs))
    <3>1. PICK k \in 1 .. Len(todo) : todo[k] = StoreTo(reg, Inputs)
      BY <2>3 DEF Has
    <3>2. a # StoreTo(reg, Inputs)
      <4>1. Writes(WriteOf(reg, Inputs), reg)
        BY WhoWrites
      <4>2. QED
        BY <2>3, <4>1, StoreWrites
    <3>3. k # 1
      BY <1>2, <3>1, <3>2
    <3>4. k - 1 \in 1 .. Len(rest) /\ (k - 1) + 1 = k
      BY <1>2, <3>1, <3>3
    <3>5. rest[k - 1] = StoreTo(reg, Inputs)
      BY <1>2, <3>1, <3>4
    <3>6. Has(rest, StoreTo(reg, Inputs))
      BY <3>4, <3>5 DEF Has
    <3>7. rest # <<>>
      BY <3>4
    <3>8. QED
      BY <1>3, <3>6, <3>7
  <2>4. QED
    BY <1>12, <2>1, <2>2, <2>3 DEF Enabled
<1>13. Enabling'
  <2>1. /\ Enabled("GPIO_RIER", rier) /\ Enabled("GPIO_FIER", fier)
        /\ Enabled("GPIO_IER", ier)
    BY DEF InterruptsInv, Enabling
  <2>2. /\ rier' = Inputs \/ (api' = "set_up" /\ Has(rest, StoreTo("GPIO_RIER", Inputs)))
        /\ fier' = Inputs \/ (api' = "set_up" /\ Has(rest, StoreTo("GPIO_FIER", Inputs)))
        /\ ier' = Inputs \/ (api' = "set_up" /\ Has(rest, StoreTo("GPIO_IER", Inputs)))
    BY <1>3, <1>12, <2>1, RegistersKept
  <2>3. QED
    BY <1>3, <2>2 DEF Enabling, Enabled, Has
<1>14. Seeing'
  <2>1. CASE rest = <<>>
    BY <1>3, <1>4, <1>7, <2>1, SeeingLooked
  <2>2. CASE rest # <<>>
    <3>1. api' = "set_up"
      BY <1>3, <2>2
    <3>2. sampled' \in SUBSET Inputs
      BY <1>4 DEF InterruptsInv, Seeing
    <3>3. QED
      BY <1>3, <3>1, <3>2, PinsClock DEF Seeing
  <2>3. QED
    BY <2>1, <2>2
<1>15. QED
  BY <1>9, <1>10, <1>11, <1>13, <1>14 DEF InterruptsInv

LEMMA NextInv == InterruptsInv /\ [Next]_vars => InterruptsInv'
<1> SUFFICES ASSUME InterruptsInv, [Next]_vars PROVE InterruptsInv'
  OBVIOUS
<1>1. CASE TakeInterrupt
  BY <1>1, TakeInv
<1>2. CASE HandlerStep
  BY <1>2, HandlerInv
<1>3. CASE MainStep
  <2>1. api \in {"set_up", "set_pin", "trigger"}
    BY <1>3, MainStepDoes DEF InterruptsInv, Scripts
  <2>2. QED
    BY <1>3, <2>1, SetUpInv, PinInv, TriggerInv
<1>4. CASE CpuIdle
  BY <1>4, IdleInv
<1>5. CASE MainCalls
  BY <1>5, CallInv
<1>6. CASE UNCHANGED vars
  BY <1>6 DEF vars, cpuVars, driverVars, timerVars, gpioVars, InterruptsInv, Scripts,
     Installing, Setting, Enabling, Enabled, Has, Cleared, Seen, SeenIn, Seeing
<1>7. QED
  BY <1>1, <1>2, <1>3, <1>4, <1>5, <1>6 DEF Next

\* Whatever comes when, a handler that runs was installed before
\* (Interrupt::register_handler() before enabling).
THEOREM HandlerIsInstalled == Spec => []HandlerInstalled
<1>1. InterruptsInv => HandlerInstalled
  BY InvImplies
<1>2. QED
  BY <1>1, InitInv, NextInv, PTL DEF Spec

\* The software's view of the input pins does not stay behind, for any pins
\* and any pace of the processor.
THEOREM PinsAreObserved == Spec => []PinsObserved
<1>1. InterruptsInv => PinsObserved
  BY InvImplies
<1>2. QED
  BY <1>1, InitInv, NextInv, PTL DEF Spec

\* set_pin() changes its pin and no other, whatever interrupts it.
THEOREM OutputsAreAsWanted == Spec => []OutputsAsWanted
<1>1. InterruptsInv => OutputsAsWanted
  BY InvImplies
<1>2. QED
  BY <1>1, InitInv, NextInv, PTL DEF Spec

-----------------------------------------------------------------------------
(* The matches of the timer.  A processor that makes a step in every       *)
(* SlowestGap cycles answers a match within five of them: two for the      *)
(* handler of the GPIO, if that runs already, one to take the interrupt,   *)
(* two for the load and the store that clear it.                           *)

KeepsUp == AccessGap <= SlowestGap /\ 5 * SlowestGap <= Period

Controls == [trg : BOOLEAN, hlt : BOOLEAN, sngl : BOOLEAN]
Statuses == [mtch : BOOLEAN, act : BOOLEAN]

Trigger == StoreBack("TIMER_CR", "trg", TRUE)
LetInGlobally == [op |-> "let_in_globally"]

TimerTypes ==
  /\ cr \in Controls /\ main_loaded["TIMER_CR"] \in Controls
  /\ sr \in Statuses /\ handler_loaded["TIMER_SR"] \in Statuses
  /\ DOMAIN handler_loaded = {"TIMER_CR", "TIMER_SR", "GPIO_ODR"}
  /\ counting \in BOOLEAN /\ counter \in 0 .. Period
  /\ mstatus_mie \in BOOLEAN
  /\ gap \in 1 .. SlowestGap

\* Step a comes before the timer is triggered.
Before(script, a) ==
  \A k \in 1 .. Len(script) :
    script[k] = Trigger => \E j \in 1 .. k - 1 : script[j] = a

Armed == cmpr = Period /\ "timer" \in mie /\ mstatus_mie

\* Whatever the timer needs is done, or will be before it is triggered.
Preparing ==
  /\ api = "set_up" =>
       /\ cmpr = Period \/ Before(todo, StoreTo("TIMER_CMPR", Period))
       /\ "timer" \in mie \/ Before(todo, LetInStep("timer"))
       /\ mstatus_mie \/ Before(todo, LetInGlobally)
  /\ Armed \/ (api = "set_up" /\ Has(todo, Trigger))

\* The counter started again with the match: it tells how late the answer is.
InTime ==
  /\ serving = "gpio" /\ unanswered = 1 => counter < SlowestGap + gap
  /\ serving = "gpio" /\ unanswered = 1 /\ ~Cleared => counter < gap
  /\ serving = "none" /\ unanswered = 1 => counter <= 2 * SlowestGap + gap
  /\ serving = "none" /\ unanswered = 1 /\ api = "none" => counter < 2 * SlowestGap + gap
  /\ serving = "timer" => counter <= 4 * SlowestGap + gap
  /\ serving = "timer" /\ handler_todo = ClearMatched => counter <= 3 * SlowestGap + gap

Answering ==
  /\ unanswered \in {0, 1}
  /\ serving = "timer" => unanswered = 0
  /\ serving # "timer" => (sr.mtch <=> unanswered = 1)
  /\ cr.trg \/ counting \/ sr.mtch => Armed

TimelyInv == TimerTypes /\ Preparing /\ Answering /\ InTime

-----------------------------------------------------------------------------
(* The set-up triggers the timer last. *)

\* The timer is not triggered by script.
Spares(script) == \A k \in 1 .. Len(script) : script[k] # Trigger

LEMMA Together ==
  ASSUME NEW s \in Seq(SetUpSteps), NEW t \in Seq(SetUpSteps)
  PROVE  /\ s \o t \in Seq(SetUpSteps)
         /\ \A a : Has(s, a) \/ Has(t, a) => Has(s \o t, a)
         /\ \A a : Has(s, a) /\ Before(s, a) => Before(s \o t, a)
         /\ Spares(s) /\ Spares(t) => Spares(s \o t)
<1>1. /\ Len(s) \in Nat /\ Len(t) \in Nat
      /\ s \o t \in Seq(SetUpSteps) /\ Len(s \o t) = Len(s) + Len(t)
      /\ \A i \in 1 .. Len(s) + Len(t) :
           (s \o t)[i] = IF i <= Len(s) THEN s[i] ELSE t[i - Len(s)]
  BY ConcatProperties, LenProperties
<1>2. \A k \in 1 .. Len(s) : k \in 1 .. Len(s \o t) /\ (s \o t)[k] = s[k]
  BY <1>1
<1>3. \A k \in 1 .. Len(t) : k + Len(s) \in 1 .. Len(s \o t) /\ (s \o t)[k + Len(s)] = t[k]
  BY <1>1
<1>4. \A k \in 1 .. Len(s \o t) :
        \/ k \in 1 .. Len(s)
        \/ k - Len(s) \in 1 .. Len(t) /\ k > Len(s) /\ (s \o t)[k] = t[k - Len(s)]
  BY <1>1
<1>5. ASSUME NEW a, Has(s, a) \/ Has(t, a) PROVE Has(s \o t, a)
  BY <1>2, <1>3, <1>5 DEF Has
<1>6. ASSUME NEW a, Has(s, a), Before(s, a), NEW k \in 1 .. Len(s \o t), (s \o t)[k] = Trigger
      PROVE  \E j \in 1 .. k - 1 : (s \o t)[j] = a
  <2>1. CASE k \in 1 .. Len(s)
    <3>1. PICK j \in 1 .. k - 1 : s[j] = a
      BY <1>2, <1>6, <2>1 DEF Before
    <3>2. j \in 1 .. Len(s)
      BY <1>1, <2>1
    <3>3. QED
      BY <1>2, <3>1, <3>2
  <2>2. CASE k > Len(s)
    <3>1. PICK j \in 1 .. Len(s) : s[j] = a
      BY <1>6 DEF Has
    <3>2. j \in 1 .. k - 1
      BY <1>1, <2>2
    <3>3. QED
      BY <1>2, <3>1, <3>2
  <2>3. QED
    BY <1>4, <2>1, <2>2
<1>7. Spares(s) /\ Spares(t) => Spares(s \o t)
  BY <1>2, <1>4 DEF Spares
<1>8. QED
  BY <1>1, <1>5, <1>6, <1>7 DEF Before

LEMMA SetUpPrepares ==
  /\ Before(SetUp, StoreTo("TIMER_CMPR", Period))
  /\ Before(SetUp, LetInStep("timer"))
  /\ Before(SetUp, LetInGlobally)
  /\ Has(SetUp, Trigger)
<1> DEFINE Stores == <<StoreTo("GPIO_RIER", Inputs), StoreTo("GPIO_FIER", Inputs),
                       StoreTo("GPIO_IER", Inputs), StoreTo("TIMER_CMPR", Period)>>
           Last == <<LoadFrom("GPIO_IDR")>>
           A == EnableGlobally \o Stores
           B == A \o EnableInterrupts("timer")
           C == B \o TriggerTimer
           D == C \o EnableInterrupts("gpio")
<1>1. \A source : \A reg, data : /\ StoreTo(reg, data) # Trigger /\ LetInGlobally # Trigger
                                /\ InstallStep(source) # Trigger /\ LetInStep(source) # Trigger
  <2>1. Trigger.op = "store_back"
    BY DEF Trigger, StoreBack
  <2>2. \A source : \A reg, data :
          /\ StoreTo(reg, data).op = "store" /\ LetInGlobally.op = "let_in_globally"
          /\ InstallStep(source).op = "install" /\ LetInStep(source).op = "let_in"
    BY DEF StoreTo, LetInGlobally, InstallStep, LetInStep
  <2>3. QED
    BY <2>1, <2>2
<1>2. /\ EnableGlobally \in Seq(SetUpSteps)
      /\ Has(EnableGlobally, LetInGlobally) /\ Spares(EnableGlobally)
  <2>1. LetInGlobally \in SetUpSteps /\ EnableGlobally = <<LetInGlobally>>
    BY DEF SetUpSteps, LetInGlobally, EnableGlobally
  <2>2. /\ EnableGlobally \in Seq(SetUpSteps) /\ Len(EnableGlobally) = 1
        /\ EnableGlobally[1] = LetInGlobally
    BY <2>1
  <2>3. QED
    BY <1>1, <2>2 DEF Has, Spares
<1>3. Stores \in Seq(SetUpSteps) /\ Has(Stores, StoreTo("TIMER_CMPR", Period)) /\ Spares(Stores)
  <2>1. /\ StoreTo("GPIO_RIER", Inputs) \in SetUpSteps /\ StoreTo("GPIO_FIER", Inputs) \in SetUpSteps
        /\ StoreTo("GPIO_IER", Inputs) \in SetUpSteps /\ StoreTo("TIMER_CMPR", Period) \in SetUpSteps
    BY DEF SetUpSteps
  <2>2. /\ Len(Stores) = 4 /\ Stores \in Seq(SetUpSteps)
        /\ Stores[1] = StoreTo("GPIO_RIER", Inputs) /\ Stores[2] = StoreTo("GPIO_FIER", Inputs)
        /\ Stores[3] = StoreTo("GPIO_IER", Inputs) /\ Stores[4] = StoreTo("TIMER_CMPR", Period)
    BY <2>1
  <2> HIDE DEF Stores
  <2>3. QED
    BY <1>1, <2>2 DEF Has, Spares
<1>4. /\ EnableInterrupts("timer") \in Seq(SetUpSteps)
      /\ Has(EnableInterrupts("timer"), LetInStep("timer")) /\ Spares(EnableInterrupts("timer"))
  <2> DEFINE pair == <<InstallStep("timer"), LetInStep("timer")>>
  <2>1. InstallStep("timer") \in SetUpSteps /\ LetInStep("timer") \in SetUpSteps
    BY DEF SetUpSteps
  <2>2. /\ pair \in Seq(SetUpSteps) /\ Len(pair) = 2
        /\ pair[1] = InstallStep("timer") /\ pair[2] = LetInStep("timer")
    BY <2>1
  <2>3. EnableInterrupts("timer") = pair
    BY DEF EnableInterrupts, InstallStep, LetInStep
  <2> HIDE DEF pair
  <2>4. Has(pair, LetInStep("timer")) /\ Spares(pair)
    BY <1>1, <2>2 DEF Has, Spares
  <2>5. QED
    BY <2>2, <2>3, <2>4
<1>5. /\ TriggerTimer \in Seq(SetUpSteps) /\ EnableInterrupts("gpio") \in Seq(SetUpSteps)
      /\ Last \in Seq(SetUpSteps) /\ Has(TriggerTimer, Trigger)
  <2>1. /\ LoadFrom("TIMER_CR") \in SetUpSteps /\ Trigger \in SetUpSteps
        /\ LoadFrom("GPIO_IDR") \in SetUpSteps
    BY DEF SetUpSteps, Trigger
  <2>2. TriggerTimer = <<LoadFrom("TIMER_CR"), Trigger>>
    BY DEF TriggerTimer, Update, Trigger, StoreBack
  <2>3. <<LoadFrom("TIMER_CR"), Trigger>> \in Seq(SetUpSteps) /\ Last \in Seq(SetUpSteps)
    BY <2>1
  <2>4. Has(TriggerTimer, Trigger)
    <3> DEFINE pair == <<LoadFrom("TIMER_CR"), Trigger>>
    <3>1. Len(pair) = 2 /\ pair[2] = Trigger
      OBVIOUS
    <3> HIDE DEF pair
    <3>2. Has(pair, Trigger)
      BY <3>1 DEF Has
    <3>3. QED
      BY <2>2, <3>2 DEF pair
  <2>5. QED
    BY <2>2, <2>3, <2>4, PairInOrder
<1> HIDE DEF Stores, Last
<1>6. /\ A \in Seq(SetUpSteps) /\ Spares(A)
      /\ Has(A, LetInGlobally) /\ Has(A, StoreTo("TIMER_CMPR", Period))
  BY <1>2, <1>3, Together
<1> HIDE DEF A
<1>7. /\ B \in Seq(SetUpSteps) /\ Spares(B)
      /\ \A a \in {LetInGlobally, StoreTo("TIMER_CMPR", Period), LetInStep("timer")} : Has(B, a)
  BY <1>4, <1>6, Together
<1> HIDE DEF B
<1>8. /\ C \in Seq(SetUpSteps) /\ Has(C, Trigger)
      /\ \A a \in {LetInGlobally, StoreTo("TIMER_CMPR", Period), LetInStep("timer")} :
           Has(C, a) /\ Before(C, a)
  <2>1. \A a : Before(B, a)
    BY <1>7 DEF Spares, Before
  <2>2. QED
    BY <1>5, <1>7, <2>1, Together
<1> HIDE DEF C
<1>9. /\ D \in Seq(SetUpSteps) /\ Has(D, Trigger)
      /\ \A a \in {LetInGlobally, StoreTo("TIMER_CMPR", Period), LetInStep("timer")} :
           Has(D, a) /\ Before(D, a)
  BY <1>5, <1>8, Together
<1> HIDE DEF D
<1>10. SetUp = D \o Last
  BY DEF SetUp, A, B, C, D, Stores, Last
<1>11. QED
  BY <1>5, <1>9, <1>10, Together

-----------------------------------------------------------------------------
(* One clock edge. *)

LEMMA CounterRuns ==
  ASSUME TimelyInv, NEW access, Clock(access)
  PROVE  /\ counting' \in BOOLEAN /\ counter' \in 0 .. Period /\ counter' <= counter + 1
         /\ Match => counter' = 0 /\ counter = Period /\ Armed
         /\ counting' => Armed
<1>1. /\ counting \in BOOLEAN /\ counter \in 0 .. Period
      /\ cr.trg \in BOOLEAN /\ cr.hlt \in BOOLEAN
      /\ cr.trg \/ counting => Armed
      /\ Armed => cmpr = Period
  BY DEF TimelyInv, TimerTypes, Answering, Armed, Controls
<1>2. Core
  BY DEF Clock, TimerClock
<1>3. Period \in Nat /\ Period < CounterMod /\ CounterMod \in Nat \ {0}
  BY InterruptsAssumption, CounterModAssumption DEF Count
<1>4. \A n \in Nat : n < CounterMod => n % CounterMod = n
  BY <1>3
<1>5. CASE ~counting
  BY <1>1, <1>2, <1>3, <1>5 DEF Core, Match
<1>6. CASE counting /\ (cr.hlt \/ Match)
  <2>1. counter' = 0 /\ counting' = (~cr.hlt /\ ~single_shot)
    BY <1>2, <1>6 DEF Core
  <2>2. QED
    BY <1>1, <1>3, <1>6, <2>1 DEF Match
<1>7. CASE counting /\ ~cr.hlt /\ ~Match
  <2>1. counter' = (counter + 1) % CounterMod /\ counting' = counting
    BY <1>2, <1>7 DEF Core
  <2>2. counter < Period
    BY <1>1, <1>3, <1>7 DEF Match
  <2>3. counter' = counter + 1
    BY <1>1, <1>3, <1>4, <2>1, <2>2
  <2>4. QED
    BY <1>1, <1>3, <1>7, <2>1, <2>2, <2>3
<1>8. QED
  BY <1>5, <1>6, <1>7

\* The trigger lasts one cycle.
LEMMA ControlClock ==
  ASSUME TimelyInv, NEW access, Clock(access)
  PROVE  /\ ~Writes(access, "TIMER_CR") => cr' \in Controls /\ ~cr'.trg
         /\ Writes(access, "TIMER_CR") /\ access.wdata \in Controls => cr' \in Controls
<1>1. cr' = CrNxt(access) /\ cr \in Controls
  BY DEF Clock, TimerClock, TimerRegisters, TimelyInv, TimerTypes
<1>2. QED
  BY <1>1 DEF CrNxt, Controls

LEMMA StatusClock ==
  ASSUME TimelyInv, NEW access, Clock(access)
  PROVE  /\ ~Writes(access, "TIMER_SR") => sr' \in Statuses /\ (sr'.mtch <=> sr.mtch \/ Match)
         /\ Writes(access, "TIMER_SR") /\ access.wdata \in Statuses
              => sr' \in Statuses /\ (sr'.mtch <=> access.wdata.mtch \/ Match)
<1>1. /\ sr' = SrNxt(access) /\ sr \in Statuses
      /\ counting \in BOOLEAN /\ Match \in BOOLEAN
  BY DEF Clock, TimerClock, TimerRegisters, TimelyInv, TimerTypes, Match
<1>2. QED
  BY <1>1 DEF SrNxt, Statuses

LEMMA CompareClock ==
  ASSUME NEW access, Clock(access)
  PROVE  /\ ~Writes(access, "TIMER_CMPR") => cmpr' = cmpr
         /\ Writes(access, "TIMER_CMPR") => cmpr' = access.wdata
  BY DEF Clock, TimerClock, TimerRegisters

\* What the steps that leave the timer alone have in common.
Undisturbed ==
  /\ cr' \in Controls /\ ~cr'.trg /\ cmpr' = cmpr
  /\ sr' \in Statuses /\ (sr'.mtch <=> sr.mtch \/ Match)

LEMMA LeftAlone ==
  ASSUME TimelyInv, NEW access, Clock(access),
         \A reg \in {"TIMER_CR", "TIMER_SR", "TIMER_CMPR"} : ~Writes(access, reg)
  PROVE  Undisturbed
  BY ControlClock, StatusClock, CompareClock DEF Undisturbed

-----------------------------------------------------------------------------
(* The steps of the processor, in time. *)

\* While a match waits or is being cleared, no other comes before the store.
LEMMA NoMatchYet ==
  ASSUME InterruptsInv, TimelyInv, KeepsUp,
         \/ unanswered = 1
         \/ serving = "timer" /\ (gap < SlowestGap \/ handler_todo = ClearMatched)
  PROVE  ~Match
<1>1. /\ gap \in 1 .. SlowestGap /\ SlowestGap \in Nat /\ Period \in Nat
      /\ counter \in 0 .. Period /\ 5 * SlowestGap <= Period
  BY InterruptsAssumption DEF TimelyInv, TimerTypes, KeepsUp, Count
<1>2. counter < Period
  <2>1. CASE serving = "timer"
    BY <1>1, <2>1 DEF TimelyInv, InTime, Answering
  <2>2. CASE serving = "gpio"
    BY <1>1, <2>2 DEF TimelyInv, InTime
  <2>3. CASE serving = "none"
    BY <1>1, <2>3 DEF TimelyInv, InTime
  <2>4. QED
    BY <2>1, <2>2, <2>3 DEF InterruptsInv, Scripts
<1>3. Match => counter = Period
  BY DEF Match, TimelyInv, Answering, Armed
<1>4. QED
  BY <1>1, <1>2, <1>3

\* A match that waits is asked for whenever no handler runs.
LEMMA WaitingIsPending ==
  ASSUME TimelyInv, unanswered = 1
  PROVE  /\ "timer" \in Requests
         /\ serving = "none" => Pending
<1>1. sr.mtch /\ "timer" \in mie /\ mstatus_mie
  BY DEF TimelyInv, Answering, Armed
<1>2. "timer" \in Requests
  BY <1>1 DEF Requests, TimerIrq
<1>3. QED
  BY <1>1, <1>2 DEF Pending


\* The constants, and the numbers of a state.
LEMMA Numbers ==
  ASSUME TimelyInv, KeepsUp
  PROVE  /\ SlowestGap \in Nat \ {0} /\ Period \in Nat /\ 5 * SlowestGap <= Period
         /\ gap \in 1 .. SlowestGap /\ counter \in 0 .. Period /\ unanswered \in {0, 1}
  BY InterruptsAssumption DEF TimelyInv, TimerTypes, Answering, KeepsUp, Count

\* The program goes on as it was: what it still has to do is as it was.
LEMMA PreparingKept ==
  ASSUME TimelyInv, cmpr' = cmpr, UNCHANGED <<api, todo, mie, mstatus_mie>>
  PROVE  Preparing' /\ (Armed => Armed')
  BY DEF TimelyInv, Preparing, Before, Has, Armed

LEMMA TypesKept ==
  ASSUME TimelyInv, NEW access, Clock(access), Undisturbed, gap' \in 1 .. SlowestGap,
         UNCHANGED <<main_loaded, handler_loaded, mstatus_mie>>
  PROVE  TimerTypes'
<1>1. counting' \in BOOLEAN /\ counter' \in 0 .. Period
  BY CounterRuns
<1>2. QED
  BY <1>1 DEF TimelyInv, TimerTypes, Undisturbed

LEMMA TakeTimely ==
  ASSUME InterruptsInv, TimelyInv, KeepsUp, TakeInterrupt
  PROVE  TimelyInv'
<1>1. PICK s \in Requests :
        /\ s = "timer" \/ "timer" \notin Requests
        /\ serving' = s /\ handler_todo' = Handler(s) /\ gap' = 1
        /\ unanswered' = unanswered + (IF Match THEN 1 ELSE 0) - (IF s = "timer" THEN 1 ELSE 0)
  BY DEF TakeInterrupt
<1>2. /\ serving = "none" /\ Clock(NoAccess)
      /\ UNCHANGED <<api, todo, main_loaded, handler_loaded, mie, mstatus_mie>>
  BY DEF TakeInterrupt, Pending
<1>3. Undisturbed
  BY <1>2, LeftAlone, WhoWrites
<1>4. TimerTypes'
  BY <1>1, <1>2, <1>3, TypesKept, Numbers
<1>5. Preparing' /\ (Armed => Armed')
  BY <1>2, <1>3, PreparingKept DEF Undisturbed
<1>6. /\ counter' \in 0 .. Period /\ counter' <= counter + 1
      /\ Match => counter' = 0 /\ Armed
      /\ counting' => Armed
  BY <1>2, CounterRuns
<1>7. s = "timer" => unanswered = 1
  BY <1>2 DEF Requests, TimerIrq, TimelyInv, Answering
<1>8. s # "timer" => s = "gpio" /\ unanswered = 0 /\ ~sr.mtch
  <2>1. s # "timer" => unanswered # 1
    BY <1>1, WaitingIsPending
  <2>2. s \in {"timer", "gpio"}
    BY DEF Requests
  <2>3. QED
    BY <1>2, <2>1, <2>2, Numbers DEF TimelyInv, Answering
<1>9. CASE s = "timer"
  <2>1. ~Match
    BY <1>7, <1>9, NoMatchYet
  <2>2. unanswered' = 0
    BY <1>1, <1>7, <1>9, <2>1
  <2>3. counter' <= 3 * SlowestGap + gap'
    BY <1>1, <1>2, <1>6, <1>7, <1>9, Numbers DEF TimelyInv, InTime
  <2>4. InTime'
    <3>1. counter' <= 4 * SlowestGap + gap'
      BY <1>1, <1>6, <2>3, Numbers
    <3>2. serving' = "timer"
      BY <1>1, <1>9
    <3>3. QED
      BY <2>3, <3>1, <3>2 DEF InTime
  <2>5. Answering'
    <3>1. sr.mtch
      BY <1>9 DEF Requests, TimerIrq
    <3>2. Armed
      BY <3>1 DEF TimelyInv, Answering
    <3>3. QED
      BY <1>1, <1>3, <1>5, <1>9, <2>2, <3>2 DEF Answering, Undisturbed
  <2>6. QED
    BY <1>4, <1>5, <2>4, <2>5 DEF TimelyInv
<1>10. CASE s = "gpio"
  <2>1. /\ Match => unanswered' = 1 /\ counter' = 0
        /\ ~Match => unanswered' = 0
    BY <1>1, <1>6, <1>8, <1>10
  <2>2. serving' = "gpio"
    BY <1>1, <1>10
  <2>3. InTime'
    BY <1>1, <2>1, <2>2, Numbers DEF InTime
  <2>4. Answering'
    BY <1>3, <1>5, <1>6, <1>8, <1>10, <2>1, <2>2 DEF Answering, Undisturbed
  <2>5. QED
    BY <1>4, <1>5, <2>3, <2>4 DEF TimelyInv
<1>11. QED
  BY <1>8, <1>9, <1>10

\* A cycle in which the processor does nothing, or a call begins.
LEMMA QuietTimely ==
  ASSUME InterruptsInv, TimelyInv, KeepsUp, CpuIdle \/ MainCalls
  PROVE  TimelyInv'
<1>1. /\ gap' = (IF gap < SlowestGap THEN gap + 1 ELSE gap) /\ Clock(NoAccess)
      /\ unanswered' = unanswered + (IF Match THEN 1 ELSE 0)
      /\ UNCHANGED <<serving, handler_todo, main_loaded, handler_loaded, mie, mstatus_mie>>
  BY DEF CpuIdle, MainCalls
<1>2. \/ UNCHANGED <<api, todo>> /\ gap < SlowestGap
      \/ UNCHANGED <<api, todo>> /\ serving = "none" /\ ~Pending
      \/ serving = "none" /\ api = "none" /\ api' \in {"set_pin", "trigger"}
  BY DEF CpuIdle, MainCalls, Asks, Call
<1>3. Undisturbed
  BY <1>1, LeftAlone, WhoWrites
<1>4. TimerTypes'
  BY <1>1, <1>3, TypesKept, Numbers
<1>5. Preparing' /\ (Armed => Armed')
  <2>1. CASE UNCHANGED <<api, todo>>
    BY <1>1, <1>3, <2>1, PreparingKept DEF Undisturbed
  <2>2. CASE api = "none" /\ api' \in {"set_pin", "trigger"}
    BY <1>1, <1>3, <2>2 DEF TimelyInv, Preparing, Armed, Undisturbed
  <2>3. QED
    BY <1>2, <2>1, <2>2
<1>6. /\ counter' \in 0 .. Period /\ counter' <= counter + 1
      /\ Match => counter' = 0 /\ Armed
      /\ counting' => Armed
  BY <1>1, CounterRuns
<1>7. unanswered = 1 /\ serving = "none" => gap < SlowestGap \/ (api = "none" /\ api' # "none")
  BY <1>2, WaitingIsPending
<1>8. serving # "none" => gap < SlowestGap /\ UNCHANGED api
  BY <1>2
<1>9. unanswered = 1 \/ serving = "timer" => ~Match
  BY <1>8, NoMatchYet
<1>10. /\ Match => unanswered' = 1 /\ counter' = 0 /\ unanswered = 0
       /\ ~Match => unanswered' = unanswered
  BY <1>1, <1>6, <1>9, Numbers
<1>11. Answering'
  BY <1>1, <1>3, <1>5, <1>6, <1>9, <1>10 DEF TimelyInv, Answering, Undisturbed
<1>12. InTime'
  <2>1. CASE serving = "none"
    <3>1. CASE Match
      BY <1>1, <1>10, <2>1, <3>1, Numbers DEF InTime
    <3>2. CASE ~Match /\ gap < SlowestGap
      <4>1. gap' = gap + 1 /\ (api' = "none" => api = "none")
        BY <1>1, <1>2, <3>2
      <4>2. QED
        BY <1>1, <1>6, <1>10, <2>1, <3>2, <4>1, Numbers DEF TimelyInv, InTime
    <3>3. CASE ~Match /\ ~(gap < SlowestGap)
      BY <1>1, <1>6, <1>7, <1>10, <2>1, <3>3, Numbers DEF TimelyInv, InTime
    <3>4. QED
      BY <3>1, <3>2, <3>3
  <2>2. CASE serving # "none"
    <3>1. gap' = gap + 1 /\ (Cleared' <=> Cleared)
      BY <1>1, <1>8, <2>2 DEF Cleared
    <3>2. CASE Match
      BY <1>1, <1>9, <1>10, <2>2, <3>1, <3>2, Numbers DEF InTime
    <3>3. CASE ~Match
      BY <1>1, <1>6, <1>10, <2>2, <3>1, <3>3, Numbers DEF TimelyInv, InTime
    <3>4. QED
      BY <3>2, <3>3
  <2>3. QED
    BY <2>1, <2>2
<1>13. QED
  BY <1>4, <1>5, <1>11, <1>12 DEF TimelyInv

-----------------------------------------------------------------------------
(* The steps of the handlers. *)

LEMMA HandlerScripts ==
  /\ Head(ClearMatched) = LoadFrom("TIMER_SR")
  /\ Head(Tail(ClearMatched)) = StoreBack("TIMER_SR", "mtch", FALSE)
  /\ Head(Handler("gpio")) = StoreTo("GPIO_ISR", {})
  /\ Head(Tail(Handler("gpio"))) = LoadFrom("GPIO_IDR")
  /\ \A s \in {ClearMatched, Handler("gpio")} :
       Tail(s) # <<>> /\ Tail(Tail(s)) = <<>> /\ s # Tail(s)
<1>1. /\ ClearMatched = <<LoadFrom("TIMER_SR"), StoreBack("TIMER_SR", "mtch", FALSE)>>
      /\ Handler("gpio") = <<StoreTo("GPIO_ISR", {}), LoadFrom("GPIO_IDR")>>
  BY DEF Handler, ClearMatched, Update, StoreBack
<1>2. \A b, c : LET s == <<b, c>> IN
        /\ Head(s) = b /\ Head(Tail(s)) = c
        /\ Tail(s) # <<>> /\ Tail(Tail(s)) = <<>> /\ s # Tail(s)
  BY Pair
<1>3. QED
  BY <1>1, <1>2, Zenon

\* What is loaded by whom; the store that follows uses it.
LEMMA Loads ==
  ASSUME NEW loaded, NEW a
  PROVE  /\ a = LoadFrom("TIMER_SR") => Loaded(a, loaded) = [loaded EXCEPT !["TIMER_SR"] = sr]
         /\ a = LoadFrom("TIMER_CR") => Loaded(a, loaded) = [loaded EXCEPT !["TIMER_CR"] = cr]
         /\ a = LoadFrom("GPIO_ODR") => Loaded(a, loaded) = [loaded EXCEPT !["GPIO_ODR"] = odr]
         /\ a \notin {LoadFrom("TIMER_SR"), LoadFrom("TIMER_CR"), LoadFrom("GPIO_ODR")}
              => Loaded(a, loaded) = NothingLoaded
<1>1. \A reg, other : LoadFrom(reg) = LoadFrom(other) => reg = other
  <2>1. \A reg : LoadFrom(reg).reg = reg
    BY DEF LoadFrom
  <2>2. QED
    BY <2>1
<1>2. "TIMER_SR" # "TIMER_CR" /\ "TIMER_SR" # "GPIO_ODR" /\ "TIMER_CR" # "GPIO_ODR"
  OBVIOUS
<1>3. /\ LoadFrom("TIMER_SR") # LoadFrom("TIMER_CR") /\ LoadFrom("TIMER_SR") # LoadFrom("GPIO_ODR")
      /\ LoadFrom("TIMER_CR") # LoadFrom("GPIO_ODR")
  BY <1>1, <1>2
<1>4. QED
  BY <1>3 DEF Loaded

LEMMA NotLoads ==
  ASSUME NEW a
  PROVE  \/ a.op # "load"
         \/ a.reg \notin {"TIMER_SR", "TIMER_CR", "GPIO_ODR"}
         => a \notin {LoadFrom("TIMER_SR"), LoadFrom("TIMER_CR"), LoadFrom("GPIO_ODR")}
<1>1. \A reg : LoadFrom(reg).reg = reg /\ LoadFrom(reg).op = "load"
  BY DEF LoadFrom
<1>2. QED
  BY <1>1

LEMMA NothingTyped ==
  /\ NothingLoaded["TIMER_CR"] \in Controls /\ NothingLoaded["TIMER_SR"] \in Statuses
  /\ DOMAIN NothingLoaded = {"TIMER_CR", "TIMER_SR", "GPIO_ODR"}
  BY DEF NothingLoaded, Controls, Statuses

LEMMA HandlerDoes ==
  ASSUME HandlerStep
  PROVE  /\ serving # "none" /\ Clock(BusAccess(Head(handler_todo), handler_loaded))
         /\ handler_loaded' = Loaded(Head(handler_todo), handler_loaded)
         /\ handler_todo' = Tail(handler_todo)
         /\ serving' = (IF handler_todo' = <<>> THEN "none" ELSE serving)
         /\ gap' = 1
         /\ unanswered' = unanswered + (IF Match THEN 1 ELSE 0)
         /\ UNCHANGED <<api, todo, main_loaded, mie, mstatus_mie>>
  BY DEF HandlerStep

\* The handler of the GPIO leaves the timer alone; it delays the other.
LEMMA GpioHandlerTimely ==
  ASSUME InterruptsInv, TimelyInv, KeepsUp, HandlerStep, serving = "gpio"
  PROVE  TimelyInv'
<1> DEFINE a == Head(handler_todo)
<1>1. \/ handler_todo = Handler("gpio") /\ ~Cleared /\ a = StoreTo("GPIO_ISR", {})
      \/ Cleared /\ a = LoadFrom("GPIO_IDR")
  BY HandlerScripts DEF InterruptsInv, Scripts, Cleared
<1>2. \A reg \in {"TIMER_CR", "TIMER_SR", "TIMER_CMPR"} :
        ~Writes(BusAccess(a, handler_loaded), reg)
  BY <1>1, LoadReads, StoreWrites, WhoWrites
<1>3. handler_loaded' = NothingLoaded
  <2>1. StoreTo("GPIO_ISR", {}).op = "store" /\ LoadFrom("GPIO_IDR").reg = "GPIO_IDR"
    BY DEF StoreTo, LoadFrom
  <2>2. a \notin {LoadFrom("TIMER_SR"), LoadFrom("TIMER_CR"), LoadFrom("GPIO_ODR")}
    BY <1>1, <2>1, NotLoads
  <2>3. QED
    BY <2>2, HandlerDoes, Loads
<1>4. /\ Clock(BusAccess(a, handler_loaded)) /\ gap' = 1
      /\ unanswered' = unanswered + (IF Match THEN 1 ELSE 0)
      /\ UNCHANGED <<api, todo, main_loaded, mie, mstatus_mie>>
  BY HandlerDoes
<1>5. \/ serving' = "gpio" /\ Cleared' /\ ~Cleared
      \/ serving' = "none" /\ Cleared
  BY <1>1, HandlerDoes, HandlerScripts DEF Cleared
<1> HIDE DEF a
<1>6. Undisturbed
  BY <1>2, <1>4, LeftAlone
<1>7. /\ counter' \in 0 .. Period /\ counter' <= counter + 1 /\ counting' \in BOOLEAN
      /\ Match => counter' = 0 /\ Armed
      /\ counting' => Armed
  BY <1>4, CounterRuns
<1>8. TimerTypes'
  BY <1>3, <1>4, <1>6, <1>7, NothingTyped, Numbers DEF TimelyInv, TimerTypes, Undisturbed
<1>9. Preparing' /\ (Armed => Armed')
  BY <1>4, <1>6, PreparingKept DEF Undisturbed
<1>10. /\ Match => unanswered' = 1 /\ counter' = 0 /\ unanswered = 0
       /\ ~Match => unanswered' = unanswered
  <2>1. unanswered = 1 => ~Match
    BY NoMatchYet
  <2>2. QED
    BY <1>4, <1>7, <2>1, Numbers
<1>11. Answering'
  BY <1>5, <1>6, <1>7, <1>9, <1>10 DEF TimelyInv, Answering, Undisturbed
<1>12. InTime'
  <2>1. CASE Match
    BY <1>4, <1>5, <1>10, <2>1, Numbers DEF InTime
  <2>2. CASE ~Match /\ Cleared
    BY <1>4, <1>5, <1>7, <1>10, <2>2, Numbers DEF TimelyInv, InTime
  <2>3. CASE ~Match /\ ~Cleared
    BY <1>4, <1>5, <1>7, <1>10, <2>3, Numbers DEF TimelyInv, InTime
  <2>4. QED
    BY <2>1, <2>2, <2>3
<1>13. QED
  BY <1>8, <1>9, <1>11, <1>12 DEF TimelyInv

\* The handler of the timer: no match comes before its store, and one that
\* comes in the very cycle of the store stays.
LEMMA TimerHandlerTimely ==
  ASSUME InterruptsInv, TimelyInv, KeepsUp, HandlerStep, serving = "timer"
  PROVE  TimelyInv'
<1> DEFINE a == Head(handler_todo)
           access == BusAccess(a, handler_loaded)
<1>1. \/ handler_todo = ClearMatched /\ a = LoadFrom("TIMER_SR")
      \/ handler_todo = Tail(ClearMatched) /\ a = StoreBack("TIMER_SR", "mtch", FALSE)
  BY HandlerScripts DEF InterruptsInv, Scripts
<1>2. /\ Clock(access) /\ gap' = 1
      /\ unanswered' = unanswered + (IF Match THEN 1 ELSE 0)
      /\ UNCHANGED <<api, todo, main_loaded, mie, mstatus_mie>>
  BY HandlerDoes
<1>3. ~Writes(access, "TIMER_CR") /\ ~Writes(access, "TIMER_CMPR")
  <2>1. CASE a = LoadFrom("TIMER_SR")
    BY <2>1, LoadReads, WhoWrites
  <2>2. CASE a = StoreBack("TIMER_SR", "mtch", FALSE)
    BY <2>2, StoreBackSpares
  <2>3. QED
    BY <1>1, <2>1, <2>2
<1>4. cr' \in Controls /\ ~cr'.trg /\ cmpr' = cmpr
  BY <1>2, <1>3, ControlClock, CompareClock
<1>5. /\ counter' \in 0 .. Period /\ counter' <= counter + 1 /\ counting' \in BOOLEAN
      /\ Match => counter' = 0 /\ Armed
      /\ counting' => Armed
  BY <1>2, CounterRuns
<1>6. Preparing' /\ (Armed => Armed')
  BY <1>2, <1>4, PreparingKept
<1>7. unanswered = 0
  BY DEF TimelyInv, Answering
<1>8. CASE handler_todo = ClearMatched
  <2>1. /\ serving' = "timer" /\ handler_todo' # ClearMatched
        /\ handler_loaded' = [handler_loaded EXCEPT !["TIMER_SR"] = sr]
    BY <1>1, <1>8, HandlerDoes, HandlerScripts, Loads
  <2>2. ~Match
    BY <1>8, NoMatchYet
  <2>3. ~Writes(access, "TIMER_SR")
    <3>1. a = LoadFrom("TIMER_SR")
      BY <1>8, HandlerScripts
    <3>2. QED
      BY <3>1, LoadReads, WhoWrites
  <2>4. sr' \in Statuses /\ (sr'.mtch <=> sr.mtch \/ Match)
    BY <1>2, <2>3, StatusClock
  <2>5. TimerTypes'
    <3>1. handler_loaded'["TIMER_SR"] \in Statuses
          /\ DOMAIN handler_loaded' = {"TIMER_CR", "TIMER_SR", "GPIO_ODR"}
      BY <2>1 DEF TimelyInv, TimerTypes
    <3>2. QED
      BY <1>2, <1>4, <1>5, <2>4, <3>1, Numbers DEF TimelyInv, TimerTypes
  <2>6. unanswered' = 0
    BY <1>2, <1>7, <2>2
  <2>7. Answering'
    BY <1>4, <1>5, <1>6, <2>1, <2>2, <2>4, <2>6 DEF TimelyInv, Answering
  <2>8. InTime'
    <3>1. counter' <= 4 * SlowestGap + gap'
      BY <1>2, <1>5, <1>8, Numbers DEF TimelyInv, InTime
    <3>2. QED
      BY <2>1, <3>1 DEF InTime
  <2>9. QED
    BY <1>6, <2>5, <2>7, <2>8 DEF TimelyInv
<1>9. CASE a = StoreBack("TIMER_SR", "mtch", FALSE) /\ handler_todo = Tail(ClearMatched)
  <2>1. serving' = "none" /\ handler_loaded' = NothingLoaded
    <3>1. StoreBack("TIMER_SR", "mtch", FALSE).op = "store_back"
      BY DEF StoreBack
    <3>2. a \notin {LoadFrom("TIMER_SR"), LoadFrom("TIMER_CR"), LoadFrom("GPIO_ODR")}
      BY <1>9, <3>1, NotLoads
    <3>3. QED
      BY <1>9, <3>2, HandlerDoes, HandlerScripts, Loads
  <2>2. access = WriteOf("TIMER_SR", [handler_loaded["TIMER_SR"] EXCEPT !["mtch"] = FALSE])
    <3>1. /\ StoreBack("TIMER_SR", "mtch", FALSE).op = "store_back"
          /\ StoreBack("TIMER_SR", "mtch", FALSE).reg = "TIMER_SR"
          /\ StoreBack("TIMER_SR", "mtch", FALSE).field = "mtch"
          /\ StoreBack("TIMER_SR", "mtch", FALSE).data = FALSE
      BY DEF StoreBack
    <3>2. QED
      BY <1>9, <3>1 DEF BusAccess
  <2>3. /\ Writes(access, "TIMER_SR") /\ access.wdata \in Statuses /\ ~access.wdata.mtch
    <3>1. handler_loaded["TIMER_SR"] \in Statuses
      BY DEF TimelyInv, TimerTypes
    <3> DEFINE cleared == [handler_loaded["TIMER_SR"] EXCEPT !["mtch"] = FALSE]
    <3>2. cleared \in Statuses /\ ~cleared.mtch
      BY <3>1 DEF Statuses
    <3> HIDE DEF cleared, access
    <3>3. access = WriteOf("TIMER_SR", cleared)
      BY <2>2 DEF cleared
    <3>4. QED
      BY <3>2, <3>3, WhoWrites
  <2>4. sr' \in Statuses /\ (sr'.mtch <=> Match)
    BY <1>2, <2>3, StatusClock
  <2>5. TimerTypes'
    BY <1>2, <1>4, <1>5, <2>1, <2>4, NothingTyped, Numbers DEF TimelyInv, TimerTypes
  <2>6. /\ Match => unanswered' = 1 /\ counter' = 0
        /\ ~Match => unanswered' = 0
    BY <1>2, <1>5, <1>7
  <2>7. Answering'
    BY <1>4, <1>5, <1>6, <2>1, <2>4, <2>6 DEF TimelyInv, Answering
  <2>8. InTime'
    BY <1>2, <2>1, <2>6, Numbers DEF InTime
  <2>9. QED
    BY <1>6, <2>5, <2>7, <2>8 DEF TimelyInv
<1>10. QED
  BY <1>1, <1>8, <1>9

-----------------------------------------------------------------------------
(* The steps of the main program, which come only when no match waits. *)

\* What a step of the program does to the timer's registers.
LEMMA SetUpStores ==
  ASSUME NEW a \in SetUpSteps, NEW loaded
  PROVE  /\ ~Writes(BusAccess(a, loaded), "TIMER_SR")
         /\ a # Trigger => ~Writes(BusAccess(a, loaded), "TIMER_CR")
         /\ Writes(BusAccess(a, loaded), "TIMER_CMPR") => BusAccess(a, loaded).wdata = Period
<1> DEFINE Good == /\ ~Writes(BusAccess(a, loaded), "TIMER_SR")
                   /\ a # Trigger => ~Writes(BusAccess(a, loaded), "TIMER_CR")
                   /\ Writes(BusAccess(a, loaded), "TIMER_CMPR")
                        => BusAccess(a, loaded).wdata = Period
<1>1. CASE a.op \in {"install", "let_in", "let_in_globally"}
  BY <1>1, OthersAreIdle, WhoWrites
<1>2. CASE a \in {LoadFrom("TIMER_CR"), LoadFrom("GPIO_IDR")}
  BY <1>2, LoadReads, WhoWrites
<1>3. CASE a = Trigger
  BY <1>3, StoreBackSpares DEF Trigger
<1>4. CASE a = StoreTo("TIMER_CMPR", Period)
  <2>1. BusAccess(a, loaded) = WriteOf("TIMER_CMPR", Period)
    BY <1>4, StoreWrites
  <2>2. QED
    BY <2>1, WhoWrites
<1>5. ASSUME NEW reg \in {"GPIO_RIER", "GPIO_FIER", "GPIO_IER"}, a = StoreTo(reg, Inputs)
      PROVE  Good
  <2>1. BusAccess(a, loaded) = WriteOf(reg, Inputs)
    BY <1>5, StoreWrites
  <2>2. QED
    BY <2>1, WhoWrites
<1>6. QED
  <2>1. /\ [op |-> "let_in_globally"].op = "let_in_globally"
        /\ \A source : InstallStep(source).op = "install" /\ LetInStep(source).op = "let_in"
    BY DEF InstallStep, LetInStep
  <2>2. \/ a.op \in {"install", "let_in", "let_in_globally"}
        \/ a \in {LoadFrom("TIMER_CR"), LoadFrom("GPIO_IDR")}
        \/ a = Trigger
        \/ a = StoreTo("TIMER_CMPR", Period)
        \/ \E reg \in {"GPIO_RIER", "GPIO_FIER", "GPIO_IER"} : a = StoreTo(reg, Inputs)
    BY <2>1, Zenon DEF SetUpSteps, Trigger
  <2>3. QED
    BY <2>2, <1>1, <1>2, <1>3, <1>4, <1>5

LEMMA TriggerStores ==
  ASSUME NEW loaded, loaded["TIMER_CR"] \in Controls
  PROVE  \E value \in Controls :
           /\ BusAccess(Trigger, loaded) = WriteOf("TIMER_CR", value)
           /\ value.trg /\ value.hlt = loaded["TIMER_CR"].hlt
           /\ value.sngl = loaded["TIMER_CR"].sngl
<1> DEFINE triggered == [loaded["TIMER_CR"] EXCEPT !["trg"] = TRUE]
<1>1. /\ triggered \in Controls /\ triggered.trg
      /\ triggered.hlt = loaded["TIMER_CR"].hlt /\ triggered.sngl = loaded["TIMER_CR"].sngl
  BY DEF Controls
<1>2. Trigger.op = "store_back" /\ Trigger.reg = "TIMER_CR" /\ Trigger.field = "trg"
      /\ Trigger.data = TRUE
  BY DEF Trigger, StoreBack
<1>3. BusAccess(Trigger, loaded) = WriteOf("TIMER_CR", triggered)
  BY <1>2 DEF BusAccess
<1> HIDE DEF triggered
<1>4. QED
  BY <1>1, <1>3

LEMMA SetPinStores ==
  ASSUME NEW pin, NEW value, NEW loaded,
         NEW a \in {LoadFrom("GPIO_ODR"), StoreBits({pin}, BitOf(pin, value))},
         NEW reg \in {"TIMER_CR", "TIMER_SR", "TIMER_CMPR"}
  PROVE  ~Writes(BusAccess(a, loaded), reg)
<1>1. CASE a = LoadFrom("GPIO_ODR")
  BY <1>1, LoadReads, WhoWrites
<1>2. CASE a = StoreBits({pin}, BitOf(pin, value))
  <2>1. BusAccess(a, loaded)
          = WriteOf("GPIO_ODR", (loaded["GPIO_ODR"] \ {pin}) \cup (BitOf(pin, value) \cap {pin}))
    BY <1>2, StoreBitsWrites
  <2>2. QED
    BY <2>1, WhoWrites
<1>3. QED
  BY <1>1, <1>2

\* Of a step that writes neither register, and no status, the answering
\* says nothing new.
LEMMA MainTimely ==
  ASSUME InterruptsInv, TimelyInv, KeepsUp, MainStep,
         NEW access, Clock(access), ~Writes(access, "TIMER_SR"),
         cr' \in Controls, main_loaded'["TIMER_CR"] \in Controls,
         Preparing', Armed => Armed', cr'.trg => Armed'
  PROVE  TimelyInv'
<1>1. /\ serving = "none" /\ ~Pending
      /\ serving' = "none" /\ gap' = 1 /\ handler_loaded' = handler_loaded
      /\ unanswered' = unanswered + (IF Match THEN 1 ELSE 0)
      /\ mstatus_mie' = (mstatus_mie \/ Head(todo).op = "let_in_globally")
  BY DEF MainStep
<1>2. unanswered = 0
  BY <1>1, WaitingIsPending, Numbers
<1>3. /\ counter' \in 0 .. Period /\ counter' <= counter + 1 /\ counting' \in BOOLEAN
      /\ Match => counter' = 0 /\ Armed
      /\ counting' => Armed
  BY CounterRuns
<1>4. sr' \in Statuses /\ (sr'.mtch <=> sr.mtch \/ Match)
  BY StatusClock
<1>5. TimerTypes'
  BY <1>1, <1>3, <1>4, Numbers DEF TimelyInv, TimerTypes
<1>6. /\ Match => unanswered' = 1 /\ counter' = 0
      /\ ~Match => unanswered' = 0
  BY <1>1, <1>2, <1>3
<1>7. Answering'
  BY <1>1, <1>2, <1>3, <1>4, <1>6 DEF TimelyInv, Answering
<1>8. InTime'
  BY <1>1, <1>6, Numbers DEF InTime
<1>9. QED
  BY <1>5, <1>7, <1>8 DEF TimelyInv

\* What is loaded in its place keeps to its type.
LEMMA LoadedTyped ==
  ASSUME TimelyInv, NEW a, DOMAIN main_loaded = {"TIMER_CR", "TIMER_SR", "GPIO_ODR"}
  PROVE  Loaded(a, main_loaded)["TIMER_CR"] \in Controls
<1>1. cr \in Controls /\ main_loaded["TIMER_CR"] \in Controls
  BY DEF TimelyInv, TimerTypes
<1>2. CASE a = LoadFrom("TIMER_SR")
  <2>1. Loaded(a, main_loaded) = [main_loaded EXCEPT !["TIMER_SR"] = sr]
    BY <1>2, Loads
  <2>2. QED
    BY <1>1, <2>1
<1>3. CASE a = LoadFrom("TIMER_CR")
  <2>1. Loaded(a, main_loaded) = [main_loaded EXCEPT !["TIMER_CR"] = cr]
    BY <1>3, Loads
  <2>2. QED
    BY <1>1, <2>1
<1>4. CASE a = LoadFrom("GPIO_ODR")
  <2>1. Loaded(a, main_loaded) = [main_loaded EXCEPT !["GPIO_ODR"] = odr]
    BY <1>4, Loads
  <2>2. QED
    BY <1>1, <2>1
<1>5. CASE a \notin {LoadFrom("TIMER_SR"), LoadFrom("TIMER_CR"), LoadFrom("GPIO_ODR")}
  BY <1>5, Loads, NothingTyped
<1>6. QED
  BY <1>2, <1>3, <1>4, <1>5

LEMMA PinTimely ==
  ASSUME InterruptsInv, TimelyInv, KeepsUp, MainStep, api = "set_pin"
  PROVE  TimelyInv'
<1> DEFINE a == Head(todo)
           access == BusAccess(a, main_loaded)
<1>1. PICK pin \in Outputs, value \in BOOLEAN :
        todo \in {SetPin(pin, value), Tail(SetPin(pin, value))}
  BY DEF InterruptsInv, Setting
<1>2. a \in {LoadFrom("GPIO_ODR"), StoreBits({pin}, BitOf(pin, value))}
  <2>1. SetPin(pin, value) = <<LoadFrom("GPIO_ODR"), StoreBits({pin}, BitOf(pin, value))>>
    BY DEF SetPin, SetMaskBits, StoreBits, BitOf
  <2>2. \A b, c : Head(<<b, c>>) = b /\ Head(Tail(<<b, c>>)) = c
    BY Pair
  <2>3. Head(SetPin(pin, value)) = LoadFrom("GPIO_ODR")
        /\ Head(Tail(SetPin(pin, value))) = StoreBits({pin}, BitOf(pin, value))
    BY <2>1, <2>2, ZenonT(40)
  <2>4. QED
    BY <1>1, <2>3
<1>3. \A reg \in {"TIMER_CR", "TIMER_SR", "TIMER_CMPR"} : ~Writes(access, reg)
  BY <1>2, SetPinStores
<1>4. a.op # "let_in" /\ a.op # "let_in_globally"
  BY <1>2 DEF LoadFrom, StoreBits
<1>5. /\ Clock(access) /\ mie' = mie /\ mstatus_mie' = mstatus_mie
      /\ main_loaded' = Loaded(a, main_loaded) /\ api' # "set_up"
  <2>1. mstatus_mie' = (mstatus_mie \/ a.op = "let_in_globally") /\ mstatus_mie \in BOOLEAN
    BY DEF MainStep, TimelyInv, TimerTypes
  <2>2. QED
    BY <1>4, <2>1, MainStepDoes
<1> HIDE DEF a
<1>6. main_loaded'["TIMER_CR"] \in Controls
  BY <1>5, LoadedTyped DEF InterruptsInv, Setting
<1>7. Undisturbed
  BY <1>3, <1>5, LeftAlone
<1>8. Preparing' /\ (Armed => Armed')
  BY <1>5, <1>7 DEF TimelyInv, Preparing, Armed, Undisturbed
<1>9. QED
  BY <1>3, <1>5, <1>6, <1>7, <1>8, MainTimely DEF Undisturbed

\* A step of the set-up is made, or still comes before the trigger.
LEMMA StillBefore ==
  ASSUME NEW s \in Seq(SetUpSteps), s # <<>>, NEW a, Before(s, a)
  PROVE  /\ Head(s) # Trigger
         /\ Head(s) = a \/ Before(Tail(s), a)
<1>1. /\ Head(s) = s[1] /\ Len(s) \in Nat \ {0}
      /\ Tail(s) \in Seq(SetUpSteps) /\ Len(Tail(s)) = Len(s) - 1
      /\ \A i \in 1 .. Len(Tail(s)) : Tail(s)[i] = s[i + 1]
  BY HeadTailProperties, EmptySeq
<1>2. Head(s) # Trigger
  BY <1>1 DEF Before
<1>3. ASSUME Head(s) # a, NEW k \in 1 .. Len(Tail(s)), Tail(s)[k] = Trigger
      PROVE  \E j \in 1 .. k - 1 : Tail(s)[j] = a
  <2>1. k + 1 \in 1 .. Len(s) /\ s[k + 1] = Trigger
    BY <1>1, <1>3
  <2>2. PICK j \in 1 .. (k + 1) - 1 : s[j] = a
    BY <2>1 DEF Before
  <2>3. j # 1
    BY <1>1, <1>3, <2>2
  <2>4. j - 1 \in 1 .. k - 1 /\ j - 1 \in 1 .. Len(Tail(s)) /\ (j - 1) + 1 = j
    BY <1>1, <2>2, <2>3
  <2>5. Tail(s)[j - 1] = a
    BY <1>1, <2>2, <2>4
  <2>6. QED
    BY <2>4, <2>5
<1>4. QED
  BY <1>2, <1>3 DEF Before

\* A step that is not made yet is still to be made after another one.
LEMMA StillToDo ==
  ASSUME NEW s \in Seq(SetUpSteps), s # <<>>, NEW a, Head(s) # a, Has(s, a)
  PROVE  Has(Tail(s), a) /\ Tail(s) # <<>>
<1>1. /\ Head(s) = s[1] /\ Len(s) \in Nat \ {0}
      /\ Tail(s) \in Seq(SetUpSteps) /\ Len(Tail(s)) = Len(s) - 1
      /\ \A i \in 1 .. Len(Tail(s)) : Tail(s)[i] = s[i + 1]
  BY HeadTailProperties, EmptySeq
<1>2. PICK k \in 1 .. Len(s) : s[k] = a
  BY DEF Has
<1>3. k # 1
  BY <1>1, <1>2
<1>4. k - 1 \in 1 .. Len(Tail(s)) /\ (k - 1) + 1 = k
  BY <1>1, <1>2, <1>3
<1>5. Tail(s)[k - 1] = a
  BY <1>1, <1>2, <1>4
<1>6. Len(Tail(s)) # 0
  BY <1>1, <1>4
<1>7. QED
  BY <1>4, <1>5, <1>6, EmptySeq DEF Has

LEMMA SetUpTimely ==
  ASSUME InterruptsInv, TimelyInv, KeepsUp, MainStep, api = "set_up"
  PROVE  TimelyInv'
<1> DEFINE a == Head(todo)
           access == BusAccess(a, main_loaded)
<1>1. todo \in Seq(SetUpSteps) /\ todo # <<>> /\ a \in SetUpSteps
  <2>1. todo \in Seq(SetUpSteps) /\ todo # <<>>
    BY MainStepDoes DEF InterruptsInv, Scripts
  <2>2. QED
    BY <2>1, HeadTailProperties
<1>2. /\ Clock(access) /\ main_loaded' = Loaded(a, main_loaded)
      /\ todo' = Tail(todo)
      /\ mie' = (IF a.op = "let_in" THEN mie \cup {a.source} ELSE mie)
      /\ mstatus_mie' = (mstatus_mie \/ a.op = "let_in_globally")
  BY MainStepDoes DEF MainStep
<1>3. /\ ~Writes(access, "TIMER_SR")
      /\ a # Trigger => ~Writes(access, "TIMER_CR")
      /\ Writes(access, "TIMER_CMPR") => access.wdata = Period
  BY <1>1, SetUpStores
<1>4. /\ cmpr' = cmpr \/ cmpr' = Period
      /\ a = StoreTo("TIMER_CMPR", Period) => cmpr' = Period
  <2>1. a = StoreTo("TIMER_CMPR", Period) => access = WriteOf("TIMER_CMPR", Period)
    BY StoreWrites
  <2>2. a = StoreTo("TIMER_CMPR", Period) => Writes(access, "TIMER_CMPR")
    BY <2>1, WhoWrites
  <2>3. QED
    BY <1>2, <1>3, <2>2, CompareClock
<1>5. /\ a = LetInStep("timer") => "timer" \in mie'
      /\ a = LetInGlobally => mstatus_mie'
      /\ mie \subseteq mie' /\ (mstatus_mie => mstatus_mie')
  <2>1. /\ LetInStep("timer").op = "let_in" /\ LetInStep("timer").source = "timer"
        /\ LetInGlobally.op = "let_in_globally"
    BY DEF LetInStep, LetInGlobally
  <2>2. mstatus_mie \in BOOLEAN
    BY DEF TimelyInv, TimerTypes
  <2> HIDE DEF a
  <2>3. QED
    BY <1>2, <2>1, <2>2
<1>6. main_loaded'["TIMER_CR"] \in Controls
  BY <1>2, LoadedTyped DEF InterruptsInv, Setting
<1>7. CASE a = Trigger
  <2>1. \A s : ~Before(todo, s)
    BY <1>1, <1>7, StillBefore
  <2>2. Armed
    BY <2>1 DEF TimelyInv, Preparing, Armed
  <2>3. Armed'
    BY <1>4, <1>5, <2>2 DEF Armed
  <2>4. Preparing'
    BY <2>3 DEF Preparing, Armed
  <2>5. cr' \in Controls
    <3>1. PICK value \in Controls : access = WriteOf("TIMER_CR", value)
      BY <1>7, TriggerStores DEF TimelyInv, TimerTypes
    <3> HIDE DEF access
    <3>2. QED
      BY <1>2, <3>1, ControlClock, WhoWrites
  <2>6. QED
    BY <1>2, <1>3, <1>6, <2>3, <2>4, <2>5, MainTimely
<1>8. CASE a # Trigger
  <2>1. cr' \in Controls /\ ~cr'.trg
    BY <1>2, <1>3, <1>8, ControlClock
  <2>2. Armed => Armed'
    BY <1>4, <1>5 DEF Armed
  <2>3. \A s : Before(todo, s) => a = s \/ Before(todo', s)
    BY <1>1, <1>2, StillBefore
  <2>4. Has(todo, Trigger) => Has(todo', Trigger) /\ api' = "set_up"
    BY <1>1, <1>2, <1>8, StillToDo, MainStepDoes
  <2> HIDE DEF a
  <2>5. Preparing'
    BY <1>4, <1>5, <2>2, <2>3, <2>4 DEF TimelyInv, Preparing
  <2>6. QED
    BY <1>2, <1>3, <1>6, <2>1, <2>2, <2>5, MainTimely
<1>9. QED
  BY <1>7, <1>8

\* Triggered again, the timer finds everything as the set-up left it.
LEMMA TriggerTimely ==
  ASSUME InterruptsInv, TimelyInv, KeepsUp, MainStep, api = "trigger"
  PROVE  TimelyInv'
<1> DEFINE a == Head(todo)
           access == BusAccess(a, main_loaded)
<1>1. a = LoadFrom("TIMER_CR") \/ a = Trigger
  BY TriggerScript DEF InterruptsInv, Scripts, Trigger
<1>2. a.op # "let_in" /\ a.op # "let_in_globally"
  BY <1>1 DEF LoadFrom, Trigger, StoreBack
<1>3. /\ Clock(access) /\ mie' = mie /\ mstatus_mie' = mstatus_mie
      /\ main_loaded' = Loaded(a, main_loaded) /\ api' # "set_up"
  <2>1. mstatus_mie' = (mstatus_mie \/ a.op = "let_in_globally") /\ mstatus_mie \in BOOLEAN
    BY DEF MainStep, TimelyInv, TimerTypes
  <2>2. QED
    BY <1>2, <2>1, MainStepDoes
<1>4. /\ ~Writes(access, "TIMER_SR") /\ ~Writes(access, "TIMER_CMPR")
      /\ cr' \in Controls
  <2>1. CASE a = LoadFrom("TIMER_CR")
    <3>1. \A reg : ~Writes(access, reg)
      BY <2>1, LoadReads, WhoWrites
    <3>2. QED
      BY <1>3, <3>1, ControlClock
  <2>2. CASE a = Trigger
    <3>1. PICK value \in Controls : access = WriteOf("TIMER_CR", value)
      BY <2>2, TriggerStores DEF TimelyInv, TimerTypes
    <3> HIDE DEF access
    <3>2. QED
      BY <1>3, <3>1, ControlClock, WhoWrites
  <2>3. QED
    BY <1>1, <2>1, <2>2
<1>5. Armed /\ cmpr' = cmpr
  BY <1>3, <1>4, CompareClock DEF TimelyInv, Preparing
<1> HIDE DEF a
<1>6. main_loaded'["TIMER_CR"] \in Controls
  BY <1>3, LoadedTyped DEF InterruptsInv, Setting
<1>7. Armed' /\ Preparing'
  BY <1>3, <1>5 DEF Armed, Preparing
<1>8. QED
  BY <1>3, <1>4, <1>6, <1>7, MainTimely

-----------------------------------------------------------------------------
LEMMA InitTimely ==
  ASSUME Init, KeepsUp
  PROVE  TimelyInv
<1>1. /\ SlowestGap \in Nat /\ Period \in Nat /\ gap \in 1 .. SlowestGap
  BY InterruptsAssumption, GapAssumption DEF Init, KeepsUp, Count
<1>2. TimerTypes
  <2>1. cr \in Controls /\ sr \in Statuses
    BY DEF Init, TimerInit, Controls, Statuses
  <2>2. /\ main_loaded = NothingLoaded /\ handler_loaded = NothingLoaded
        /\ counting \in BOOLEAN /\ counter = 0 /\ mstatus_mie \in BOOLEAN
    BY DEF Init, TimerInit
  <2>3. QED
    BY <1>1, <2>1, <2>2, NothingTyped DEF TimerTypes
<1>3. Preparing
  BY SetUpPrepares DEF Init, Preparing
<1>4. Answering /\ InTime
  BY <1>1 DEF Init, TimerInit, Answering, InTime
<1>5. QED
  BY <1>2, <1>3, <1>4 DEF TimelyInv

LEMMA NextTimely ==
  ASSUME InterruptsInv, TimelyInv, KeepsUp, [Next]_vars
  PROVE  TimelyInv'
<1>1. CASE TakeInterrupt
  BY <1>1, TakeTimely
<1>2. CASE HandlerStep
  <2>1. serving = "timer" \/ serving = "gpio"
    BY <1>2, HandlerDoes DEF InterruptsInv, Scripts
  <2>2. QED
    BY <1>2, <2>1, TimerHandlerTimely, GpioHandlerTimely
<1>3. CASE MainStep
  <2>1. api \in {"set_up", "set_pin", "trigger"}
    BY <1>3, MainStepDoes DEF InterruptsInv, Scripts
  <2>2. QED
    BY <1>3, <2>1, SetUpTimely, PinTimely, TriggerTimely
<1>4. CASE CpuIdle \/ MainCalls
  BY <1>4, QuietTimely
<1>5. CASE UNCHANGED vars
  BY <1>5 DEF vars, cpuVars, driverVars, timerVars, gpioVars, TimelyInv, TimerTypes,
     Preparing, Before, Has, Answering, Armed, InTime, Cleared
<1>6. QED
  BY <1>1, <1>2, <1>3, <1>4, <1>5 DEF Next

\* A processor that makes a step in every fifth of a period answers every
\* match with one run of the handler and runs it for no other reason: no match
\* is lost between the load and the store that clear the last one, whatever
\* else is being served.
THEOREM MatchesAreAnswered ==
  ASSUME KeepsUp
  PROVE  Spec => []MatchesAnswered
<1>1. Init => InterruptsInv /\ TimelyInv
  BY InitInv, InitTimely
<1>2. InterruptsInv /\ TimelyInv /\ [Next]_vars => InterruptsInv' /\ TimelyInv'
  BY NextInv, NextTimely
<1>3. TimelyInv => MatchesAnswered
  BY DEF TimelyInv, Answering, MatchesAnswered
<1>4. QED
  BY <1>1, <1>2, <1>3, PTL DEF Spec

-----------------------------------------------------------------------------
(* The timer goes on.  Once it is triggered it counts from match to match, *)
(* and the handler is entered within three steps of the processor after    *)
(* each.                                                                   *)

Counts == counting \/ cr.trg

\* A value of the control register that neither halts the timer nor lets it
\* stop at a match.
Endless(controls) == ~controls.hlt /\ ~controls.sngl

GoesOn ==
  /\ Endless(cr) /\ Endless(main_loaded["TIMER_CR"])
  /\ counting => ~single_shot
  /\ Counts \/ (api = "set_up" /\ Has(todo, Trigger))

TimerStarts == api # "set_up" => Counts

\* A match comes every Period + 1 cycles, and is to be answered.
Cycle ==
  counting => /\ counting'
              /\ IF counter = Period THEN counter' = 0 /\ unanswered' = 1
                 ELSE counter' = counter + 1

Cycles == [][Cycle]_vars

\* It is answered by the handler, soon, which clears it soon.
Answer == unanswered = 1 => unanswered' = 1 \/ (unanswered' = 0 /\ serving' = "timer")

Answers == [][Answer]_vars

AnsweredSoon ==
  /\ unanswered = 1 => counter <= 3 * SlowestGap
  /\ serving = "timer" => counter <= 5 * SlowestGap

LEMMA EndlessClock ==
  ASSUME TimelyInv, GoesOn, NEW access, Clock(access),
         Writes(access, "TIMER_CR") => access.wdata \in Controls /\ Endless(access.wdata)
  PROVE  /\ Endless(cr')
         /\ counting' => ~single_shot'
         /\ Counts => Counts'
         /\ Writes(access, "TIMER_CR") /\ access.wdata.trg => Counts'
<1>1. cr' = CrNxt(access) /\ cr \in Controls /\ Core /\ counting \in BOOLEAN
  BY DEF Clock, TimerClock, TimerRegisters, TimelyInv, TimerTypes
<1>2. Endless(cr) /\ (counting => ~single_shot)
  BY DEF GoesOn
<1>3. Endless(cr')
  <2>1. CASE Writes(access, "TIMER_CR")
    <3>1. cr' = [access.wdata EXCEPT !.trg = @ /\ ~cr.trg, !.hlt = @ /\ ~cr.hlt]
      BY <1>1, <2>1 DEF CrNxt
    <3>2. QED
      BY <2>1, <3>1 DEF Endless, Controls
  <2>2. CASE ~Writes(access, "TIMER_CR")
    <3>1. cr' = [cr EXCEPT !.trg = @ /\ ~cr.trg, !.hlt = @ /\ ~cr.hlt]
      BY <1>1, <2>2 DEF CrNxt
    <3>2. QED
      BY <1>1, <1>2, <3>1 DEF Endless, Controls
  <2>3. QED
    BY <2>1, <2>2
<1>4. /\ counting => counting' /\ single_shot' = single_shot
      /\ ~counting /\ cr.trg => counting' /\ single_shot' = cr.sngl
      /\ ~counting /\ ~cr.trg => ~counting'
  <2>1. CASE ~counting
    BY <1>1, <2>1 DEF Core
  <2>2. CASE counting /\ Match
    <3>1. counting' = (~cr.hlt /\ ~single_shot) /\ single_shot' = single_shot
      BY <1>1, <2>2 DEF Core
    <3>2. QED
      BY <1>2, <2>2, <3>1 DEF Endless
  <2>3. CASE counting /\ ~Match
    <3>1. counting' = counting /\ single_shot' = single_shot
      BY <1>1, <1>2, <2>3 DEF Core, Endless
    <3>2. QED
      BY <2>3, <3>1
  <2>4. QED
    BY <1>1, <2>1, <2>2, <2>3
<1>5. Writes(access, "TIMER_CR") /\ access.wdata.trg => cr.trg \/ cr'.trg
  <2> SUFFICES ASSUME Writes(access, "TIMER_CR"), access.wdata.trg, ~cr.trg PROVE cr'.trg
    OBVIOUS
  <2>1. cr' = [access.wdata EXCEPT !.trg = @ /\ ~cr.trg, !.hlt = @ /\ ~cr.hlt]
    BY <1>1 DEF CrNxt
  <2>2. QED
    BY <2>1 DEF Controls
<1>6. QED
  BY <1>1, <1>2, <1>3, <1>4, <1>5 DEF Counts, Endless

\* A step of the processor that leaves the program where it is.
LEMMA ElsewhereGoesOn ==
  ASSUME TimelyInv, GoesOn, NEW access, Clock(access), ~Writes(access, "TIMER_CR"),
         main_loaded' = main_loaded,
         UNCHANGED <<api, todo>> \/ api # "set_up"
  PROVE  GoesOn'
<1>1. Endless(cr') /\ (counting' => ~single_shot') /\ (Counts => Counts')
  BY EndlessClock
<1>2. Endless(main_loaded'["TIMER_CR"])
  BY DEF GoesOn
<1>3. Counts' \/ (api' = "set_up" /\ Has(todo', Trigger))
  BY <1>1 DEF GoesOn
<1>4. QED
  BY <1>1, <1>2, <1>3 DEF GoesOn, Endless, Has

LEMMA HandlerGoesOn ==
  ASSUME InterruptsInv, TimelyInv, GoesOn, HandlerStep
  PROVE  GoesOn'
<1> DEFINE a == Head(handler_todo)
           access == BusAccess(a, handler_loaded)
<1>1. a \in {LoadFrom("TIMER_SR"), StoreBack("TIMER_SR", "mtch", FALSE),
             StoreTo("GPIO_ISR", {}), LoadFrom("GPIO_IDR")}
  BY HandlerScripts, HandlerDoes DEF InterruptsInv, Scripts
<1>2. ~Writes(access, "TIMER_CR")
  <2>1. CASE a = LoadFrom("TIMER_SR")
    BY <2>1, LoadReads, WhoWrites
  <2>2. CASE a = StoreBack("TIMER_SR", "mtch", FALSE)
    BY <2>2, StoreBackSpares
  <2>3. CASE a = StoreTo("GPIO_ISR", {})
    BY <2>3, StoreWrites, WhoWrites
  <2>4. CASE a = LoadFrom("GPIO_IDR")
    BY <2>4, LoadReads, WhoWrites
  <2>5. QED
    BY <1>1, <2>1, <2>2, <2>3, <2>4
<1>3. Clock(access) /\ UNCHANGED <<api, todo, main_loaded>>
  BY HandlerDoes
<1> HIDE DEF access
<1>4. QED
  BY <1>2, <1>3, ElsewhereGoesOn

\* What the program loads of the control register is as endless as the
\* register.
LEMMA LoadedEndless ==
  ASSUME GoesOn, NEW a, DOMAIN main_loaded = {"TIMER_CR", "TIMER_SR", "GPIO_ODR"}
  PROVE  Endless(Loaded(a, main_loaded)["TIMER_CR"])
<1>1. Endless(cr) /\ Endless(main_loaded["TIMER_CR"])
  BY DEF GoesOn
<1>2. Endless(NothingLoaded["TIMER_CR"])
  BY DEF NothingLoaded, Endless
<1>3. CASE a = LoadFrom("TIMER_SR")
  <2>1. Loaded(a, main_loaded) = [main_loaded EXCEPT !["TIMER_SR"] = sr]
    BY <1>3, Loads
  <2>2. Loaded(a, main_loaded)["TIMER_CR"] = main_loaded["TIMER_CR"]
    BY <2>1
  <2>3. QED
    BY <1>1, <2>2
<1>4. CASE a = LoadFrom("TIMER_CR")
  <2>1. Loaded(a, main_loaded) = [main_loaded EXCEPT !["TIMER_CR"] = cr]
    BY <1>4, Loads
  <2>2. Loaded(a, main_loaded)["TIMER_CR"] = cr
    BY <2>1
  <2>3. QED
    BY <1>1, <2>2
<1>5. CASE a = LoadFrom("GPIO_ODR")
  <2>1. Loaded(a, main_loaded) = [main_loaded EXCEPT !["GPIO_ODR"] = odr]
    BY <1>5, Loads
  <2>2. Loaded(a, main_loaded)["TIMER_CR"] = main_loaded["TIMER_CR"]
    BY <2>1
  <2>3. QED
    BY <1>1, <2>2
<1>6. CASE a \notin {LoadFrom("TIMER_SR"), LoadFrom("TIMER_CR"), LoadFrom("GPIO_ODR")}
  <2>1. Loaded(a, main_loaded) = NothingLoaded
    BY <1>6, Loads
  <2>2. QED
    BY <1>2, <2>1
<1>7. QED
  BY <1>3, <1>4, <1>5, <1>6

LEMMA SetPinSteps ==
  ASSUME NEW pin, NEW value, todo \in {SetPin(pin, value), Tail(SetPin(pin, value))}
  PROVE  Head(todo) \in {LoadFrom("GPIO_ODR"), StoreBits({pin}, BitOf(pin, value))}
<1>1. SetPin(pin, value) = <<LoadFrom("GPIO_ODR"), StoreBits({pin}, BitOf(pin, value))>>
  BY DEF SetPin, SetMaskBits, StoreBits, BitOf
<1>2. \A b, c : Head(<<b, c>>) = b /\ Head(Tail(<<b, c>>)) = c
  BY Pair
<1>3. Head(SetPin(pin, value)) = LoadFrom("GPIO_ODR")
      /\ Head(Tail(SetPin(pin, value))) = StoreBits({pin}, BitOf(pin, value))
  BY <1>1, <1>2, ZenonT(40)
<1>4. QED
  BY <1>3

LEMMA MainGoesOn ==
  ASSUME InterruptsInv, TimelyInv, GoesOn, MainStep
  PROVE  GoesOn'
<1> DEFINE a == Head(todo)
           access == BusAccess(a, main_loaded)
<1>1. /\ Clock(access) /\ main_loaded' = Loaded(a, main_loaded) /\ todo' = Tail(todo)
      /\ todo # <<>> /\ api' = (IF todo' = <<>> THEN "none" ELSE api)
  BY MainStepDoes
<1>2. Endless(main_loaded'["TIMER_CR"])
  BY <1>1, LoadedEndless DEF InterruptsInv, Setting
<1>3. CASE a = Trigger
  <2>1. PICK value \in Controls :
          access = WriteOf("TIMER_CR", value) /\ value.trg /\ Endless(value)
    BY <1>3, TriggerStores DEF TimelyInv, TimerTypes, GoesOn, Endless
  <2> HIDE DEF access
  <2>2. Writes(access, "TIMER_CR") /\ access.wdata = value
    BY <2>1, WhoWrites
  <2>3. Endless(cr') /\ (counting' => ~single_shot') /\ Counts'
    BY <1>1, <2>1, <2>2, EndlessClock
  <2>4. QED
    BY <1>2, <2>3 DEF GoesOn, Endless
<1>4. CASE a # Trigger
  <2>1. api = "set_up" => todo \in Seq(SetUpSteps) /\ a \in SetUpSteps
    BY <1>1, HeadTailProperties DEF InterruptsInv, Scripts
  <2>2. ~Writes(access, "TIMER_CR")
    <3>1. CASE api = "set_up"
      BY <1>4, <2>1, <3>1, SetUpStores
    <3>2. CASE api = "set_pin"
      <4>1. PICK pin \in Outputs, value \in BOOLEAN :
              todo \in {SetPin(pin, value), Tail(SetPin(pin, value))}
        BY <3>2 DEF InterruptsInv, Setting
      <4>2. a \in {LoadFrom("GPIO_ODR"), StoreBits({pin}, BitOf(pin, value))}
        BY <4>1, SetPinSteps
      <4>3. QED
        BY <4>2, SetPinStores
    <3>3. CASE api = "trigger"
      <4>1. a = LoadFrom("TIMER_CR")
        BY <1>4, <3>3, TriggerScript DEF InterruptsInv, Scripts, Trigger
      <4>2. QED
        BY <4>1, LoadReads, WhoWrites
    <3>4. QED
      BY <1>1, <3>1, <3>2, <3>3 DEF InterruptsInv, Scripts
  <2> HIDE DEF access
  <2>3. Endless(cr') /\ (counting' => ~single_shot') /\ (Counts => Counts')
    BY <1>1, <2>2, EndlessClock
  <2>4. api = "set_up" /\ Has(todo, Trigger) => Has(todo', Trigger) /\ todo' # <<>>
    BY <1>1, <1>4, <2>1, StillToDo
  <2>5. Counts' \/ (api' = "set_up" /\ Has(todo', Trigger))
    BY <1>1, <2>3, <2>4 DEF GoesOn
  <2>6. QED
    BY <1>2, <2>3, <2>5 DEF GoesOn, Endless
<1>5. QED
  BY <1>3, <1>4

LEMMA NextGoesOn ==
  ASSUME InterruptsInv, TimelyInv, GoesOn, [Next]_vars
  PROVE  GoesOn'
<1>1. CASE TakeInterrupt
  <2>1. Clock(NoAccess) /\ UNCHANGED <<api, todo, main_loaded>>
    BY <1>1 DEF TakeInterrupt
  <2>2. QED
    BY <2>1, ElsewhereGoesOn, WhoWrites
<1>2. CASE HandlerStep
  BY <1>2, HandlerGoesOn
<1>3. CASE MainStep
  BY <1>3, MainGoesOn
<1>4. CASE CpuIdle \/ MainCalls
  <2>1. /\ Clock(NoAccess) /\ main_loaded' = main_loaded
        /\ UNCHANGED <<api, todo>> \/ api = "none"
    BY <1>4 DEF CpuIdle, MainCalls, Asks, Call
  <2>2. QED
    BY <2>1, ElsewhereGoesOn, WhoWrites
<1>5. CASE UNCHANGED vars
  BY <1>5 DEF vars, cpuVars, driverVars, timerVars, GoesOn, Counts, Endless, Has
<1>6. QED
  BY <1>1, <1>2, <1>3, <1>4, <1>5 DEF Next

LEMMA InitGoesOn == Init => GoesOn
<1> SUFFICES ASSUME Init PROVE GoesOn
  OBVIOUS
<1>1. Endless(cr) /\ ~counting
  BY DEF Init, TimerInit, Endless
<1>2. Endless(main_loaded["TIMER_CR"])
  BY DEF Init, NothingLoaded, Endless
<1>3. api = "set_up" /\ Has(todo, Trigger)
  BY SetUpPrepares DEF Init
<1>4. QED
  BY <1>1, <1>2, <1>3 DEF GoesOn

\* What every cycle does to the counter, and to the match that waits.
LEMMA CycleGoesOn ==
  ASSUME InterruptsInv, TimelyInv, TimelyInv', GoesOn, GoesOn', KeepsUp, Next
  PROVE  Cycle /\ Answer
<1>1. /\ Core
      /\ \/ unanswered' = unanswered + (IF Match THEN 1 ELSE 0)
         \/ /\ serving' = "timer" /\ unanswered = 1
            /\ unanswered' = unanswered + (IF Match THEN 1 ELSE 0) - 1
  <2>1. CASE TakeInterrupt
    <3>1. PICK s \in Requests :
            /\ serving' = s
            /\ unanswered' = unanswered + (IF Match THEN 1 ELSE 0)
                               - (IF s = "timer" THEN 1 ELSE 0)
      BY <2>1 DEF TakeInterrupt
    <3>2. Core /\ serving = "none"
      BY <2>1 DEF TakeInterrupt, Pending, Clock, TimerClock
    <3>3. s = "timer" => unanswered = 1
      BY <3>2 DEF Requests, TimerIrq, TimelyInv, Answering
    <3>4. unanswered \in {0, 1}
      BY DEF TimelyInv, Answering
    <3>5. QED
      BY <3>1, <3>2, <3>3, <3>4
  <2>2. CASE HandlerStep
    BY <2>2, HandlerDoes DEF Clock, TimerClock
  <2>3. CASE MainStep \/ CpuIdle \/ MainCalls
    BY <2>3 DEF MainStep, CpuIdle, MainCalls, Clock, TimerClock
  <2>4. QED
    BY <2>1, <2>2, <2>3 DEF Next
<1>2. /\ unanswered \in {0, 1} /\ unanswered' \in {0, 1}
      /\ counting \in BOOLEAN
  BY DEF TimelyInv, Answering, TimerTypes
<1>3. unanswered = 1 => ~Match
  BY NoMatchYet
<1>4. Answer
  BY <1>1, <1>2, <1>3 DEF Answer
<1>5. ASSUME counting
      PROVE  /\ counting'
             /\ IF counter = Period THEN counter' = 0 /\ unanswered' = 1
                ELSE counter' = counter + 1
  <2>1. ~cr.hlt /\ ~single_shot
    BY <1>5 DEF GoesOn, Endless
  <2>2. Match <=> counter = Period
    BY <1>5 DEF Match, TimelyInv, Answering, Armed
  <2>3. CASE Match
    <3>1. counting' /\ counter' = 0
      BY <1>1, <1>5, <2>1, <2>3 DEF Core
    <3>2. unanswered = 0
      BY <1>2, <1>3, <2>3
    <3>3. unanswered' = 1
      BY <1>1, <2>3, <3>2
    <3>4. QED
      BY <2>2, <2>3, <3>1, <3>3
  <2>4. CASE ~Match
    <3>1. counting' = counting /\ counter' = (counter + 1) % CounterMod
      BY <1>1, <1>5, <2>1, <2>4 DEF Core
    <3>2. counter \in 0 .. Period /\ counter # Period /\ Period \in Nat /\ Period < CounterMod
          /\ CounterMod \in Nat
      BY <2>2, <2>4, InterruptsAssumption, CounterModAssumption DEF TimelyInv, TimerTypes, Count
    <3>3. counter + 1 \in Nat /\ counter + 1 < CounterMod
      BY <3>2
    <3>4. (counter + 1) % CounterMod = counter + 1
      BY <3>2, <3>3
    <3>5. QED
      BY <1>5, <3>1, <3>2, <3>4
  <2>5. QED
    BY <2>3, <2>4
<1>6. Cycle
  BY <1>5 DEF Cycle
<1>7. QED
  BY <1>4, <1>6

\* The handler is entered within three steps of the processor after a match,
\* and is through within five.
LEMMA TimelyIsSoon ==
  ASSUME InterruptsInv, TimelyInv, KeepsUp
  PROVE  AnsweredSoon
<1>1. /\ SlowestGap \in Nat \ {0} /\ gap \in 1 .. SlowestGap /\ counter \in 0 .. Period
      /\ Period \in Nat
  BY Numbers
<1>2. unanswered = 1 => serving # "timer"
  BY DEF TimelyInv, Answering
<1>3. CASE serving = "timer"
  BY <1>1, <1>2, <1>3 DEF TimelyInv, InTime, AnsweredSoon
<1>4. CASE serving = "gpio"
  BY <1>1, <1>4 DEF TimelyInv, InTime, AnsweredSoon
<1>5. CASE serving = "none"
  BY <1>1, <1>5 DEF TimelyInv, InTime, AnsweredSoon
<1>6. QED
  BY <1>3, <1>4, <1>5 DEF InterruptsInv, Scripts

(* After the set-up the timer counts, without end, from one match to the   *)
(* next, Period + 1 cycles later; each match waits for the handler, is     *)
(* answered by it alone, and for no more than three of the longest gaps    *)
(* between two steps of the processor, whatever else is being served: a    *)
(* run of the handler in every period, which is KeepsTicking with a bound. *)
THEOREM TimerIsServed ==
  ASSUME KeepsUp
  PROVE  Spec => []TimerStarts /\ Cycles /\ Answers /\ []AnsweredSoon
<1>1. Init => InterruptsInv /\ TimelyInv /\ GoesOn
  BY InitInv, InitTimely, InitGoesOn
<1>2. InterruptsInv /\ TimelyInv /\ GoesOn /\ [Next]_vars
        => InterruptsInv' /\ TimelyInv' /\ GoesOn'
  BY NextInv, NextTimely, NextGoesOn
<1>3. InterruptsInv /\ TimelyInv /\ GoesOn => TimerStarts /\ AnsweredSoon
  BY TimelyIsSoon DEF GoesOn, TimerStarts
<1>4. InterruptsInv /\ TimelyInv /\ GoesOn /\ InterruptsInv' /\ TimelyInv' /\ GoesOn'
        /\ [Next]_vars => [Cycle]_vars /\ [Answer]_vars
  BY CycleGoesOn
<1>5. QED
  BY <1>1, <1>2, <1>3, <1>4, PTL DEF Spec, Cycles, Answers

=============================================================================
