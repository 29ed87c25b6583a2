------------------------------ MODULE Interrupts ------------------------------
(***************************************************************************)
(* The timer and the GPIO with the software that serves their interrupts.  *)
(* The main program installs the handlers, lets the interrupts in, sets    *)
(* the peripherals up and then drives its output pins and triggers the     *)
(* running timer at will; the handlers are the shortest useful ones: the   *)
(* timer's clears the match and counts it, the GPIO's clears the status    *)
(* register and then looks at the pins.                                    *)
(*                                                                         *)
(* An interrupt is taken between any two accesses of the main program,     *)
(* also between the load and the store of an update, and the handlers do   *)
(* not interrupt each other; the timer, with the higher id, goes first.    *)
(***************************************************************************)
EXTENDS Timer, Gpio, Driver

CONSTANTS
  SlowestGap,   \* most cycles from one step of the processor to the next
  Inputs,       \* pins that move by themselves
  Outputs,      \* pins the main program sets
  Period        \* compare value the main program sets

ASSUME InterruptsAssumption ==
  /\ Inputs \cup Outputs \subseteq Pins
  /\ Period \in Count
  /\ SlowestGap \in Nat

VARIABLES
  din,           \* the input pins
  serving,       \* handler being run, or "none"
  handler_todo,  \* accesses it still has to make
  main_loaded, handler_loaded,   \* registers as last loaded for an update
  installed,     \* sources whose handler pointer is set
  mie, mstatus_mie,              \* interrupts let in, one by one and globally
  sampled,       \* the pins as the GPIO handler last saw them
  unanswered,    \* history: matches not yet answered by a run of the handler
  wanted         \* history: the outputs last asked for

cpuVars == <<driverVars, serving, handler_todo, main_loaded, handler_loaded,
             installed, mie, mstatus_mie, sampled>>
vars == <<timerVars, gpioVars, cpuVars, din, unanswered, wanted>>

-----------------------------------------------------------------------------
(* The drivers.  (A definition marked "slip" is not the code's but a       *)
(* mistake it could have had; the properties tell the two apart.)          *)

\* (slip) The interrupt is let in before there is a handler.
EnableInterruptsEarly(source) ==
  <<[op |-> "let_in", source |-> source], [op |-> "install", source |-> source]>>

EnableInterrupts(source) ==
  <<[op |-> "install", source |-> source], [op |-> "let_in", source |-> source]>>

EnableGlobally == <<[op |-> "let_in_globally"]>>

\* (slip) Every bit of the register is written.
SetMaskBitsAll(mask, bits) ==
  <<LoadFrom("GPIO_ODR"), [op |-> "store_bits", mask |-> Pins, bits |-> bits]>>

SetMaskBits(mask, bits) ==
  <<LoadFrom("GPIO_ODR"), [op |-> "store_bits", mask |-> mask, bits |-> bits]>>

SetPin(pin, value) == SetMaskBits({pin}, IF value THEN {pin} ELSE {})

TriggerTimer == Update("TIMER_CR", "trg", TRUE)

ClearMatched == Update("TIMER_SR", "mtch", FALSE)

SetUp ==
  EnableGlobally
  \o <<StoreTo("GPIO_RIER", Inputs), StoreTo("GPIO_FIER", Inputs),
       StoreTo("GPIO_IER", Inputs), StoreTo("TIMER_CMPR", Period)>>
  \o EnableInterrupts("timer") \o TriggerTimer
  \o EnableInterrupts("gpio") \o <<LoadFrom("GPIO_IDR")>>

Handler(source) ==
  CASE source = "timer" -> ClearMatched
    [] source = "gpio" -> <<StoreTo("GPIO_ISR", {}), LoadFrom("GPIO_IDR")>>

-----------------------------------------------------------------------------
(* The processor. *)

Requests == mie \cap {s \in {"timer", "gpio"} : IF s = "timer" THEN TimerIrq ELSE GpioIrq}

Pending == serving = "none" /\ mstatus_mie /\ Requests # {}

\* What step a puts on the bus.
BusAccess(a, loaded) ==
  CASE a.op = "load" -> ReadOf(a.reg)
    [] a.op = "store" -> WriteOf(a.reg, a.data)
    [] a.op = "store_back" -> WriteOf(a.reg, [loaded[a.reg] EXCEPT ![a.field] = a.data])
    [] a.op = "store_bits" ->
         WriteOf("GPIO_ODR", (loaded["GPIO_ODR"] \ a.mask) \cup (a.bits \cap a.mask))
    [] OTHER -> NoAccess

NothingLoaded ==
  [TIMER_CR |-> [trg |-> FALSE, hlt |-> FALSE, sngl |-> FALSE],
   TIMER_SR |-> [mtch |-> FALSE, act |-> FALSE],
   GPIO_ODR |-> {}]

\* What a load keeps for the store that follows it.
Loaded(a, loaded) ==
  CASE a = LoadFrom("TIMER_CR") -> [loaded EXCEPT !["TIMER_CR"] = cr]
    [] a = LoadFrom("TIMER_SR") -> [loaded EXCEPT !["TIMER_SR"] = sr]
    [] a = LoadFrom("GPIO_ODR") -> [loaded EXCEPT !["GPIO_ODR"] = odr]
    [] OTHER -> NothingLoaded

Ready(a) == gap >= IF a.op \in {"store_back", "store_bits"} THEN UpdateGap ELSE AccessGap

Samples(a) == sampled' = IF a = LoadFrom("GPIO_IDR") THEN idr ELSE sampled

\* One clock edge, which ends a cycle with the given access.
Clock(access) ==
  /\ TimerClock(access)
  /\ GpioClock(access, din)
  /\ din' \in SUBSET Inputs

TakeInterrupt ==
  \E s \in Requests :
    /\ Pending
    /\ s = "timer" \/ "timer" \notin Requests
    /\ serving' = s
    /\ handler_todo' = Handler(s)
    /\ gap' = 1
    /\ unanswered' = unanswered + (IF Match THEN 1 ELSE 0) - (IF s = "timer" THEN 1 ELSE 0)
    /\ Clock(NoAccess)
    /\ UNCHANGED <<api, todo, main_loaded, handler_loaded, installed, mie, mstatus_mie,
                   sampled, wanted>>

HandlerStep ==
  /\ serving # "none"
  /\ LET a == Head(handler_todo)
     IN  /\ Ready(a)
         /\ handler_loaded' = Loaded(a, handler_loaded)
         /\ Samples(a)
         /\ Clock(BusAccess(a, handler_loaded))
  /\ handler_todo' = Tail(handler_todo)
  /\ serving' = IF handler_todo' = <<>> THEN "none" ELSE serving
  /\ gap' = 1
  /\ unanswered' = unanswered + (IF Match THEN 1 ELSE 0)
  /\ UNCHANGED <<api, todo, main_loaded, installed, mie, mstatus_mie, wanted>>

MainStep ==
  /\ serving = "none" /\ ~Pending /\ todo # <<>>
  /\ LET a == Head(todo)
     IN  /\ Ready(a)
         /\ main_loaded' = Loaded(a, main_loaded)
         /\ Samples(a)
         /\ installed' = IF a.op = "install" THEN installed \cup {a.source} ELSE installed
         /\ mie' = IF a.op = "let_in" THEN mie \cup {a.source} ELSE mie
         /\ mstatus_mie' = (mstatus_mie \/ a.op = "let_in_globally")
         /\ Clock(BusAccess(a, main_loaded))
  /\ Retire(FALSE)
  /\ gap' = 1
  /\ unanswered' = unanswered + (IF Match THEN 1 ELSE 0)
  /\ UNCHANGED <<serving, handler_todo, handler_loaded, wanted>>

CpuIdle ==
  /\ \/ gap < SlowestGap
     \/ serving = "none" /\ ~Pending /\ todo = <<>>
  /\ gap' = IF gap < SlowestGap THEN gap + 1 ELSE gap
  /\ Clock(NoAccess)
  /\ unanswered' = unanswered + (IF Match THEN 1 ELSE 0)
  /\ UNCHANGED <<api, todo, serving, handler_todo, main_loaded, handler_loaded, installed,
                 mie, mstatus_mie, sampled, wanted>>

\* The calls of the main program: a pin is set, or the timer triggered anew.
Asks ==
  \/ \E pin \in Outputs, value \in BOOLEAN :
       /\ Call("set_pin", SetPin(pin, value))
       /\ wanted' = IF value THEN wanted \cup {pin} ELSE wanted \ {pin}
  \/ Call("trigger", TriggerTimer) /\ UNCHANGED wanted

MainCalls ==
  /\ serving = "none"
  /\ Asks
  /\ gap' = IF gap < SlowestGap THEN gap + 1 ELSE gap
  /\ Clock(NoAccess)
  /\ unanswered' = unanswered + (IF Match THEN 1 ELSE 0)
  /\ UNCHANGED <<serving, handler_todo, main_loaded, handler_loaded, installed, mie,
                 mstatus_mie, sampled>>

Init ==
  /\ TimerInit /\ GpioInit
  /\ api = "set_up" /\ todo = SetUp /\ gap = AccessGap
  /\ din \in SUBSET Inputs
  /\ serving = "none" /\ handler_todo = <<>>
  /\ main_loaded = NothingLoaded /\ handler_loaded = NothingLoaded
  /\ installed = {} /\ mie = {} /\ mstatus_mie = FALSE
  /\ sampled = {} /\ unanswered = 0 /\ wanted = {}

Next == TakeInterrupt \/ HandlerStep \/ MainStep \/ CpuIdle \/ MainCalls

\* The clock never stops; how long the processor idles is bounded by CpuIdle.
Spec == Init /\ [][Next]_vars /\ WF_vars(Next)

-----------------------------------------------------------------------------
TypeOK ==
  /\ TimerTypeOK /\ GpioTypeOK
  /\ serving \in {"none", "timer", "gpio"}
  /\ serving = "none" <=> handler_todo = <<>>
  /\ installed \cup mie \subseteq {"timer", "gpio"}
  /\ {sampled, wanted, din} \subseteq SUBSET Pins

(* No interrupt is taken before its handler pointer is set, although the   *)
(* interrupts may be let in globally, and be pending, long before.         *)
HandlerInstalled == serving # "none" => serving \in installed

(* Every match is answered by one run of the handler, and none runs for    *)
(* nothing: clearing the match, a load and a store apart, loses no match   *)
(* as long as the processor gets round to it within a period.              *)
MatchesAnswered == unanswered \in {0, 1}

(* The software never ends up with an old view of the pins: with nothing   *)
(* pending and no edge on its way through the detector, the handler has    *)
(* seen the pins as they are.  An edge may come in the very cycle the      *)
(* status register is cleared.                                             *)
PinsObserved ==
  /\ "gpio" \in mie /\ api # "set_up"
  /\ serving = "none" /\ isr = {}
  /\ idr = prv2 /\ prv2 = prv3
  => sampled = idr

(* The outputs are what the main program last asked for, whatever was      *)
(* served between the load and the store of set_pin().                     *)
OutputsAsWanted == api = "none" => odr = wanted

(* The timer keeps matching and being served although its status is        *)
(* cleared and it is triggered again at any moment of its period.          *)
KeepsTicking == []<>(serving = "timer")

=============================================================================
