------------------------------- MODULE Delay -------------------------------
(***************************************************************************)
(* Delays: a number of iterations of a loop that counts down and then      *)
(* looks whether it has come to zero, in words of Wrap values.             *)
(***************************************************************************)
EXTENDS Naturals

CONSTANTS
  Wrap,       \* values of a word (2^32)
  PerMsec,    \* iterations a millisecond takes (5000)
  PerUsec,    \* iterations a microsecond takes (5)
  SIM,        \* the build for the simulation waits a fixed time
  SimMsecs,   \* iterations of its mdelay() (100)
  SimUsecs    \* and of its udelay() (10)

ASSUME DelayAssumption ==
  /\ Wrap \in Nat \ {0} /\ {PerMsec, PerUsec} \subseteq Nat \ {0}
  /\ SIM \in BOOLEAN
  /\ {SimMsecs, SimUsecs} \subseteq 1 .. Wrap - 1

VARIABLES
  running,
  loops,     \* the register that counts down
  asked,     \* history: iterations wanted, not cut to a word
  ran        \* history: iterations run; no more than one over a whole word

delayVars == <<running, loops, asked, ran>>

LoopWord == 0 .. Wrap - 1

Predecessor(word) == IF word = 0 THEN Wrap - 1 ELSE word - 1

Execute10CyclesLoop(iterations) ==
  /\ ~running /\ running' = TRUE
  /\ asked' = iterations
  /\ loops' = iterations % Wrap
  /\ ran' = 0

mdelay ==
  IF SIM THEN Execute10CyclesLoop(SimMsecs)
         ELSE \E msec \in LoopWord : Execute10CyclesLoop(msec * PerMsec)

udelay ==
  IF SIM THEN Execute10CyclesLoop(SimUsecs)
         ELSE \E usec \in LoopWord : Execute10CyclesLoop(usec * PerUsec)

\* (slip) Looks before it counts.
IterateLate ==
  /\ running
  /\ running' = (loops # 0)
  /\ loops' = Predecessor(loops)
  /\ ran' = IF ran > Wrap THEN ran ELSE ran + 1
  /\ UNCHANGED asked

\* Counts, then looks.
Iterate ==
  /\ running
  /\ loops' = Predecessor(loops)
  /\ running' = (loops' # 0)
  /\ ran' = IF ran > Wrap THEN ran ELSE ran + 1
  /\ UNCHANGED asked

DelayInit == running = FALSE /\ loops = 0 /\ asked = 0 /\ ran = 0

DelayNext == mdelay \/ udelay \/ Iterate

DelaySpec == DelayInit /\ [][DelayNext]_delayVars

-----------------------------------------------------------------------------
DelayTypeOK ==
  /\ running \in BOOLEAN
  /\ loops \in LoopWord
  /\ asked \in Nat
  /\ ran \in 0 .. Wrap

(* A delay that has ended ran for as long as asked, whenever that fits a   *)
(* word; a delay of nothing is the longest there is.                       *)
DelaysAsAsked ==
  ~running /\ ran > 0 =>
    /\ asked \in 1 .. Wrap - 1 => ran = asked
    /\ asked = 0 => ran = Wrap

=============================================================================
