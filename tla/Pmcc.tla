-------------------------------- MODULE Pmcc --------------------------------
(***************************************************************************)
(* The pixel matrix coprocessor: the instruction classes, the program      *)
(* counter, the loop controller with its LIFO of suspended loops, the wait *)
(* controller and the register that drives the matrix control lines.       *)
(*                                                                         *)
(* One step is one rising clock edge.  The module owns the registers of    *)
(* the coprocessor only: the instruction presented by the code RAM, the    *)
(* trigger bit and the reset come from the module that extends this one    *)
(* (PmccLoops closes it with a fixed program, Pmc with the byte-wide code  *)
(* RAM and the control register).                                          *)
(*                                                                         *)
(* An instruction is a record [op, arg]; the bytes it is decoded from are  *)
(* the business of module Pmc.                                             *)
(*                                                                         *)
(* A definition marked "slip" is not the code's: it is a mistake the       *)
(* definition after it could have had, kept to try the properties on.      *)
(***************************************************************************)
EXTENDS Naturals

CONSTANTS
  AddrMod,     \* number of program addresses (2^10 in the code)
  IterMod,     \* number of values of an iteration counter (2^14)
  LifoDepth,   \* entries of the loop LIFO (10)
  CtrlValues,  \* values the 16-bit matrix control register takes, 0 included
  LifoPowerUp  \* what the LIFO memory, which no reset clears, may hold at first

ASSUME PmccAssumption ==
  /\ AddrMod \in Nat \ {0}
  /\ IterMod \in Nat /\ IterMod > 1
  /\ LifoDepth \in Nat \ {0}
  /\ 0 \in CtrlValues
  /\ LifoPowerUp \subseteq [0 .. LifoDepth - 1 ->
                            [start : 0 .. AddrMod - 1,
                             iterations : 0 .. IterMod - 1]]

Addr  == 0 .. AddrMod - 1
Iters == 0 .. IterMod - 1
Loop  == [start : Addr, iterations : Iters]

NoLoop == [start |-> 0, iterations |-> 0]

Instr ==
       [op : {"STORE", "STOREB"}, arg : CtrlValues]
  \cup [op : {"LOOP"}, arg : Iters]
  \cup [op : {"JUMP"}, arg : Addr]
  \cup [op : {"WAITT"}, arg : {0}]

VARIABLES
  pc_id,             \* address of the instruction being executed
  active_loop,       \* innermost loop
  loop_execution,    \* some loop is being executed
  lifo_readout,      \* a suspended loop was popped by the previous instruction
  lifo_mem,          \* suspended loops
  elements_counter,  \* how many of them there are
  lifo_rdata,        \* registered read port of the LIFO
  lifo_full, lifo_empty,
  matrix_ctrl        \* the control lines of the pixel matrix

loopVars == <<active_loop, loop_execution, lifo_readout>>
lifoVars == <<lifo_mem, elements_counter, lifo_rdata, lifo_full, lifo_empty>>
pmccVars == <<pc_id, loopVars, lifoVars, matrix_ctrl>>

-----------------------------------------------------------------------------
(* Instruction decoder. *)

Store(i)  == i.op \in {"STORE", "STOREB"}
Branch(i) == i.op = "STOREB"
IsLoop(i) == i.op = "LOOP"
Jump(i)   == i.op = "JUMP"
Waitt(i)  == i.op = "WAITT"

\* Bytes the instruction occupies: instr_size + 1.
Bytes(i) == CASE Store(i) -> 3
              [] IsLoop(i) \/ Jump(i) -> 2
              [] OTHER -> 1

Following(i) == (pc_id + Bytes(i)) % AddrMod

\* The wait controller: WAITT holds the program counter until the trigger.
Waiting(i, trigger) == Waitt(i) /\ ~trigger

-----------------------------------------------------------------------------
(* Loop controller (combinational part). *)

\* The loop a closing STOREB sees: the one just popped takes precedence over
\* the active one, which it has not reached yet.
Innermost == IF lifo_readout THEN lifo_rdata ELSE active_loop

InLoop == lifo_readout \/ loop_execution

\* iterations - 1 in 14 bits.
Decrement(n) == (n + IterMod - 1) % IterMod

OpensLoop(i)  == IsLoop(i) /\ i.arg # 0
Repeats(i)    == Branch(i) /\ InLoop /\ Innermost.iterations # 0
ClosesLoop(i) == Branch(i) /\ InLoop /\ Innermost.iterations = 0

LifoPush(i) == OpensLoop(i) /\ InLoop
LifoPop(i)  == ClosesLoop(i) /\ ~lifo_empty

BranchExec(i) == Repeats(i)
\* (slip) The loop just popped is forgotten.
BranchDstActive(i) == active_loop.start

BranchDst(i)  == Innermost.start

\* (slip) The first time round is not counted.
ActiveLoopOnceMore(i) ==
  CASE OpensLoop(i) -> [start |-> Following(i), iterations |-> i.arg]
    [] Repeats(i) -> [Innermost EXCEPT !.iterations = @ - 1]
    [] lifo_readout /\ ~Branch(i) /\ ~OpensLoop(i) ->
         [lifo_rdata EXCEPT !.iterations = Decrement(@)]
    [] OTHER -> active_loop

\* (slip) A loop that repeats is not counted down.
ActiveLoopForever(i) ==
  CASE OpensLoop(i) -> [start |-> Following(i), iterations |-> i.arg - 1]
    [] lifo_readout /\ ~Branch(i) /\ ~OpensLoop(i) ->
         [lifo_rdata EXCEPT !.iterations = Decrement(@)]
    [] OTHER -> active_loop

\* The popped loop becomes the active one at the next instruction that does
\* not close it, and is decremented on the way whatever that instruction is.
ActiveLoopNxt(i) ==
  CASE OpensLoop(i) -> [start |-> Following(i), iterations |-> i.arg - 1]
    [] Repeats(i) -> [Innermost EXCEPT !.iterations = @ - 1]
    [] lifo_readout /\ ~Branch(i) /\ ~OpensLoop(i) ->
         [lifo_rdata EXCEPT !.iterations = Decrement(@)]
    [] OTHER -> active_loop

\* (slip) Closing any loop leaves them all.
LoopExecutionDropped(i) ==
  CASE OpensLoop(i) /\ ~lifo_readout -> TRUE
    [] ClosesLoop(i) -> FALSE
    [] OTHER -> loop_execution

LoopExecutionNxt(i) ==
  CASE OpensLoop(i) /\ ~lifo_readout -> TRUE
    [] ClosesLoop(i) /\ lifo_empty -> FALSE
    [] OTHER -> loop_execution

-----------------------------------------------------------------------------
(* Registers. *)

\* (slip) The LIFO is taken for empty one pop late.
LifoClockLateEmpty(push, wdata, pop) ==
  CASE push /\ ~lifo_full ->
         /\ lifo_mem' = [lifo_mem EXCEPT ![elements_counter] = wdata]
         /\ elements_counter' = elements_counter + 1
         /\ lifo_full' = (elements_counter = LifoDepth - 1)
         /\ lifo_empty' = FALSE
         /\ UNCHANGED lifo_rdata
    [] ~(push /\ ~lifo_full) /\ pop /\ ~lifo_empty ->
         /\ lifo_rdata' = lifo_mem[elements_counter - 1]
         /\ elements_counter' = elements_counter - 1
         /\ lifo_full' = FALSE
         /\ lifo_empty' = (elements_counter = 0)
         /\ UNCHANGED lifo_mem
    [] OTHER -> UNCHANGED lifoVars

\* Push wins over pop, a push into a full LIFO is dropped.
LifoClock(push, wdata, pop) ==
  CASE push /\ ~lifo_full ->
         /\ lifo_mem' = [lifo_mem EXCEPT ![elements_counter] = wdata]
         /\ elements_counter' = elements_counter + 1
         /\ lifo_full' = (elements_counter = LifoDepth - 1)
         /\ lifo_empty' = FALSE
         /\ UNCHANGED lifo_rdata
    [] ~(push /\ ~lifo_full) /\ pop /\ ~lifo_empty ->
         /\ lifo_rdata' = lifo_mem[elements_counter - 1]
         /\ elements_counter' = elements_counter - 1
         /\ lifo_full' = FALSE
         /\ lifo_empty' = (elements_counter = 1)
         /\ UNCHANGED lifo_mem
    [] OTHER -> UNCHANGED lifoVars

\* (slip) The reset does not reach the address.
PcIfUnheld(i, trigger, held) ==
  CASE Waiting(i, trigger) -> pc_id
    [] Jump(i) -> i.arg
    [] BranchExec(i) -> BranchDst(i)
    [] OTHER -> Following(i)

\* The address presented to the code RAM.
PcIf(i, trigger, held) ==
  CASE held -> 0
    [] ~held /\ Waiting(i, trigger) -> pc_id
    [] ~held /\ Jump(i) -> i.arg
    [] ~held /\ BranchExec(i) -> BranchDst(i)
    [] OTHER -> Following(i)

\* A clock edge with the coprocessor running.
PmccRun(i, trigger) ==
  /\ pc_id' = PcIf(i, trigger, FALSE)
  /\ active_loop' = ActiveLoopNxt(i)
  /\ loop_execution' = LoopExecutionNxt(i)
  /\ lifo_readout' = LifoPop(i)
  /\ LifoClock(LifoPush(i), Innermost, LifoPop(i))
  /\ matrix_ctrl' = IF Store(i) THEN i.arg ELSE matrix_ctrl

\* Reset is asynchronous and spares the LIFO memory.
PmccReset ==
  /\ pc_id' = 0
  /\ active_loop' = NoLoop
  /\ loop_execution' = FALSE
  /\ lifo_readout' = FALSE
  /\ UNCHANGED lifo_mem
  /\ elements_counter' = 0
  /\ lifo_rdata' = NoLoop
  /\ lifo_full' = FALSE
  /\ lifo_empty' = TRUE
  /\ matrix_ctrl' = 0

PmccInit ==
  /\ pc_id = 0
  /\ active_loop = NoLoop
  /\ loop_execution = FALSE
  /\ lifo_readout = FALSE
  /\ lifo_mem \in LifoPowerUp
  /\ elements_counter = 0
  /\ lifo_rdata = NoLoop
  /\ lifo_full = FALSE
  /\ lifo_empty = TRUE
  /\ matrix_ctrl = 0

PmccTypeOK ==
  /\ pc_id \in Addr
  /\ active_loop \in Loop
  /\ loop_execution \in BOOLEAN
  /\ lifo_readout \in BOOLEAN
  /\ lifo_mem \in [0 .. LifoDepth - 1 -> Loop]
  /\ elements_counter \in 0 .. LifoDepth
  /\ lifo_rdata \in Loop
  /\ lifo_full \in BOOLEAN
  /\ lifo_empty \in BOOLEAN
  /\ matrix_ctrl \in CtrlValues

=============================================================================
