----------------------------- MODULE PmccLoops -----------------------------
(***************************************************************************)
(* The coprocessor running a program that does not change while it runs.   *)
(* The code RAM shows, after each edge, the instruction at the address the *)
(* coprocessor presented before it.  The control register's two inputs are *)
(* free: the trigger may come at any cycle, and so may a reset or a disable*)
(* (held stands for ~(en & ~rst)).                                         *)
(***************************************************************************)
EXTENDS Pmcc, Sequences

CONSTANT Programs   \* the programs considered: the instruction read at each
                    \* address

ASSUME ProgramsAssumption == Programs \subseteq [Addr -> Instr]

VARIABLES
  program,
  instr,   \* registered output of the code RAM
  held     \* the coprocessor is kept in reset

vars == <<program, instr, held, pmccVars>>

Init ==
  /\ program \in Programs
  /\ instr \in {program[a] : a \in Addr}
  /\ held = TRUE
  /\ PmccInit

\* One edge.  The registers are cleared for as long as the reset lasts, from
\* the very edge that starts it.
Clock(trigger, hold) ==
  /\ held' = hold
  /\ instr' = program[PcIf(instr, trigger, held)]
  /\ IF held \/ hold THEN PmccReset ELSE PmccRun(instr, trigger)
  /\ UNCHANGED program

Next == \E trigger, hold \in BOOLEAN : Clock(trigger, hold)

Spec == Init /\ [][Next]_vars

TypeOK ==
  /\ PmccTypeOK
  /\ program \in [Addr -> Instr]
  /\ instr \in Instr
  /\ held \in BOOLEAN

-----------------------------------------------------------------------------
(* The loops the coprocessor is inside of, outermost first: the suspended  *)
(* ones in the LIFO, then the active one, which right after a pop is still *)
(* in the read port.                                                       *)
LoopStack ==
  IF ~loop_execution THEN <<>>
  ELSE [k \in 1 .. elements_counter + 1 |->
          IF k <= elements_counter THEN lifo_mem[k - 1] ELSE Innermost]

InstrSet == INSTANCE PmccIsa
         WITH pc <- pc_id, stack <- LoopStack, ctrl <- matrix_ctrl

(* A popped loop is about to be resumed by an instruction that neither     *)
(* closes it nor opens a loop inside it: the controller decrements its     *)
(* iterations although the loop has not come round.                        *)
ResumesShort ==
  /\ ~held /\ lifo_readout
  /\ ~Branch(instr) /\ ~OpensLoop(instr)

-----------------------------------------------------------------------------
(* The status bits of the LIFO agree with its occupancy, which together    *)
(* with the single active loop is what the loop controller takes for the   *)
(* nesting depth: outside a loop nothing is suspended, a loop that was     *)
(* just popped keeps the controller in a loop and has left a free entry,   *)
(* so the push of a loop opened right after the pop cannot be dropped.     *)
LifoConsistent ==
  /\ lifo_empty <=> elements_counter = 0
  /\ lifo_full <=> elements_counter = LifoDepth
  /\ ~loop_execution => lifo_empty /\ ~lifo_readout
  /\ lifo_readout => ~lifo_full

(* The instruction being executed is the one at the program counter: the   *)
(* one-cycle latency of the code RAM never shows, not even when the reset  *)
(* is released.                                                            *)
FetchCoherent == ~held => instr = program[pc_id]

(* Whatever the program, every edge executes one instruction as the        *)
(* instruction set says, or waits, or resets; the only exception is an     *)
(* outer loop resumed by an instruction that is not a STOREB or a LOOP.    *)
ExecutesIsa == [][ResumesShort \/ InstrSet!Next]_(InstrSet!vars)

(* The coprocessor implements its instruction set.  It does so for the     *)
(* programs that never resume a loop short, such as the well-formed ones   *)
(* of PmccUnroll.                                                          *)
RefinesIsa == InstrSet!Spec

=============================================================================
