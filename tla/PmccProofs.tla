----------------------------- MODULE PmccProofs -----------------------------
(***************************************************************************)
(* Theorems about the coprocessor for every program, every width of its    *)
(* counters and every depth of its loop LIFO.                              *)
(***************************************************************************)
EXTENDS PmccUnroll, FiniteSetTheorems, SequenceTheorems, TLAPS

\* What an instruction holds, by class.
LEMMA InstrFields ==
  ASSUME NEW i \in Instr
  PROVE  /\ i.op \in {"STORE", "STOREB", "LOOP", "JUMP", "WAITT"}
         /\ Store(i) => i.arg \in CtrlValues
         /\ IsLoop(i) => i.arg \in Iters
         /\ Jump(i) => i.arg \in Addr
         /\ Bytes(i) \in {1, 2, 3}
  BY DEF Instr, Store, IsLoop, Jump, Bytes

\* A program address stays in range.
LEMMA FollowingInRange ==
  ASSUME NEW i \in Instr, pc_id \in Addr
  PROVE  Following(i) \in Addr
<1>1. pc_id + Bytes(i) \in Nat
  BY InstrFields, PmccAssumption DEF Addr
<1>2. QED
  BY <1>1, PmccAssumption DEF Following, Addr

LEMMA DecrementInRange ==
  ASSUME NEW n \in Iters
  PROVE  Decrement(n) \in Iters
  BY PmccAssumption DEF Decrement, Iters

LEMMA InnermostIsLoop ==
  ASSUME PmccTypeOK
  PROVE  /\ Innermost \in Loop
         /\ Innermost.start \in Addr
         /\ Innermost.iterations \in Iters
  BY DEF PmccTypeOK, Innermost, Loop

LEMMA PcIfInRange ==
  ASSUME NEW i \in Instr, NEW trigger \in BOOLEAN, NEW hold \in BOOLEAN, PmccTypeOK
  PROVE  PcIf(i, trigger, hold) \in Addr
<1>1. 0 \in Addr
  BY PmccAssumption DEF Addr
<1>2. pc_id \in Addr
  BY DEF PmccTypeOK
<1>3. Following(i) \in Addr
  BY <1>2, FollowingInRange
<1>4. BranchDst(i) \in Addr
  BY InnermostIsLoop DEF BranchDst
<1>5. Jump(i) => i.arg \in Addr
  BY InstrFields
<1>6. QED
  BY <1>1, <1>2, <1>3, <1>4, <1>5 DEF PcIf

LEMMA ActiveLoopInRange ==
  ASSUME NEW i \in Instr, PmccTypeOK
  PROVE  ActiveLoopNxt(i) \in Loop
<1>1. CASE OpensLoop(i)
  <2>1. Following(i) \in Addr
    BY FollowingInRange DEF PmccTypeOK
  <2>2. i.arg - 1 \in Iters
    BY <1>1, InstrFields, PmccAssumption DEF OpensLoop, Iters
  <2>3. ActiveLoopNxt(i) = [start |-> Following(i), iterations |-> i.arg - 1]
    BY <1>1 DEF ActiveLoopNxt, OpensLoop, Repeats, IsLoop, Branch
  <2>4. QED
    BY <2>1, <2>2, <2>3 DEF Loop
<1>2. CASE Repeats(i)
  <2>1. Innermost.iterations - 1 \in Iters
    BY <1>2, InnermostIsLoop, PmccAssumption DEF Repeats, Iters
  <2>2. ActiveLoopNxt(i) = [Innermost EXCEPT !.iterations = @ - 1]
    BY <1>2 DEF ActiveLoopNxt, OpensLoop, Repeats, IsLoop, Branch
  <2>3. QED
    BY <2>1, <2>2, InnermostIsLoop DEF Loop
<1>3. CASE lifo_readout /\ ~Branch(i) /\ ~OpensLoop(i)
  <2>1. lifo_rdata \in Loop /\ lifo_rdata.iterations \in Iters
    BY DEF PmccTypeOK, Loop
  <2>2. ActiveLoopNxt(i) = [lifo_rdata EXCEPT !.iterations = Decrement(@)]
    BY <1>3 DEF ActiveLoopNxt, Repeats
  <2>3. QED
    BY <2>1, <2>2, DecrementInRange DEF Loop
<1>4. CASE ~OpensLoop(i) /\ ~Repeats(i) /\ ~(lifo_readout /\ ~Branch(i) /\ ~OpensLoop(i))
  BY <1>4 DEF ActiveLoopNxt, PmccTypeOK
<1>5. QED
  BY <1>1, <1>2, <1>3, <1>4

-----------------------------------------------------------------------------
(* The LIFO on its own: what an edge makes of its registers, and that its  *)
(* status bits keep counting its entries.                                  *)

LifoStatus ==
  /\ lifo_empty <=> elements_counter = 0
  /\ lifo_full <=> elements_counter = LifoDepth

LEMMA LifoClockStep ==
  ASSUME PmccTypeOK, LifoStatus,
         NEW push \in BOOLEAN, NEW pop \in BOOLEAN, NEW wdata \in Loop,
         LifoClock(push, wdata, pop)
  PROVE  /\ lifo_mem' \in [0 .. LifoDepth - 1 -> Loop]
         /\ elements_counter' \in 0 .. LifoDepth
         /\ lifo_rdata' \in Loop
         /\ lifo_full' \in BOOLEAN
         /\ lifo_empty' \in BOOLEAN
         /\ LifoStatus'
<1> USE PmccAssumption
<1>1. CASE push /\ ~lifo_full
  <2>1. elements_counter \in 0 .. LifoDepth - 1
    BY <1>1 DEF PmccTypeOK, LifoStatus
  <2>2. /\ lifo_mem' = [lifo_mem EXCEPT ![elements_counter] = wdata]
        /\ elements_counter' = elements_counter + 1
        /\ lifo_full' = (elements_counter = LifoDepth - 1)
        /\ lifo_empty' = FALSE
        /\ lifo_rdata' = lifo_rdata
    BY <1>1 DEF LifoClock
  <2>3. /\ lifo_mem' \in [0 .. LifoDepth - 1 -> Loop]
        /\ elements_counter' \in 0 .. LifoDepth /\ elements_counter' # 0
        /\ lifo_rdata' \in Loop
    BY <2>1, <2>2 DEF PmccTypeOK
  <2>4. lifo_full' <=> elements_counter' = LifoDepth
    <3>1. elements_counter' = LifoDepth <=> elements_counter = LifoDepth - 1
      BY <2>1, <2>2
    <3>2. QED
      BY <2>2, <3>1, Zenon
  <2>5. lifo_full' \in BOOLEAN /\ lifo_empty' = FALSE
    BY <2>2, Zenon
  <2>6. QED
    BY <2>3, <2>4, <2>5 DEF LifoStatus
<1>2. CASE ~(push /\ ~lifo_full) /\ pop /\ ~lifo_empty
  <2>1. elements_counter \in 1 .. LifoDepth
    BY <1>2 DEF PmccTypeOK, LifoStatus
  <2>2. /\ lifo_rdata' = lifo_mem[elements_counter - 1]
        /\ elements_counter' = elements_counter - 1
        /\ lifo_full' = FALSE
        /\ lifo_empty' = (elements_counter = 1)
        /\ lifo_mem' = lifo_mem
    BY <1>2 DEF LifoClock
  <2>3. lifo_rdata' \in Loop
    BY <2>1, <2>2 DEF PmccTypeOK
  <2>4. elements_counter' \in 0 .. LifoDepth /\ elements_counter' # LifoDepth
    BY <2>1, <2>2
  <2>5. lifo_empty' <=> elements_counter' = 0
    <3>1. elements_counter' = 0 <=> elements_counter = 1
      BY <2>1, <2>2
    <3>2. QED
      BY <2>2, <3>1, Zenon
  <2>6. lifo_empty' \in BOOLEAN /\ lifo_full' = FALSE
    BY <2>2, Zenon
  <2>7. lifo_mem' \in [0 .. LifoDepth - 1 -> Loop]
    BY <2>2 DEF PmccTypeOK
  <2>8. QED
    BY <2>3, <2>4, <2>5, <2>6, <2>7 DEF LifoStatus
<1>3. CASE ~(push /\ ~lifo_full) /\ ~(pop /\ ~lifo_empty)
  <2>1. UNCHANGED lifoVars
    BY <1>3 DEF LifoClock
  <2>2. /\ UNCHANGED <<lifo_mem, elements_counter, lifo_rdata>>
        /\ UNCHANGED <<lifo_full, lifo_empty>>
    BY <2>1 DEF lifoVars
  <2>3. LifoStatus'
    BY <2>2 DEF LifoStatus
  <2>4. QED
    BY <2>2, <2>3 DEF PmccTypeOK
<1>4. QED
  BY <1>1, <1>2, <1>3

-----------------------------------------------------------------------------
(* The inductive invariant.  FetchCoherent needs the range of the program  *)
(* counter, the range of the LIFO pointer needs LifoConsistent, and so the *)
(* three are proved together.                                              *)

IInv == TypeOK /\ LifoConsistent /\ FetchCoherent

LEMMA InitIInv == Init => IInv
<1> SUFFICES ASSUME Init PROVE IInv
  OBVIOUS
<1>1. 0 \in Addr /\ NoLoop \in Loop /\ 0 \in CtrlValues
  BY PmccAssumption DEF Addr, Iters, Loop, NoLoop
<1>2. program \in [Addr -> Instr] /\ instr \in Instr
  BY ProgramsAssumption DEF Init
<1>3. lifo_mem \in [0 .. LifoDepth - 1 -> Loop]
  BY PmccAssumption DEF Init, PmccInit, Loop, Addr, Iters
<1>4. TypeOK
  <2>1. 0 \in 0 .. LifoDepth
    BY PmccAssumption
  <2>2. QED
    BY <1>1, <1>2, <1>3, <2>1 DEF Init, PmccInit, TypeOK, PmccTypeOK
<1>5. LifoConsistent
  BY PmccAssumption DEF Init, PmccInit, LifoConsistent
<1>6. FetchCoherent
  BY DEF Init, FetchCoherent
<1>7. QED
  BY <1>4, <1>5, <1>6 DEF IInv

\* What an edge does to the registers that LifoConsistent relates.
LEMMA RunStep ==
  ASSUME IInv, NEW trigger \in BOOLEAN, PmccRun(instr, trigger)
  PROVE  PmccTypeOK' /\ LifoConsistent'
<1> USE DEF IInv, TypeOK
<1>1. /\ LifoPush(instr) \in BOOLEAN
      /\ LifoPop(instr) \in BOOLEAN
      /\ Innermost \in Loop
  BY InnermostIsLoop DEF LifoPush, LifoPop
<1>2. LifoStatus
  BY DEF LifoConsistent, LifoStatus
<1>3. LifoClock(LifoPush(instr), Innermost, LifoPop(instr))
  BY DEF PmccRun
<1>4. /\ lifo_mem' \in [0 .. LifoDepth - 1 -> Loop]
      /\ elements_counter' \in 0 .. LifoDepth
      /\ lifo_rdata' \in Loop
      /\ lifo_full' \in BOOLEAN
      /\ lifo_empty' \in BOOLEAN
      /\ LifoStatus'
  BY <1>1, <1>2, <1>3, LifoClockStep
<1>5. pc_id' \in Addr
  BY PcIfInRange DEF PmccRun
<1>6. active_loop' \in Loop
  BY ActiveLoopInRange DEF PmccRun
<1>7. loop_execution' \in BOOLEAN
  BY DEF PmccRun, LoopExecutionNxt, PmccTypeOK
<1>8. lifo_readout' \in BOOLEAN
  BY <1>1 DEF PmccRun
<1>9. matrix_ctrl' \in CtrlValues
  BY InstrFields DEF PmccRun, PmccTypeOK
<1>10. PmccTypeOK'
  BY <1>4, <1>5, <1>6, <1>7, <1>8, <1>9 DEF PmccTypeOK
<1>11. ~loop_execution' => lifo_empty' /\ ~lifo_readout'
  <2>1. CASE OpensLoop(instr)
    BY <2>1 DEF PmccRun, LoopExecutionNxt, OpensLoop, LifoConsistent,
                ClosesLoop, IsLoop, Branch
  <2>2. CASE ClosesLoop(instr)
    <3>1. CASE lifo_empty
      <4>1. ~LifoPop(instr) /\ ~LifoPush(instr)
        BY <2>2, <3>1 DEF LifoPop, LifoPush, OpensLoop, ClosesLoop, IsLoop, Branch
      <4>2. UNCHANGED lifoVars
        BY <1>3, <4>1 DEF LifoClock
      <4>3. QED
        BY <3>1, <4>1, <4>2 DEF PmccRun, lifoVars
    <3>2. CASE ~lifo_empty
      BY <2>2, <3>2 DEF PmccRun, LoopExecutionNxt, LifoConsistent, OpensLoop,
                        ClosesLoop, IsLoop, Branch
    <3>3. QED
      BY <3>1, <3>2
  <2>3. CASE ~OpensLoop(instr) /\ ~ClosesLoop(instr)
    <3>1. ~LifoPop(instr) /\ ~LifoPush(instr)
      BY <2>3 DEF LifoPop, LifoPush
    <3>2. UNCHANGED lifoVars
      BY <1>3, <3>1 DEF LifoClock
    <3>3. loop_execution' = loop_execution /\ ~lifo_readout'
      BY <2>3, <3>1 DEF PmccRun, LoopExecutionNxt
    <3>4. QED
      BY <3>2, <3>3 DEF lifoVars, LifoConsistent
  <2>4. QED
    BY <2>1, <2>2, <2>3
<1>12. lifo_readout' => ~lifo_full'
  <2> SUFFICES ASSUME lifo_readout' PROVE ~lifo_full'
    OBVIOUS
  <2>1. LifoPop(instr) /\ ~LifoPush(instr) /\ ~lifo_empty
    BY DEF PmccRun, LifoPop, LifoPush, OpensLoop, ClosesLoop, IsLoop, Branch
  <2>2. QED
    BY <1>3, <2>1 DEF LifoClock
<1>13. QED
  BY <1>4, <1>10, <1>11, <1>12 DEF LifoConsistent, LifoStatus

LEMMA ResetStep ==
  ASSUME IInv, PmccReset
  PROVE  PmccTypeOK' /\ LifoConsistent'
<1>1. 0 \in Addr /\ NoLoop \in Loop /\ 0 \in CtrlValues
  BY PmccAssumption DEF Addr, Iters, Loop, NoLoop
<1>2. 0 \in 0 .. LifoDepth /\ LifoDepth # 0
  BY PmccAssumption
<1>3. PmccTypeOK'
  BY <1>1, <1>2 DEF IInv, TypeOK, PmccTypeOK, PmccReset
<1>4. LifoConsistent'
  BY <1>2 DEF PmccReset, LifoConsistent
<1>5. QED
  BY <1>3, <1>4

LEMMA NextIInv == IInv /\ [Next]_vars => IInv'
<1> SUFFICES ASSUME IInv, [Next]_vars PROVE IInv'
  OBVIOUS
<1>1. CASE UNCHANGED vars
  BY <1>1 DEF vars, pmccVars, loopVars, lifoVars, IInv, TypeOK, PmccTypeOK,
              LifoConsistent, FetchCoherent
<1>2. ASSUME NEW trigger \in BOOLEAN, NEW hold \in BOOLEAN, Clock(trigger, hold)
      PROVE  IInv'
  <2>1. PmccTypeOK' /\ LifoConsistent'
    BY <1>2, RunStep, ResetStep DEF Clock
  <2>2. PcIf(instr, trigger, held) \in Addr
    BY PcIfInRange DEF IInv, TypeOK
  <2>3. /\ instr' = program[PcIf(instr, trigger, held)]
        /\ program' = program
        /\ held' = hold
    BY <1>2 DEF Clock
  <2>4. TypeOK'
    BY <2>1, <2>2, <2>3 DEF TypeOK, IInv
  <2>5. ~held' => pc_id' = PcIf(instr, trigger, held)
    <3>1. CASE held
      BY <1>2, <3>1 DEF Clock, PmccReset, PcIf
    <3>2. CASE ~held
      BY <1>2, <3>2 DEF Clock, PmccRun, IInv, TypeOK
    <3>3. QED
      BY <3>1, <3>2
  <2>6. FetchCoherent'
    BY <2>3, <2>5 DEF FetchCoherent
  <2>7. QED
    BY <2>1, <2>4, <2>6 DEF IInv
<1>3. QED
  BY <1>1, <1>2 DEF Next

LEMMA AlwaysIInv == Spec => []IInv
  BY InitIInv, NextIInv, PTL DEF Spec

(* Every register of the coprocessor keeps its width: no program drives    *)
(* the LIFO pointer out of the LIFO, whatever loops it opens and closes.   *)
THEOREM TypeCorrect == Spec => []TypeOK
<1>1. IInv => TypeOK
  BY DEF IInv
<1>2. QED
  BY <1>1, AlwaysIInv, PTL

(* The status bits of the loop LIFO count its entries, and agree with the  *)
(* flags of the loop controller, for every program and every depth.        *)
THEOREM LifoStaysConsistent == Spec => []LifoConsistent
<1>1. IInv => LifoConsistent
  BY DEF IInv
<1>2. QED
  BY <1>1, AlwaysIInv, PTL

(* The coprocessor executes the instruction at its program counter, from   *)
(* the first cycle after each reset on.                                    *)
THEOREM FetchStaysCoherent == Spec => []FetchCoherent
<1>1. IInv => FetchCoherent
  BY DEF IInv
<1>2. QED
  BY <1>1, AlwaysIInv, PTL

-----------------------------------------------------------------------------
(* The registers of the loop controller as the stack of the instruction    *)
(* set.                                                                    *)

\* The stack is a sequence with one frame per suspended loop and one for the
\* innermost, which is its last.
LEMMA LoopStackFacts ==
  ASSUME IInv
  PROVE  /\ ~loop_execution => LoopStack = <<>>
         /\ loop_execution => /\ LoopStack \in Seq(Loop)
                              /\ Len(LoopStack) = elements_counter + 1
                              /\ LoopStack # <<>>
                              /\ LoopStack[Len(LoopStack)] = Innermost
                              /\ \A k \in 1 .. elements_counter : LoopStack[k] = lifo_mem[k - 1]
<1>1. ~loop_execution => LoopStack = <<>>
  BY DEF LoopStack
<1>2. ASSUME loop_execution
      PROVE  /\ LoopStack \in Seq(Loop)
             /\ Len(LoopStack) = elements_counter + 1
             /\ LoopStack # <<>>
             /\ LoopStack[Len(LoopStack)] = Innermost
             /\ \A k \in 1 .. elements_counter : LoopStack[k] = lifo_mem[k - 1]
  <2>1. elements_counter \in 0 .. LifoDepth /\ LifoDepth \in Nat
    BY PmccAssumption DEF IInv, TypeOK, PmccTypeOK
  <2>2. LoopStack = [k \in 1 .. elements_counter + 1 |->
                       IF k <= elements_counter THEN lifo_mem[k - 1] ELSE Innermost]
    BY <1>2 DEF LoopStack
  <2>3. \A k \in 1 .. elements_counter : lifo_mem[k - 1] \in Loop
    BY <2>1 DEF IInv, TypeOK, PmccTypeOK
  <2>4. Innermost \in Loop
    BY InnermostIsLoop DEF IInv, TypeOK
  <2>5. LoopStack \in [1 .. elements_counter + 1 -> Loop]
    BY <2>1, <2>2, <2>3, <2>4
  <2>6. LoopStack \in Seq(Loop) /\ Len(LoopStack) = elements_counter + 1
    BY <2>1, <2>5
  <2>7. QED
    BY <2>1, <2>2, <2>6
<1>3. QED
  BY <1>1, <1>2

\* An edge that leaves the loop controller's registers alone.
LEMMA LoopStackUnchanged ==
  ASSUME IInv, UNCHANGED lifoVars, loop_execution' = loop_execution,
         ~lifo_readout, ~lifo_readout', active_loop' = active_loop
  PROVE  LoopStack' = LoopStack
  BY DEF LoopStack, lifoVars, Innermost

(* A running edge that does not resume a loop short does what the          *)
(* instruction set says of the instruction at the program counter.         *)
LEMMA RunExecutesIsa ==
  ASSUME IInv, ~held, ~ResumesShort,
         NEW trigger \in BOOLEAN, PmccRun(instr, trigger), UNCHANGED program
  PROVE  InstrSet!Execute \/ (Waitt(instr) /\ UNCHANGED InstrSet!vars)
<1> DEFINE i == instr
           frame == [start |-> Following(i), iterations |-> i.arg - 1]
<1>1. i = program[pc_id] /\ i \in Instr
  BY DEF FetchCoherent, IInv, TypeOK
<1>2. lifo_readout => Branch(i) \/ OpensLoop(i)
  BY DEF ResumesShort
<1>3. InLoop <=> loop_execution
  BY DEF InLoop, IInv, LifoConsistent
<1>4. elements_counter \in 0 .. LifoDepth /\ LifoDepth \in Nat \ {0}
  BY PmccAssumption DEF IInv, TypeOK, PmccTypeOK
<1>5. LifoClock(LifoPush(i), Innermost, LifoPop(i))
  BY DEF PmccRun
<1>6. CASE ~OpensLoop(i) /\ ~Repeats(i) /\ ~ClosesLoop(i)
  <2>1. ~LifoPush(i) /\ ~LifoPop(i)
    BY <1>6 DEF LifoPush, LifoPop
  <2>2. UNCHANGED lifoVars
    BY <1>5, <2>1 DEF LifoClock
  <2>3. ~Branch(i) \/ ~loop_execution
    BY <1>3, <1>6 DEF Repeats, ClosesLoop
  <2>4. ~lifo_readout
    BY <1>2, <1>6, <2>3 DEF IInv, LifoConsistent
  <2>5. /\ active_loop' = active_loop
        /\ loop_execution' = loop_execution
        /\ ~lifo_readout'
    BY <1>6, <2>1, <2>4 DEF PmccRun, ActiveLoopNxt, LoopExecutionNxt
  <2>6. LoopStack' = LoopStack
    BY <2>2, <2>4, <2>5, LoopStackUnchanged
  <2>7. CASE Waitt(i)
    <3>1. CASE trigger
      <4>1. pc_id' = (pc_id + 1) % AddrMod /\ matrix_ctrl' = matrix_ctrl
        BY <2>7, <3>1 DEF PmccRun, PcIf, Waiting, Waitt, Jump, BranchExec, Repeats,
                          Branch, Following, Bytes, Store, IsLoop
      <4>2. InstrSet!Proceed
        BY <1>1, <2>6, <2>7, <4>1 DEF InstrSet!Proceed, InstrSet!Instruction, InstrSet!After, Waitt
      <4>3. QED
        BY <4>2 DEF InstrSet!Execute
    <3>2. CASE ~trigger
      <4>1. pc_id' = pc_id /\ matrix_ctrl' = matrix_ctrl
        BY <2>7, <3>2 DEF PmccRun, PcIf, Waiting, Waitt, Store, Jump, BranchExec,
                          Repeats, Branch
      <4>2. QED
        BY <2>6, <2>7, <4>1 DEF InstrSet!vars
    <3>3. QED
      BY <3>1, <3>2
  <2>8. CASE Jump(i)
    <3>1. pc_id' = i.arg /\ matrix_ctrl' = matrix_ctrl
      BY <2>8 DEF PmccRun, PcIf, Waiting, Waitt, Jump, Store, BranchExec,
                  Repeats, Branch
    <3>2. InstrSet!JumpTo
      BY <1>1, <2>6, <2>8, <3>1 DEF InstrSet!JumpTo, InstrSet!Instruction, Jump
    <3>3. QED
      BY <3>2 DEF InstrSet!Execute
  <2>9. CASE IsLoop(i)
    <3>1. i.arg = 0
      BY <1>6, <2>9 DEF OpensLoop
    <3>2. pc_id' = (pc_id + 2) % AddrMod /\ matrix_ctrl' = matrix_ctrl
      BY <2>9 DEF PmccRun, PcIf, Waiting, Waitt, Jump, BranchExec, Repeats,
                  Branch, Following, Bytes, Store, IsLoop
    <3>3. InstrSet!SkipLoop
      BY <1>1, <2>6, <2>9, <3>1, <3>2
         DEF InstrSet!SkipLoop, InstrSet!Instruction, InstrSet!After, IsLoop
    <3>4. QED
      BY <3>3 DEF InstrSet!Execute
  <2>10. CASE Store(i)
    <3>1. pc_id' = (pc_id + 3) % AddrMod /\ matrix_ctrl' = i.arg
      BY <1>6, <2>10 DEF PmccRun, PcIf, Waiting, Waitt, Jump, BranchExec,
                  Following, Bytes, Store, IsLoop
    <3>2. i.op = "STORE" \/ (i.op = "STOREB" /\ LoopStack = <<>>)
      BY <2>3, <2>10, LoopStackFacts DEF Store, Branch
    <3>3. InstrSet!WriteControl
      BY <1>1, <2>6, <3>1, <3>2
         DEF InstrSet!WriteControl, InstrSet!Instruction, InstrSet!After
    <3>4. QED
      BY <3>3 DEF InstrSet!Execute
  <2>11. QED
    BY <1>1, <2>7, <2>8, <2>9, <2>10, InstrFields DEF Waitt, Jump, IsLoop, Store
<1>7. CASE OpensLoop(i)
  <2>1. /\ i.op = "LOOP" /\ i.arg # 0
        /\ Following(i) = (pc_id + 2) % AddrMod
        /\ pc_id' = Following(i)
        /\ matrix_ctrl' = matrix_ctrl
    BY <1>7 DEF OpensLoop, PmccRun, PcIf, Waiting, Waitt, Jump, BranchExec, Repeats,
                Branch, Following, Bytes, Store, IsLoop
  <2>2. active_loop' = frame
    BY <1>7, <2>1 DEF PmccRun, ActiveLoopNxt, Repeats, Branch
  <2>3. ~LifoPop(i) /\ ~lifo_readout'
    BY <2>1 DEF PmccRun, LifoPop, ClosesLoop, Branch
  <2>4. loop_execution'
    BY <1>7, <2>1 DEF PmccRun, LoopExecutionNxt, IInv, LifoConsistent, ClosesLoop, Branch
  <2>5. LoopStack' = IF Len(LoopStack) <= LifoDepth
                       THEN Append(LoopStack, frame)
                       ELSE [LoopStack EXCEPT ![Len(LoopStack)] = frame]
    <3>1. LoopStack' = [k \in 1 .. elements_counter' + 1 |->
                          IF k <= elements_counter' THEN lifo_mem'[k - 1] ELSE frame]
      BY <2>2, <2>3, <2>4 DEF LoopStack, Innermost
    <3>2. CASE ~loop_execution
      <4>1. LoopStack = <<>> /\ elements_counter = 0
        BY <3>2, LoopStackFacts DEF IInv, LifoConsistent
      <4>2. elements_counter' = 0
        BY <1>3, <1>5, <2>3, <3>2, <4>1 DEF LifoPush, LifoClock, lifoVars
      <4>3. LoopStack' = <<frame>>
        BY <3>1, <4>2
      <4>4. QED
        BY <1>4, <4>1, <4>3
    <3>3. CASE loop_execution /\ ~lifo_full
      <4>1. LifoPush(i)
        BY <1>3, <1>7, <3>3 DEF LifoPush
      <4>2. /\ lifo_mem' = [lifo_mem EXCEPT ![elements_counter] = Innermost]
            /\ elements_counter' = elements_counter + 1
        BY <1>5, <3>3, <4>1 DEF LifoClock
      <4>3. elements_counter < LifoDepth
        BY <1>4, <3>3 DEF IInv, LifoConsistent
      <4>4. lifo_mem \in [0 .. LifoDepth - 1 -> Loop]
        BY DEF IInv, TypeOK, PmccTypeOK
      <4>5. LoopStack = [k \in 1 .. elements_counter + 1 |->
                           IF k <= elements_counter THEN lifo_mem[k - 1] ELSE Innermost]
        BY <3>3 DEF LoopStack
      <4>6. LoopStack' = Append(LoopStack, frame)
        <5>1. LoopStack \in Seq(Loop) /\ Len(LoopStack) = elements_counter + 1
          BY <3>3, LoopStackFacts
        <5>2. Append(LoopStack, frame) = [k \in 1 .. Len(LoopStack) + 1 |->
                 IF k <= Len(LoopStack) THEN LoopStack[k] ELSE frame]
          BY <5>1
        <5>3. \A k \in 1 .. elements_counter + 2 :
                (IF k <= elements_counter + 1 THEN lifo_mem'[k - 1] ELSE frame)
                  = (IF k <= elements_counter + 1 THEN LoopStack[k] ELSE frame)
          BY <1>4, <4>2, <4>3, <4>4, <4>5
        <5>4. elements_counter' + 1 = elements_counter + 2
          BY <1>4, <4>2
        <5>5. QED
          BY <1>4, <3>1, <4>2, <5>1, <5>2, <5>3, <5>4
      <4>7. Len(LoopStack) <= LifoDepth
        BY <1>4, <3>3, <4>3, LoopStackFacts
      <4>8. QED
        BY <4>6, <4>7
    <3>4. CASE loop_execution /\ lifo_full
      <4>1. UNCHANGED <<lifo_mem, elements_counter>>
        BY <1>5, <2>3, <3>4 DEF LifoClock, lifoVars
      <4>2. elements_counter = LifoDepth /\ ~lifo_readout
        BY <3>4 DEF IInv, LifoConsistent
      <4>3. Len(LoopStack) = elements_counter + 1
        BY <3>4, LoopStackFacts
      <4>4. LoopStack = [k \in 1 .. elements_counter + 1 |->
                           IF k <= elements_counter THEN lifo_mem[k - 1] ELSE Innermost]
        BY <3>4 DEF LoopStack
      <4>5. LoopStack' = [LoopStack EXCEPT ![Len(LoopStack)] = frame]
        <5>1. [LoopStack EXCEPT ![elements_counter + 1] = frame]
                = [k \in 1 .. elements_counter + 1 |->
                     IF k = elements_counter + 1 THEN frame ELSE LoopStack[k]]
          BY <4>4
        <5>2. \A k \in 1 .. elements_counter + 1 :
                (IF k = elements_counter + 1 THEN frame ELSE LoopStack[k])
                  = (IF k <= elements_counter THEN lifo_mem[k - 1] ELSE frame)
          BY <1>4, <4>4
        <5>3. QED
          BY <3>1, <4>1, <4>3, <5>1, <5>2
      <4>6. QED
        BY <1>4, <4>2, <4>3, <4>5
    <3>5. QED
      BY <3>2, <3>3, <3>4
  <2>6. InstrSet!EnterLoop
    BY <1>1, <2>1, <2>5 DEF InstrSet!EnterLoop, InstrSet!Instruction, InstrSet!After
  <2>7. QED
    BY <2>6 DEF InstrSet!Execute
<1>8. CASE Repeats(i)
  <2>1. /\ i.op = "STOREB" /\ Innermost.iterations # 0
        /\ loop_execution
        /\ pc_id' = Innermost.start
        /\ matrix_ctrl' = i.arg
    BY <1>3, <1>8 DEF Repeats, PmccRun, PcIf, Waiting, Waitt, Jump, BranchExec,
                      BranchDst, Branch, Store
  <2>2. ~LifoPush(i) /\ ~LifoPop(i)
    BY <1>8, <2>1 DEF LifoPush, LifoPop, OpensLoop, IsLoop, ClosesLoop
  <2>3. UNCHANGED lifoVars
    BY <1>5, <2>2 DEF LifoClock
  <2>4. active_loop' = [Innermost EXCEPT !.iterations = @ - 1]
    BY <1>8, <2>1 DEF PmccRun, ActiveLoopNxt, OpensLoop, IsLoop, Branch
  <2>5. loop_execution' /\ ~lifo_readout'
    BY <1>8, <2>1, <2>2 DEF PmccRun, LoopExecutionNxt, ClosesLoop
  <2>6. LoopStack' = [LoopStack EXCEPT ![Len(LoopStack)].iterations = @ - 1]
    <3>1. LoopStack' = [k \in 1 .. elements_counter + 1 |->
                          IF k <= elements_counter THEN lifo_mem[k - 1] ELSE active_loop']
      BY <2>3, <2>5 DEF LoopStack, Innermost, lifoVars
    <3>2. LoopStack = [k \in 1 .. elements_counter + 1 |->
                         IF k <= elements_counter THEN lifo_mem[k - 1] ELSE Innermost]
      BY <2>1 DEF LoopStack
    <3>3. Len(LoopStack) = elements_counter + 1 /\ LoopStack[Len(LoopStack)] = Innermost
      BY <2>1, LoopStackFacts
    <3>4. 1 .. elements_counter + 1 = DOMAIN LoopStack
      BY <3>2
    <3>5. active_loop' = [LoopStack[elements_counter + 1] EXCEPT !.iterations = @ - 1]
      BY <2>4, <3>3
    <3>6. [LoopStack EXCEPT ![elements_counter + 1].iterations = @ - 1]
            = [k \in 1 .. elements_counter + 1 |->
                 IF k = elements_counter + 1 THEN active_loop' ELSE LoopStack[k]]
      BY <3>4, <3>5
    <3>7. \A k \in 1 .. elements_counter + 1 :
            (IF k = elements_counter + 1 THEN active_loop' ELSE LoopStack[k])
              = (IF k <= elements_counter THEN lifo_mem[k - 1] ELSE active_loop')
      BY <1>4, <3>2
    <3>8. QED
      BY <3>1, <3>3, <3>6, <3>7
  <2>7. LoopStack # <<>> /\ LoopStack[Len(LoopStack)] = Innermost
    BY <2>1, LoopStackFacts
  <2>8. InstrSet!Iterate
    BY <1>1, <2>1, <2>6, <2>7 DEF InstrSet!Iterate, InstrSet!Instruction, InstrSet!Innermost
  <2>9. QED
    BY <2>8 DEF InstrSet!Execute
<1>9. CASE ClosesLoop(i)
  <2>1. /\ i.op = "STOREB" /\ Innermost.iterations = 0
        /\ loop_execution
        /\ pc_id' = (pc_id + 3) % AddrMod
        /\ matrix_ctrl' = i.arg
    BY <1>3, <1>9 DEF ClosesLoop, PmccRun, PcIf, Waiting, Waitt, Jump, BranchExec,
                      Repeats, Branch, Store, Following, Bytes, IsLoop
  <2>2. ~LifoPush(i)
    BY <2>1 DEF LifoPush, OpensLoop, IsLoop
  <2>3. LoopStack' = SubSeq(LoopStack, 1, Len(LoopStack) - 1)
    <3>1. LoopStack \in Seq(Loop) /\ Len(LoopStack) = elements_counter + 1
      BY <2>1, LoopStackFacts
    <3>2. SubSeq(LoopStack, 1, Len(LoopStack) - 1)
            = [k \in 1 .. elements_counter |-> lifo_mem[k - 1]]
      BY <1>4, <2>1, <3>1, LoopStackFacts
    <3>3. CASE lifo_empty
      <4>1. elements_counter = 0 /\ ~LifoPop(i)
        BY <3>3 DEF LifoPop, IInv, LifoConsistent
      <4>2. ~loop_execution'
        BY <1>9, <2>1, <3>3 DEF PmccRun, LoopExecutionNxt, OpensLoop, IsLoop
      <4>3. LoopStack' = <<>>
        BY <4>2 DEF LoopStack
      <4>4. QED
        BY <3>2, <4>1, <4>3
    <3>4. CASE ~lifo_empty
      <4>1. LifoPop(i) /\ lifo_readout'
        BY <1>9, <3>4 DEF LifoPop, PmccRun
      <4>2. /\ lifo_rdata' = lifo_mem[elements_counter - 1]
            /\ elements_counter' = elements_counter - 1
            /\ lifo_mem' = lifo_mem
        BY <1>5, <2>2, <3>4, <4>1 DEF LifoClock
      <4>3. loop_execution'
        BY <1>9, <2>1, <3>4 DEF PmccRun, LoopExecutionNxt
      <4>4. elements_counter \in 1 .. LifoDepth
        BY <1>4, <3>4 DEF IInv, LifoConsistent
      <4>5. LoopStack' = [k \in 1 .. elements_counter' + 1 |->
                           IF k <= elements_counter' THEN lifo_mem'[k - 1] ELSE lifo_rdata']
        BY <4>1, <4>3 DEF LoopStack, Innermost
      <4>6. elements_counter' + 1 = elements_counter
        BY <4>2, <4>4
      <4>7. \A k \in 1 .. elements_counter :
              (IF k <= elements_counter' THEN lifo_mem'[k - 1] ELSE lifo_rdata')
                = lifo_mem[k - 1]
        BY <4>2, <4>4
      <4>8. QED
        BY <3>2, <4>5, <4>6, <4>7
    <3>5. QED
      BY <3>3, <3>4
  <2>4. LoopStack # <<>> /\ LoopStack[Len(LoopStack)] = Innermost
    BY <2>1, LoopStackFacts
  <2>5. InstrSet!LeaveLoop
    BY <1>1, <2>1, <2>3, <2>4 DEF InstrSet!LeaveLoop, InstrSet!Instruction, InstrSet!Innermost, InstrSet!After
  <2>6. QED
    BY <2>5 DEF InstrSet!Execute
<1>10. QED
  BY <1>6, <1>7, <1>8, <1>9

LEMMA StepExecutesIsa ==
  ASSUME IInv, [Next]_vars, ~ResumesShort
  PROVE  [InstrSet!Next]_(InstrSet!vars)
<1>1. CASE UNCHANGED vars
  <2>1. UNCHANGED <<program, pc_id, LoopStack, matrix_ctrl>>
    BY <1>1 DEF vars, pmccVars, loopVars, lifoVars, LoopStack, Innermost
  <2>2. QED
    BY <2>1 DEF InstrSet!vars
<1>2. ASSUME NEW trigger \in BOOLEAN, NEW hold \in BOOLEAN, Clock(trigger, hold)
      PROVE  [InstrSet!Next]_(InstrSet!vars)
  <2>1. CASE held \/ hold
    <3>1. PmccReset /\ program' = program
      BY <1>2, <2>1 DEF Clock
    <3>2. pc_id' = 0 /\ LoopStack' = <<>> /\ matrix_ctrl' = 0
      BY <3>1 DEF PmccReset, LoopStack
    <3>3. InstrSet!Reset
      BY <3>1, <3>2 DEF InstrSet!Reset
    <3>4. QED
      BY <3>3 DEF InstrSet!Next
  <2>2. CASE ~held /\ ~hold
    BY <1>2, <2>2, RunExecutesIsa DEF Clock, InstrSet!Next
  <2>3. QED
    BY <2>1, <2>2
<1>3. QED
  BY <1>1, <1>2 DEF Next

(* Each clock edge of the coprocessor is one instruction of the            *)
(* instruction set, a wait or a reset, for every program: no edge does     *)
(* half an instruction, skips one or touches a loop it should not, save    *)
(* for the one way of resuming a loop that loses an iteration.             *)
THEOREM EdgesExecuteIsa == Spec => ExecutesIsa
<1>1. IInv /\ [Next]_vars => [ResumesShort \/ InstrSet!Next]_(InstrSet!vars)
  BY StepExecutesIsa
<1>2. QED
  BY <1>1, AlwaysIInv, PTL DEF Spec, ExecutesIsa

-----------------------------------------------------------------------------
(* Unrolling programs: induction over the instructions of a program.       *)

\* Induction on a set in place of a predicate: were n missing, x - 1 would be
\* an injection of the missing numbers up to n into fewer.
LEMMA SetInduction ==
  ASSUME NEW S, 0 \in S, \A n \in Nat : n \in S => n + 1 \in S
  PROVE  \A n \in Nat : n \in S
<1> SUFFICES ASSUME NEW n \in Nat, n \notin S PROVE FALSE
  OBVIOUS
<1> DEFINE T == {k \in 0 .. n : k \notin S}
           U == T \ {n}
           f == [k \in T |-> k - 1]
<1>1. IsFiniteSet(T) /\ n \in T
  <2>1. IsFiniteSet(0 .. n)
    BY FS_Interval
  <2>2. T \subseteq 0 .. n
    OBVIOUS
  <2>3. QED
    BY <2>1, <2>2, FS_Subset
<1>2. IsFiniteSet(U) /\ Cardinality(U) < Cardinality(T)
  <2> HIDE DEF T
  <2>1. Cardinality(T) \in Nat /\ IsFiniteSet(U) /\ Cardinality(U) = Cardinality(T) - 1
    BY <1>1, FS_RemoveElement, FS_CardinalityType
  <2>2. QED
    BY <2>1
<1>3. f \in [T -> U]
  <2> SUFFICES ASSUME NEW k \in T PROVE k - 1 \in U
    OBVIOUS
  <2>1. k \in 0 .. n /\ k \notin S /\ k # 0
    OBVIOUS
  <2>2. k - 1 \in Nat /\ (k - 1) + 1 = k
    BY <2>1
  <2>3. k - 1 \notin S
    BY <2>1, <2>2
  <2>4. QED
    BY <2>1, <2>2, <2>3
<1>4. \E x, y \in T : x # y /\ f[x] = f[y]
  <2> HIDE DEF T, U, f
  <2>1. QED
    BY <1>1, <1>2, <1>3, FS_PigeonHole
<1>5. QED
  BY <1>4

LEMMA ModUnique ==
  ASSUME NEW m \in Nat \ {0}, NEW q \in Int, NEW r \in 0 .. m - 1
  PROVE  (m * q + r) % m = r
<1> DEFINE a == m * q + r
           q2 == a \div m
           r2 == a % m
<1>1. a = m * q2 + r2 /\ r2 \in 0 .. m - 1 /\ q2 \in Int
  OBVIOUS
<1>2. m * (q - q2) = r2 - r
  BY <1>1
<1>3. q - q2 = 0
  <2>1. CASE q - q2 >= 1
    <3>1. m * (q - q2) >= m
      BY <2>1, <1>1
    <3>2. QED
      BY <3>1, <1>1, <1>2
  <2>2. CASE q - q2 <= -1
    <3>1. m * (q - q2) <= -m
      BY <2>2, <1>1
    <3>2. QED
      BY <3>1, <1>1, <1>2
  <2>3. QED
    BY <2>1, <2>2, <1>1
<1>4. QED
  BY <1>1, <1>2, <1>3

LEMMA ModAdd ==
  ASSUME NEW m \in Nat \ {0}, NEW x \in Nat
  PROVE  (x + m) % m = x % m
<1> DEFINE q == x \div m
           r == x % m
<1>1. q \in Int
  OBVIOUS
<1>2. r \in 0 .. m - 1
  OBVIOUS
<1>3. x = m * q + r
  OBVIOUS
<1>4. x + m = m * (q + 1) + r
  <2> HIDE DEF q, r
  <2>1. m * (q + 1) = m * q + m
    BY <1>1
  <2>2. QED
    BY <1>1, <1>2, <1>3, <2>1
<1>5. (m * (q + 1) + r) % m = r
  <2> HIDE DEF q, r
  <2>1. QED
    BY <1>1, <1>2, ModUnique
<1>6. QED
  BY <1>4, <1>5

LEMMA RepeatedStep ==
  ASSUME NEW V, NEW out \in Seq(V), NEW n \in Nat
  PROVE  /\ Repeated(out, n) \in Seq(V)
         /\ Repeated(out, 0) = <<>>
         /\ Repeated(out, n + 1) = out \o Repeated(out, n)
<1> DEFINE L == Len(out)
<1>1. L \in Nat /\ DOMAIN out = 1 .. L /\ \A i \in 1 .. L : out[i] \in V
  OBVIOUS
<1>2. n * L \in Nat /\ (n + 1) * L = L + n * L /\ 0 * L = 0
  <2> HIDE DEF L
  <2>1. QED
    BY <1>1
<1>3. ASSUME NEW k \in Nat
      PROVE  /\ k * L \in Nat
             /\ \A i \in 1 .. k * L : ((i - 1) % L) + 1 \in 1 .. L
  <2> HIDE DEF L
  <2>1. k * L \in Nat
    BY <1>1
  <2>2. ASSUME NEW i \in 1 .. k * L
        PROVE  ((i - 1) % L) + 1 \in 1 .. L
    <3>1. L # 0
      BY <1>1, <2>2
    <3>2. QED
      BY <1>1, <2>1, <3>1
  <2>3. QED
    BY <2>1, <2>2
<1>4. ASSUME NEW k \in Nat
      PROVE  Repeated(out, k) \in Seq(V) /\ Len(Repeated(out, k)) = k * L
  BY <1>1, <1>3 DEF Repeated
<1>5. Repeated(out, 0) = <<>>
  <2>1. 0 * L = 0 /\ 0 * Len(out) = 0
    BY <1>2
  <2>2. QED
    BY <2>1 DEF Repeated
<1>6. Repeated(out, n + 1) = out \o Repeated(out, n)
  <2> DEFINE both == out \o Repeated(out, n)
  <2>1. /\ both \in Seq(V) /\ Len(both) = L + n * L
        /\ \A i \in 1 .. L + n * L : both[i] = IF i <= L THEN out[i] ELSE Repeated(out, n)[i - L]
    BY <1>4, ConcatProperties
  <2>2. ASSUME NEW i \in 1 .. L + n * L
        PROVE  out[((i - 1) % L) + 1] = IF i <= L THEN out[i] ELSE Repeated(out, n)[i - L]
    <3>1. CASE i <= L
      <4> HIDE DEF L
      <4>1. (i - 1) % L = i - 1
        BY <1>1, <3>1, ModUnique
      <4>2. QED
        BY <3>1, <4>1, <1>1
    <3>2. CASE i > L
      <4>1. i - L \in 1 .. n * L
        BY <1>1, <1>2, <3>2
      <4>2. Repeated(out, n)[i - L] = out[((i - L - 1) % L) + 1]
        BY <4>1 DEF Repeated
      <4>3. ((i - L - 1) + L) % L = (i - L - 1) % L
        <5> HIDE DEF L
        <5>1. L # 0
          BY <1>1, <1>2, <4>1
        <5>2. i - L - 1 \in Nat
          BY <1>1, <1>2, <4>1
        <5>3. QED
          BY <1>1, <5>1, <5>2, ModAdd
      <4>4. (i - L - 1) + L = i - 1
        BY <1>1, <1>2
      <4>5. QED
        BY <1>1, <3>2, <4>2, <4>3, <4>4
    <3>3. QED
      BY <1>1, <1>2, <3>1, <3>2
  <2>3. \A i \in 1 .. L + n * L : Repeated(out, n + 1)[i] = both[i]
    <3> HIDE DEF both
    <3>1. QED
      BY <1>2, <2>1, <2>2 DEF Repeated
  <2>4. Repeated(out, n + 1) \in Seq(V) /\ Len(Repeated(out, n + 1)) = L + n * L
    <3> HIDE DEF L
    <3>1. n + 1 \in Nat
      OBVIOUS
    <3>2. QED
      BY <1>2, <1>4, <3>1
  <2>5. Repeated(out, n + 1) = both
    <3> HIDE DEF both, L
    <3>1. QED
      BY <2>1, <2>3, <2>4, SeqEqual
  <2>6. QED
    BY <2>5
<1>7. QED
  BY <1>4, <1>5, <1>6

-----------------------------------------------------------------------------
Block(p) == [out : Seq(CtrlValues), next : 1 .. Len(p) + 1]

\* The blocks of p from instruction k on.
BlocksFrom(p, k, block) ==
  \A i \in k .. Len(p) + 1 : /\ block[i] \in Block(p)
                             /\ block[i] = BlockAt(p, i, block)
                             /\ i <= Len(p) => block[i].next > i

LEMMA StatementFields ==
  ASSUME NEW p \in Seq(Statement), NEW k \in 1 .. Len(p)
  PROVE  /\ p[k] \in Instr
         /\ p[k].op \in {"STORE", "STOREB", "LOOP"}
         /\ p[k].op # "LOOP" => p[k].arg \in CtrlValues
         /\ p[k].op = "LOOP" => p[k].arg \in Iters \ {0}
         /\ Store(p[k]) <=> p[k].op # "LOOP"
         /\ Branch(p[k]) <=> p[k].op = "STOREB"
         /\ IsLoop(p[k]) <=> p[k].op = "LOOP"
<1>1. p[k] \in Statement
  OBVIOUS
<1>2. QED
  BY <1>1 DEF Statement, Instr, Store, Branch, IsLoop

LEMMA BlockAtCases ==
  ASSUME NEW p \in Seq(Statement), NEW k \in 1 .. Len(p), NEW block
  PROVE  /\ Branch(p[k]) => BlockAt(p, k, block) = [out |-> <<p[k].arg>>, next |-> k + 1]
         /\ p[k].op = "STORE" =>
              BlockAt(p, k, block) =
                [out |-> <<p[k].arg>> \o block[k + 1].out, next |-> block[k + 1].next]
         /\ IsLoop(p[k]) =>
              BlockAt(p, k, block) =
                [out |-> Repeated(block[k + 1].out, p[k].arg) \o block[block[k + 1].next].out,
                 next |-> block[block[k + 1].next].next]
<1>1. ~(k > Len(p)) /\ Len(p) \in Nat
  OBVIOUS
<1>2. QED
  BY <1>1, StatementFields DEF BlockAt

\* One more block in front of those of the instructions after it.
LEMMA BlockInFront ==
  ASSUME NEW p \in Seq(Statement), NEW k \in 1 .. Len(p), NEW block,
         BlocksFrom(p, k + 1, block)
  PROVE  /\ BlockAt(p, k, block) \in Block(p)
         /\ BlockAt(p, k, block).next > k
<1>1. Len(p) \in Nat /\ k + 1 \in k + 1 .. Len(p) + 1
  OBVIOUS
<1>2. /\ block[k + 1].out \in Seq(CtrlValues)
      /\ block[k + 1].next \in k + 1 .. Len(p) + 1
  <2>1. block[k + 1] \in Block(p) /\ (k + 1 <= Len(p) => block[k + 1].next > k + 1)
    BY <1>1 DEF BlocksFrom
  <2>2. k + 1 > Len(p) => block[k + 1].next = k + 1
    <3>1. block[k + 1] = BlockAt(p, k + 1, block)
      BY <1>1 DEF BlocksFrom
    <3>2. QED
      BY <3>1 DEF BlockAt
  <2>3. QED
    BY <1>1, <2>1, <2>2 DEF Block
<1> DEFINE n == block[k + 1].next
<1>3. block[n].out \in Seq(CtrlValues) /\ block[n].next \in n .. Len(p) + 1
  <2>1. block[n] \in Block(p) /\ (n <= Len(p) => block[n].next > n)
    BY <1>2 DEF BlocksFrom
  <2>2. n > Len(p) => block[n].next = n
    <3>1. block[n] = BlockAt(p, n, block)
      BY <1>2 DEF BlocksFrom
    <3> HIDE DEF n
    <3>2. QED
      BY <3>1 DEF BlockAt
  <2>3. QED
    BY <1>1, <1>2, <2>1, <2>2 DEF Block
<1>4. CASE Branch(p[k])
  <2>1. <<p[k].arg>> \in Seq(CtrlValues)
    BY <1>4, StatementFields
  <2>2. BlockAt(p, k, block) = [out |-> <<p[k].arg>>, next |-> k + 1]
    BY <1>4, BlockAtCases
  <2>3. QED
    BY <1>1, <2>1, <2>2 DEF Block
<1>5. CASE p[k].op = "STORE"
  <2>1. <<p[k].arg>> \o block[k + 1].out \in Seq(CtrlValues)
    BY <1>2, <1>5, StatementFields
  <2>2. BlockAt(p, k, block) = [out |-> <<p[k].arg>> \o block[k + 1].out, next |-> n]
    BY <1>5, BlockAtCases
  <2>3. QED
    BY <1>1, <1>2, <2>1, <2>2 DEF Block
<1>6. CASE IsLoop(p[k])
  <2>1. p[k].arg \in Nat
    BY <1>6, StatementFields, PmccAssumption DEF Iters
  <2>2. Repeated(block[k + 1].out, p[k].arg) \in Seq(CtrlValues)
    BY <1>2, <2>1, RepeatedStep
  <2>3. Repeated(block[k + 1].out, p[k].arg) \o block[n].out \in Seq(CtrlValues)
    BY <1>3, <2>2
  <2>4. BlockAt(p, k, block) = [out |-> Repeated(block[k + 1].out, p[k].arg) \o block[n].out,
                                next |-> block[n].next]
    BY <1>6, BlockAtCases
  <2>5. block[n].next \in 1 .. Len(p) + 1 /\ block[n].next > k
    BY <1>1, <1>2, <1>3 DEF Block
  <2>6. QED
    BY <2>3, <2>4, <2>5 DEF Block
<1>7. Branch(p[k]) \/ p[k].op = "STORE" \/ IsLoop(p[k])
  BY StatementFields
<1>8. QED
  BY <1>4, <1>5, <1>6, <1>7

\* Only the later blocks count.
LEMMA BlockAtSame ==
  ASSUME NEW p \in Seq(Statement), NEW k \in 1 .. Len(p), NEW block, NEW other,
         BlocksFrom(p, k + 1, block),
         \A j \in k + 1 .. Len(p) + 1 : other[j] = block[j]
  PROVE  \A i \in k .. Len(p) + 1 : BlockAt(p, i, other) = BlockAt(p, i, block)
<1> TAKE i \in k .. Len(p) + 1
<1>1. Len(p) \in Nat
  OBVIOUS
<1>2. CASE i > Len(p)
  BY <1>2 DEF BlockAt
<1>3. CASE i <= Len(p)
  <2>1. i \in 1 .. Len(p) /\ i + 1 \in k + 1 .. Len(p) + 1
    BY <1>1, <1>3
  <2>2. block[i + 1] \in Block(p) /\ (i + 1 <= Len(p) => block[i + 1].next > i + 1)
    BY <2>1 DEF BlocksFrom
  <2>3. i + 1 > Len(p) => block[i + 1].next = i + 1
    <3>1. block[i + 1] = BlockAt(p, i + 1, block)
      BY <2>1 DEF BlocksFrom
    <3>2. QED
      BY <3>1 DEF BlockAt
  <2>4. block[i + 1].next \in k + 1 .. Len(p) + 1
    BY <1>1, <2>1, <2>2, <2>3 DEF Block
  <2>5. other[i + 1] = block[i + 1] /\ other[block[i + 1].next] = block[block[i + 1].next]
    BY <2>1, <2>4
  <2>6. CASE Branch(p[i])
    <3>1. BlockAt(p, i, block) = [out |-> <<p[i].arg>>, next |-> i + 1]
      BY <2>1, <2>6, BlockAtCases
    <3>2. BlockAt(p, i, other) = [out |-> <<p[i].arg>>, next |-> i + 1]
      BY <2>1, <2>6, BlockAtCases
    <3>3. QED
      BY <3>1, <3>2
  <2>7. CASE p[i].op = "STORE"
    <3>1. BlockAt(p, i, block) = [out |-> <<p[i].arg>> \o block[i + 1].out, next |-> block[i + 1].next]
      BY <2>1, <2>7, BlockAtCases
    <3>2. BlockAt(p, i, other) = [out |-> <<p[i].arg>> \o other[i + 1].out, next |-> other[i + 1].next]
      BY <2>1, <2>7, BlockAtCases
    <3>3. QED
      BY <2>5, <3>1, <3>2
  <2>8. CASE IsLoop(p[i])
    <3>1. BlockAt(p, i, block) =
            [out |-> Repeated(block[i + 1].out, p[i].arg) \o block[block[i + 1].next].out,
             next |-> block[block[i + 1].next].next]
      BY <2>1, <2>8, BlockAtCases
    <3>2. BlockAt(p, i, other) =
            [out |-> Repeated(other[i + 1].out, p[i].arg) \o other[other[i + 1].next].out,
             next |-> other[other[i + 1].next].next]
      BY <2>1, <2>8, BlockAtCases
    <3>3. QED
      BY <2>5, <3>1, <3>2
  <2>9. QED
    BY <2>1, <2>6, <2>7, <2>8, StatementFields
<1>4. QED
  BY <1>1, <1>2, <1>3

LEMMA BlocksExist ==
  ASSUME NEW p \in Seq(Statement)
  PROVE  \E block : /\ BlocksFrom(p, 1, block)
                     /\ block = [i \in 1 .. Len(p) + 1 |-> block[i]]
<1> DEFINE N == Len(p)
           Only(k, block) == block = [i \in k .. N + 1 |-> block[i]]
           S == {n \in Nat : n <= N => \E block : /\ BlocksFrom(p, N + 1 - n, block)
                                                  /\ Only(N + 1 - n, block)}
<1>1. N \in Nat
  OBVIOUS
<1>2. 0 \in S
  <2> DEFINE block == [i \in N + 1 .. N + 1 |-> [out |-> <<>>, next |-> N + 1]]
  <2>1. \A i \in N + 1 .. N + 1 : i = N + 1 /\ i > N /\ N + 1 \in 1 .. N + 1 /\ ~(i <= N)
    BY <1>1
  <2>2. <<>> \in Seq(CtrlValues)
    OBVIOUS
  <2>3. BlocksFrom(p, N + 1, block)
    BY <2>1, <2>2 DEF BlocksFrom, Block, BlockAt
  <2>4. N + 1 - 0 = N + 1 /\ Only(N + 1, block)
    BY <1>1
  <2>5. QED
    BY <2>3, <2>4
<1>3. ASSUME NEW n \in Nat, n \in S
      PROVE  n + 1 \in S
  <2> SUFFICES ASSUME n + 1 <= N
               PROVE  \E block : /\ BlocksFrom(p, N + 1 - (n + 1), block)
                                  /\ Only(N + 1 - (n + 1), block)
    OBVIOUS
  <2> DEFINE k == N - n
  <2>1. k \in 1 .. N /\ N + 1 - n = k + 1 /\ N + 1 - (n + 1) = k /\ n <= N
    BY <1>1
  <2>2. PICK block : BlocksFrom(p, k + 1, block)
    <3>1. \E block : BlocksFrom(p, N + 1 - n, block)
      BY <1>3, <2>1
    <3>2. QED
      BY <2>1, <3>1
  <2> DEFINE more == [i \in k .. N + 1 |-> IF i = k THEN BlockAt(p, k, block) ELSE block[i]]
  <2>3. \A j \in k + 1 .. N + 1 : more[j] = block[j]
    BY <1>1, <2>1
  <2>4. BlockAt(p, k, block) \in Block(p) /\ BlockAt(p, k, block).next > k
    BY <2>1, <2>2, BlockInFront
  <2>5. \A i \in k .. N + 1 : BlockAt(p, i, more) = BlockAt(p, i, block)
    <3> HIDE DEF more, k
    <3>1. QED
      BY <2>1, <2>2, <2>3, BlockAtSame
  <2>6. ASSUME NEW i \in k .. N + 1
        PROVE  /\ more[i] \in Block(p)
               /\ more[i] = BlockAt(p, i, more)
               /\ i <= N => more[i].next > i
    <3>1. CASE i = k
      <4>1. more[k] = BlockAt(p, k, block) /\ BlockAt(p, k, more) = BlockAt(p, k, block)
        BY <1>1, <2>1, <2>5
      <4>2. QED
        BY <2>4, <3>1, <4>1
    <3>2. CASE i # k
      <4>1. i \in k + 1 .. N + 1
        BY <1>1, <2>1, <3>2
      <4>2. more[i] = block[i]
        BY <2>3, <4>1
      <4>3. /\ block[i] \in Block(p)
            /\ block[i] = BlockAt(p, i, block)
            /\ i <= N => block[i].next > i
        BY <2>2, <4>1 DEF BlocksFrom
      <4>4. QED
        BY <2>5, <4>2, <4>3
    <3>3. QED
      BY <3>1, <3>2
  <2>7. BlocksFrom(p, k, more)
    <3> HIDE DEF more, k
    <3>1. QED
      BY <2>5, <2>6 DEF BlocksFrom
  <2>8. Only(k, more)
    OBVIOUS
  <2>9. QED
    <3> HIDE DEF more, k, Only
    <3>1. QED
      BY <2>1, <2>7, <2>8
<1>4. \A n \in Nat : n \in S
  <2> HIDE DEF S
  <2>1. QED
    BY <1>2, <1>3, SetInduction
<1>5. N \in S /\ N + 1 - N = 1
  BY <1>1, <1>4
<1>6. QED
  BY <1>1, <1>5

LEMMA BlocksFacts ==
  ASSUME NEW p \in Seq(Statement)
  PROVE  BlocksFrom(p, 1, Blocks(p))
<1> DEFINE N == Len(p)
           Is(b) == b = [k \in 1 .. Len(p) + 1 |-> BlockAt(p, k, b)]
           b == Blocks(p)
           S == {n \in Nat : n <= N => BlocksFrom(p, N + 1 - n, b)}
<1>1. Is(b)
  <2>1. PICK block : BlocksFrom(p, 1, block) /\ block = [i \in 1 .. Len(p) + 1 |-> block[i]]
    BY BlocksExist
  <2>2. Is(block)
    BY <2>1 DEF BlocksFrom
  <2>3. b = CHOOSE block_1 : Is(block_1)
    BY Zenon DEF Blocks
  <2> HIDE DEF Is, b
  <2>4. QED
    BY <2>2, <2>3
<1>2. N \in Nat
  OBVIOUS
<1>3. 0 \in S
  <2> HIDE DEF b
  <2>1. \A i \in N + 1 .. N + 1 : i = N + 1 /\ i > N /\ N + 1 \in 1 .. N + 1 /\ ~(i <= N)
    BY <1>2
  <2>2. <<>> \in Seq(CtrlValues)
    OBVIOUS
  <2>3. b[N + 1] = [out |-> <<>>, next |-> N + 1]
    BY <1>1, <2>1 DEF BlockAt
  <2>4. BlocksFrom(p, N + 1, b)
    <3>1. BlockAt(p, N + 1, b) = [out |-> <<>>, next |-> N + 1]
      BY <2>1 DEF BlockAt
    <3>2. b[N + 1] \in Block(p)
      BY <2>1, <2>2, <2>3 DEF Block
    <3>3. b[N + 1] = BlockAt(p, N + 1, b)
      BY <2>3, <3>1
    <3>4. QED
      BY <2>1, <3>2, <3>3 DEF BlocksFrom
  <2>5. N + 1 - 0 = N + 1
    BY <1>2
  <2>6. QED
    BY <2>4, <2>5
<1>4. ASSUME NEW n \in Nat, n \in S
      PROVE  n + 1 \in S
  <2> SUFFICES ASSUME n + 1 <= N
               PROVE  BlocksFrom(p, N + 1 - (n + 1), b)
    OBVIOUS
  <2> DEFINE k == N - n
  <2>1. k \in 1 .. N /\ N + 1 - n = k + 1 /\ N + 1 - (n + 1) = k /\ n <= N
    BY <1>2
  <2>2. BlocksFrom(p, k + 1, b)
    BY <1>4, <2>1
  <2> HIDE DEF b, k
  <2>3. BlockAt(p, k, b) \in Block(p) /\ BlockAt(p, k, b).next > k
    BY <2>1, <2>2, BlockInFront
  <2>4. b[k] = BlockAt(p, k, b)
    <3>1. k \in 1 .. Len(p) + 1
      BY <1>2, <2>1
    <3>2. QED
      BY <1>1, <3>1
  <2>5. \A i \in k .. N + 1 : i = k \/ i \in k + 1 .. N + 1
    BY <1>2, <2>1
  <2>6. BlocksFrom(p, k, b)
    BY <2>2, <2>3, <2>4, <2>5 DEF BlocksFrom
  <2>7. QED
    BY <2>1, <2>6
<1>5. \A n \in Nat : n \in S
  <2> HIDE DEF S
  <2>1. QED
    BY <1>3, <1>4, SetInduction
<1>6. N \in S /\ N + 1 - N = 1
  BY <1>2, <1>5
<1>7. QED
  BY <1>2, <1>6

-----------------------------------------------------------------------------
LEMMA CountStep ==
  ASSUME NEW S, NEW k \in Nat
  PROVE  /\ Cardinality((1 .. k) \cap S) \in Nat
         /\ Cardinality((1 .. 0) \cap S) = 0
         /\ k > 0 => Cardinality((1 .. k) \cap S)
                       = Cardinality((1 .. k - 1) \cap S) + IF k \in S THEN 1 ELSE 0
<1>1. \A n \in Int : IsFiniteSet((1 .. n) \cap S)
  <2> TAKE n \in Int
  <2>1. IsFiniteSet(1 .. n)
    BY FS_Interval
  <2>2. (1 .. n) \cap S \subseteq 1 .. n
    OBVIOUS
  <2>3. QED
    BY <2>1, <2>2, FS_Subset
<1>2. (1 .. 0) \cap S = {}
  OBVIOUS
<1>3. ASSUME k > 0
      PROVE  Cardinality((1 .. k) \cap S)
               = Cardinality((1 .. k - 1) \cap S) + IF k \in S THEN 1 ELSE 0
  <2>1. IsFiniteSet((1 .. k - 1) \cap S) /\ k \notin (1 .. k - 1) \cap S
    BY <1>1
  <2>2. CASE k \in S
    <3>1. (1 .. k) \cap S = ((1 .. k - 1) \cap S) \cup {k}
      BY <1>3, <2>2
    <3>2. QED
      BY <2>1, <2>2, <3>1, FS_AddElement
  <2>3. CASE k \notin S
    <3>1. (1 .. k) \cap S = (1 .. k - 1) \cap S
      BY <1>3, <2>3
    <3>2. Cardinality((1 .. k - 1) \cap S) \in Nat
      BY <2>1, FS_CardinalityType
    <3>3. QED
      BY <2>3, <3>1, <3>2
  <2>4. QED
    BY <2>2, <2>3
<1>4. QED
  BY <1>1, <1>2, <1>3, FS_CardinalityType, FS_EmptySet

LEMMA DepthStep ==
  ASSUME NEW p \in Seq(Statement), NEW k \in 1 .. Len(p)
  PROVE  /\ Depth(p, 0) = 0
         /\ Depth(p, k) \in Int /\ Depth(p, k - 1) \in Int
         /\ IsLoop(p[k]) => Depth(p, k) = Depth(p, k - 1) + 1
         /\ Branch(p[k]) => Depth(p, k) = Depth(p, k - 1) - 1
         /\ p[k].op = "STORE" => Depth(p, k) = Depth(p, k - 1)
<1> DEFINE L == {j \in Nat : IsLoop(p[j])}
           B == {j \in Nat : Branch(p[j])}
           C(n) == Cardinality((1 .. n) \cap L)
           D(n) == Cardinality((1 .. n) \cap B)
<1>1. ASSUME NEW n \in Int PROVE Depth(p, n) = C(n) - D(n)
  <2>1. {j \in 1 .. n : IsLoop(p[j])} = (1 .. n) \cap L
    OBVIOUS
  <2>2. {j \in 1 .. n : Branch(p[j])} = (1 .. n) \cap B
    OBVIOUS
  <2>3. QED
    BY <2>1, <2>2 DEF Depth
<1>2. k \in Nat /\ k - 1 \in Nat /\ k > 0
  OBVIOUS
<1>3. /\ C(0) = 0 /\ C(k) \in Nat /\ C(k - 1) \in Nat
      /\ C(k) = C(k - 1) + IF k \in L THEN 1 ELSE 0
  <2> HIDE DEF L
  <2>1. QED
    BY <1>2, CountStep
<1>4. /\ D(0) = 0 /\ D(k) \in Nat /\ D(k - 1) \in Nat
      /\ D(k) = D(k - 1) + IF k \in B THEN 1 ELSE 0
  <2> HIDE DEF B
  <2>1. QED
    BY <1>2, CountStep
<1>5. (k \in L <=> IsLoop(p[k])) /\ (k \in B <=> Branch(p[k]))
  BY <1>2
<1>6. (IsLoop(p[k]) <=> p[k].op = "LOOP") /\ (Branch(p[k]) <=> p[k].op = "STOREB")
  BY DEF IsLoop, Branch
<1>7. /\ Depth(p, 0) = C(0) - D(0)
      /\ Depth(p, k) = C(k) - D(k)
      /\ Depth(p, k - 1) = C(k - 1) - D(k - 1)
  BY <1>1, <1>2
<1>8. /\ IsLoop(p[k]) => k \in L /\ k \notin B
      /\ Branch(p[k]) => k \notin L /\ k \in B
      /\ p[k].op = "STORE" => k \notin L /\ k \notin B
  <2> HIDE DEF L, B
  <2>1. QED
    BY <1>5, <1>6
<1>9. /\ k \in L => C(k) = C(k - 1) + 1
      /\ k \notin L => C(k) = C(k - 1)
      /\ k \in B => D(k) = D(k - 1) + 1
      /\ k \notin B => D(k) = D(k - 1)
  <2> HIDE DEF C, D, L, B
  <2>1. QED
    BY <1>3, <1>4
<1>10. QED
  <2> HIDE DEF C, D, L, B
  <2>1. QED
    BY <1>3, <1>4, <1>7, <1>8, <1>9

LEMMA AddressStep ==
  ASSUME NEW p \in Seq(Statement), NEW k \in 1 .. Len(p)
  PROVE  /\ Address(p, 1) = 0
         /\ Address(p, k) \in Nat
         /\ Address(p, k + 1) = Address(p, k) + Bytes(p[k])
<1> DEFINE S == {j \in Nat : Store(p[j])}
           C(n) == Cardinality((1 .. n) \cap S)
<1>1. ASSUME NEW n \in Int PROVE Address(p, n) = 2 * (n - 1) + C(n - 1)
  <2>1. {j \in 1 .. n - 1 : Store(p[j])} = (1 .. n - 1) \cap S
    OBVIOUS
  <2>2. QED
    BY <2>1 DEF Address
<1>2. k \in Nat /\ k - 1 \in Nat /\ k > 0
  OBVIOUS
<1>3. /\ C(0) = 0 /\ C(k) \in Nat /\ C(k - 1) \in Nat
      /\ C(k) = C(k - 1) + IF k \in S THEN 1 ELSE 0
  <2> HIDE DEF S
  <2>1. QED
    BY <1>2, CountStep
<1>4. k \in S <=> Store(p[k])
  BY <1>2
<1>5. Bytes(p[k]) = IF Store(p[k]) THEN 3 ELSE 2
  BY StatementFields DEF Bytes, Store, IsLoop, Jump
<1>6. /\ Address(p, 1) = 2 * (1 - 1) + C(1 - 1)
      /\ Address(p, k) = 2 * (k - 1) + C(k - 1)
      /\ Address(p, k + 1) = 2 * (k + 1 - 1) + C(k + 1 - 1)
  BY <1>1, <1>2
<1>7. 1 - 1 = 0 /\ k + 1 - 1 = k
  BY <1>2
<1>8. QED
  <2> HIDE DEF C, S
  <2>1. QED
    BY <1>2, <1>3, <1>4, <1>5, <1>6, <1>7

LEMMA AddressMonotonic ==
  ASSUME NEW p \in Seq(Statement), NEW k \in 1 .. Len(p) + 1, NEW j \in 1 .. k - 1
  PROVE  Address(p, j) < Address(p, k) /\ Address(p, k) \in Nat
<1> DEFINE S(n) == {i \in 1 .. n - 1 : Store(p[i])}
<1>1. ASSUME NEW n \in Int
      PROVE  /\ IsFiniteSet(S(n)) /\ Cardinality(S(n)) \in Nat
             /\ Address(p, n) = 2 * (n - 1) + Cardinality(S(n))
  <2>1. IsFiniteSet(1 .. n - 1)
    BY FS_Interval
  <2>2. S(n) \subseteq 1 .. n - 1
    OBVIOUS
  <2>3. IsFiniteSet(S(n))
    BY <2>1, <2>2, FS_Subset
  <2>4. QED
    BY <2>3, FS_CardinalityType DEF Address
<1>2. j \in Int /\ k \in Int /\ 1 <= j /\ j < k
  OBVIOUS
<1>3. S(j) \subseteq S(k)
  BY <1>2
<1>4. Cardinality(S(j)) <= Cardinality(S(k))
  <2> HIDE DEF S
  <2>1. QED
    BY <1>1, <1>2, <1>3, FS_Subset
<1>5. /\ Cardinality(S(j)) \in Nat /\ Address(p, j) = 2 * (j - 1) + Cardinality(S(j))
      /\ Cardinality(S(k)) \in Nat /\ Address(p, k) = 2 * (k - 1) + Cardinality(S(k))
  <2> HIDE DEF S
  <2>1. QED
    BY <1>1, <1>2
<1>6. QED
  BY <1>2, <1>4, <1>5

\* The RAM shows instruction k at its address, and a WAITT behind the last.
LEMMA ImageAt ==
  ASSUME NEW p \in Seq(Statement), EndsInRam(p), NEW k \in 1 .. Len(p) + 1
  PROVE  /\ Address(p, k) \in Addr
         /\ k <= Len(p) => Image(p)[Address(p, k)] = p[k]
         /\ k > Len(p) => Image(p)[Address(p, k)] = [op |-> "WAITT", arg |-> 0]
<1> DEFINE N == Len(p)
<1>1. N \in Nat /\ DOMAIN p = 1 .. N
  OBVIOUS
<1>2. Address(p, N + 1) \in Addr
  BY DEF EndsInRam
<1>3. Address(p, k) \in Nat
  <2>1. CASE N = 0
    BY <1>1, <1>2, <2>1, PmccAssumption DEF Addr
  <2>2. CASE N # 0 /\ k <= N
    BY <1>1, <2>2, AddressStep
  <2>3. CASE N # 0 /\ k = N + 1
    BY <1>1, <1>2, <2>3, PmccAssumption DEF Addr
  <2>4. QED
    BY <1>1, <2>1, <2>2, <2>3
<1>4. Address(p, k) \in Addr
  <2>1. CASE k = N + 1
    BY <1>2, <2>1
  <2>2. CASE k # N + 1
    <3>1. k \in 1 .. (N + 1) - 1 /\ N + 1 \in 1 .. N + 1
      BY <1>1, <2>2
    <3>2. Address(p, k) < Address(p, N + 1)
      BY <3>1, AddressMonotonic
    <3>3. QED
      BY <1>2, <1>3, <3>2, PmccAssumption DEF Addr
  <2>3. QED
    BY <2>1, <2>2
<1>5. ASSUME NEW j \in 1 .. N, Address(p, j) = Address(p, k)
      PROVE  j = k
  <2>1. CASE j < k
    <3>1. j \in 1 .. k - 1
      BY <1>1, <2>1
    <3>2. Address(p, j) < Address(p, k)
      BY <3>1, AddressMonotonic
    <3>3. QED
      BY <1>3, <1>5, <3>2
  <2>2. CASE j > k
    <3>1. k \in 1 .. j - 1 /\ j \in 1 .. N + 1
      BY <1>1, <2>2
    <3>2. Address(p, k) < Address(p, j)
      BY <3>1, AddressMonotonic
    <3>3. QED
      BY <1>3, <1>5, <3>2
  <2>3. QED
    BY <1>1, <2>1, <2>2
<1>6. Image(p)[Address(p, k)] =
        IF \E j \in DOMAIN p : Address(p, j) = Address(p, k)
          THEN p[CHOOSE j \in DOMAIN p : Address(p, j) = Address(p, k)]
          ELSE [op |-> "WAITT", arg |-> 0]
  BY <1>4 DEF Image
<1>7. ASSUME k <= N
      PROVE  Image(p)[Address(p, k)] = p[k]
  <2>1. k \in DOMAIN p
    BY <1>1, <1>7
  <2> DEFINE c == CHOOSE j \in DOMAIN p : Address(p, j) = Address(p, k)
  <2>2. c \in DOMAIN p /\ Address(p, c) = Address(p, k)
    BY <2>1
  <2>3. c = k
    <3> HIDE DEF c
    <3>1. QED
      BY <1>1, <1>5, <2>2
  <2>4. QED
    BY <1>6, <2>1, <2>3
<1>8. ASSUME k > N
      PROVE  Image(p)[Address(p, k)] = [op |-> "WAITT", arg |-> 0]
  <2>1. ~ \E j \in DOMAIN p : Address(p, j) = Address(p, k)
    BY <1>1, <1>5, <1>8
  <2>2. QED
    BY <1>6, <2>1
<1>9. QED
  BY <1>4, <1>7, <1>8


LEMMA DepthInRange ==
  ASSUME NEW p \in Seq(Statement), WellFormed(p), NEW k \in 0 .. Len(p)
  PROVE  Depth(p, k) \in Nat /\ Depth(p, k) <= LifoDepth + 1
<1>1. Len(p) \in Nat /\ DOMAIN p = 1 .. Len(p)
  OBVIOUS
<1>2. CASE k \in 1 .. Len(p)
  BY <1>1, <1>2, PmccAssumption DEF WellFormed
<1>3. CASE k = 0
  <2>1. CASE Len(p) = 0
    BY <1>3, <2>1, PmccAssumption DEF WellFormed
  <2>2. CASE Len(p) # 0
    <3>1. 1 \in 1 .. Len(p)
      BY <1>1, <2>2
    <3>2. QED
      BY <1>3, <3>1, DepthStep, PmccAssumption
  <2>3. QED
    BY <2>1, <2>2
<1>4. QED
  BY <1>1, <1>2, <1>3

\* A block ends one loop further out, or at the end of the program.
LEMMA BlockDepth ==
  ASSUME NEW p \in Seq(Statement), WellFormed(p), NEW k \in 1 .. Len(p) + 1
  PROVE  /\ Depth(p, k - 1) = 0 => Blocks(p)[k].next = Len(p) + 1
         /\ Depth(p, k - 1) > 0 => /\ Blocks(p)[k].next \in 1 .. Len(p) + 1
                                   /\ Depth(p, Blocks(p)[k].next - 1) = Depth(p, k - 1) - 1
<1> DEFINE N == Len(p)
           b == Blocks(p)
           Ends(i) == /\ Depth(p, i - 1) = 0 => b[i].next = N + 1
                      /\ Depth(p, i - 1) > 0 => /\ b[i].next \in 1 .. N + 1
                                                /\ Depth(p, b[i].next - 1) = Depth(p, i - 1) - 1
           S == {n \in Nat : \A i \in 1 .. N + 1 : i >= N + 1 - n => Ends(i)}
<1>1. N \in Nat /\ DOMAIN p = 1 .. N
  OBVIOUS
<1>2. BlocksFrom(p, 1, b)
  BY BlocksFacts
<1>3. 0 \in S
  <2> SUFFICES ASSUME NEW i \in 1 .. N + 1, i >= N + 1 - 0 PROVE Ends(i)
    OBVIOUS
  <2>1. i = N + 1 /\ i > Len(p) /\ i - 1 = N
    BY <1>1
  <2>2. Depth(p, N) = 0
    BY DEF WellFormed
  <2>3. b[i] = BlockAt(p, i, b)
    BY <1>2 DEF BlocksFrom
  <2>4. b[i].next = N + 1
    <3> HIDE DEF b
    <3>1. QED
      BY <2>1, <2>3 DEF BlockAt
  <2>5. QED
    <3> HIDE DEF b
    <3>1. QED
      BY <2>1, <2>2, <2>4
<1>4. ASSUME NEW n \in Nat, n \in S
      PROVE  n + 1 \in S
  <2> SUFFICES ASSUME NEW i \in 1 .. N + 1, i >= N + 1 - (n + 1) PROVE Ends(i)
    OBVIOUS
  <2>1. \A j \in 1 .. N + 1 : j >= N + 1 - n => Ends(j)
    BY <1>4
  <2>2. CASE i >= N + 1 - n
    BY <2>1, <2>2
  <2>3. CASE i <= N
    <3>1. i \in 1 .. N /\ i + 1 \in 1 .. N + 1 /\ i + 1 >= N + 1 - n /\ (i + 1) - 1 = i
      BY <1>1, <2>3
    <3>2. Ends(i + 1)
      BY <2>1, <3>1
    <3>3. /\ b[i] \in Block(p) /\ b[i] = BlockAt(p, i, b)
          /\ b[i + 1] \in Block(p) /\ (i + 1 <= N => b[i + 1].next > i + 1)
      BY <1>2, <3>1 DEF BlocksFrom
    <3>4. Depth(p, i) \in Nat /\ Depth(p, i - 1) \in Nat
      <4>1. i \in 0 .. Len(p) /\ i - 1 \in 0 .. Len(p)
        BY <3>1
      <4>2. QED
        BY <4>1, DepthInRange
    <3>5. CASE Branch(p[i])
      <4>1. Depth(p, i) = Depth(p, i - 1) - 1
        BY <3>1, <3>5, DepthStep
      <4>2. b[i].next = i + 1
        <5> HIDE DEF b
        <5>1. BlockAt(p, i, b) = [out |-> <<p[i].arg>>, next |-> i + 1]
          BY <3>1, <3>5, BlockAtCases
        <5>2. QED
          BY <3>3, <5>1
      <4>3. QED
        <5> HIDE DEF b
        <5>1. QED
          BY <3>1, <3>4, <4>1, <4>2
    <3>6. CASE p[i].op = "STORE"
      <4>1. Depth(p, i) = Depth(p, i - 1)
        BY <3>1, <3>6, DepthStep
      <4>2. b[i].next = b[i + 1].next
        <5> HIDE DEF b
        <5>1. BlockAt(p, i, b) = [out |-> <<p[i].arg>> \o b[i + 1].out, next |-> b[i + 1].next]
          BY <3>1, <3>6, BlockAtCases
        <5>2. QED
          BY <3>3, <5>1
      <4>3. QED
        <5> HIDE DEF b
        <5>1. QED
          BY <3>1, <3>2, <4>1, <4>2
    <3>7. CASE IsLoop(p[i])
      <4> DEFINE m == b[i + 1].next
      <4>1. Depth(p, i) = Depth(p, i - 1) + 1
        BY <3>1, <3>7, DepthStep
      <4>2. b[i].next = b[m].next
        <5>1. BlockAt(p, i, b) =
                [out |-> Repeated(b[i + 1].out, p[i].arg) \o b[m].out, next |-> b[m].next]
          BY <3>1, <3>7, BlockAtCases
        <5> HIDE DEF b, m
        <5>2. QED
          BY <3>3, <5>1
      <4>3. m \in 1 .. N + 1 /\ Depth(p, m - 1) = Depth(p, i - 1)
        <5>1. Depth(p, i + 1 - 1) = Depth(p, i) /\ Depth(p, i) > 0
          BY <3>1, <3>4, <4>1
        <5>2. m \in 1 .. N + 1 /\ Depth(p, m - 1) = Depth(p, i) - 1
          <6> HIDE DEF b
          <6>1. QED
            BY <3>2, <5>1
        <5> HIDE DEF m, b
        <5>3. QED
          BY <3>4, <4>1, <5>2
      <4>4. m >= N + 1 - n
        <5>1. i + 1 <= N => m > i + 1
          BY <3>3
        <5>2. i + 1 = N + 1 => m = i + 1
          <6>1. i + 1 = N + 1 => b[i + 1] = BlockAt(p, i + 1, b)
            BY <1>2, <3>1 DEF BlocksFrom
          <6>2. i + 1 > Len(p) => BlockAt(p, i + 1, b) = [out |-> <<>>, next |-> i + 1]
            BY DEF BlockAt
          <6> HIDE DEF b
          <6>3. QED
            BY <1>1, <6>1, <6>2
        <5> HIDE DEF m, b
        <5>3. QED
          BY <1>1, <3>1, <4>3, <5>1, <5>2
      <4>5. Ends(m)
        <5> HIDE DEF m, Ends
        <5>1. QED
          BY <2>1, <4>3, <4>4
      <4>6. QED
        <5> HIDE DEF m, b
        <5>1. QED
          BY <4>2, <4>3, <4>5
    <3>8. QED
      BY <3>1, <3>5, <3>6, <3>7, StatementFields
  <2>4. QED
    BY <1>1, <2>2, <2>3
<1>5. \A n \in Nat : n \in S
  <2> HIDE DEF S
  <2>1. QED
    BY <1>3, <1>4, SetInduction
<1>6. Ends(k)
  <2>1. N + 1 \in Nat /\ k >= N + 1 - (N + 1)
    BY <1>1
  <2>2. N + 1 \in S
    BY <1>5, <2>1
  <2> HIDE DEF Ends
  <2>3. QED
    BY <2>1, <2>2
<1>7. QED
  BY <1>6


-----------------------------------------------------------------------------
(* What is left to be written, with concatenation kept opaque: the solvers *)
(* need its laws here and not its definition.                              *)
Joined(s, t) == s \o t

Values == Seq(CtrlValues)

LEMMA JoinedFacts ==
  /\ <<>> \in Values
  /\ \A x \in CtrlValues : <<x>> \in Values
  /\ \A s, t \in Values : Joined(s, t) \in Values
  /\ \A s, t, u \in Values : Joined(Joined(s, t), u) = Joined(s, Joined(t, u))
  /\ \A s \in Values : Joined(<<>>, s) = s /\ Joined(s, <<>>) = s
  /\ \A s \in Values, x \in CtrlValues : /\ Append(s, x) = Joined(s, <<x>>)
                                         /\ Append(s, x) \in Values
<1>1. <<>> \in Values /\ \A x \in CtrlValues : <<x>> \in Values
  BY DEF Values
<1>2. \A s, t \in Values : Joined(s, t) \in Values
  BY DEF Values, Joined
<1>3. ASSUME NEW s \in Values, NEW t \in Values, NEW u \in Values
      PROVE  Joined(Joined(s, t), u) = Joined(s, Joined(t, u))
  BY ConcatAssociative DEF Values, Joined
<1>4. \A s \in Values : Joined(<<>>, s) = s /\ Joined(s, <<>>) = s
  BY DEF Values, Joined
<1>5. \A s \in Values, x \in CtrlValues : /\ Append(s, x) = Joined(s, <<x>>)
                                          /\ Append(s, x) \in Values
  BY DEF Values, Joined
<1>6. QED
  BY <1>1, <1>2, <1>3, <1>4, <1>5

LEMMA RepeatedFacts ==
  ASSUME NEW out \in Values, NEW n \in Nat
  PROVE  /\ Repeated(out, n) \in Values
         /\ Repeated(out, 0) = <<>>
         /\ n > 0 => Repeated(out, n) = Joined(out, Repeated(out, n - 1))
<1>1. Repeated(out, n) \in Values /\ Repeated(out, 0) = <<>>
  BY RepeatedStep DEF Values
<1>2. ASSUME n > 0
      PROVE  Repeated(out, n) = Joined(out, Repeated(out, n - 1))
  <2>1. n - 1 \in Nat /\ (n - 1) + 1 = n
    BY <1>2
  <2>2. Repeated(out, (n - 1) + 1) = out \o Repeated(out, n - 1)
    BY <2>1, RepeatedStep DEF Values
  <2>3. QED
    BY <2>1, <2>2 DEF Joined
<1>3. QED
  BY <1>1, <1>2

LEMMA BlockFields ==
  ASSUME NEW p \in Seq(Statement), NEW k \in 1 .. Len(p) + 1
  PROVE  /\ Blocks(p)[k].out \in Values
         /\ Blocks(p)[k].next \in 1 .. Len(p) + 1
         /\ k > Len(p) => Blocks(p)[k].out = <<>>
         /\ k <= Len(p) =>
              /\ Branch(p[k]) => /\ Blocks(p)[k].out = <<p[k].arg>>
                                 /\ Blocks(p)[k].next = k + 1
              /\ p[k].op = "STORE" =>
                   /\ Blocks(p)[k].out = Joined(<<p[k].arg>>, Blocks(p)[k + 1].out)
                   /\ Blocks(p)[k].next = Blocks(p)[k + 1].next
              /\ IsLoop(p[k]) =>
                   /\ Blocks(p)[k].out = Joined(Repeated(Blocks(p)[k + 1].out, p[k].arg),
                                                Blocks(p)[Blocks(p)[k + 1].next].out)
                   /\ Blocks(p)[k].next = Blocks(p)[Blocks(p)[k + 1].next].next
<1> DEFINE b == Blocks(p)
<1>1. b[k] \in Block(p) /\ b[k] = BlockAt(p, k, b)
  BY BlocksFacts DEF BlocksFrom
<1> HIDE DEF b
<1>2. k > Len(p) => b[k] = [out |-> <<>>, next |-> k]
  BY <1>1 DEF BlockAt
<1>3. ASSUME k <= Len(p)
      PROVE  /\ Branch(p[k]) => b[k] = [out |-> <<p[k].arg>>, next |-> k + 1]
             /\ p[k].op = "STORE" =>
                  b[k] = [out |-> Joined(<<p[k].arg>>, b[k + 1].out), next |-> b[k + 1].next]
             /\ IsLoop(p[k]) =>
                  b[k] = [out |-> Joined(Repeated(b[k + 1].out, p[k].arg), b[b[k + 1].next].out),
                          next |-> b[b[k + 1].next].next]
  <2>1. k \in 1 .. Len(p)
    BY <1>3
  <2>2. QED
    BY <1>1, <2>1, BlockAtCases DEF Joined
<1>4. /\ b[k].out \in Values
      /\ b[k].next \in 1 .. Len(p) + 1
      /\ k > Len(p) => b[k].out = <<>>
      /\ k <= Len(p) =>
           /\ Branch(p[k]) => b[k].out = <<p[k].arg>> /\ b[k].next = k + 1
           /\ p[k].op = "STORE" => /\ b[k].out = Joined(<<p[k].arg>>, b[k + 1].out)
                                   /\ b[k].next = b[k + 1].next
           /\ IsLoop(p[k]) =>
                /\ b[k].out = Joined(Repeated(b[k + 1].out, p[k].arg), b[b[k + 1].next].out)
                /\ b[k].next = b[b[k + 1].next].next
  <2>1. b[k].out \in Values /\ b[k].next \in 1 .. Len(p) + 1
    BY <1>1 DEF Block, Values
  <2>2. k > Len(p) => b[k].out = <<>>
    BY <1>2
  <2>3. ASSUME k <= Len(p), Branch(p[k])
        PROVE  b[k].out = <<p[k].arg>> /\ b[k].next = k + 1
    BY <1>3, <2>3
  <2>4. ASSUME k <= Len(p), p[k].op = "STORE"
        PROVE  /\ b[k].out = Joined(<<p[k].arg>>, b[k + 1].out)
               /\ b[k].next = b[k + 1].next
    BY <1>3, <2>4
  <2>5. ASSUME k <= Len(p), IsLoop(p[k])
        PROVE  /\ b[k].out = Joined(Repeated(b[k + 1].out, p[k].arg), b[b[k + 1].next].out)
               /\ b[k].next = b[b[k + 1].next].next
    BY <1>3, <2>5
  <2>6. QED
    BY <2>1, <2>2, <2>3, <2>4, <2>5
<1>5. QED
  BY <1>4 DEF b

-----------------------------------------------------------------------------
\* Loop j on the stack starts where its frame says, inside the one before it,
\* and what is left of it, the iterations still to come and then the rest of
\* the block around it, is to be written.
FrameAt(p, stack, starts, todo, j) ==
  LET b == Blocks(p)
  IN  /\ stack[j].start = Address(p, starts[j])
      /\ Depth(p, starts[j] - 1) = j
      /\ todo[j] = Joined(Repeated(b[starts[j]].out, stack[j].iterations),
                          Joined(b[b[starts[j]].next].out, todo[j - 1]))
      /\ j > 1 => b[b[starts[j]].next].next = b[starts[j - 1]].next

Frames(p, stack, starts, todo) ==
  /\ stack \in Seq(Loop)
  /\ starts \in [1 .. Len(stack) -> 1 .. Len(p) + 1]
  /\ todo \in [0 .. Len(stack) -> Values]
  /\ todo[0] = <<>>
  /\ \A j \in 1 .. Len(stack) : FrameAt(p, stack, starts, todo, j)

\* Instruction k is in the block of the innermost of them.
Within(p, k, stack, starts) ==
  /\ k \in 1 .. Len(p) + 1
  /\ Len(stack) = Depth(p, k - 1)
  /\ Len(stack) > 0 => Blocks(p)[k].next = Blocks(p)[starts[Len(stack)]].next

\* What is written and what is to be written are the unrolled program.
Accounts(p, k, stack, todo, done) ==
  /\ done \in Values
  /\ Joined(done, Joined(Blocks(p)[k].out, todo[Len(stack)])) = Unrolled(p)

LEMMA NestingStore ==
  ASSUME NEW p \in Seq(Statement), WellFormed(p), NEW k \in 1 .. Len(p), p[k].op = "STORE",
         NEW stack, NEW starts, NEW todo, NEW done,
         Frames(p, stack, starts, todo), Within(p, k, stack, starts),
         Accounts(p, k, stack, todo, done)
  PROVE  /\ Within(p, k + 1, stack, starts)
         /\ Accounts(p, k + 1, stack, todo, Append(done, p[k].arg))
<1> DEFINE b == Blocks(p)
           d == Len(stack)
<1>1. k + 1 \in 1 .. Len(p) + 1 /\ k + 1 - 1 = k /\ k \in 1 .. Len(p) + 1 /\ k <= Len(p)
  OBVIOUS
<1>2. Depth(p, k) = Depth(p, k - 1) /\ p[k].arg \in CtrlValues
  BY DepthStep, StatementFields
<1>3. b[k].out = Joined(<<p[k].arg>>, b[k + 1].out) /\ b[k].next = b[k + 1].next
  BY <1>1, BlockFields
<1>4. b[k + 1].out \in Values
  BY <1>1, BlockFields
<1>5. d \in Nat /\ todo[d] \in Values
  BY DEF Frames
<1>6. Within(p, k + 1, stack, starts)
  BY <1>1, <1>2, <1>3 DEF Within
<1>7. Accounts(p, k + 1, stack, todo, Append(done, p[k].arg))
  <2>1. done \in Values /\ Joined(done, Joined(b[k].out, todo[d])) = Unrolled(p)
    BY DEF Accounts
  <2>2. Joined(done, Joined(b[k].out, todo[d]))
          = Joined(Append(done, p[k].arg), Joined(b[k + 1].out, todo[d]))
    <3> DEFINE o == b[k + 1].out
               t == todo[d]
               x == <<p[k].arg>>
    <3>1. o \in Values /\ t \in Values /\ x \in Values /\ Joined(o, t) \in Values
      BY <1>2, <1>4, <1>5, JoinedFacts
    <3>2. Append(done, p[k].arg) = Joined(done, x)
      BY <1>2, <2>1, JoinedFacts
    <3>3. b[k].out = Joined(x, o)
      BY <1>3
    <3> HIDE DEF o, t, x
    <3>4. Joined(Joined(x, o), t) = Joined(x, Joined(o, t))
      BY <3>1, JoinedFacts
    <3>5. Joined(done, Joined(x, Joined(o, t))) = Joined(Joined(done, x), Joined(o, t))
      BY <2>1, <3>1, JoinedFacts
    <3>6. Joined(done, Joined(b[k].out, t)) = Joined(Append(done, p[k].arg), Joined(o, t))
      BY <3>2, <3>3, <3>4, <3>5
    <3>7. QED
      BY <3>6 DEF o, t
  <2>3. Append(done, p[k].arg) \in Values
    BY <1>2, <2>1, JoinedFacts
  <2>4. QED
    BY <2>1, <2>2, <2>3 DEF Accounts
<1>8. QED
  BY <1>6, <1>7

LEMMA FrameAtSame ==
  ASSUME NEW p, NEW j,
         NEW stack, NEW starts, NEW todo, NEW stack2, NEW starts2, NEW todo2,
         FrameAt(p, stack, starts, todo, j),
         stack2[j] = stack[j], starts2[j] = starts[j], todo2[j] = todo[j],
         todo2[j - 1] = todo[j - 1], j > 1 => starts2[j - 1] = starts[j - 1]
  PROVE  FrameAt(p, stack2, starts2, todo2, j)
  BY DEF FrameAt

LEMMA NestingEnter ==
  ASSUME NEW p \in Seq(Statement), WellFormed(p), NEW k \in 1 .. Len(p), IsLoop(p[k]),
         NEW stack, NEW starts, NEW todo, NEW done,
         Frames(p, stack, starts, todo), Within(p, k, stack, starts),
         Accounts(p, k, stack, todo, done),
         NEW frame \in Loop, frame.start = Address(p, k + 1),
         frame.iterations = p[k].arg - 1
  PROVE  \E starts2, todo2 :
           /\ Frames(p, Append(stack, frame), starts2, todo2)
           /\ Within(p, k + 1, Append(stack, frame), starts2)
           /\ Accounts(p, k + 1, Append(stack, frame), todo2, done)
<1> DEFINE b == Blocks(p)
           d == Len(stack)
           stack2 == Append(stack, frame)
           m == b[k + 1].next
           left == Joined(Repeated(b[k + 1].out, p[k].arg - 1), Joined(b[m].out, todo[d]))
           starts2 == [j \in 1 .. d + 1 |-> IF j = d + 1 THEN k + 1 ELSE starts[j]]
           todo2 == [j \in 0 .. d + 1 |-> IF j = d + 1 THEN left ELSE todo[j]]
<1>1. /\ k + 1 \in 1 .. Len(p) + 1 /\ k + 1 - 1 = k /\ k \in 1 .. Len(p) + 1 /\ k <= Len(p)
      /\ p[k].arg - 1 \in Nat /\ p[k].arg \in Nat /\ p[k].arg > 0
  BY StatementFields, PmccAssumption DEF Iters, IsLoop
<1>2. /\ stack \in Seq(Loop) /\ d \in Nat /\ d = Depth(p, k - 1)
      /\ todo \in [0 .. d -> Values] /\ todo[d] \in Values
      /\ starts \in [1 .. d -> 1 .. Len(p) + 1]
  BY DEF Frames, Within
<1>3. Depth(p, k) = d + 1
  BY <1>2, DepthStep
<1>4. /\ b[k].out = Joined(Repeated(b[k + 1].out, p[k].arg), b[m].out)
      /\ b[k].next = b[m].next
  BY <1>1, BlockFields
<1>5. m \in 1 .. Len(p) + 1 /\ b[k + 1].out \in Values
  BY <1>1, BlockFields
<1>6. b[m].out \in Values
  BY <1>5, BlockFields
<1>7. /\ Repeated(b[k + 1].out, p[k].arg - 1) \in Values
      /\ Repeated(b[k + 1].out, p[k].arg) \in Values
      /\ Repeated(b[k + 1].out, p[k].arg)
           = Joined(b[k + 1].out, Repeated(b[k + 1].out, p[k].arg - 1))
  BY <1>1, <1>5, RepeatedFacts
<1>8. left \in Values
  BY <1>2, <1>6, <1>7, JoinedFacts
<1>9. /\ stack2 \in Seq(Loop) /\ Len(stack2) = d + 1 /\ stack2[d + 1] = frame
      /\ \A j \in 1 .. d : stack2[j] = stack[j]
  BY <1>2
<1>10. /\ starts2 \in [1 .. d + 1 -> 1 .. Len(p) + 1] /\ starts2[d + 1] = k + 1
       /\ \A j \in 1 .. d : starts2[j] = starts[j]
  BY <1>1, <1>2
<1>11. /\ todo2 \in [0 .. d + 1 -> Values] /\ todo2[d + 1] = left
       /\ \A j \in 0 .. d : todo2[j] = todo[j]
  <2>1. \A j \in 0 .. d + 1 : j = d + 1 \/ (j \in 0 .. d /\ j # d + 1)
    BY <1>2
  <2>2. \A j \in 0 .. d : j \in 0 .. d + 1 /\ j # d + 1
    BY <1>2
  <2>3. d + 1 \in 0 .. d + 1
    BY <1>2
  <2> HIDE DEF left, d
  <2>4. QED
    BY <1>2, <1>8, <2>1, <2>2, <2>3
<1>12. Frames(p, stack2, starts2, todo2)
  <2>1. todo2[0] = <<>>
    <3> HIDE DEF todo2
    <3>1. QED
      BY <1>2, <1>11 DEF Frames
  <2>2. ASSUME NEW j \in 1 .. d
        PROVE  FrameAt(p, stack2, starts2, todo2, j)
    <3>1. FrameAt(p, stack, starts, todo, j)
      BY DEF Frames
    <3>2. j - 1 \in 0 .. d /\ j \in 0 .. d /\ (j > 1 => j - 1 \in 1 .. d)
      BY <1>2
    <3> HIDE DEF stack2, starts2, todo2
    <3>3. QED
      BY <1>9, <1>10, <1>11, <3>1, <3>2, FrameAtSame
  <2>3. FrameAt(p, stack2, starts2, todo2, d + 1)
    <3>1. d + 1 - 1 = d /\ d \in 0 .. d /\ (d + 1 > 1 => d \in 1 .. d /\ d > 0)
      BY <1>2
    <3>2. stack2[d + 1].start = Address(p, starts2[d + 1])
      BY <1>9, <1>10
    <3>3. Depth(p, starts2[d + 1] - 1) = d + 1
      BY <1>1, <1>3, <1>10
    <3>4. todo2[d + 1] = Joined(Repeated(b[starts2[d + 1]].out, stack2[d + 1].iterations),
                                Joined(b[b[starts2[d + 1]].next].out, todo2[d + 1 - 1]))
      <4>1. todo2[d + 1 - 1] = todo[d]
        BY <1>11, <3>1
      <4> HIDE DEF stack2, starts2, todo2, b, d
      <4>2. QED
        BY <1>9, <1>10, <1>11, <4>1
    <3>5. d + 1 > 1 => b[b[starts2[d + 1]].next].next = b[starts2[d + 1 - 1]].next
      <4>1. ASSUME d > 0
            PROVE  starts2[d + 1 - 1] = starts[d] /\ b[k].next = b[starts[d]].next
        BY <1>10, <3>1, <4>1 DEF Within
      <4> HIDE DEF stack2, starts2, todo2, b, d
      <4>2. QED
        BY <1>2, <1>4, <1>10, <4>1 DEF m
    <3>6. QED
      <4> HIDE DEF stack2, starts2, todo2, left
      <4>1. QED
        BY <3>2, <3>3, <3>4, <3>5 DEF FrameAt
  <2>4. \A j \in 1 .. d + 1 : j \in 1 .. d \/ j = d + 1
    BY <1>2
  <2>5. \A j \in 1 .. d + 1 : FrameAt(p, stack2, starts2, todo2, j)
    <3> HIDE DEF stack2, starts2, todo2, d
    <3>1. QED
      BY <2>2, <2>3, <2>4
  <2>6. QED
    <3> HIDE DEF stack2, starts2, todo2, d
    <3>1. QED
      BY <1>9, <1>10, <1>11, <2>1, <2>5 DEF Frames
<1>13. Within(p, k + 1, stack2, starts2)
  <2>1. b[k + 1].next = b[starts2[Len(stack2)]].next
    BY <1>9, <1>10
  <2> HIDE DEF stack2, starts2, todo2, d
  <2>2. QED
    BY <1>1, <1>3, <1>9, <2>1 DEF Within
<1>14. Accounts(p, k + 1, stack2, todo2, done)
  <2> DEFINE r == Repeated(b[k + 1].out, p[k].arg - 1)
             o == b[k + 1].out
             n == b[m].out
             t == todo[d]
  <2>1. done \in Values /\ Joined(done, Joined(b[k].out, t)) = Unrolled(p)
    BY DEF Accounts
  <2>2. b[k].out = Joined(Joined(o, r), n)
    BY <1>4, <1>7
  <2>3. o \in Values /\ r \in Values /\ n \in Values /\ t \in Values
    BY <1>2, <1>5, <1>6, <1>7
  <2>4. todo2[Len(stack2)] = Joined(r, Joined(n, t))
    <3> HIDE DEF stack2, todo2
    <3>1. QED
      BY <1>9, <1>11
  <2>5. Joined(Joined(Joined(o, r), n), t) = Joined(o, Joined(r, Joined(n, t)))
    <3> HIDE DEF o, r, n, t
    <3>1. Joined(o, r) \in Values /\ Joined(n, t) \in Values
      BY <2>3, JoinedFacts
    <3>2. Joined(Joined(Joined(o, r), n), t) = Joined(Joined(o, r), Joined(n, t))
      BY <2>3, <3>1, JoinedFacts
    <3>3. QED
      BY <2>3, <3>1, <3>2, JoinedFacts
  <2>6. QED
    <3>1. Joined(done, Joined(b[k + 1].out, todo2[Len(stack2)])) = Unrolled(p)
      <4> HIDE DEF stack2, todo2
      <4>1. QED
        BY <2>1, <2>2, <2>4, <2>5
    <3>2. QED
      BY <2>1, <3>1 DEF Accounts
<1>15. QED
  <2> HIDE DEF starts2, todo2
  <2>1. QED
    BY <1>12, <1>13, <1>14

\* At a STOREB the block ends, so it ends where the innermost loop's does.
LEMMA AtBranch ==
  ASSUME NEW p \in Seq(Statement), WellFormed(p), NEW k \in 1 .. Len(p), Branch(p[k]),
         NEW stack, NEW starts, NEW todo, NEW done,
         Frames(p, stack, starts, todo), Within(p, k, stack, starts),
         Accounts(p, k, stack, todo, done)
  PROVE  LET d == Len(stack)
             b == Blocks(p)
         IN  /\ stack \in Seq(Loop) /\ d \in Nat /\ d > 0
             /\ d = Depth(p, k - 1) /\ Depth(p, k) = d - 1
             /\ starts \in [1 .. d -> 1 .. Len(p) + 1]
             /\ todo \in [0 .. d -> Values]
             /\ starts[d] \in 1 .. Len(p) + 1
             /\ todo[d] \in Values /\ todo[d - 1] \in Values
             /\ b[starts[d]].next = k + 1
             /\ b[k + 1].out \in Values
             /\ b[starts[d]].out \in Values
             /\ todo[d] = Joined(Repeated(b[starts[d]].out, stack[d].iterations),
                                 Joined(b[k + 1].out, todo[d - 1]))
             /\ Append(done, p[k].arg) \in Values
             /\ Joined(Append(done, p[k].arg), todo[d]) = Unrolled(p)
<1> DEFINE b == Blocks(p)
           d == Len(stack)
<1>1. k + 1 \in 1 .. Len(p) + 1 /\ k + 1 - 1 = k /\ k \in 1 .. Len(p) + 1 /\ k <= Len(p)
  OBVIOUS
<1>2. /\ stack \in Seq(Loop) /\ d \in Nat /\ d = Depth(p, k - 1)
      /\ todo \in [0 .. d -> Values]
      /\ starts \in [1 .. d -> 1 .. Len(p) + 1]
  BY DEF Frames, Within
<1>3. Depth(p, k) = d - 1 /\ d > 0 /\ p[k].arg \in CtrlValues
  <2>1. Depth(p, k) \in Nat
    <3>1. k \in 0 .. Len(p)
      OBVIOUS
    <3>2. QED
      BY <3>1, DepthInRange
  <2>2. Depth(p, k) = d - 1
    BY <1>2, DepthStep
  <2>3. p[k].arg \in CtrlValues
    BY StatementFields
  <2>4. QED
    BY <1>2, <2>1, <2>2, <2>3
<1>4. d \in 1 .. d /\ d \in 0 .. d /\ d - 1 \in 0 .. d
  BY <1>2, <1>3
<1>5. starts[d] \in 1 .. Len(p) + 1 /\ todo[d] \in Values /\ todo[d - 1] \in Values
  BY <1>2, <1>4
<1>6. b[k].out = <<p[k].arg>> /\ b[k].next = k + 1
  BY <1>1, BlockFields
<1>7. b[starts[d]].next = k + 1
  BY <1>3, <1>6 DEF Within
<1>8. b[k + 1].out \in Values /\ b[starts[d]].out \in Values
  BY <1>1, <1>5, BlockFields
<1>9. todo[d] = Joined(Repeated(b[starts[d]].out, stack[d].iterations),
                       Joined(b[k + 1].out, todo[d - 1]))
  <2>1. FrameAt(p, stack, starts, todo, d)
    BY <1>4 DEF Frames
  <2>2. todo[d] = Joined(Repeated(b[starts[d]].out, stack[d].iterations),
                         Joined(b[b[starts[d]].next].out, todo[d - 1]))
    BY <2>1 DEF FrameAt
  <2>3. QED
    <3> HIDE DEF b, d
    <3>1. QED
      BY <1>7, <2>2
<1>10. /\ Append(done, p[k].arg) \in Values
       /\ Joined(Append(done, p[k].arg), todo[d]) = Unrolled(p)
  <2>1. done \in Values /\ Joined(done, Joined(b[k].out, todo[d])) = Unrolled(p)
    BY DEF Accounts
  <2>2. /\ Append(done, p[k].arg) \in Values
        /\ Append(done, p[k].arg) = Joined(done, <<p[k].arg>>)
        /\ <<p[k].arg>> \in Values
    BY <1>3, <2>1, JoinedFacts
  <2> DEFINE x == <<p[k].arg>>
             t == todo[d]
  <2>3. Joined(Joined(done, x), t) = Joined(done, Joined(x, t))
    <3>1. x \in Values /\ t \in Values
      BY <1>5, <2>2
    <3> HIDE DEF x, t
    <3>2. QED
      BY <2>1, <3>1, JoinedFacts
  <2>4. QED
    BY <1>6, <2>1, <2>2, <2>3
<1>11. QED
  BY <1>2, <1>3, <1>5, <1>7, <1>8, <1>9, <1>10

LEMMA NestingIterate ==
  ASSUME NEW p \in Seq(Statement), WellFormed(p), NEW k \in 1 .. Len(p), Branch(p[k]),
         NEW stack, NEW starts, NEW todo, NEW done,
         Frames(p, stack, starts, todo), Within(p, k, stack, starts),
         Accounts(p, k, stack, todo, done), stack[Len(stack)].iterations # 0
  PROVE  \E k2, todo2 :
           LET stack2 == [stack EXCEPT ![Len(stack)].iterations = @ - 1]
           IN  /\ stack[Len(stack)].start = Address(p, k2)
               /\ Frames(p, stack2, starts, todo2)
               /\ Within(p, k2, stack2, starts)
               /\ Accounts(p, k2, stack2, todo2, Append(done, p[k].arg))
<1> DEFINE b == Blocks(p)
           d == Len(stack)
           stack2 == [stack EXCEPT ![d].iterations = @ - 1]
           s == starts[d]
           it == stack[d].iterations
           left == Joined(Repeated(b[s].out, it - 1), Joined(b[k + 1].out, todo[d - 1]))
           todo2 == [todo EXCEPT ![d] = left]
<1>1. /\ stack \in Seq(Loop) /\ d \in Nat /\ d > 0
      /\ d = Depth(p, k - 1) /\ Depth(p, k) = d - 1
      /\ starts \in [1 .. d -> 1 .. Len(p) + 1]
      /\ todo \in [0 .. d -> Values]
      /\ s \in 1 .. Len(p) + 1
      /\ todo[d] \in Values /\ todo[d - 1] \in Values
      /\ b[s].next = k + 1
      /\ b[k + 1].out \in Values
      /\ b[s].out \in Values
      /\ todo[d] = Joined(Repeated(b[s].out, it), Joined(b[k + 1].out, todo[d - 1]))
      /\ Append(done, p[k].arg) \in Values
      /\ Joined(Append(done, p[k].arg), todo[d]) = Unrolled(p)
  BY AtBranch
<1>2. d \in 1 .. d /\ d \in 0 .. d /\ d - 1 \in 0 .. d /\ d - 1 # d
  BY <1>1
<1>3. it \in Iters /\ it \in Nat /\ it - 1 \in Nat /\ it - 1 \in Iters
  <2>1. stack[d] \in Loop
    BY <1>1, <1>2
  <2>2. QED
    BY <2>1, PmccAssumption DEF Loop, Iters
<1>4. /\ stack2 \in Seq(Loop) /\ Len(stack2) = d
      /\ stack2[d].start = stack[d].start /\ stack2[d].iterations = it - 1
      /\ \A j \in 1 .. d : j # d => stack2[j] = stack[j]
  <2>1. stack[d] \in Loop
    BY <1>1, <1>2
  <2>2. [stack[d] EXCEPT !.iterations = it - 1] \in Loop
    BY <1>3, <2>1 DEF Loop
  <2>3. stack2 = [stack EXCEPT ![d] = [stack[d] EXCEPT !.iterations = it - 1]]
    BY <1>1, <1>2
  <2>4. stack2 \in Seq(Loop) /\ Len(stack2) = d
    BY <1>1, <1>2, <2>2, <2>3
  <2>5. stack2[d] = [stack[d] EXCEPT !.iterations = it - 1]
    BY <1>1, <1>2, <2>3
  <2>6. \A j \in 1 .. d : j # d => stack2[j] = stack[j]
    BY <1>1, <2>3
  <2>7. QED
    <3> HIDE DEF stack2
    <3>1. QED
      BY <2>1, <2>4, <2>5, <2>6 DEF Loop
<1>5. /\ Repeated(b[s].out, it - 1) \in Values
      /\ Repeated(b[s].out, it) \in Values
      /\ Repeated(b[s].out, it) = Joined(b[s].out, Repeated(b[s].out, it - 1))
  <2>1. ASSUME NEW out \in Values, NEW n \in Nat, n # 0, n - 1 \in Nat
        PROVE  /\ Repeated(out, n - 1) \in Values
               /\ Repeated(out, n) \in Values
               /\ Repeated(out, n) = Joined(out, Repeated(out, n - 1))
    BY <2>1, RepeatedFacts
  <2> HIDE DEF it, s, b
  <2>2. it # 0
    BY DEF it
  <2>3. QED
    BY <1>1, <1>3, <2>1, <2>2
<1>6. left \in Values
  <2> HIDE DEF it, s, b, d
  <2>1. QED
    BY <1>1, <1>5, JoinedFacts
<1>7. /\ todo2 \in [0 .. d -> Values] /\ todo2[d] = left
      /\ \A j \in 0 .. d : j # d => todo2[j] = todo[j]
  <2> HIDE DEF left, d
  <2>1. QED
    BY <1>1, <1>2, <1>6
<1>8. FrameAt(p, stack, starts, todo, d)
  BY <1>2 DEF Frames
<1>9. Frames(p, stack2, starts, todo2)
  <2>1. todo2[0] = <<>>
    <3>1. 0 \in 0 .. d /\ 0 # d /\ todo[0] = <<>>
      BY <1>1 DEF Frames
    <3> HIDE DEF todo2, d
    <3>2. QED
      BY <1>7, <3>1
  <2>2. ASSUME NEW j \in 1 .. d, j # d
        PROVE  FrameAt(p, stack2, starts, todo2, j)
    <3>1. FrameAt(p, stack, starts, todo, j)
      BY DEF Frames
    <3>2. j - 1 \in 0 .. d /\ j \in 0 .. d /\ j - 1 # d
      BY <1>1, <2>2
    <3> HIDE DEF stack2, todo2, d
    <3>3. QED
      BY <1>4, <1>7, <2>2, <3>1, <3>2, FrameAtSame
  <2>3. FrameAt(p, stack2, starts, todo2, d)
    <3>1. /\ stack[d].start = Address(p, s)
          /\ Depth(p, s - 1) = d
          /\ d > 1 => b[b[s].next].next = b[starts[d - 1]].next
      BY <1>8 DEF FrameAt
    <3>2. todo2[d - 1] = todo[d - 1]
      <4> HIDE DEF todo2, d
      <4>1. QED
        BY <1>2, <1>7
    <3>3. todo2[d] = Joined(Repeated(b[s].out, stack2[d].iterations),
                            Joined(b[b[s].next].out, todo2[d - 1]))
      <4> HIDE DEF todo2, stack2, b, d, it
      <4>1. QED
        BY <1>1, <1>4, <1>7, <3>2 DEF left
    <3>4. stack2[d].start = Address(p, s)
      <4> HIDE DEF stack2, d
      <4>1. QED
        BY <1>4, <3>1
    <3> HIDE DEF stack2, todo2, d
    <3>5. QED
      BY <3>1, <3>3, <3>4 DEF FrameAt
  <2>4. QED
    <3> HIDE DEF stack2, todo2, d
    <3>1. QED
      BY <1>1, <1>4, <1>7, <2>1, <2>2, <2>3 DEF Frames
<1>10. stack[d].start = Address(p, s) /\ Depth(p, s - 1) = d
  BY <1>8 DEF FrameAt
<1>11. Within(p, s, stack2, starts)
  <2>1. b[s].next = b[starts[Len(stack2)]].next
    BY <1>4
  <2> HIDE DEF stack2, d
  <2>2. QED
    BY <1>1, <1>4, <1>10, <2>1 DEF Within
<1>12. Accounts(p, s, stack2, todo2, Append(done, p[k].arg))
  <2> DEFINE o == b[s].out
             r == Repeated(b[s].out, it - 1)
             t == Joined(b[k + 1].out, todo[d - 1])
  <2>1. o \in Values /\ r \in Values /\ t \in Values
    <3>1. t \in Values
      <4> HIDE DEF b, d, it, s
      <4>1. QED
        BY <1>1, JoinedFacts
    <3>2. QED
      BY <1>1, <1>5, <3>1
  <2>2. todo[d] = Joined(Joined(o, r), t)
    BY <1>1, <1>5
  <2>3. Joined(Joined(o, r), t) = Joined(o, Joined(r, t))
    <3> HIDE DEF o, r, t
    <3>1. QED
      BY <2>1, JoinedFacts
  <2>4. todo2[Len(stack2)] = Joined(r, t)
    <3>1. left = Joined(r, t)
      OBVIOUS
    <3> HIDE DEF stack2, todo2, d, left, r, t
    <3>2. QED
      BY <1>4, <1>7, <3>1
  <2>5. Joined(Append(done, p[k].arg), Joined(b[s].out, todo2[Len(stack2)])) = Unrolled(p)
    <3> HIDE DEF stack2, todo2, d, r, t
    <3>1. QED
      BY <1>1, <2>2, <2>3, <2>4
  <2>6. QED
    BY <1>1, <2>5 DEF Accounts
<1>13. QED
  <2> HIDE DEF todo2, s
  <2>1. QED
    BY <1>9, <1>10, <1>11, <1>12

LEMMA NestingLeave ==
  ASSUME NEW p \in Seq(Statement), WellFormed(p), NEW k \in 1 .. Len(p), Branch(p[k]),
         NEW stack, NEW starts, NEW todo, NEW done,
         Frames(p, stack, starts, todo), Within(p, k, stack, starts),
         Accounts(p, k, stack, todo, done), stack[Len(stack)].iterations = 0
  PROVE  \E starts2, todo2 :
           LET stack2 == SubSeq(stack, 1, Len(stack) - 1)
           IN  /\ Frames(p, stack2, starts2, todo2)
               /\ Within(p, k + 1, stack2, starts2)
               /\ Accounts(p, k + 1, stack2, todo2, Append(done, p[k].arg))
<1> DEFINE b == Blocks(p)
           d == Len(stack)
           stack2 == SubSeq(stack, 1, d - 1)
           starts2 == [j \in 1 .. d - 1 |-> starts[j]]
           todo2 == [j \in 0 .. d - 1 |-> todo[j]]
<1>1. /\ stack \in Seq(Loop) /\ d \in Nat /\ d > 0
      /\ d = Depth(p, k - 1) /\ Depth(p, k) = d - 1
      /\ starts \in [1 .. d -> 1 .. Len(p) + 1]
      /\ todo \in [0 .. d -> Values]
      /\ todo[d - 1] \in Values
      /\ b[starts[d]].next = k + 1
      /\ b[k + 1].out \in Values
      /\ b[starts[d]].out \in Values
      /\ todo[d] = Joined(Repeated(b[starts[d]].out, stack[d].iterations),
                          Joined(b[k + 1].out, todo[d - 1]))
      /\ Append(done, p[k].arg) \in Values
      /\ Joined(Append(done, p[k].arg), todo[d]) = Unrolled(p)
  BY AtBranch
<1>2. k + 1 \in 1 .. Len(p) + 1 /\ k + 1 - 1 = k
  OBVIOUS
<1>3. /\ stack2 \in Seq(Loop) /\ Len(stack2) = d - 1
      /\ \A j \in 1 .. d - 1 : stack2[j] = stack[j]
  BY <1>1
<1>4. /\ starts2 \in [1 .. d - 1 -> 1 .. Len(p) + 1]
      /\ \A j \in 1 .. d - 1 : starts2[j] = starts[j]
  BY <1>1
<1>5. /\ todo2 \in [0 .. d - 1 -> Values]
      /\ \A j \in 0 .. d - 1 : todo2[j] = todo[j]
  BY <1>1
<1>6. Frames(p, stack2, starts2, todo2)
  <2>1. todo2[0] = <<>>
    <3>1. 0 \in 0 .. d - 1 /\ todo[0] = <<>>
      BY <1>1 DEF Frames
    <3> HIDE DEF todo2, d
    <3>2. QED
      BY <1>5, <3>1
  <2>2. ASSUME NEW j \in 1 .. d - 1
        PROVE  FrameAt(p, stack2, starts2, todo2, j)
    <3>1. j \in 1 .. d
      BY <1>1
    <3>2. FrameAt(p, stack, starts, todo, j)
      BY <3>1 DEF Frames
    <3>3. j - 1 \in 0 .. d - 1 /\ j \in 0 .. d - 1 /\ (j > 1 => j - 1 \in 1 .. d - 1)
      BY <1>1
    <3> HIDE DEF stack2, starts2, todo2, d
    <3>4. QED
      BY <1>3, <1>4, <1>5, <3>2, <3>3, FrameAtSame
  <2>3. QED
    <3> HIDE DEF stack2, starts2, todo2, d
    <3>1. QED
      BY <1>3, <1>4, <1>5, <2>1, <2>2 DEF Frames
<1>7. Within(p, k + 1, stack2, starts2)
  <2>1. ASSUME d - 1 > 0
        PROVE  b[k + 1].next = b[starts2[d - 1]].next
    <3>1. d \in 1 .. d /\ d > 1 /\ d - 1 \in 1 .. d - 1
      BY <1>1, <2>1
    <3>2. FrameAt(p, stack, starts, todo, d)
      BY <3>1 DEF Frames
    <3>3. b[b[starts[d]].next].next = b[starts[d - 1]].next
      BY <3>1, <3>2 DEF FrameAt
    <3>4. starts2[d - 1] = starts[d - 1]
      BY <1>4, <3>1
    <3> HIDE DEF starts2, d, b
    <3>5. QED
      BY <1>1, <3>3, <3>4
  <2> HIDE DEF stack2, starts2, d
  <2>2. QED
    BY <1>1, <1>2, <1>3, <2>1 DEF Within
<1>8. Accounts(p, k + 1, stack2, todo2, Append(done, p[k].arg))
  <2> DEFINE t == Joined(b[k + 1].out, todo[d - 1])
  <2>1. t \in Values
    <3> HIDE DEF b, d
    <3>1. QED
      BY <1>1, JoinedFacts
  <2>2. todo[d] = t
    <3>1. Repeated(b[starts[d]].out, 0) = <<>>
      BY <1>1, RepeatedFacts
    <3>2. todo[d] = Joined(<<>>, t)
      BY <1>1, <3>1
    <3> HIDE DEF t
    <3>3. QED
      BY <2>1, <3>2, JoinedFacts
  <2>3. todo2[Len(stack2)] = todo[d - 1]
    <3>1. d - 1 \in 0 .. d - 1
      BY <1>1
    <3> HIDE DEF stack2, todo2, d
    <3>2. QED
      BY <1>3, <1>5, <3>1
  <2>4. Joined(Append(done, p[k].arg), Joined(b[k + 1].out, todo2[Len(stack2)])) = Unrolled(p)
    <3> HIDE DEF stack2, todo2, d
    <3>1. QED
      BY <1>1, <2>2, <2>3
  <2>5. QED
    BY <1>1, <2>4 DEF Accounts
<1>9. QED
  <2> HIDE DEF starts2, todo2
  <2>1. QED
    BY <1>6, <1>7, <1>8

-----------------------------------------------------------------------------
(* The program running. *)

LEMMA AccountsPrefix ==
  ASSUME NEW p \in Seq(Statement), NEW k \in 1 .. Len(p) + 1,
         NEW stack, NEW starts, NEW todo, NEW done,
         Frames(p, stack, starts, todo), Accounts(p, k, stack, todo, done)
  PROVE  /\ IsPrefix(done, Unrolled(p))
         /\ Len(done) <= Len(Unrolled(p))
<1> DEFINE u == Unrolled(p)
           rest == Joined(Blocks(p)[k].out, todo[Len(stack)])
<1>1. rest \in Values
  <2>1. todo[Len(stack)] \in Values
    BY DEF Frames
  <2>2. QED
    BY <2>1, BlockFields, JoinedFacts
<1>2. done \in Values /\ done \o rest = u
  BY DEF Accounts, Joined
<1>3. ASSUME NEW s \in Values, NEW t \in Values
      PROVE  IsPrefix(s, s \o t) /\ Len(s) <= Len(s \o t)
  <2>1. /\ s \o t \in Seq(CtrlValues) /\ Len(s \o t) = Len(s) + Len(t)
        /\ Len(s) \in Nat /\ Len(t) \in Nat
        /\ \A i \in 1 .. Len(s) : (s \o t)[i] = s[i]
    BY DEF Values
  <2>2. SubSeq(s, 1, Len(s)) = SubSeq(s \o t, 1, Len(s))
    <3> DEFINE c == s \o t
    <3>1. SubSeq(s, 1, Len(s)) = s
      BY DEF Values
    <3>2. SubSeq(c, 1, Len(s)) \in Seq(CtrlValues) /\ Len(SubSeq(c, 1, Len(s))) = Len(s)
      <4> HIDE DEF c
      <4>1. QED
        BY <2>1 DEF c
    <3>3. \A i \in 1 .. Len(s) : SubSeq(c, 1, Len(s))[i] = c[i]
      <4> HIDE DEF c
      <4>1. QED
        BY <2>1 DEF c
    <3>4. QED
      <4>1. \A i \in 1 .. Len(s) : SubSeq(c, 1, Len(s))[i] = s[i]
        BY <2>1, <3>3
      <4> HIDE DEF c
      <4>2. SubSeq(c, 1, Len(s)) = s
        BY <3>2, <4>1, SeqEqual DEF Values
      <4>3. QED
        BY <3>1, <4>2 DEF c
  <2>3. QED
    BY <2>1, <2>2 DEF IsPrefix
<1>4. QED
  <2> HIDE DEF u, rest
  <2>1. QED
    BY <1>1, <1>2, <1>3 DEF u

LEMMA AtStart ==
  ASSUME NEW p \in Sources
  PROVE  /\ p \in Seq(Statement) /\ WellFormed(p) /\ EndsInRam(p)
         /\ Address(p, 1) = 0
         /\ \E starts, todo : /\ Frames(p, <<>>, starts, todo)
                              /\ Within(p, 1, <<>>, starts)
                              /\ Accounts(p, 1, <<>>, todo, <<>>)
<1>1. p \in Seq(Statement) /\ WellFormed(p) /\ EndsInRam(p)
  BY SourcesAssumption
<1>2. Address(p, 1) = 0
  <2>1. {j \in 1 .. 1 - 1 : Store(p[j])} = {}
    OBVIOUS
  <2>2. QED
    BY <2>1, FS_EmptySet DEF Address
<1>3. Depth(p, 0) = 0
  <2>1. {j \in 1 .. 0 : IsLoop(p[j])} = {} /\ {j \in 1 .. 0 : Branch(p[j])} = {}
    OBVIOUS
  <2>2. QED
    BY <2>1, FS_EmptySet DEF Depth
<1> DEFINE todo == [j \in 0 .. 0 |-> <<>>]
<1>4. Frames(p, <<>>, <<>>, todo)
  <2>1. <<>> \in Seq(Loop) /\ Len(<<>>) = 0 /\ <<>> \in [1 .. 0 -> 1 .. Len(p) + 1]
    OBVIOUS
  <2>2. todo \in [0 .. 0 -> Values] /\ todo[0] = <<>>
    BY JoinedFacts
  <2> HIDE DEF todo
  <2>3. QED
    BY <2>1, <2>2 DEF Frames
<1>5. Within(p, 1, <<>>, <<>>)
  <2>1. 1 \in 1 .. Len(p) + 1 /\ Len(<<>>) = 0 /\ 1 - 1 = 0
    BY <1>1
  <2>2. QED
    BY <1>3, <2>1 DEF Within
<1>6. Accounts(p, 1, <<>>, todo, <<>>)
  <2>1. Len(<<>>) = 0 /\ todo[0] = <<>>
    OBVIOUS
  <2>2. Blocks(p)[1].out \in Values
    <3>1. 1 \in 1 .. Len(p) + 1
      BY <1>1
    <3>2. QED
      BY <1>1, <3>1, BlockFields
  <2>3. Joined(<<>>, Joined(Blocks(p)[1].out, <<>>)) = Blocks(p)[1].out
    BY <2>2, JoinedFacts
  <2> HIDE DEF todo
  <2>4. QED
    BY <2>1, <2>3, JoinedFacts DEF Accounts, Unrolled
<1>7. QED
  <2> HIDE DEF todo
  <2>1. QED
    BY <1>1, <1>2, <1>4, <1>5, <1>6

\* Where the run is: at instruction k of the source, inside the loops on the
\* stack, with the rest of the unrolled program still to be written.
At(k, starts, todo) ==
  /\ pc_id = Address(source, k)
  /\ Frames(source, LoopStack, starts, todo)
  /\ Within(source, k, LoopStack, starts)
  /\ Accounts(source, k, LoopStack, todo, written)
  /\ lifo_readout => k > 1 /\ Branch(source[k - 1])

UnrollInv ==
  /\ source \in Sources
  /\ program = Image(source)
  /\ held => written = <<>>
  /\ ~held => \E k, starts, todo : At(k, starts, todo)

LEMMA AtInstruction ==
  ASSUME IInv, UnrollInv, ~held, NEW k, NEW starts, NEW todo, At(k, starts, todo)
  PROVE  /\ source \in Seq(Statement) /\ WellFormed(source) /\ EndsInRam(source)
         /\ k \in 1 .. Len(source) + 1
         /\ Len(LoopStack) \in Nat /\ Len(LoopStack) = Depth(source, k - 1)
         /\ instr = program[pc_id]
         /\ k <= Len(source) => k \in 1 .. Len(source) /\ instr = source[k]
         /\ k > Len(source) => /\ k = Len(source) + 1
                               /\ instr = [op |-> "WAITT", arg |-> 0]
         /\ loop_execution <=> Len(LoopStack) > 0
         /\ ~ResumesShort
<1>1. source \in Seq(Statement) /\ WellFormed(source) /\ EndsInRam(source)
  BY AtStart DEF UnrollInv
<1>2. k \in 1 .. Len(source) + 1 /\ Len(source) \in Nat
  BY <1>1 DEF At, Within
<1>3. Len(LoopStack) = Depth(source, k - 1) /\ Len(LoopStack) \in Nat
  BY DEF At, Within, Frames
<1>4. instr = program[pc_id]
  BY DEF IInv, FetchCoherent
<1>5. instr = Image(source)[Address(source, k)]
  BY <1>4 DEF UnrollInv, At
<1>6. /\ k <= Len(source) => k \in 1 .. Len(source) /\ instr = source[k]
      /\ k > Len(source) => /\ k = Len(source) + 1
                            /\ instr = [op |-> "WAITT", arg |-> 0]
  BY <1>1, <1>2, <1>5, ImageAt
<1>7. loop_execution <=> Len(LoopStack) > 0
  <2>1. elements_counter \in Nat
    BY PmccAssumption DEF IInv, TypeOK, PmccTypeOK
  <2>2. QED
    BY <2>1, LoopStackFacts
<1>8. ~ResumesShort
  <2> SUFFICES ASSUME ResumesShort PROVE FALSE
    OBVIOUS
  <2>1. lifo_readout /\ ~Branch(instr) /\ ~OpensLoop(instr)
    BY DEF ResumesShort
  <2>2. k > 1 /\ Branch(source[k - 1])
    BY <2>1 DEF At
  <2>3. Depth(source, k - 1) > 0
    BY <1>3, <1>7, <2>1 DEF IInv, LifoConsistent
  <2>4. k <= Len(source)
    <3> SUFFICES ASSUME k > Len(source) PROVE FALSE
      BY <1>2
    <3>1. k - 1 = Len(source)
      BY <1>2
    <3>2. QED
      BY <2>3, <3>1, <1>1 DEF WellFormed
  <2>5. source[k].op # "STORE"
    <3>1. k - 1 \in DOMAIN source /\ (k - 1) + 1 = k
      BY <1>1, <1>2, <2>2, <2>4
    <3>2. source[(k - 1) + 1].op # "STORE"
      BY <1>1, <2>2, <2>3, <3>1 DEF WellFormed
    <3>3. QED
      BY <3>1, <3>2
  <2>6. source[k].op \in {"STOREB", "LOOP"} /\ (source[k].op = "LOOP" => source[k].arg # 0)
    <3>1. k \in 1 .. Len(source)
      BY <1>2, <2>4
    <3>2. QED
      BY <1>1, <2>5, <3>1, StatementFields
  <2>7. QED
    BY <1>6, <2>1, <2>4, <2>6 DEF Branch, OpensLoop, IsLoop
<1>9. QED
  BY <1>1, <1>2, <1>3, <1>4, <1>6, <1>7, <1>8

\* WAITT without a trigger.
LEMMA RunWaits ==
  ASSUME IInv, ~held, ~ResumesShort, Waitt(instr), PmccRun(instr, FALSE)
  PROVE  pc_id' = pc_id /\ LoopStack' = LoopStack /\ ~lifo_readout'
<1>1. ~Branch(instr) /\ ~OpensLoop(instr) /\ ~Jump(instr) /\ ~Store(instr)
  BY DEF Waitt, Branch, OpensLoop, IsLoop, Jump, Store
<1>2. ~Repeats(instr) /\ ~ClosesLoop(instr)
  BY <1>1 DEF Repeats, ClosesLoop
<1>3. ~lifo_readout
  BY <1>1 DEF ResumesShort
<1>4. ~LifoPush(instr) /\ ~LifoPop(instr)
  BY <1>1, <1>2 DEF LifoPush, LifoPop
<1>5. UNCHANGED lifoVars
  BY <1>4 DEF PmccRun, LifoClock
<1>6. /\ active_loop' = active_loop
      /\ loop_execution' = loop_execution
      /\ ~lifo_readout'
  BY <1>1, <1>2, <1>3, <1>4 DEF PmccRun, ActiveLoopNxt, LoopExecutionNxt
<1>7. pc_id' = pc_id
  BY <1>1, <1>2 DEF PmccRun, PcIf, Waiting, BranchExec
<1>8. QED
  BY <1>3, <1>5, <1>6, <1>7, LoopStackUnchanged

LEMMA NextAddress ==
  ASSUME NEW p \in Seq(Statement), EndsInRam(p), NEW k \in 1 .. Len(p)
  PROVE  (Address(p, k) + Bytes(p[k])) % AddrMod = Address(p, k + 1)
<1>1. k + 1 \in 1 .. Len(p) + 1
  OBVIOUS
<1>2. Address(p, k + 1) \in Addr
  BY <1>1, ImageAt
<1>3. Address(p, k + 1) = Address(p, k) + Bytes(p[k])
  BY AddressStep
<1>4. QED
  BY <1>2, <1>3, PmccAssumption DEF Addr

\* One instruction of the program.
LEMMA RunAt ==
  ASSUME IInv, UnrollInv, ~held, NEW k, NEW starts, NEW todo, At(k, starts, todo),
         PmccRun(instr, FALSE), UNCHANGED <<program, source>>,
         written' = IF Store(instr) /\ Len(written) <= Len(Unrolled(source))
                      THEN Append(written, instr.arg) ELSE written
  PROVE  \E k2, starts2, todo2 : At(k2, starts2, todo2)'
<1> DEFINE p == source
           d == Len(LoopStack)
<1>1. /\ p \in Seq(Statement) /\ WellFormed(p) /\ EndsInRam(p)
      /\ k \in 1 .. Len(p) + 1
      /\ d \in Nat /\ d = Depth(p, k - 1)
      /\ instr = program[pc_id]
      /\ k <= Len(p) => k \in 1 .. Len(p) /\ instr = p[k]
      /\ k > Len(p) => k = Len(p) + 1 /\ instr = [op |-> "WAITT", arg |-> 0]
      /\ loop_execution <=> d > 0
      /\ ~ResumesShort
  BY AtInstruction
<1>2. /\ pc_id = Address(p, k)
      /\ Frames(p, LoopStack, starts, todo)
      /\ Within(p, k, LoopStack, starts)
      /\ Accounts(p, k, LoopStack, todo, written)
  BY DEF At
<1>3. Len(written) <= Len(Unrolled(p)) /\ p' = p
  BY <1>1, <1>2, AccountsPrefix
<1>4. InstrSet!Execute \/ (Waitt(instr) /\ UNCHANGED InstrSet!vars)
  BY <1>1, RunExecutesIsa
<1>5. CASE k > Len(p)
  <2>1. Waitt(instr) /\ ~Store(instr)
    BY <1>1, <1>5 DEF Waitt, Store
  <2>2. pc_id' = pc_id /\ LoopStack' = LoopStack /\ ~lifo_readout'
    BY <1>1, <2>1, RunWaits
  <2>3. written' = written
    BY <2>1
  <2>4. At(k, starts, todo)'
    BY <1>2, <2>2, <2>3, <1>3 DEF At
  <2>5. QED
    BY <2>4
<1>6. CASE k <= Len(p)
  <2>1. /\ k \in 1 .. Len(p) /\ instr = p[k] /\ InstrSet!Instruction = p[k]
        /\ k + 1 - 1 = k /\ k + 1 > 1
    BY <1>1, <1>6 DEF InstrSet!Instruction
  <2>2. /\ p[k].op \in {"STORE", "STOREB", "LOOP"}
        /\ Store(p[k]) <=> p[k].op # "LOOP"
        /\ Branch(p[k]) <=> p[k].op = "STOREB"
        /\ IsLoop(p[k]) <=> p[k].op = "LOOP"
        /\ p[k].op = "LOOP" => p[k].arg \in Iters \ {0}
    BY <1>1, <2>1, StatementFields
  <2>3. InstrSet!Execute
    BY <1>4, <2>1, <2>2 DEF Waitt
  <2>4. (pc_id + Bytes(p[k])) % AddrMod = Address(p, k + 1)
    BY <1>1, <1>2, <2>1, NextAddress
  <2>5. CASE p[k].op = "STORE"
    <3>1. pc_id' = (pc_id + 3) % AddrMod /\ LoopStack' = LoopStack
      BY <2>1, <2>3, <2>5
         DEF InstrSet!Execute, InstrSet!Proceed, InstrSet!JumpTo, InstrSet!SkipLoop,
             InstrSet!EnterLoop, InstrSet!WriteControl, InstrSet!Iterate,
             InstrSet!LeaveLoop, InstrSet!After
    <3>2. Bytes(p[k]) = 3
      BY <2>2, <2>5 DEF Bytes, Jump
    <3>3. pc_id' = Address(p, k + 1)
      BY <2>4, <3>1, <3>2
    <3>4. written' = Append(written, p[k].arg)
      BY <1>3, <2>1, <2>2, <2>5
    <3>5. ~lifo_readout'
      BY <2>1, <2>2, <2>5 DEF PmccRun, LifoPop, ClosesLoop
    <3>6. /\ Within(p, k + 1, LoopStack, starts)
          /\ Accounts(p, k + 1, LoopStack, todo, Append(written, p[k].arg))
      BY <1>1, <1>2, <2>1, <2>5, NestingStore
    <3>7. At(k + 1, starts, todo)'
      BY <1>2, <1>3, <3>1, <3>3, <3>4, <3>5, <3>6 DEF At
    <3>8. QED
      BY <3>7
  <2>6. CASE p[k].op = "LOOP"
    <3> DEFINE frame == [start |-> Address(p, k + 1), iterations |-> p[k].arg - 1]
    <3>1. Bytes(p[k]) = 2
      BY <2>2, <2>6 DEF Bytes
    <3>2. d <= LifoDepth
      <4>1. Depth(p, k) = d + 1
        BY <1>1, <2>1, <2>2, <2>6, DepthStep
      <4>2. k \in 0 .. Len(p)
        BY <2>1
      <4>3. QED
        BY <1>1, <4>1, <4>2, DepthInRange, PmccAssumption
    <3>3. InstrSet!After(2) = Address(p, k + 1)
      BY <2>4, <3>1 DEF InstrSet!After
    <3>4. pc_id' = InstrSet!After(2)
          /\ LoopStack' = Append(LoopStack, [start |-> InstrSet!After(2),
                                             iterations |-> p[k].arg - 1])
      BY <2>1, <2>2, <2>3, <2>6, <3>2
         DEF InstrSet!Execute, InstrSet!Proceed, InstrSet!JumpTo, InstrSet!SkipLoop,
             InstrSet!EnterLoop, InstrSet!WriteControl, InstrSet!Iterate,
             InstrSet!LeaveLoop
    <3>5. pc_id' = Address(p, k + 1) /\ LoopStack' = Append(LoopStack, frame)
      BY <3>3, <3>4
    <3>6. written' = written
      BY <2>1, <2>2, <2>6
    <3>7. ~lifo_readout'
      BY <2>1, <2>2, <2>6 DEF PmccRun, LifoPop, ClosesLoop
    <3>8. frame \in Loop /\ frame.start = Address(p, k + 1)
          /\ frame.iterations = p[k].arg - 1
      <4>1. k + 1 \in 1 .. Len(p) + 1
        BY <2>1
      <4>2. Address(p, k + 1) \in Addr
        BY <1>1, <4>1, ImageAt
      <4>3. p[k].arg - 1 \in Iters
        BY <2>2, <2>6, PmccAssumption DEF Iters
      <4>4. QED
        BY <4>2, <4>3 DEF Loop
    <3> HIDE DEF frame
    <3>9. PICK starts2, todo2 :
            /\ Frames(p, Append(LoopStack, frame), starts2, todo2)
            /\ Within(p, k + 1, Append(LoopStack, frame), starts2)
            /\ Accounts(p, k + 1, Append(LoopStack, frame), todo2, written)
      BY <1>1, <1>2, <2>1, <2>2, <2>6, <3>8, NestingEnter
    <3>10. At(k + 1, starts2, todo2)'
      BY <1>3, <3>5, <3>6, <3>7, <3>9 DEF At
    <3>11. QED
      BY <3>10
  <2>7. CASE p[k].op = "STOREB"
    <3>1. d > 0 /\ LoopStack \in Seq(Loop) /\ LoopStack # <<>>
      <4>1. d > 0 /\ LoopStack \in Seq(Loop)
        BY <1>1, <1>2, <2>1, <2>2, <2>7, AtBranch
      <4>2. QED
        BY <4>1
    <3>2. written' = Append(written, p[k].arg)
      BY <1>3, <2>1, <2>2, <2>7
    <3>3. Bytes(p[k]) = 3
      BY <2>2, <2>7 DEF Bytes, Jump
    <3>4. InstrSet!Innermost = LoopStack[d] /\ LoopStack[d] = Innermost
      BY <1>1, <3>1, LoopStackFacts DEF InstrSet!Innermost
    <3>5. CASE LoopStack[d].iterations # 0
      <4>1. /\ pc_id' = LoopStack[d].start
            /\ LoopStack' = [LoopStack EXCEPT ![d].iterations = @ - 1]
        BY <2>1, <2>3, <2>7, <3>1, <3>4, <3>5
           DEF InstrSet!Execute, InstrSet!Proceed, InstrSet!JumpTo, InstrSet!SkipLoop,
               InstrSet!EnterLoop, InstrSet!WriteControl, InstrSet!Iterate,
               InstrSet!LeaveLoop
      <4>2. ~lifo_readout'
        BY <3>4, <3>5 DEF PmccRun, LifoPop, ClosesLoop
      <4>3. PICK k2, todo2 :
              /\ LoopStack[d].start = Address(p, k2)
              /\ Frames(p, [LoopStack EXCEPT ![d].iterations = @ - 1], starts, todo2)
              /\ Within(p, k2, [LoopStack EXCEPT ![d].iterations = @ - 1], starts)
              /\ Accounts(p, k2, [LoopStack EXCEPT ![d].iterations = @ - 1], todo2,
                          Append(written, p[k].arg))
        BY <1>1, <1>2, <2>1, <2>2, <2>7, <3>5, NestingIterate
      <4>4. At(k2, starts, todo2)'
        BY <1>3, <3>2, <4>1, <4>2, <4>3 DEF At
      <4>5. QED
        BY <4>4
    <3>6. CASE LoopStack[d].iterations = 0
      <4>1. /\ pc_id' = (pc_id + 3) % AddrMod
            /\ LoopStack' = SubSeq(LoopStack, 1, d - 1)
        BY <2>1, <2>3, <2>7, <3>1, <3>4, <3>6
           DEF InstrSet!Execute, InstrSet!Proceed, InstrSet!JumpTo, InstrSet!SkipLoop,
               InstrSet!EnterLoop, InstrSet!WriteControl, InstrSet!Iterate,
               InstrSet!LeaveLoop, InstrSet!After
      <4>2. pc_id' = Address(p, k + 1)
        BY <2>4, <3>3, <4>1
      <4>3. PICK starts2, todo2 :
              /\ Frames(p, SubSeq(LoopStack, 1, d - 1), starts2, todo2)
              /\ Within(p, k + 1, SubSeq(LoopStack, 1, d - 1), starts2)
              /\ Accounts(p, k + 1, SubSeq(LoopStack, 1, d - 1), todo2,
                          Append(written, p[k].arg))
        BY <1>1, <1>2, <2>1, <2>2, <2>7, <3>6, NestingLeave
      <4>4. At(k + 1, starts2, todo2)'
        BY <1>3, <2>1, <2>2, <2>7, <3>2, <4>1, <4>2, <4>3 DEF At
      <4>5. QED
        BY <4>4
    <3>7. QED
      BY <3>5, <3>6
  <2>8. QED
    BY <2>2, <2>5, <2>6, <2>7
<1>7. QED
  BY <1>1, <1>5, <1>6

LEMMA UnrollStarts == UnrollInit => Init /\ UnrollInv
<1> SUFFICES ASSUME UnrollInit PROVE Init /\ UnrollInv
  OBVIOUS
<1>1. program \in Programs /\ 0 \in Addr
  BY SourcesAssumption, PmccAssumption DEF UnrollInit, Addr
<1>2. QED
  BY <1>1 DEF UnrollInit, Init, UnrollInv

LEMMA NextUnrollInv == IInv /\ UnrollInv /\ [UnrollNext]_unrollVars => UnrollInv'
<1> SUFFICES ASSUME IInv, UnrollInv, [UnrollNext]_unrollVars PROVE UnrollInv'
  OBVIOUS
<1>1. CASE UNCHANGED unrollVars
  <2>1. LoopStack' = LoopStack
    BY <1>1 DEF unrollVars, vars, pmccVars, loopVars, lifoVars, LoopStack, Innermost
  <2>2. UNCHANGED <<program, source, written, held, pc_id, lifo_readout>>
    BY <1>1 DEF unrollVars, vars, pmccVars, loopVars
  <2>3. QED
    BY <2>1, <2>2 DEF UnrollInv, At
<1>2. CASE UnrollNext
  <2>1. PICK hold \in BOOLEAN :
          /\ Clock(FALSE, hold)
          /\ written' = IF held \/ hold THEN <<>>
                        ELSE IF Store(instr) /\ Len(written) <= Len(Unrolled(source))
                          THEN Append(written, instr.arg) ELSE written
          /\ UNCHANGED source
    BY <1>2 DEF UnrollNext
  <2>2. held' = hold /\ program' = program /\ source' \in Sources /\ program' = Image(source')
    BY <2>1 DEF Clock, UnrollInv
  <2>3. CASE held \/ hold
    <3>1. written' = <<>> /\ PmccReset
      BY <2>1, <2>3 DEF Clock
    <3>2. pc_id' = 0 /\ LoopStack' = <<>> /\ ~lifo_readout'
      BY <3>1 DEF PmccReset, LoopStack
    <3>3. PICK starts, todo : /\ Frames(source, <<>>, starts, todo)
                              /\ Within(source, 1, <<>>, starts)
                              /\ Accounts(source, 1, <<>>, todo, <<>>)
      BY AtStart DEF UnrollInv
    <3>4. Address(source, 1) = 0
      BY AtStart DEF UnrollInv
    <3>5. At(1, starts, todo)'
      BY <2>1, <3>1, <3>2, <3>3, <3>4 DEF At
    <3>6. QED
      BY <2>2, <3>1, <3>5 DEF UnrollInv
  <2>4. CASE ~held /\ ~hold
    <3>1. PICK k, starts, todo : At(k, starts, todo)
      BY <2>4 DEF UnrollInv
    <3>2. /\ PmccRun(instr, FALSE)
          /\ written' = IF Store(instr) /\ Len(written) <= Len(Unrolled(source))
                          THEN Append(written, instr.arg) ELSE written
      BY <2>1, <2>4 DEF Clock
    <3>3. \E k2, starts2, todo2 : At(k2, starts2, todo2)'
      BY <2>1, <2>2, <2>4, <3>1, <3>2, RunAt
    <3>4. QED
      BY <2>2, <2>4, <3>3 DEF UnrollInv
  <2>5. QED
    BY <2>3, <2>4
<1>3. QED
  BY <1>1, <1>2

LEMMA UnrollImplementsSpec == UnrollSpec => Spec
<1>1. UnrollInit => Init
  BY UnrollStarts
<1>2. [UnrollNext]_unrollVars => [Next]_vars
  BY DEF UnrollNext, Next, unrollVars
<1>3. QED
  BY <1>1, <1>2, PTL DEF UnrollSpec, Spec

LEMMA AlwaysUnrollInv == UnrollSpec => [](IInv /\ UnrollInv)
<1>1. UnrollInit => IInv /\ UnrollInv
  BY UnrollStarts, InitIInv
<1>2. IInv /\ UnrollInv /\ [UnrollNext]_unrollVars => (IInv /\ UnrollInv)'
  <2>1. [UnrollNext]_unrollVars => [Next]_vars
    BY DEF UnrollNext, Next, unrollVars
  <2>2. QED
    BY <2>1, NextIInv, NextUnrollInv
<1>3. QED
  BY <1>1, <1>2, PTL DEF UnrollSpec

LEMMA UnrollInvWrites == IInv /\ UnrollInv => WritesUnrolledProgram
<1> SUFFICES ASSUME IInv, UnrollInv PROVE WritesUnrolledProgram
  OBVIOUS
<1>1. CASE held
  <2>1. written = <<>>
    BY <1>1 DEF UnrollInv
  <2>2. PICK starts, todo : Frames(source, <<>>, starts, todo)
                            /\ Accounts(source, 1, <<>>, todo, <<>>)
    BY AtStart DEF UnrollInv
  <2>3. source \in Seq(Statement) /\ 1 \in 1 .. Len(source) + 1
    BY AtStart DEF UnrollInv
  <2>4. IsPrefix(<<>>, Unrolled(source))
    BY <2>2, <2>3, AccountsPrefix
  <2>5. QED
    BY <1>1, <2>1, <2>4 DEF WritesUnrolledProgram
<1>2. CASE ~held
  <2>1. PICK k, starts, todo : At(k, starts, todo)
    BY <1>2 DEF UnrollInv
  <2>2. /\ source \in Seq(Statement) /\ WellFormed(source)
        /\ k \in 1 .. Len(source) + 1
        /\ Len(LoopStack) = Depth(source, k - 1)
        /\ k <= Len(source) => k \in 1 .. Len(source) /\ instr = source[k]
        /\ k > Len(source) => k = Len(source) + 1
        /\ loop_execution <=> Len(LoopStack) > 0
    BY <1>2, <2>1, AtInstruction
  <2>3. /\ Frames(source, LoopStack, starts, todo)
        /\ Accounts(source, k, LoopStack, todo, written)
    BY <2>1 DEF At
  <2>4. IsPrefix(written, Unrolled(source))
    BY <2>2, <2>3, AccountsPrefix
  <2>5. ASSUME Waitt(instr)
        PROVE  written = Unrolled(source) /\ ~loop_execution
    <3>1. k = Len(source) + 1
      <4> SUFFICES ASSUME k <= Len(source) PROVE FALSE
        BY <2>2
      <4>1. k \in 1 .. Len(source) /\ instr = source[k]
        BY <2>2
      <4>2. source[k].op # "WAITT"
        BY <2>2, <4>1, StatementFields
      <4>3. QED
        BY <2>5, <4>1, <4>2 DEF Waitt
    <3>2. Len(LoopStack) = 0
      <4>1. k - 1 = Len(source)
        BY <2>2, <3>1
      <4>2. QED
        BY <2>2, <4>1 DEF WellFormed
    <3>3. Blocks(source)[k].out = <<>>
      <4>1. k > Len(source)
        BY <2>2, <3>1
      <4>2. QED
        BY <2>2, <4>1, BlockFields
    <3>4. todo[Len(LoopStack)] = <<>>
      BY <2>3, <3>2 DEF Frames
    <3>5. written \in Values /\ Joined(written, Joined(<<>>, <<>>)) = Unrolled(source)
      BY <2>3, <3>3, <3>4 DEF Accounts
    <3>6. Joined(<<>>, <<>>) = <<>> /\ Joined(written, <<>>) = written
      BY <3>5, JoinedFacts
    <3>7. QED
      BY <2>2, <3>2, <3>5, <3>6
  <2>6. QED
    BY <2>4, <2>5 DEF WritesUnrolledProgram
<1>3. QED
  BY <1>1, <1>2

(* The coprocessor writes to the control lines of the matrix what the      *)
(* loops of the program say, for every well-formed program, however long,  *)
(* however deep its loops and whatever their counts: no value is lost,     *)
(* repeated once too often or out of order, also when a reset starts the   *)
(* program again, and at its end it is outside all loops.                  *)
THEOREM LoopsUnrollAsWritten == UnrollSpec => []WritesUnrolledProgram
<1>1. IInv /\ UnrollInv => WritesUnrolledProgram
  BY UnrollInvWrites
<1>2. QED
  BY <1>1, AlwaysUnrollInv, PTL

(* While it runs such a program the coprocessor implements its instruction *)
(* set: no loop is resumed short.                                          *)
THEOREM WellFormedProgramsRefineIsa == UnrollSpec => RefinesIsa
<1>1. Init => InstrSet!Init
  BY DEF Init, PmccInit, LoopStack, InstrSet!Init
<1>2. IInv /\ UnrollInv => ~ResumesShort
  <2> SUFFICES ASSUME IInv, UnrollInv, ResumesShort PROVE FALSE
    OBVIOUS
  <2>1. ~held
    BY DEF ResumesShort
  <2>2. PICK k, starts, todo : At(k, starts, todo)
    BY <2>1 DEF UnrollInv
  <2>3. QED
    BY <2>1, <2>2, AtInstruction
<1>3. IInv /\ UnrollInv /\ [Next]_vars => [InstrSet!Next]_(InstrSet!vars)
  BY <1>2, StepExecutesIsa
<1>4. QED
  BY <1>1, <1>3, AlwaysUnrollInv, UnrollImplementsSpec, PTL
     DEF Spec, RefinesIsa, InstrSet!Spec

-----------------------------------------------------------------------------
(* A program comes to its end: every edge writes one more of the values    *)
(* there are to write or, a LOOP, leaves fewer bytes to go.                *)

StoresLeft == Len(Unrolled(source)) - Len(written)
BytesLeft == Address(source, Len(source) + 1) - pc_id

\* Nothing is left at the WAITT behind the program, and something before it.
LeftToDo ==
  ~held => /\ StoresLeft \in Nat /\ BytesLeft \in Nat
           /\ Waitt(instr) <=> StoresLeft = 0 /\ BytesLeft = 0

GetsOn ==
  ~held /\ ~held' =>
    \/ Waitt(instr) /\ UNCHANGED <<pc_id, written>>
    \/ StoresLeft' < StoresLeft
    \/ StoresLeft' = StoresLeft /\ BytesLeft' < BytesLeft

RunsOut == [][GetsOn]_unrollVars

LEMMA LengthsAt ==
  ASSUME IInv, UnrollInv, ~held, NEW k, NEW starts, NEW todo, At(k, starts, todo)
  PROVE  /\ Len(Unrolled(source)) \in Nat /\ Len(written) \in Nat
         /\ Len(written) <= Len(Unrolled(source)) /\ written \in Values
         /\ Address(source, Len(source) + 1) \in Nat /\ pc_id \in Nat
         /\ k <= Len(source) => pc_id < Address(source, Len(source) + 1)
         /\ k > Len(source) => pc_id = Address(source, Len(source) + 1)
<1>1. /\ source \in Seq(Statement) /\ EndsInRam(source)
      /\ k \in 1 .. Len(source) + 1
      /\ k > Len(source) => k = Len(source) + 1
  BY AtInstruction
<1>2. /\ pc_id = Address(source, k)
      /\ Frames(source, LoopStack, starts, todo)
      /\ Accounts(source, k, LoopStack, todo, written)
  BY DEF At
<1>3. written \in Values /\ Unrolled(source) \in Values
  <2>1. Len(source) \in Nat
    BY <1>1
  <2>2. 1 \in 1 .. Len(source) + 1
    BY <2>1
  <2>3. Blocks(source)[1].out \in Values
    BY <1>1, <2>2, BlockFields
  <2>4. QED
    BY <1>2, <2>3 DEF Accounts, Unrolled
<1>4. Len(written) \in Nat /\ Len(Unrolled(source)) \in Nat
  BY <1>3, LenProperties DEF Values
<1>5. Len(written) <= Len(Unrolled(source))
  BY <1>1, <1>2, AccountsPrefix
<1>6. Len(source) \in Nat /\ Len(source) + 1 \in 1 .. Len(source) + 1
  BY <1>1
<1>7. Address(source, Len(source) + 1) \in Nat /\ pc_id \in Nat
  <2>1. Address(source, Len(source) + 1) \in Addr /\ Address(source, k) \in Addr
    BY <1>1, <1>6, ImageAt
  <2>2. QED
    BY <1>2, <2>1, PmccAssumption DEF Addr
<1>8. k <= Len(source) => pc_id < Address(source, Len(source) + 1)
  <2> SUFFICES ASSUME k <= Len(source) PROVE pc_id < Address(source, Len(source) + 1)
    OBVIOUS
  <2>1. k \in 1 .. (Len(source) + 1) - 1
    BY <1>1, <1>6
  <2>2. QED
    BY <1>1, <1>2, <1>6, <2>1, AddressMonotonic
<1>9. QED
  BY <1>1, <1>2, <1>3, <1>4, <1>5, <1>7, <1>8

LEMMA UnrollInvLeft == IInv /\ UnrollInv => LeftToDo
<1> SUFFICES ASSUME IInv, UnrollInv, ~held
             PROVE  /\ StoresLeft \in Nat /\ BytesLeft \in Nat
                    /\ Waitt(instr) <=> StoresLeft = 0 /\ BytesLeft = 0
  BY DEF LeftToDo
<1>1. PICK k, starts, todo : At(k, starts, todo)
  BY DEF UnrollInv
<1>2. /\ Len(Unrolled(source)) \in Nat /\ Len(written) \in Nat
      /\ Len(written) <= Len(Unrolled(source))
      /\ Address(source, Len(source) + 1) \in Nat /\ pc_id \in Nat
      /\ k <= Len(source) => pc_id < Address(source, Len(source) + 1)
      /\ k > Len(source) => pc_id = Address(source, Len(source) + 1)
  BY <1>1, LengthsAt
<1>3. /\ source \in Seq(Statement)
      /\ k \in 1 .. Len(source) + 1
      /\ k <= Len(source) => k \in 1 .. Len(source) /\ instr = source[k]
      /\ k > Len(source) => instr = [op |-> "WAITT", arg |-> 0]
  BY <1>1, AtInstruction
<1>4. k <= Len(source) \/ k > Len(source)
  BY <1>3
<1>5. StoresLeft \in Nat /\ BytesLeft \in Nat
      /\ (k <= Len(source) => BytesLeft # 0)
      /\ (k > Len(source) => BytesLeft = 0)
  <2> DEFINE end == Address(source, Len(source) + 1)
             all == Len(Unrolled(source))
  <2>1. StoresLeft = all - Len(written) /\ BytesLeft = end - pc_id
    BY DEF StoresLeft, BytesLeft
  <2> HIDE DEF end, all
  <2>2. /\ all \in Nat /\ Len(written) \in Nat /\ Len(written) <= all
        /\ end \in Nat /\ pc_id \in Nat
        /\ k <= Len(source) => pc_id < end
        /\ k > Len(source) => pc_id = end
    BY <1>2 DEF end, all
  <2>3. QED
    BY <1>4, <2>1, <2>2
<1>6. k <= Len(source) => ~Waitt(instr)
  <2> SUFFICES ASSUME k <= Len(source) PROVE ~Waitt(instr)
    OBVIOUS
  <2>1. k \in 1 .. Len(source) /\ instr = source[k]
    BY <1>3
  <2>2. source[k].op # "WAITT"
    BY <1>3, <2>1, StatementFields
  <2>3. QED
    BY <2>1, <2>2 DEF Waitt
<1>7. k > Len(source) => Waitt(instr)
  BY <1>3 DEF Waitt
<1>8. Waitt(instr) => StoresLeft = 0
  <2>1. Waitt(instr) => written = Unrolled(source)
    BY UnrollInvWrites DEF WritesUnrolledProgram
  <2>2. QED
    BY <1>2, <2>1 DEF StoresLeft
<1>9. QED
  BY <1>4, <1>5, <1>6, <1>7, <1>8

LEMMA RunGetsOn ==
  ASSUME IInv, UnrollInv, ~held, NEW k, NEW starts, NEW todo, At(k, starts, todo),
         PmccRun(instr, FALSE), UNCHANGED <<program, source>>,
         written' = IF Store(instr) /\ Len(written) <= Len(Unrolled(source))
                      THEN Append(written, instr.arg) ELSE written
  PROVE  GetsOn
<1>1. /\ source \in Seq(Statement) /\ EndsInRam(source)
      /\ k \in 1 .. Len(source) + 1
      /\ k <= Len(source) => k \in 1 .. Len(source) /\ instr = source[k]
      /\ k > Len(source) => instr = [op |-> "WAITT", arg |-> 0]
      /\ ~ResumesShort
  BY AtInstruction
<1>2. /\ Len(Unrolled(source)) \in Nat /\ Len(written) \in Nat
      /\ Len(written) <= Len(Unrolled(source)) /\ written \in Values
      /\ Address(source, Len(source) + 1) \in Nat /\ pc_id \in Nat
      /\ pc_id = Address(source, k)
  BY LengthsAt DEF At
<1> DEFINE end == Address(source, Len(source) + 1)
           all == Len(Unrolled(source))
<1>3. /\ StoresLeft = all - Len(written) /\ StoresLeft' = all - Len(written')
      /\ BytesLeft = end - pc_id /\ BytesLeft' = end - pc_id'
  <2>1. source' = source
    OBVIOUS
  <2>2. QED
    BY <2>1 DEF StoresLeft, BytesLeft
<1>4. all \in Nat /\ end \in Nat
  BY <1>2
<1> HIDE DEF end, all
<1>5. CASE k > Len(source)
  <2>1. Waitt(instr) /\ ~Store(instr)
    BY <1>1, <1>5 DEF Waitt, Store
  <2>2. pc_id' = pc_id
    BY <1>1, <2>1, RunWaits
  <2>3. QED
    BY <2>1, <2>2 DEF GetsOn
<1>6. CASE k <= Len(source) /\ Store(instr)
  <2>1. written' = Append(written, instr.arg) /\ instr.arg \in CtrlValues
    <3>1. k \in 1 .. Len(source) /\ instr = source[k]
      BY <1>1, <1>6
    <3>2. source[k] \in Statement
      BY <1>1, <3>1
    <3>3. instr.arg \in CtrlValues
      BY <1>6, <3>1, <3>2 DEF Statement, Store
    <3>4. QED
      BY <1>2, <1>6, <3>3
  <2>2. Len(written') = Len(written) + 1
    BY <1>2, <2>1, AppendProperties DEF Values
  <2>3. StoresLeft' < StoresLeft
    BY <1>2, <1>3, <1>4, <2>2
  <2>4. QED
    BY <2>3 DEF GetsOn
<1>7. CASE k <= Len(source) /\ ~Store(instr)
  <2>1. k \in 1 .. Len(source) /\ instr = source[k]
    BY <1>1, <1>7
  <2>2. /\ source[k].op = "LOOP"
        /\ ~Branch(source[k]) /\ ~Jump(source[k]) /\ ~Waitt(source[k])
    BY <1>1, <1>7, <2>1, StatementFields DEF Store, Branch, Jump, Waitt
  <2>3. written' = written
    BY <1>7
  <2>4. pc_id' = (pc_id + Bytes(source[k])) % AddrMod
    BY <2>1, <2>2 DEF PmccRun, PcIf, Waiting, BranchExec, Repeats, Following
  <2>5. pc_id' = Address(source, k + 1)
    BY <1>1, <1>2, <2>1, <2>4, NextAddress
  <2>6. Bytes(source[k]) = 2
    BY <2>2 DEF Bytes, Store, IsLoop
  <2>7. pc_id' = pc_id + 2
    BY <1>1, <1>2, <2>1, <2>5, <2>6, AddressStep
  <2>8. StoresLeft' = StoresLeft
    BY <1>3, <2>3
  <2>9. BytesLeft' < BytesLeft
    <3>1. BytesLeft' = end - (pc_id + 2)
      BY <1>3, <2>7
    <3>2. QED
      BY <1>2, <1>3, <1>4, <3>1
  <2>10. QED
    BY <2>8, <2>9 DEF GetsOn
<1>8. k <= Len(source) \/ k > Len(source)
  BY <1>1
<1>9. QED
  BY <1>5, <1>6, <1>7, <1>8

(* A well-formed program that is left to run reaches its end, whatever its *)
(* loops: until it is at the WAITT behind it, every clock edge takes it    *)
(* nearer, as it either writes another of the values that are left or      *)
(* opens a loop, of which there are no more than bytes up to the next      *)
(* store.  It is Completes without the fairness of the clock.              *)
THEOREM ProgramsRunOut == UnrollSpec => []LeftToDo /\ RunsOut
<1>1. IInv /\ UnrollInv /\ [UnrollNext]_unrollVars => [GetsOn]_unrollVars
  <2> SUFFICES ASSUME IInv, UnrollInv, UnrollNext, ~held, ~held' PROVE GetsOn
    BY DEF GetsOn
  <2>1. PICK hold \in BOOLEAN :
          /\ Clock(FALSE, hold)
          /\ written' = IF held \/ hold THEN <<>>
                        ELSE IF Store(instr) /\ Len(written) <= Len(Unrolled(source))
                          THEN Append(written, instr.arg) ELSE written
          /\ UNCHANGED source
    BY DEF UnrollNext
  <2>2. PmccRun(instr, FALSE) /\ UNCHANGED program /\ ~hold
    BY <2>1 DEF Clock
  <2>3. PICK k, starts, todo : At(k, starts, todo)
    BY DEF UnrollInv
  <2>4. QED
    BY <2>1, <2>2, <2>3, RunGetsOn
<1>2. QED
  BY <1>1, UnrollInvLeft, AlwaysUnrollInv, PTL DEF UnrollSpec, RunsOut

=============================================================================
