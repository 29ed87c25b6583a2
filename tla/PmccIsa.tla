------------------------------- MODULE PmccIsa -------------------------------
(***************************************************************************)
(* What a program of the pixel matrix coprocessor means: one instruction   *)
(* per step, with the loops it is inside of kept on a stack.  LOOP n opens *)
(* a loop whose body ends at the STOREB that closes it and runs n times;   *)
(* the innermost loop is the last frame of the stack.                      *)
(*                                                                         *)
(* The stack has room for LifoDepth + 1 loops; a LOOP met with no room     *)
(* left replaces the innermost one.                                        *)
(***************************************************************************)
EXTENDS Naturals, Sequences

CONSTANTS AddrMod, LifoDepth

VARIABLES program, pc, stack, ctrl

vars == <<program, pc, stack, ctrl>>

Instruction == program[pc]

Innermost == stack[Len(stack)]

After(bytes) == (pc + bytes) % AddrMod

Init ==
  /\ pc = 0
  /\ stack = <<>>
  /\ ctrl = 0

Reset ==
  /\ pc' = 0
  /\ stack' = <<>>
  /\ ctrl' = 0
  /\ UNCHANGED program

\* WAITT, at the trigger.
Proceed ==
  /\ Instruction.op = "WAITT"
  /\ pc' = After(1)
  /\ UNCHANGED <<program, stack, ctrl>>

JumpTo ==
  /\ Instruction.op = "JUMP"
  /\ pc' = Instruction.arg
  /\ UNCHANGED <<program, stack, ctrl>>

SkipLoop ==
  /\ Instruction.op = "LOOP" /\ Instruction.arg = 0
  /\ pc' = After(2)
  /\ UNCHANGED <<program, stack, ctrl>>

EnterLoop ==
  /\ Instruction.op = "LOOP" /\ Instruction.arg # 0
  /\ pc' = After(2)
  /\ LET frame == [start |-> After(2), iterations |-> Instruction.arg - 1]
     IN  stack' = IF Len(stack) <= LifoDepth
                    THEN Append(stack, frame)
                    ELSE [stack EXCEPT ![Len(stack)] = frame]
  /\ UNCHANGED <<program, ctrl>>

WriteControl ==
  /\ \/ Instruction.op = "STORE"
     \/ Instruction.op = "STOREB" /\ stack = <<>>
  /\ pc' = After(3)
  /\ ctrl' = Instruction.arg
  /\ UNCHANGED <<program, stack>>

Iterate ==
  /\ Instruction.op = "STOREB"
  /\ stack # <<>> /\ Innermost.iterations # 0
  /\ pc' = Innermost.start
  /\ stack' = [stack EXCEPT ![Len(stack)].iterations = @ - 1]
  /\ ctrl' = Instruction.arg
  /\ UNCHANGED program

LeaveLoop ==
  /\ Instruction.op = "STOREB"
  /\ stack # <<>> /\ Innermost.iterations = 0
  /\ pc' = After(3)
  /\ stack' = SubSeq(stack, 1, Len(stack) - 1)
  /\ ctrl' = Instruction.arg
  /\ UNCHANGED program

Execute ==
  \/ Proceed
  \/ JumpTo
  \/ SkipLoop
  \/ EnterLoop
  \/ WriteControl
  \/ Iterate
  \/ LeaveLoop

Next == Reset \/ Execute

Spec == Init /\ [][Next]_vars

=============================================================================
