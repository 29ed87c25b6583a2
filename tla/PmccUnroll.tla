----------------------------- MODULE PmccUnroll -----------------------------
(***************************************************************************)
(* PmccLoops over well-formed loop programs: their loops are closed, fit   *)
(* the LIFO, and one that ends inside another is followed by the STOREB    *)
(* that closes the outer loop or by another LOOP.  The values such a       *)
(* program writes to the control lines are compared with the ones its      *)
(* loops, unrolled on paper, would write.                                  *)
(***************************************************************************)
EXTENDS PmccLoops, Integers, SequencesExt

CONSTANT Sources   \* the programs, each the sequence of its instructions

Statement ==
       [op : {"STORE", "STOREB"}, arg : CtrlValues]
  \cup [op : {"LOOP"}, arg : Iters \ {0}]

\* Where instruction k of p starts: the ones before it are two or three bytes.
Address(p, k) == 2 * (k - 1) + Cardinality({j \in 1 .. k - 1 : Store(p[j])})

\* The code RAM with p at its start; past the program it is zero, a WAITT.
Image(p) ==
  [a \in Addr |->
     IF \E k \in DOMAIN p : Address(p, k) = a
       THEN p[CHOOSE k \in DOMAIN p : Address(p, k) = a]
       ELSE [op |-> "WAITT", arg |-> 0]]

\* Loops open after the first k instructions of p.
Depth(p, k) == Cardinality({j \in 1 .. k : IsLoop(p[j])})
             - Cardinality({j \in 1 .. k : Branch(p[j])})

WellFormed(p) ==
  /\ Depth(p, Len(p)) = 0
  /\ \A k \in DOMAIN p : Depth(p, k) \in 0 .. LifoDepth + 1
  /\ \A k \in DOMAIN p : Branch(p[k]) /\ Depth(p, k) > 0 => p[k + 1].op # "STORE"

\* The program and the WAITT behind it are in the RAM.
EndsInRam(p) == Address(p, Len(p) + 1) \in Addr

ASSUME SourcesAssumption ==
  \A p \in Sources :
    p \in Seq(Statement) /\ WellFormed(p) /\ EndsInRam(p) /\ Image(p) \in Programs

-----------------------------------------------------------------------------
(* Unrolling. *)

Repeated(out, n) == [i \in 1 .. n * Len(out) |-> out[((i - 1) % Len(out)) + 1]]

\* The stores of the block of p that starts at instruction k, up to the STOREB
\* that closes it, and the instruction after the block, from the later blocks.
BlockAt(p, k, block) ==
  IF k > Len(p) THEN [out |-> <<>>, next |-> k]
  ELSE CASE Branch(p[k]) -> [out |-> <<p[k].arg>>, next |-> k + 1]
         [] p[k].op = "STORE" ->
              [out |-> <<p[k].arg>> \o block[k + 1].out, next |-> block[k + 1].next]
         [] IsLoop(p[k]) ->
              LET body == block[k + 1]
                  rest == block[body.next]
              IN  [out |-> Repeated(body.out, p[k].arg) \o rest.out, next |-> rest.next]

Blocks(p) ==
  LET block[k \in 1 .. Len(p) + 1] == BlockAt(p, k, block)
  IN  block

Unrolled(p) == Blocks(p)[1].out

-----------------------------------------------------------------------------
VARIABLES
  source,   \* the program in the code RAM
  written   \* values stored since the reset was released, one too many at most

unrollVars == <<vars, source, written>>

UnrollInit ==
  /\ source \in Sources
  /\ program = Image(source)
  /\ instr = program[0]
  /\ held = TRUE
  /\ PmccInit
  /\ written = <<>>

\* Run the program once: it stays at the WAITT behind its last instruction.
UnrollNext ==
  \E hold \in BOOLEAN :
    /\ Clock(FALSE, hold)
    /\ written' = IF held \/ hold THEN <<>>
                  ELSE IF Store(instr) /\ Len(written) <= Len(Unrolled(source))
                    THEN Append(written, instr.arg) ELSE written
    /\ UNCHANGED source

UnrollSpec == UnrollInit /\ [][UnrollNext]_unrollVars /\ WF_unrollVars(UnrollNext)

(* A well-formed program writes to the control lines exactly the values of *)
(* its unrolled loops, in that order, and at its end nothing is missing:   *)
(* the body of each LOOP n ran n times for each time round the loops that  *)
(* enclose it, and the controller is back outside all loops.               *)
WritesUnrolledProgram ==
  /\ IsPrefix(written, Unrolled(source))
  /\ ~held /\ Waitt(instr) => /\ written = Unrolled(source)
                              /\ ~loop_execution

(* A program that is left to run reaches its end.                          *)
Completes == <>[](~held) => <>(Waitt(instr) /\ ~held)

-----------------------------------------------------------------------------
(* The instance that is model-checked: every such program of up to         *)
(* MaxLength instructions with the iteration counts Counts, each store of  *)
(* which writes its own position.                                          *)

CONSTANTS MaxLength, Counts

Shapes(n) ==
  {[k \in 1 .. n |-> IF IsLoop(s[k]) THEN s[k] ELSE [s[k] EXCEPT !.arg = k]]
     : s \in [1 .. n -> [op : {"LOOP"}, arg : Counts]
                       \cup [op : {"STORE", "STOREB"}, arg : {0}]]}

MCSources == {p \in UNION {Shapes(n) : n \in 1 .. MaxLength} : WellFormed(p)}

MCPrograms == {Image(p) : p \in MCSources}

MCCtrlValues == 0 .. MaxLength

MCLifoPowerUp == {[k \in 0 .. LifoDepth - 1 |-> [start |-> 1, iterations |-> 3]]}

=============================================================================
