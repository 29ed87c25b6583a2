-------------------------------- MODULE Pmc --------------------------------
(***************************************************************************)
(* The pixel matrix controller: the control, status and data registers on  *)
(* the data bus, the dual-port code RAM and, through Pmcc, the coprocessor *)
(* that runs from it and drives the control lines of the matrix.           *)
(*                                                                         *)
(* One step is one clock edge.  The bus presents at most one access per    *)
(* cycle; a read returns what the registers hold in the cycle of the       *)
(* request, a write changes them at the edge that ends it.                 *)
(*                                                                         *)
(* Left out: the analog and digital configuration registers, DIN_1/DOUT_1  *)
(* (the upper 32 columns) and the read-back copy of the control lines,     *)
(* none of which feeds anything modelled here.                             *)
(***************************************************************************)
EXTENDS Pmcc, DataBus

VARIABLES
  mem,      \* bytes of the code RAM
  instr,    \* its registered instruction output, decoded
  cr,       \* control register: enable, reset, trigger
  sr_wtt,   \* status register: the coprocessor waits for a trigger
  din_0,    \* data presented to the matrix
  dout_0    \* data last sampled from it

pmcVars == <<pmccVars, mem, instr, cr, sr_wtt, din_0, dout_0>>

Byte == 0 .. 255

\* A byte of the RAM that was never written.
Unwritten == 256

-----------------------------------------------------------------------------
(* Instruction bytes: the class is in the top three bits of the first; a   *)
(* STORE carries its value low byte first, LOOP and JUMP a number whose    *)
(* high bits share the first byte.                                         *)

Number(b0, b1) == (b0 % 64) * 256 + b1

Decode(b0, b1, b2) ==
  LET class == b0 \div 32
  IN  CASE class \in {6, 7} /\ {b1, b2} \subseteq Byte ->
             [op |-> "STORE", arg |-> b2 * 256 + b1]
        [] class \in {4, 5} /\ {b1, b2} \subseteq Byte ->
             [op |-> "STOREB", arg |-> b2 * 256 + b1]
        [] class \in {2, 3} /\ b1 \in Byte ->
             [op |-> "LOOP", arg |-> Number(b0, b1) % IterMod]
        [] class = 1 /\ b1 \in Byte ->
             [op |-> "JUMP", arg |-> Number(b0, b1) % AddrMod]
        [] class = 0 -> [op |-> "WAITT", arg |-> 0]
        [] OTHER -> [op |-> "UNKNOWN", arg |-> 0]

ByteAt(a) == IF a \in DOMAIN mem THEN mem[a] ELSE Unwritten

Fetch(a) == Decode(ByteAt(a), ByteAt(a + 1), ByteAt(a + 2))

\* The instruction port reads before a write of the same cycle lands.
CodeRamClock(access, pc_if) ==
  /\ instr' = Fetch(pc_if)
  /\ mem' = IF Writes(access, "PMCC_CODE_RAM")
              THEN [a \in DOMAIN mem |->
                      IF a \div 4 = access.wdata.word THEN access.wdata.bytes[(a % 4) + 1]
                      ELSE mem[a]]
              ELSE mem

-----------------------------------------------------------------------------
(* Registers. *)

InReset(c) == ~(c.en /\ ~c.rst)

\* trg and rst last one cycle: in the cycle they are set, a write that sets
\* them again is lost.
CrNxt(access) ==
  LET written == IF Writes(access, "PMC_CR") THEN access.wdata ELSE cr
  IN  [written EXCEPT !.trg = @ /\ ~cr.trg, !.rst = @ /\ ~cr.rst]

PmcClock(access, dout) ==
  /\ cr' = CrNxt(access)
  /\ sr_wtt' = Waitt(instr)
  /\ din_0' = IF Writes(access, "PMC_DIN_0") THEN access.wdata ELSE din_0
  /\ dout_0' = dout
  /\ CodeRamClock(access, PcIf(instr, cr.trg, InReset(cr)))
  /\ IF InReset(cr) \/ InReset(cr') THEN PmccReset ELSE PmccRun(instr, cr.trg)

PmcInit ==
  /\ PmccInit
  /\ mem = [a \in Addr |-> Unwritten]
  /\ instr = [op |-> "UNKNOWN", arg |-> 0]
  /\ cr = [en |-> FALSE, rst |-> FALSE, trg |-> FALSE]
  /\ sr_wtt = FALSE
  /\ din_0 = 0
  /\ dout_0 = 0

PmcTypeOK ==
  /\ PmccTypeOK
  /\ mem \in [Addr -> Byte \cup {Unwritten}]
  /\ cr \in [en : BOOLEAN, rst : BOOLEAN, trg : BOOLEAN]
  /\ sr_wtt \in BOOLEAN

=============================================================================
