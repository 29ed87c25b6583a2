--------------------------------- MODULE Bus ---------------------------------
(***************************************************************************)
(* The two buses of the processor: the arbiters that decode an address,    *)
(* the slaves that grant and answer, and the boot ROM and the code RAM,    *)
(* which are slaves of both buses but have one port.                       *)
(*                                                                         *)
(* A request is granted in the cycle it is seen, or stays up; the answer   *)
(* comes in the cycle after the grant.  One step is one clock edge.        *)
(*                                                                         *)
(* An address is a slave and a word.  Bytes of a word are not told apart,  *)
(* and a peripheral is its readable and writable registers only.           *)
(*                                                                         *)
(* A definition marked "slip" is not the code's: it is a mistake the       *)
(* definition after it could have had, kept to try the properties on.      *)
(***************************************************************************)
EXTENDS Naturals

CONSTANTS
  Peripherals,  \* slaves that are neither of the memories (GPIO, SPI, ...)
  Words,        \* words of a slave's address space, 0 included
  Mapped,       \* the words at which a peripheral has a register
  Values,       \* what a word may hold, 0 included
  Loads, Stores,  \* data accesses of the software
  Fetches,      \* addresses it fetches from
  PowerUp,      \* what the slaves and their read ports may hold at first
  MaxAccesses   \* accesses the instructions in the prefetch buffer may make

Memories  == {"BOOT_ROM", "CODE_RAM", "DATA_RAM"}
Slaves    == Memories \cup Peripherals
Fetchable == {"BOOT_ROM", "CODE_RAM"}

\* A request decoded by no slave has slave "NONE".
Load  == [slave : Slaves \cup {"NONE"}, word : Words, we : {FALSE}]
Store == [slave : Slaves \cup {"NONE"}, word : Words, we : {TRUE}, wdata : Values]

NoRequest == [slave |-> "NONE", we |-> FALSE]

ASSUME BusAssumption ==
  /\ Peripherals \cap (Memories \cup {"NONE"}) = {}
  /\ 0 \in Words /\ Mapped \subseteq Words
  /\ 0 \in Values
  /\ Loads \subseteq Load /\ Stores \subseteq Store /\ Fetches \subseteq Load
  /\ PowerUp \subseteq [mem : [Slaves -> [Words -> Values]], rdata : [Slaves -> Values]]
  /\ MaxAccesses \in Nat

VARIABLES
  mem,               \* what each slave holds
  rdata,             \* its registered read port
  data_rvalid, instr_rvalid,   \* slaves answering in this cycle
  data_responding, instr_responding,   \* slaves the answers are taken from
  data_req, instr_req,         \* requests of the processor
  accesses,          \* data accesses its prefetched instructions may still make
  data_due, instr_due   \* history: values of which one is to be answered now

busVars == <<mem, rdata, data_rvalid, instr_rvalid, data_responding, instr_responding>>
vars == <<busVars, data_req, instr_req, accesses, data_due, instr_due>>

-----------------------------------------------------------------------------
(* Decoding and granting.  The instruction bus reaches two memories only,  *)
(* and there a data access goes first.                                     *)

DataSelects(s) == data_req.slave = s

\* (slip) The code RAM is left out of the decoder.
InstrSelectsRom(s) == instr_req.slave = s /\ s = "BOOT_ROM"

InstrSelects(s) == instr_req.slave = s /\ s \in Fetchable

DataGnt(s) == DataSelects(s) /\ (s \in Memories \/ data_req.word \in Mapped)

\* (slip) A fetch is granted, and answered, whoever has the port.
InstrGntAlways(s) == InstrSelects(s)

InstrGnt(s) == InstrSelects(s) /\ ~DataSelects(s)

DataGranted  == \E s \in Slaves : DataGnt(s)
InstrGranted == \E s \in Slaves : InstrGnt(s)

-----------------------------------------------------------------------------
(* What the processor sees. *)

DataRvalid  == data_responding \in data_rvalid
InstrRvalid == instr_responding \in instr_rvalid
DataRdata   == rdata[data_responding]
InstrRdata  == rdata[instr_responding]

-----------------------------------------------------------------------------
(* The edge. *)

\* Both memories have one read port for both buses.  The ROM reads in every
\* cycle, word 0 if nothing is asked of it, the others when they are accessed.
RdataNxt(s) ==
  CASE DataGnt(s) -> mem[s][data_req.word]
    [] InstrGnt(s) -> mem[s][instr_req.word]
    [] ~DataGnt(s) /\ ~InstrGnt(s) /\ s = "BOOT_ROM" -> mem[s][0]
    [] OTHER -> rdata[s]

\* The ROM takes no writes.
MemNxt(s) ==
  IF DataGnt(s) /\ data_req.we /\ s # "BOOT_ROM"
    THEN [mem[s] EXCEPT ![data_req.word] = data_req.wdata]
    ELSE mem[s]

\* (slip) The slave asked first is remembered for good.
DataRespondingNxtKept ==
  IF data_req.slave = "NONE" \/ data_responding # "NONE" THEN data_responding
  ELSE data_req.slave

\* The slave asked is remembered whether it has granted or not.
DataRespondingNxt == data_req.slave

InstrRespondingNxt == IF instr_req.slave \in Fetchable THEN instr_req.slave ELSE "NONE"

BusClock ==
  /\ mem' = [s \in Slaves |-> MemNxt(s)]
  /\ rdata' = [s \in Slaves |-> RdataNxt(s)]
  /\ data_rvalid' = {s \in Slaves : DataGnt(s)}
  /\ instr_rvalid' = {s \in Slaves : InstrGnt(s)}
  /\ data_responding' = DataRespondingNxt
  /\ instr_responding' = InstrRespondingNxt

-----------------------------------------------------------------------------
(* The processor (external).  A request stays up until it is granted; what *)
(* a prefetched instruction accesses is two words at most, the two halves  *)
(* of a misaligned one.                                                    *)

CpuFetches ==
  instr_req' \in IF instr_req # NoRequest /\ ~InstrGranted
                   THEN {instr_req} ELSE {NoRequest} \cup Fetches

CpuAccesses ==
  LET room == IF InstrRvalid THEN accesses + 2 ELSE accesses
      left == IF room > MaxAccesses THEN MaxAccesses ELSE room
  IN  \/ /\ data_req # NoRequest /\ ~DataGranted
         /\ UNCHANGED data_req
         /\ accesses' = left
      \/ /\ data_req = NoRequest \/ DataGranted
         /\ data_req' = NoRequest
         /\ accesses' = left
      \/ /\ data_req = NoRequest \/ DataGranted
         /\ left > 0
         /\ data_req' \in Loads \cup Stores
         /\ accesses' = left - 1

\* What a request granted now is to be answered.
Expect ==
  /\ data_due' = IF ~DataGranted THEN {}
                 ELSE IF data_req.we THEN Values ELSE {mem[data_req.slave][data_req.word]}
  /\ instr_due' = IF InstrGranted THEN {mem[instr_req.slave][instr_req.word]} ELSE {}

Init ==
  /\ \E p \in PowerUp : mem = p.mem /\ rdata = p.rdata
  /\ data_rvalid = {} /\ instr_rvalid = {}
  /\ data_responding = "NONE" /\ instr_responding = "NONE"
  /\ data_req = NoRequest /\ instr_req = NoRequest
  /\ accesses = 0
  /\ data_due = {} /\ instr_due = {}

Next == BusClock /\ CpuFetches /\ CpuAccesses /\ Expect

\* The clock never stops.
Spec == Init /\ [][Next]_vars /\ WF_vars(Next)

-----------------------------------------------------------------------------
TypeOK ==
  /\ mem \in [Slaves -> [Words -> Values]]
  /\ rdata \in [Slaves -> Values]
  /\ data_rvalid \subseteq Slaves /\ instr_rvalid \subseteq Slaves
  /\ data_responding \in Slaves \cup {"NONE"}
  /\ instr_responding \in Fetchable \cup {"NONE"}
  /\ data_req \in Load \cup Store \cup {NoRequest}
  /\ instr_req \in Load \cup {NoRequest}
  /\ accesses \in 0 .. MaxAccesses
  /\ data_due \subseteq Values /\ instr_due \subseteq Values

(* Every granted data access is answered in the next cycle, no other cycle *)
(* brings an answer, and the answer is what the addressed word held, also  *)
(* when the memory served a fetch in between.                              *)
DataAnswered ==
  /\ DataRvalid <=> data_due # {}
  /\ DataRvalid => DataRdata \in data_due

(* So is every granted fetch: an instruction is never taken from a word    *)
(* that the data bus read through the port they share, nor from before a   *)
(* store that the memory took first.                                       *)
InstrAnswered ==
  /\ InstrRvalid <=> instr_due # {}
  /\ InstrRvalid => InstrRdata \in instr_due

(* A fetch from a memory is granted in the end: the data accesses that go  *)
(* first are those of instructions fetched before it, and they run out.    *)
FetchGranted ==
  instr_req.slave \in Fetchable ~> InstrGranted

=============================================================================
