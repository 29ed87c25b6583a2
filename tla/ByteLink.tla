------------------------------ MODULE ByteLink ------------------------------
(***************************************************************************)
(* What the receiving half of the UART promises the software: bytes come   *)
(* in the order they were sent, each put in RDR with rxne up; taking the   *)
(* byte brings rxne down; a byte that comes before the last one is taken   *)
(* replaces it.                                                            *)
(*                                                                         *)
(* UartBoot shows that the peripheral, cycle by cycle, keeps this promise. *)
(* Bootloader and CommandInterpreter are built on it.                      *)
(***************************************************************************)
EXTENDS Sequences, Naturals

CONSTANTS
  LinkBytes,   \* bytes the peer sends
  NoData       \* what RDR holds after a reset

VARIABLES
  inflight,   \* bytes sent and not yet received
  rdr,        \* the byte received last
  rxne        \* it has not been taken yet

linkVars == <<inflight, rdr, rxne>>

LinkInit == inflight = <<>> /\ rdr = NoData /\ rxne = FALSE

\* In one cycle a byte may be sent, another arrive and a third be taken; one
\* that arrives as another is taken stays.
LinkStep(sent, arrives, takes) ==
  /\ arrives => inflight # <<>>
  /\ inflight' = (IF arrives THEN Tail(inflight) ELSE inflight) \o sent
  /\ rdr' = IF arrives THEN Head(inflight) ELSE rdr
  /\ rxne' = (arrives \/ (rxne /\ ~takes))

LinkNext ==
  \E sent \in {<<>>} \union {<<b>> : b \in LinkBytes} :
    \E arrives, takes \in BOOLEAN : LinkStep(sent, arrives, takes)

LinkSpec == LinkInit /\ [][LinkNext]_linkVars

\* The same at the pace of whole bytes, for software that is faster: the byte
\* arrives in the step it is sent, and is taken in a step of its own.
Delivers(byte) == rdr' = byte /\ rxne' = TRUE /\ UNCHANGED inflight

\* (slip) The byte taken can be taken again.
TakesAgain == rxne /\ UNCHANGED <<rdr, rxne, inflight>>

Takes == rxne /\ rxne' = FALSE /\ UNCHANGED <<rdr, inflight>>

=============================================================================
