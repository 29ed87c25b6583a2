------------------------------- MODULE DataBus -------------------------------
(***************************************************************************)
(* An access on the data bus as the addressed peripheral sees it: for one  *)
(* cycle the offset decoder names the register and we tells a write from a *)
(* read.  What a read returns is what the register holds in that cycle, a  *)
(* write changes it at the edge that ends the cycle.                       *)
(***************************************************************************)

NoAccess == [reg |-> "NONE", we |-> FALSE]

ReadOf(reg) == [reg |-> reg, we |-> FALSE]

WriteOf(reg, data) == [reg |-> reg, we |-> TRUE, wdata |-> data]

Writes(access, reg) == access.we /\ access.reg = reg

=============================================================================
