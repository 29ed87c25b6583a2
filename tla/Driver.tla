------------------------------- MODULE Driver -------------------------------
(***************************************************************************)
(* The processor (external) as the peripherals see it.  A driver call is a *)
(* sequence of bus accesses, todo, that the processor works off in order;  *)
(* between two of them any number of cycles may pass, but no fewer than    *)
(* the instructions between them take.  A poll is repeated until what it   *)
(* reads lets the driver go on.  Every access is granted at once.          *)
(***************************************************************************)
EXTENDS DataBus, Naturals, Sequences

CONSTANTS
  AccessGap,   \* cycles from an access to one by another pointer: the driver
               \* objects are volatile, so that pointer is loaded in between
  UpdateGap    \* cycles from the load to the store of a bit-field update

ASSUME GapAssumption == AccessGap \in Nat \ {0} /\ UpdateGap \in Nat \ {0}

VARIABLES
  api,    \* the driver call in progress, or "none"
  todo,   \* the accesses it still has to make
  gap     \* cycles since the last access, as far as they are counted

driverVars == <<api, todo, gap>>

LoadFrom(reg)      == [op |-> "load", reg |-> reg]
StoreTo(reg, data) == [op |-> "store", reg |-> reg, data |-> data]
PollOf(reg)        == [op |-> "poll", reg |-> reg]

\* A bit-field assignment loads the register and stores it back.
Update(reg, field, value) ==
  <<LoadFrom(reg), [op |-> "store_back", reg |-> reg, field |-> field, data |-> value]>>

Call(name, script) ==
  /\ api = "none"
  /\ api' = name
  /\ todo' = script

Due ==
  /\ todo # <<>>
  /\ gap >= IF Head(todo).op = "store_back" THEN UpdateGap ELSE AccessGap

\* The access at the head of todo is made; a poll may have to be made again.
Retire(again) ==
  /\ todo' = IF again THEN todo ELSE Tail(todo)
  /\ api' = IF todo' = <<>> THEN "none" ELSE api

\* The access on the bus; loaded is the register as last loaded for an update.
AccessDue(loaded) ==
  LET a == Head(todo)
  IN  CASE a.op \in {"load", "poll"} -> ReadOf(a.reg)
        [] a.op = "store" -> WriteOf(a.reg, a.data)
        [] a.op = "store_back" -> WriteOf(a.reg, [loaded EXCEPT ![a.field] = a.data])

Pace(access, longest) ==
  gap' = IF access # NoAccess THEN 1 ELSE IF gap < longest THEN gap + 1 ELSE gap

DriverInit ==
  /\ api = "none"
  /\ todo = <<>>
  /\ gap = AccessGap

=============================================================================
