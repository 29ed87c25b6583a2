------------------------------- MODULE StartUp -------------------------------
(***************************************************************************)
(* The start-up code of the bootloader and of the application: it clears   *)
(* .bss, copies the initial values of .data from the code memory to RAM    *)
(* and calls the constructors of the objects, in the order of .init_array. *)
(*                                                                         *)
(* Memory is counted in words.  link.ld puts .data at the start of the RAM *)
(* and .bss right after it.  The constructors leave t0 and t1 alone, where *)
(* the code keeps its place in .init_array: those of the programs in       *)
(* sw/build do.                                                            *)
(***************************************************************************)
EXTENDS Naturals, Sequences

CONSTANTS
  RamWords,          \* words of the RAM, more than the sections take
  MaxSection,        \* most words in a section, and most constructors
  Following,         \* what may follow the initial values in the code memory
  Uninitialised      \* what the RAM holds after power-up

ASSUME StartUpAssumption ==
  MaxSection \in Nat /\ RamWords \in Nat /\ RamWords > 2 * MaxSection

VARIABLES
  step,                                    \* where in the code
  pointer,                                 \* the pointer of the loop, in words
  ram,
  data_size, bss_size, init_array_size,    \* what the linker found
  image,                                   \* the code memory from _sidata on
  constructed                              \* constructors called

layout      == <<data_size, bss_size, init_array_size, image>>
startUpVars == <<step, pointer, ram, layout, constructed>>

data_start == 0
data_end   == data_size
bss_start  == data_size
bss_end    == data_size + bss_size

-----------------------------------------------------------------------------
\* (slip) A word of the section is left out.
LastWordEarly(end) == pointer + 2 >= end

\* Both loops test their pointer after it has been advanced, with ble.
LastWord(end) == pointer + 1 > end

ClearsBss ==
  /\ step = "clear_bss"
  /\ ram' = IF bss_start >= bss_end THEN ram ELSE [ram EXCEPT ![pointer] = 0]
  /\ IF bss_start >= bss_end \/ LastWord(bss_end)
       THEN step' = "copy_data" /\ pointer' = data_start
       ELSE pointer' = pointer + 1 /\ UNCHANGED step
  /\ UNCHANGED <<layout, constructed>>

CopiesData ==
  /\ step = "copy_data"
  /\ ram' = IF data_start >= data_end THEN ram ELSE [ram EXCEPT ![pointer] = image[pointer]]
  /\ IF data_start >= data_end \/ LastWord(data_end)
       THEN step' = "construct" /\ pointer' = 0
       ELSE pointer' = pointer + 1 /\ UNCHANGED step
  /\ UNCHANGED <<layout, constructed>>

\* This loop tests its pointer with blt.
ConstructsObjects ==
  /\ step = "construct"
  /\ constructed' = IF init_array_size = 0 THEN constructed ELSE Append(constructed, pointer)
  /\ IF pointer + 1 >= init_array_size THEN step' = "main" ELSE UNCHANGED step
  /\ pointer' = pointer + 1
  /\ UNCHANGED <<ram, layout>>

RunsMain == step = "main" /\ UNCHANGED startUpVars

StartUpInit ==
  /\ data_size \in 0 .. MaxSection
  /\ bss_size \in 0 .. MaxSection
  /\ init_array_size \in 0 .. MaxSection
  /\ \E word \in Following :
       image = [i \in 0 .. MaxSection |-> IF i < data_size THEN i + 1 ELSE word]
  /\ ram = [i \in 0 .. RamWords - 1 |-> Uninitialised]
  /\ step = "clear_bss"
  /\ pointer = bss_start
  /\ constructed = <<>>

StartUpNext == ClearsBss \/ CopiesData \/ ConstructsObjects \/ RunsMain

StartUpSpec == StartUpInit /\ [][StartUpNext]_startUpVars

-----------------------------------------------------------------------------
(* When the first constructor runs every initialised object has its value, *)
(* although .bss is cleared first and a word too far.                      *)
DataInitialised ==
  step \in {"construct", "main"} =>
    \A i \in data_start .. data_end - 1 : ram[i] = image[i]

BssIsZero == \A i \in bss_start .. bss_end - 1 : ram[i] = 0

(* What the source says of the first loop, "BSS clearing": objects without *)
(* an initialiser are zero when the first constructor runs.  They are not: *)
(* where there is .data, its copy ends in the first word of .bss.          *)
BssCleared == step \in {"construct", "main"} => BssIsZero

\* The word the copy of .data spoils.
Spoiled(i) == i = bss_start /\ data_size > 0

(* What holds of .bss: it is zero but for that one word, and all of it in  *)
(* a program without initialised data, as those of the repository are.     *)
BssClearedButFirst ==
  step \in {"construct", "main"} =>
    \A i \in bss_start .. bss_end - 1 : ram[i] = 0 \/ Spoiled(i)

(* Neither loop goes further than one word past the end of its section.    *)
SpillsOneWord == \A i \in DOMAIN ram : i > bss_end => ram[i] = Uninitialised

(* Every constructor runs once, in order, before main().                   *)
ConstructedOnce ==
  step = "main" => constructed = [k \in 1 .. init_array_size |-> k - 1]

(* What main() finds, in RAM and of its objects.                           *)
ReadyForMain ==
  DataInitialised /\ BssClearedButFirst /\ SpillsOneWord /\ ConstructedOnce

=============================================================================
