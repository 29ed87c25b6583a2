---------------------------- MODULE MCPmccLoops ----------------------------
(***************************************************************************)
(* PmccLoops over every short program, whatever its loops look like.       *)
(***************************************************************************)
EXTENDS PmccLoops, SequencesExt

CONSTANT MaxLength   \* instructions in a program

\* Instruction k of a source sequence starts where the ones before it end;
\* the RAM past the program is zero, which reads as WAITT.
Image(source) ==
  LET starts[k \in DOMAIN source] == IF k = 1 THEN 0 ELSE starts[k - 1] + Bytes(source[k - 1])
      at == [k \in DOMAIN source |-> starts[k]]
  IN  [a \in Addr |->
         IF \E k \in DOMAIN source : at[k] = a
           THEN source[CHOOSE k \in DOMAIN source : at[k] = a]
           ELSE [op |-> "WAITT", arg |-> 0]]

Sources ==
  UNION {[1 .. n -> {[op |-> "LOOP", arg |-> 0], [op |-> "LOOP", arg |-> 2],
                     [op |-> "STOREB", arg |-> 1], [op |-> "STORE", arg |-> 0],
                     [op |-> "JUMP", arg |-> 0], [op |-> "WAITT", arg |-> 0]}]
           : n \in 1 .. MaxLength}

MCPrograms == {Image(s) : s \in Sources}

MCCtrlValues == {0, 1}

MCLifoPowerUp == {[k \in 0 .. LifoDepth - 1 |-> [start |-> 1, iterations |-> 3]]}

=============================================================================
