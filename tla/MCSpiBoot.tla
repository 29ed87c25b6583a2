------------------------------ MODULE MCSpiBoot ------------------------------
EXTENDS SpiBoot, TLC

\* Two memories, each with no two bytes alike.
MCContents ==
  {(0 :> (0 :> <<0, 0, 1>> @@ 1 :> <<1, 1, 0>>)) @@ (1 :> (0 :> <<1, 1, 1>> @@ 1 :> <<1, 0, 0>>)),
   (0 :> (0 :> <<1, 0, 1>> @@ 1 :> <<0, 1, 0>>)) @@ (1 :> (0 :> <<0, 0, 0>> @@ 1 :> <<0, 1, 1>>))}

=============================================================================
