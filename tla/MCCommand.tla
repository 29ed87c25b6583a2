----------------------------- MODULE MCCommand -----------------------------
EXTENDS CommandInterpreter

\* Names that share beginnings.
MCCommandNames ==
  [help |-> <<"h">>, set_led |-> <<"s">>, read_matrix |-> <<"h", "s">>,
   calibrate_matrix |-> <<"s", "h">>]

MCChars == {"h", "s", "0", "3", "\n"}

MCStackTails == {<<>>, <<"3">>, <<"h">>}

=============================================================================
