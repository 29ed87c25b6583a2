------------------------------- MODULE MCPmc -------------------------------
EXTENDS PmcSystem

MCCtrlValues == 0 .. 65535

MCLifoPowerUp == {[k \in 0 .. LifoDepth - 1 |-> [start |-> 0, iterations |-> 0]]}

=============================================================================
