------------------------------- MODULE MCBoot -------------------------------
EXTENDS Bootloader

MCImage == [spi |-> <<"s1", "s2", "s3", "s4">>, uart |-> <<"u1", "u2", "u3", "u4">>]

MCBytes == {"s1", "s2", "s3", "s4", "u1", "u2", "u3", "u4"}

MCPowerUpWord == <<"p", "p">>

=============================================================================
