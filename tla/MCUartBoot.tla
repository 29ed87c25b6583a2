----------------------------- MODULE MCUartBoot -----------------------------
EXTENDS UartBoot

MCPeerBytes == {<<0, 0>>, <<0, 1>>, <<1, 0>>}
MCNewline   == <<1, 0>>
MCPrompt    == <<0, 1>>

=============================================================================
