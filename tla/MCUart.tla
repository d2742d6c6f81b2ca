------------------------------- MODULE MCUart -------------------------------
\* One receive handler, both halves of its address non-zero.
EXTENDS Uart

MCHandlers == {<<1, 1>>}
MCData == 0 .. MaxRx
=============================================================================
