------------------------------ MODULE MCUartSw ------------------------------
\* Bytes of two bits, of six tics each, through a buffer of one byte.
EXTENDS UartSw

MCCompare == {"A", "B"}
=============================================================================
