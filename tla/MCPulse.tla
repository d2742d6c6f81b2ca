------------------------------ MODULE MCPulse ------------------------------
\* Bytes of three values, so that counts and half periods need both of two.
EXTENDS Pulse

MCOne == {"A"}
MCBoth == {"A", "B"}
=============================================================================
