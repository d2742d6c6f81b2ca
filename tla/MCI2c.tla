------------------------------- MODULE MCI2c --------------------------------
EXTENDS I2c

MCLengths == 1 .. 3
\* The program has one role: it talks to devices, or it is one.
MCRoles == {"master", "slave"}
MCSlave == {"slave"}
MCBoth == {"both"}

=============================================================================
