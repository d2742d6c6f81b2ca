------------------------------ MODULE MCServo -------------------------------
\* Two channels; one is moved to another port, the other to the pin of the first.
\* A timer a little longer than the period.
EXTENDS Servo

MCCompare == {"A"}
MCMoved == {<<0, 1, 1>>, <<1, 0, 0>>}
=============================================================================
