------------------------------- MODULE Timer1 -------------------------------
(***************************************************************************)
(* The AVR's 16-bit timer 1 in normal mode, as servo.c, pulse.c and        *)
(* uartsw.c use it, and the table of interrupt functions of avrlib/timer.c.*)
(* A compare unit raises its flag when the counter reaches its register;   *)
(* the flag of an enabled interrupt makes its handler run, which clears    *)
(* the flag.  A flag that nobody serves stays up.                          *)
(***************************************************************************)
EXTENDS Integers

CONSTANTS
  TimerSize,    \* values of TCNT1: 2^16
  Compare       \* the compare units in use, a subset of {"A", "B"}

ASSUME TimerAssumption == TimerSize \in Nat \ {0} /\ Compare \subseteq {"A", "B"}

VARIABLES
  TCNT1, OCR1,
  TIMSK1, TIFR1,    \* the sources whose interrupt is enabled; whose flag is up
  TimerIntFunc      \* who serves each source

timervars == <<TCNT1, OCR1, TIMSK1, TIFR1, TimerIntFunc>>

Sources == Compare \cup {"CAPT"}
Tics == 0 .. TimerSize - 1

\* The functions the drivers attach; an address is two bytes, and "torn" is one
\* with only one of them stored.
Services == {"none", "torn", "servoService", "pulseService", "uartswTxBitService",
             "uartswRxBitService"}

TimerTypeOK ==
  /\ TCNT1 \in Tics /\ OCR1 \in [Compare -> Tics]
  /\ TIMSK1 \subseteq Sources /\ TIFR1 \subseteq Sources
  /\ TimerIntFunc \in [Sources -> Services]

\* timerInit: no function, the counter at 0 and running.
TimerInit ==
  /\ TCNT1 = 0 /\ OCR1 = [u \in Compare |-> 0]
  /\ TIMSK1 = {} /\ TIFR1 = {}
  /\ TimerIntFunc = [s \in Sources |-> "none"]

\* n tics after x.
After(x, n) == (x + n) % TimerSize

\* The compare units the counter reaches with its next tic.
Reached == {u \in Compare : OCR1[u] = After(TCNT1, 1)}

\* The counter moves on, whatever the CPU does.
Elapse ==
  /\ TCNT1' = After(TCNT1, 1)
  /\ TIFR1' = TIFR1 \cup Reached
  /\ UNCHANGED <<OCR1, TIMSK1, TimerIntFunc>>

Pending(s) == s \in TIFR1 \cap TIMSK1

\* No handler has to run.
AllServed == TIFR1 \cap TIMSK1 = {}

\* The interrupt of source s runs the function f that was attached to it.
Runs(s, f) == Pending(s) /\ TimerIntFunc[s] = f

timerAttach(fs) == TimerIntFunc' = [s \in Sources |-> IF s \in DOMAIN fs THEN fs[s] ELSE TimerIntFunc[s]]
timerDetach(S) == TimerIntFunc' = [s \in Sources |-> IF s \in S THEN "none" ELSE TimerIntFunc[s]]
=============================================================================
