-------------------------------- MODULE Pulse -------------------------------
(***************************************************************************)
(* The pulse generator of avrlib/pulse.c on timer 1: while a channel's pin *)
(* is connected to its compare unit each match toggles it, and the compare *)
(* interrupt sets the next match and counts.  Interrupts come between the  *)
(* byte accesses of the program's calls.  The timer's clock is prescaled:  *)
(* an interrupt is served, and a call is over, within a tic.               *)
(***************************************************************************)
EXTENDS Timer1, Sequences

CONSTANTS
  Base,         \* values of a byte: 256
  Counts,       \* numbers of pulses the program asks for; 0: for ever
  Periods,      \* half periods it sets, in tics
  Calls,        \* the functions the program calls
  MaxCalls      \* bound: calls the program makes

ASSUME PulseAssumption ==
  /\ Base \in Nat \ {0, 1} /\ TimerSize = Base * Base
  /\ Counts \subseteq 0 .. (TimerSize - 1) \div 2
  /\ Periods \subseteq Tics \ {0}
  /\ Calls \subseteq {"Run", "Stop", "SetFreq", "Off", "Init"}
  /\ MaxCalls \in Nat

VARIABLES
  Counted,                \* PulseT1xMode
  PulseCount, PeriodTics, \* 16 bits each
  com,          \* TCCR1A: the channels connected to their pins
  todo,         \* the instructions left of the program's call
  reg, sum,     \* the copies of a register it works on
  late,         \* a tic came while it ran
  calls,        \* the calls made
  edges,        \* ghost: the edges on the pin of each channel in its run
  due,          \* ghost: and the edges asked for, 0: not defined
  stale,        \* ghost: the channels whose run counted a match from before its first edge
  wild          \* an interrupt has called half a function pointer: the program is gone

pulses == <<Counted, PulseCount, PeriodTics>>
program == <<todo, reg, sum, late, calls>>
ghost == <<edges, due, stale>>
vars == <<timervars, pulses, com, program, ghost, wild>>

\* pulseInit, after timerInit.
Init ==
  /\ TCNT1 = 0 /\ OCR1 = [u \in Compare |-> 0] /\ TIMSK1 = {} /\ TIFR1 = {}
  /\ TimerIntFunc = [s \in Sources |-> IF s \in Compare THEN "pulseService" ELSE "none"]
  /\ Counted = [c \in Compare |-> FALSE]
  /\ PulseCount = [c \in Compare |-> 0]
  /\ PeriodTics = [c \in Compare |-> TimerSize \div 2]
  /\ com = {}
  /\ todo = <<>> /\ reg = {} /\ sum = 0 /\ late = FALSE /\ calls = 0
  /\ edges = [c \in Compare |-> 0] /\ due = [c \in Compare |-> 0] /\ stale = {} /\ wild = FALSE

\* A call is shorter than a tic, so at most one comes while it runs.
Tic ==
  /\ Elapse
  /\ AllServed /\ ~late /\ ~wild
  /\ late' = (todo # <<>>)
  /\ edges' = [c \in Compare |->
       IF c \in com \cap Reached /\ due[c] # 0 THEN edges[c] + 1 ELSE edges[c]]
  /\ stale' = stale \ (com \cap Reached \cap TIFR1)
  /\ UNCHANGED <<pulses, com, todo, reg, sum, calls, due, wild>>

-----------------------------------------------------------------------------
\* The compare interrupt.

\* (mutant: one half period less)
Requested_short(c) == PulseCount[c] > 1
\* (mutant: the count is not tested)
Requested_always(c) == TRUE

Requested(c) == PulseCount[c] # 0

Continue(c) ==
  /\ OCR1' = [OCR1 EXCEPT ![c] = After(@, PeriodTics[c])]
  /\ PulseCount' = IF Counted[c] THEN [PulseCount EXCEPT ![c] = @ - 1] ELSE PulseCount
  /\ UNCHANGED <<TIMSK1, com, due>>

\* (mutant: the pin stays connected)
Finish_connected(c) ==
  /\ TIMSK1' = TIMSK1 \ {c}
  /\ UNCHANGED <<OCR1, PulseCount, com, due>>

Finish(c) ==
  /\ com' = com \ {c}
  /\ TIMSK1' = TIMSK1 \ {c}
  /\ due' = [due EXCEPT ![c] = 0]
  /\ UNCHANGED <<OCR1, PulseCount>>

pulseService(c) ==
  /\ ~wild /\ Runs(c, "pulseService")
  /\ TIFR1' = TIFR1 \ {c}
  /\ IF Requested(c) THEN Continue(c) ELSE Finish(c)
  /\ UNCHANGED <<TCNT1, TimerIntFunc, Counted, PeriodTics, program, edges, stale, wild>>

\* After pulseT1Off the interrupt is still enabled, and does nothing.
Unserved(c) ==
  /\ ~wild /\ Runs(c, "none")
  /\ TIFR1' = TIFR1 \ {c}
  /\ UNCHANGED <<TCNT1, OCR1, TIMSK1, TimerIntFunc, pulses, com, program, ghost, wild>>

\* Between the two bytes of the pointer's store it still is, too.
Torn(c) ==
  /\ ~wild /\ Runs(c, "torn")
  /\ wild' = TRUE
  /\ UNCHANGED <<timervars, pulses, com, program, ghost>>

-----------------------------------------------------------------------------
\* The program's calls, as the memory accesses an interrupt can come between.
Instr(op, c, n) == [op |-> op, c |-> c, n |-> n]

Ops == {"mode", "countHigh", "countLow", "periodHigh", "periodLow", "readCom", "connect",
        "disconnect", "readOcr", "setOcr", "readMask", "enable", "tear", "point"}

\* A 16-bit store is two byte stores, in the order the compiler chooses.
Stores(high, low, c, n) ==
  {<<Instr(high, c, n), Instr(low, c, n)>>, <<Instr(low, c, n), Instr(high, c, n)>>}
CountStores(c, n) == Stores("countHigh", "countLow", c, n)

\* A bit of a register is changed by reading and writing all of it.
Connect(c) == <<Instr("readCom", c, 0), Instr("connect", c, 0)>>
Disconnect(c) == <<Instr("readCom", c, 0), Instr("disconnect", c, 0)>>

\* The bits of TCCR1A for a channel count as one.
RunCode(c, n, stores) ==
  <<Instr("mode", c, IF n = 0 THEN 0 ELSE 1)>> \o stores \o Connect(c)
    \o <<Instr("readOcr", c, 0), Instr("setOcr", c, 0),
         Instr("readMask", c, 0), Instr("enable", c, 0)>>

\* The interrupt function is stored by bytes: the first one tears the pointer.
Function(n) == IF n = 1 THEN "pulseService" ELSE "none"
Point(c, n) == <<Instr("tear", c, n), Instr("point", c, n)>>

\* What both channels need, A first.
Both(code(_)) ==
  (IF "A" \in Compare THEN code("A") ELSE <<>>) \o (IF "B" \in Compare THEN code("B") ELSE <<>>)

OffCode(stores) ==
  Both(LAMBDA c : stores[c]) \o Both(Disconnect)
    \o Both(LAMBDA c : Point(c, 0))

InitCode(stores, periods) ==
  Both(Disconnect) \o Both(LAMBDA c : <<Instr("mode", c, 0)>>)
    \o Both(LAMBDA c : stores[c]) \o Both(LAMBDA c : periods[c])
    \o Both(LAMBDA c : Point(c, 1))

Call(name, code) ==
  /\ ~wild /\ name \in Calls
  /\ todo = <<>> /\ todo' = code
  /\ calls < MaxCalls /\ calls' = calls + 1
  /\ UNCHANGED <<timervars, pulses, com, reg, sum, late, wild>>

\* Not between pulseT1Off and pulseT1Init.  The ghosts count the edges of a run
\* that begins on an idle channel.
pulseT1Run(c, n) ==
  /\ TimerIntFunc[c] = "pulseService"
  /\ \E stores \in CountStores(c, IF n = 0 THEN 2 ELSE 2 * n) :
       Call("Run", RunCode(c, n, stores))
  /\ edges' = [edges EXCEPT ![c] = 0]
  /\ due' = [due EXCEPT ![c] = IF c \in com \cup TIMSK1 THEN 0 ELSE 2 * n]
  /\ UNCHANGED stale

pulseT1Stop(c) ==
  /\ \E stores \in CountStores(c, 0) : Call("Stop", <<Instr("mode", c, 1)>> \o stores)
  /\ due' = [due EXCEPT ![c] = 0]
  /\ UNCHANGED <<edges, stale>>

pulseT1SetFreq(c, tics) ==
  /\ \E stores \in Stores("periodHigh", "periodLow", c, tics) : Call("SetFreq", stores)
  /\ UNCHANGED ghost

pulseT1Off ==
  /\ \E stores \in [Compare -> UNION {CountStores(c, 0) : c \in Compare}] :
       /\ \A c \in Compare : stores[c] \in CountStores(c, 0)
       /\ Call("Off", OffCode(stores))
  /\ due' = [c \in Compare |-> 0]
  /\ UNCHANGED <<edges, stale>>

pulseT1Init ==
  /\ Call("Init", InitCode([c \in Compare |-> <<Instr("countHigh", c, 0), Instr("countLow", c, 0)>>],
                          [c \in Compare |-> <<Instr("periodHigh", c, TimerSize \div 2),
                                               Instr("periodLow", c, TimerSize \div 2)>>]))
  /\ due' = [c \in Compare |-> 0]
  /\ UNCHANGED <<edges, stale>>

\* One byte of v takes its new value.
High(v, new) == (new \div Base) * Base + (v % Base)
Low(v, new) == (v \div Base) * Base + (new % Base)

Effect(op, c, n) ==
  /\ Counted' = IF op = "mode" THEN [Counted EXCEPT ![c] = (n = 1)] ELSE Counted
  /\ PulseCount' = [PulseCount EXCEPT ![c] =
       IF op = "countHigh" THEN High(@, n) ELSE IF op = "countLow" THEN Low(@, n) ELSE @]
  /\ PeriodTics' = [PeriodTics EXCEPT ![c] =
       IF op = "periodHigh" THEN High(@, n) ELSE IF op = "periodLow" THEN Low(@, n) ELSE @]
  /\ reg' = CASE op = "readCom" -> com [] op = "readMask" -> TIMSK1
               [] op \in {"connect", "disconnect", "enable"} -> {} [] OTHER -> reg
  /\ com' = CASE op = "connect" -> reg \cup {c} [] op = "disconnect" -> reg \ {c} [] OTHER -> com
  /\ sum' = CASE op = "readOcr" -> After(OCR1[c], PeriodTics[c]) [] op = "setOcr" -> 0 [] OTHER -> sum
  /\ OCR1' = IF op = "setOcr" THEN [OCR1 EXCEPT ![c] = sum] ELSE OCR1
  /\ TIMSK1' = IF op = "enable" THEN reg \cup {c} ELSE TIMSK1
  /\ TimerIntFunc' = [TimerIntFunc EXCEPT ![c] =
       IF op = "tear" /\ @ # Function(n) THEN "torn" ELSE IF op = "point" THEN Function(n) ELSE @]
  /\ stale' = IF op # "connect" THEN stale
              ELSE IF c \in TIFR1 THEN stale \cup {c} ELSE stale \ {c}

Step ==
  /\ ~wild /\ todo # <<>>
  /\ Effect(Head(todo).op, Head(todo).c, Head(todo).n)
  /\ todo' = Tail(todo)
  /\ late' = (late /\ Len(todo) > 1)
  /\ UNCHANGED <<TCNT1, TIFR1, calls, edges, due, wild>>

Next ==
  \/ Tic \/ Step \/ pulseT1Off \/ pulseT1Init
  \/ \E c \in Compare :
       \/ pulseService(c) \/ Unserved(c) \/ Torn(c) \/ pulseT1Stop(c)
       \/ \E n \in Counts : pulseT1Run(c, n)
       \/ \E tics \in Periods : pulseT1SetFreq(c, tics)

\* Time passes, interrupts are served and a call that was made goes on.
Spec ==
  /\ Init /\ [][Next]_vars
  /\ WF_vars(Tic) /\ WF_vars(Step)
  /\ \A c \in Compare : WF_vars(pulseService(c) \/ Unserved(c) \/ Torn(c))

-----------------------------------------------------------------------------
\* Every variable has its type; no count or period leaves its 16 bits.
TypeOK ==
  /\ TimerTypeOK
  /\ Counted \in [Compare -> BOOLEAN]
  /\ PulseCount \in [Compare -> Tics] /\ PeriodTics \in [Compare -> Tics]
  /\ com \subseteq Compare
  /\ \A i \in 1 .. Len(todo) : todo[i] \in [op : Ops, c : Compare, n : Tics]
  /\ reg \subseteq Sources /\ sum \in Tics /\ late \in BOOLEAN /\ calls \in 0 .. MaxCalls
  /\ edges \in [Compare -> Nat] /\ due \in [Compare -> Tics]
  /\ stale \subseteq Compare /\ wild \in BOOLEAN

\* pulse.c: the requested number of pulses are output, then output is turned
\* off.  Once the program calls no more, a channel in counted mode, as a run of
\* n pulses or a stop leaves it, is in the end off for good - unless an interrupt
\* has fallen into the store of its function's pointer.
RunEnds == \A c \in Compare : <>[](wild \/ (Counted[c] => c \notin com))

\* How many edges a run of n pulses that began on an idle channel puts on the
\* pin, whatever the frequency is set to meanwhile.  It ends at the match that
\* finds the count at 0, and that match has toggled the pin: 2n + 1 edges, one
\* more than n pulses have.  They are 2n only when an earlier match had left the
\* flag up and no edge came before its interrupt ran: that one was counted.
Put(c) == due[c] + (IF c \in stale THEN 0 ELSE 1)
PulsesOut ==
  [][\A c \in Compare : c \in com /\ c \notin com' /\ due[c] # 0 => edges[c] = Put(c)]_vars
=============================================================================
